SPECIFICATION FairModuleSpec
CONSTANTS
    t1 = t1
    t2 = t2
    Thread <- MCThread
    EventType <- MCEventType
    Custom = "CUSTOM"
    AllEvents = "ALL"
    ConfigFile <- MCConfigFile
    NoFile <- MCNoFile
    MaxSlots = 2
    MaxLoads = 2
INVARIANTS
    HandlersUseLivePublisher
    NothingLeftBehind
    CommitsIntoOpenOutbox
    ProfileListsBindings
    ConfigurationUsable
PROPERTY LoaderReturns
CHECK_DEADLOCK FALSE
