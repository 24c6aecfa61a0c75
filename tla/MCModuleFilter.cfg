SPECIFICATION ModuleSpec
CONSTANTS
    t1 = t1
    t2 = t2
    Thread <- MCOneThread
    EventType <- MCEventType
    Custom = "CUSTOM"
    AllEvents = "ALL"
    ConfigFile <- MCConfigFile
    NoFile <- MCNoFile
    MaxSlots = 2
    MaxLoads = 1
INVARIANT FilterIsSubscribed
CHECK_DEADLOCK FALSE
