SPECIFICATION PipelineSpec
CONSTANTS
    e1 = e1  e2 = e2  e3 = e3
    c1 = c1  c2 = c2
    k1 = k1  k2 = k2
    p1 = p1  p2 = p2
    Ungrouped = Ungrouped
    NoKey = NoKey
    Null = Null
    EventId = {e1, e2}
    Call = {c1}
    Key = {k1}
    Time = {0}
    Ttl = 0
    MaxRows = 3
    MaxBytes = 3
    RequestSeq <- AnySeq
    PayloadSize <- UnitPayload
    MaxInt64 = 3
    Partition = {p1}
    PartitionOf <- KeyPartition
    MaxAttempts = 2
    ErrorCode = {"TIMED_OUT", "INVALID_RECORD", "FATAL"}
    FetchLimit = 2
    RequireSource = TRUE
    Idempotence = TRUE
    MaxFaults = 1
    MaxCrashes = 0
    MaxLog = 3
    CallChoice <- AnyCall
    CalmTurn = 3
SYMMETRY Symmetry
INVARIANTS
    ReportsMatchRows
    InFlightIsOwned
    FailsOnlyForCause
PROPERTIES
    StopsAfterFailure
