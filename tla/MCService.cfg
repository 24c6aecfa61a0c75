SPECIFICATION ServiceSpec
CONSTANTS
    e1 = e1
    e2 = e2
    e3 = e3
    a = a
    b = b
    k = k
    EventId = {e1, e2, e3}
    Call = {a, b}
    Ungrouped = Ungrouped
    Key = {k}
    NoKey = NoKey
    Null = Null
    Time = {0, 2}
    Ttl = 1
    MaxRows = 2
    MaxBytes = 2
    PayloadSize <- MixedPayload
    RequestSeq <- MCRequestSeq
    MaxInt64 = 3
    Limit = 2
SYMMETRY Symmetry
INVARIANTS
    OvertakenOnce
    AgeIffDeliverable
    WithinCapacity
    DeadIsHead
PROPERTIES
    LeavesOnlyWhenSettled
    IdentityStable
CHECK_DEADLOCK FALSE
