SPECIFICATION FairOpsSpec
CONSTANTS
    e1 = e1
    e2 = e2
    e3 = e3
    a = a
    b = b
    k1 = k1
    k2 = k2
    r1 = r1
    r2 = r2
    EventId <- MCEventId
    Call = {a, b}
    Ungrouped = Ungrouped
    Key = {k1, k2}
    NoKey = NoKey
    Null = Null
    Time = {0, 2}
    Ttl = 1
    MaxRows = 3
    MaxBytes = 3
    PayloadSize <- MCPayloadSize
    RequestSeq <- MCRequestSeq
    MaxInt64 = 3
    IdRank <- MCIdRank
    None = None
    Stored <- MCStored
    Run <- MCRun
    MaxLosses = 1
    MaxWork = 1
INVARIANTS
    OpsTypeOK
    OutputIsWhole
    SnapshotIsCurrent
    ReportedIsKept
    SoundOnceUpgraded
PROPERTIES
    AdoptionIsRetirement
    LockIsReleased
CHECK_DEADLOCK FALSE
