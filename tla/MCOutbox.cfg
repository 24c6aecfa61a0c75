SPECIFICATION OutboxSpec
CONSTANTS
    e1 = e1  e2 = e2  e3 = e3
    c1 = c1  c2 = c2
    k1 = k1  k2 = k2
    Ungrouped = Ungrouped
    NoKey = NoKey
    Null = Null
    EventId = {e1, e2, e3}
    Call = {c1, c2}
    Key = {k1, k2}
    Time = {0}
    Ttl = 0
    MaxRows = 3
    MaxBytes = 3
    RequestSeq <- AnySeq
    PayloadSize <- UnitPayload
    MaxInt64 = 3
SYMMETRY Symmetry
INVARIANTS
    OutboxTypeOK
    RowsWithinWindow
    InFlightIsHead
    AdmissionContiguous
    FenceHolds
    TurnsDistinct
    NeverCorrupt
PROPERTIES
    CursorFollowsAck
