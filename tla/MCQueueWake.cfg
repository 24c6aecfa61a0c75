SPECIFICATION FairQueueSpec
CONSTANTS
    c1 = c1
    c2 = c2
    c3 = c3
    e1 = e1
    e2 = e2
    Event <- MCEvent
    Consumer <- MCConsumer
    MaxDepth = 2
    MaxPushes = 4
INVARIANTS
    ConservesEvents
    NoLostWakeup
PROPERTY PopReturns
