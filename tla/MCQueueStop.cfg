SPECIFICATION QueueSpec
CONSTANTS
    c1 = c1
    c2 = c2
    c3 = c3
    e1 = e1
    e2 = e2
    Event <- MCEvent
    Consumer <- MCTwoConsumers
    MaxDepth = 1
    MaxPushes = 1
INVARIANT StopUnblocks
