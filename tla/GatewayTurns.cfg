SPECIFICATION TurnsSpec
CONSTANTS
    w1 = w1
    w2 = w2
    k1 = k1
    k2 = k2
    Node = {w1}
    Key = {k1, k2}
    NoKey = NoKey
    NoNode = NoNode
    MaxRequests = 3
    MaxEvents = 1
    Slot = {1, 2}
    Capacity <- TwoSlots
    QueueBound = 1
    TurnSettings = {1, 2}
    Priorities = {1}
    Routes <- AnyWorker
    Classes = {{}, {"flexible"}, {"noWait"}}
    HealthFailures = 1
    InferenceFailures = 2
SYMMETRY Symmetry
INVARIANTS
    FlexibleNeverQueued
    OneAllocationPerConversation
    NoLostWakeup
