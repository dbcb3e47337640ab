SPECIFICATION Spec
CONSTANTS
    w1 = w1
    w2 = w2
    k1 = k1
    k2 = k2
    Node = {w1}
    Key = {k1}
    NoKey = NoKey
    NoNode = NoNode
    MaxRequests = 1
    MaxEvents = 2
    Slot = {1}
    Capacity <- OneSlot
    QueueBound = 2
    TurnSettings = {2}
    Priorities = {1}
    Routes <- AnyWorker
    Classes = {{}}
    HealthFailures = 1
    InferenceFailures = 2
INVARIANTS
    RecoveryOwnsWorker
