SPECIFICATION Spec
CONSTANTS
    Worker = {w1}
    Id = {1, 2}
    MaxEvents = 2
    Certified = {w1}
    Targets = 2
INVARIANTS
    OneRecoveryAtATime
CHECK_DEADLOCK FALSE
