INIT SupervisorInit
NEXT SupervisorNext
CONSTANTS
    MaxCommands = 1
    MaxHolds = 1
INVARIANTS
    RefusedStopRestores
CHECK_DEADLOCK FALSE
