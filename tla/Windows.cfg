CONSTANTS
  Worker = {"w1", "w2"}
  Job = {"s", "t", "h", "m"}
  Busy = {"w1"}
  MaxEvents = 2
  Kind <- MCKind
  Target <- MCTarget
  Scenarios <- MCScenarios
SPECIFICATION BoundedSpec
CHECK_DEADLOCK FALSE
INVARIANTS
  LocksSound
  WorksAlone
  RoutedApproved
PROPERTIES
  DrainKept
