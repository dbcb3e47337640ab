CONSTANTS
  Worker = {"w1", "w2"}
  Job = {"h"}
  Busy = {"w1"}
  MaxEvents = 2
  Kind <- MCKind
  Target <- MCTarget
  Scenarios <- MCScenarios
SPECIFICATION Spec
CHECK_DEADLOCK FALSE
PROPERTIES
  OperatorPauseKept
