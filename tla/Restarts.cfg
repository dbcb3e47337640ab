SPECIFICATION Spec
VIEW View
CONSTANTS
    Request = {"a", "t"}
    Class <- NormalAndTest
    Limit = 1
    HealthFailures = 1
    MaxSends = 2
    MaxStops = 1
    Worker = {"w1"}
    Id = {1, 2}
    MaxEvents = 2
    Certified = {"w1"}
    Targets = 2
    OperationId = {"a", "b"}
    MaxMishaps = 3
INVARIANTS
    TypeOK
    ExecutedAtMostOnce
    NoneStranded
    CommandedOnce
    ExecutedAlone
PROPERTIES
    ReleaseFenced
    EndsRespected
CHECK_DEADLOCK FALSE
