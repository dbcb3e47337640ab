SPECIFICATION Exchange
CONSTANTS
    MaxTries = 2
    Request = {"r"}
    Class <- Ordinary
    Limit = 1
    HealthFailures = 2
    MaxSends = 1
    MaxStops = 2
INVARIANTS
    TypeOK
    CertifiedNeverReached
    ExecutedAtMostOnce
    SettledAnswered
PROPERTIES
    EndedIsWhole
    CancelledSettles
    HeldMovesOn
CHECK_DEADLOCK FALSE
