INIT AdmissionInit
NEXT AdmissionNext
CONSTANTS
    Endpoint = {"a", "b"}
    MaxProposals = 2
    MaxFailures = 1
INVARIANTS
    ApprovedOnly
CHECK_DEADLOCK FALSE
