\* Single-threaded mode.
SPECIFICATION FairSpec
CONSTANTS
    Conns = {a1, a2}
    MaxAccepted = 3
    MaxRequests = 3
    Retried = {"handler"}
    PipelinedInvalid = FALSE
INVARIANTS
    RequestsServed
PROPERTY
    HandleDataReturns
