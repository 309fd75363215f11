\* An invalid request behind others in one read: HandleData never returns.
SPECIFICATION FairSpec
CONSTANTS
    Conns = {a1}
    MaxAccepted = 1
    MaxRequests = 1
    Retried = {}
    PipelinedInvalid = TRUE
PROPERTY
    HandleDataReturns
