\* A frame that arrives early may be refused as a request: its connection goes.
SPECIFICATION Spec
CONSTANTS
    Conns = {a1, a2}
    Workers = {w1}
    MaxAccepted = 2
    MaxRequests = 1
    MaxFrames = 2
    Pipelined = FALSE
    EarlyData = {"buffered", "refused"}
INVARIANTS
    EndpointsOwned
