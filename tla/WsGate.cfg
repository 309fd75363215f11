\* The gateway: connections and WebSocket endpoints.
SPECIFICATION FairSpec
CONSTANTS
    Conns = {a1, a2}
    Workers = {w1}
    MaxAccepted = 2
    MaxRequests = 2
    MaxFrames = 2
    Pipelined = FALSE
    EarlyData = {"buffered"}
INVARIANTS
    TypeOK
    EndpointsOwned
PROPERTY
    ClosedSessionsEnd
