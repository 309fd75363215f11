\* Data in raw mode that arrives before OnConnect has filled the maps.
SPECIFICATION Spec
CONSTANTS
    Conns = {a1, a2}
    Workers = {w1}
    MaxAccepted = 2
    MaxRequests = 1
    MaxFrames = 2
    Pipelined = FALSE
    EarlyData = {"buffered"}
PROPERTIES
    DataAfterConnect
