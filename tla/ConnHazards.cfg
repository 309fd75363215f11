\* A worker's last steps with a connection; run with -continue.
SPECIFICATION Spec
CONSTANTS
    w1 = w1  w2 = w2
    Acceptor = Acceptor
    Workers <- OneWorker
    MaxRequests = 1
    MaxRaw = 0
    Kinds = {"plain", "close"}
    ReadErrors <- NoErrors
    IdleHandling = TRUE
INVARIANTS
    SendersFindConnection
PROPERTIES
    DisconnectIsFinal
    IdleMeansQuiet
