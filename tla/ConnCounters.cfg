SPECIFICATION Spec
CONSTANTS
    w1 = w1  w2 = w2
    Acceptor = Acceptor
    Workers <- TwoWorkers
    MaxRequests = 2
    MaxRaw = 1
    Kinds = {"plain", "body", "close", "switch"}
    ReadErrors <- AllErrors
    IdleHandling = TRUE
SYMMETRY Interchangeable
INVARIANTS TypeOK CountersAgree
