SPECIFICATION Spec
CONSTANTS
    w1 = w1  w2 = w2
    Acceptor = Acceptor
    Workers <- OneWorker
    MaxRequests = 1
    MaxRaw = 0
    Kinds = {"body"}
    ReadErrors <- AllErrors
    IdleHandling = TRUE
INVARIANTS DeletedOnlyWhenAnswered
