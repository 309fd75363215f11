SPECIFICATION FairSpec
CONSTANTS
    w1 = w1  w2 = w2
    Acceptor = Acceptor
    Workers <- OneWorker
    MaxRequests = 1
    MaxRaw = 0
    Kinds = {"switch"}
    ReadErrors <- NoErrors
    IdleHandling = TRUE
PROPERTIES ClosedIsDeleted
