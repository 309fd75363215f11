SPECIFICATION FairSpec
CONSTANTS
    w1 = w1  w2 = w2
    Acceptor = Acceptor
    Workers <- TwoWorkers
    MaxRequests = 2
    MaxRaw = 0
    Kinds = {"plain", "close"}
    ReadErrors <- NoErrors
    IdleHandling = TRUE
INVARIANTS DeletedOnlyWhenAnswered
PROPERTIES IdleCloseSparesPending RequestsAnswered ClosedIsDeleted DoneIsDeleted
