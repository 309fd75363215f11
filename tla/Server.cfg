SPECIFICATION FairSpec
CONSTANTS
    t1 = t1  t2 = t2  t3 = t3  t4 = t4
    NoThread = NoThread
    Threads <- ThreeThreads
    Modes <- BothModes
    ThreadCount = 2
    MaxRequests = 2
    CreateMayFail = TRUE
    InitMayFail = TRUE
    Exceptions <- AllButAcceptorResponse
INVARIANTS TypeOK SingleAcceptor ConnectionListSafe ThreadsCounted SomeoneAwake OnlyLostRequestsMissed
PROPERTIES QueuedRequestsTaken AcceptsAgain StopReturns
