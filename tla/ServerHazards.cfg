\* What the comments say of idle threads and of StopServer; run with -continue.
SPECIFICATION Spec
CONSTANTS
    t1 = t1  t2 = t2  t3 = t3  t4 = t4
    NoThread = NoThread
    Threads <- TwoThreads
    Modes <- Pool
    ThreadCount = 2
    MaxRequests = 1
    CreateMayFail = FALSE
    InitMayFail = FALSE
    Exceptions <- NoExceptions
INVARIANTS
    AllThreadsTerminated
    IdleThreadAccepts
