------------------------------ MODULE EHSServer ------------------------------
(***************************************************************************)
(* The thread protocol of the server (src/ehs.cpp, class EHSServer): how   *)
(* the threads of a pool, or the accept thread and the threads it spawns   *)
(* for single requests, share one mutex, one condition variable and the    *)
(* flag m_bAccepting; how they are started by the constructor, survive or  *)
(* do not survive an exception, and are stopped by EndServerThread.        *)
(*                                                                         *)
(* A request is a unit in the counter `queued' (the requests in the lists  *)
(* of all connections), which leaves it when a thread takes it or when the *)
(* acceptor deletes its connection under it (see EHSConnection: an error   *)
(* response counts as the response to a queued request); connections,      *)
(* parsing and responses are the subject of other modules.  A section of   *)
(* code that runs with m_oMutex held and touches nothing another thread    *)
(* may touch without it is one step; the mutex is an explicit variable     *)
(* wherever the code does something between locking and unlocking that     *)
(* others can observe or interfere with.                                   *)
(***************************************************************************)
EXTENDS Integers, FiniteSets

CONSTANTS
    Threads,        \* thread identifiers pthread_create may hand out
    NoThread,       \* the value 0 of an ehs_threadid_t; also: mutex not held
    Modes,          \* what params["mode"] may be: the modes with threads
    ThreadCount,    \* params["threadcount"], as the application wrote it
    MaxRequests,    \* bound: requests that ever arrive from the clients
    CreateMayFail,  \* pthread_create may fail
    InitMayFail,    \* an overridden ThreadInitHandler may return false
    Exceptions      \* pairs <<place, answer>>: code running at `place'
                    \* ("handler" or "acceptor") may throw and the application's
                    \* HandleThreadException then returns "response" or "null"

ASSUME ThreadsAssumption ==
    /\ IsFiniteSet(Threads)
    /\ NoThread \notin Threads

ASSUME ParameterAssumption ==
    /\ Modes \subseteq {"threadpool", "onethreadperrequest"}
    /\ ThreadCount \in Int
    /\ MaxRequests \in Nat
    /\ CreateMayFail \in BOOLEAN
    /\ InitMayFail \in BOOLEAN
    /\ Exceptions \subseteq {"handler", "acceptor"} \X {"response", "null"}

VARIABLES
    m_nServerRunningStatus,
    m_nAcceptThreadId,
    m_bAccepting,
    m_nThreads,
    m_oCurrentRequest,  \* the threads whose entry is not NULL
    m_oMutex,           \* the thread that holds the mutex, or NoThread
    queued,             \* requests in the lists of all connections
    arrived,            \* requests received so far (bounded by MaxRequests)
    exposed,            \* those of them whose connection got an error response
    lost,               \* history: requests deleted with their connection
    pc,                 \* where each thread is
    app,                \* where the application's thread is
    thread,             \* the constructor's local `thread'
    toStart             \* threads the constructor has still to create

vars == <<m_nServerRunningStatus, m_nAcceptThreadId, m_bAccepting, m_nThreads,
          m_oCurrentRequest, m_oMutex, queued, arrived, exposed, lost, pc, app,
          thread, toStart>>

\* Groups of variables for UNCHANGED.
control  == <<m_nServerRunningStatus, m_nAcceptThreadId>>
work     == <<queued, arrived, exposed, lost>>
appVars  == <<app, thread, toStart>>
allButPc == <<control, m_bAccepting, m_nThreads, m_oCurrentRequest, m_oMutex,
              work, appVars>>

Status == {"NOTRUNNING", "THREADPOOL", "ONETHREADPERREQUEST", "SHOULDTERMINATE"}

Labels ==
    {"unborn",                       \* not created
     "stub", "init",                 \* PthreadHandleData_ThreadedStub
     "loop", "check", "idle",        \* HandleData
     "wait", "wake",                 \* pthread_cond_wait(&m_oDoneAccepting)
     "select", "accept", "pushing",  \* HandleData as the acceptor
     "clients", "spawn", "clear", "clearing",
     "handle", "finish",             \* HandleData with a request
     "catch", "catchfin",            \* HandleData_Threaded's handlers
     "loopcond", "leave",            \* its loop condition, and after it
     "exiting", "done"}              \* the end of the stub

\* Threads that m_nThreads counts: from its increment to its decrement.
Counted(t) == pc[t] \notin {"unborn", "stub", "exiting", "done"}

\* Threads between m_bAccepting = true and m_bAccepting = false.
Acceptor(t) == pc[t] \in {"select", "accept", "pushing", "clients", "spawn",
                          "clear", "clearing"}

\* The steps that hold m_oMutex across an observable interval.
Holder(t) == pc[t] \in {"check", "idle", "pushing", "clearing", "exiting"}

\* A thread exists and has not returned from the stub.
Live(t) == pc[t] \notin {"unborn", "done"}

ThreadsToStart(mode) ==
    CASE mode = "onethreadperrequest" -> 1
      [] mode = "threadpool" /\ ThreadCount <= 0 -> 1
      [] OTHER -> ThreadCount

TypeOK ==
    /\ m_nServerRunningStatus \in Status
    /\ m_nAcceptThreadId \in Threads \cup {NoThread}
    /\ m_bAccepting \in BOOLEAN
    /\ m_nThreads \in Nat
    /\ m_oCurrentRequest \subseteq Threads
    /\ m_oMutex \in Threads \cup {NoThread}
    /\ queued \in 0..MaxRequests
    /\ arrived \in 0..MaxRequests
    /\ exposed \in 0..queued
    /\ lost \in 0..MaxRequests
    /\ pc \in [Threads -> Labels]
    /\ app \in {"creating", "created", "up", "ending", "deleted", "failed"}
    /\ thread \in Threads \cup {NoThread}
    /\ toStart \in Nat

Init ==
    /\ \E mode \in Modes :
          /\ m_nServerRunningStatus = IF mode = "threadpool" THEN "THREADPOOL"
                                      ELSE "ONETHREADPERREQUEST"
          /\ toStart = ThreadsToStart(mode)
    /\ m_nAcceptThreadId = NoThread
    /\ m_bAccepting = FALSE
    /\ m_nThreads = 0
    /\ m_oCurrentRequest = {}
    /\ m_oMutex = NoThread
    /\ queued = 0
    /\ arrived = 0
    /\ exposed = 0
    /\ lost = 0
    /\ pc = [t \in Threads |-> "unborn"]
    /\ app = "creating"
    /\ thread = NoThread

-----------------------------------------------------------------------------
(* Helpers *)

\* The EHSServer object exists.  Once it is deleted, what its threads do is
\* undefined and not modelled further.
ServerExists == app \notin {"deleted", "failed"}

Go(t, from, to) ==
    /\ ServerExists
    /\ pc[t] = from
    /\ pc' = [pc EXCEPT ![t] = to]

\* A step of thread t that changes nothing but where it is.
Move(t, from, to) == Go(t, from, to) /\ UNCHANGED allButPc

Free == m_oMutex = NoThread

\* Everyone blocked in pthread_cond_wait when m_oDoneAccepting is broadcast.
Awakened == [u \in Threads |-> IF pc[u] = "wait" THEN "wake" ELSE pc[u]]

\* A thread identifier pthread_create may return (identifiers are reused).
Fresh(t) == pc[t] \in {"unborn", "done"}

MayThrow(place) == \E answer \in {"response", "null"} :
                        <<place, answer>> \in Exceptions

-----------------------------------------------------------------------------
(* The application's thread: constructor, StopServer *)

\* pthread_create in the constructor.
CreateThread(t) ==
    /\ app = "creating"
    /\ Fresh(t)
    /\ pc' = [pc EXCEPT ![t] = "stub"]
    /\ thread' = t
    /\ app' = "created"
    /\ UNCHANGED <<control, m_bAccepting, m_nThreads, m_oCurrentRequest,
                   m_oMutex, work, toStart>>

\* m_nAcceptThreadId = THREADID(thread), after the thread was created.
RecordAcceptThread ==
    /\ app = "created"
    /\ m_nAcceptThreadId' = thread
    /\ toStart' = toStart - 1
    /\ app' = IF toStart = 1 THEN "up" ELSE "creating"
    /\ UNCHANGED <<m_nServerRunningStatus, m_bAccepting, m_nThreads,
                   m_oCurrentRequest, m_oMutex, work, pc, thread>>

\* pthread_create fails: the constructor throws and StartServer with it.
CreateFails ==
    /\ CreateMayFail
    /\ app = "creating"
    /\ m_nServerRunningStatus' = "NOTRUNNING"
    /\ app' = "failed"
    /\ UNCHANGED <<m_nAcceptThreadId, m_bAccepting, m_nThreads,
                   m_oCurrentRequest, m_oMutex, work, pc, thread, toStart>>

\* StopServer calls EndServerThread: its locked part.
EndServerThread ==
    /\ app = "up"
    /\ Free
    /\ m_nServerRunningStatus' = "NOTRUNNING"
    /\ m_nAcceptThreadId' = NoThread
    /\ app' = "ending"
    /\ UNCHANGED <<m_bAccepting, m_nThreads, m_oCurrentRequest, m_oMutex, work,
                   pc, thread, toStart>>

\* Mutant: EndServerThread's loop only sleeps.
WaitForThreads_NoBroadcast == app = "ending" /\ m_nThreads > 0 /\ UNCHANGED vars

\* One round of EndServerThread's loop: the broadcast needs no mutex.
WaitForThreads ==
    /\ app = "ending"
    /\ m_nThreads > 0
    /\ pc' = Awakened
    /\ UNCHANGED allButPc

\* The loop ends and StopServer deletes the server.
DeleteServer ==
    /\ app = "ending"
    /\ m_nThreads = 0
    /\ app' = "deleted"
    /\ UNCHANGED <<control, m_bAccepting, m_nThreads, m_oCurrentRequest,
                   m_oMutex, work, pc, thread, toStart>>

-----------------------------------------------------------------------------
(* Thread entry: PthreadHandleData_ThreadedStub, HandleData_Threaded *)

\* Mutant: the stub does not count the thread.
StubEnter_Uncounted(t) == Free /\ Move(t, "stub", "init")

\* MutexHelper mh(&self->m_oMutex); self->m_nThreads++; mh.Unlock().
StubEnter(t) ==
    /\ Go(t, "stub", "init")
    /\ Free
    /\ m_nThreads' = m_nThreads + 1
    /\ UNCHANGED <<control, m_bAccepting, m_oCurrentRequest, m_oMutex, work,
                   appVars>>

\* EHSThreadHandlerHelper: a thread whose ThreadInitHandler fails skips the loop.
ThreadInit(t) ==
    \/ Move(t, "init", "loop")
    \/ InitMayFail /\ Move(t, "init", "leave")

-----------------------------------------------------------------------------
(* HandleData *)

\* Entry: lock the mutex, clear the current request.
LockHandleData(t) ==
    /\ Go(t, "loop", "check")
    /\ Free
    /\ m_oMutex' = t
    /\ m_oCurrentRequest' = m_oCurrentRequest \ {t}
    /\ UNCHANGED <<control, m_bAccepting, m_nThreads, work, appVars>>

\* Mutants: the accept thread takes requests too; the mode is not looked at.
LooksForRequests_Always(t) == TRUE
LooksForRequests_AnyMode(t) == t # m_nAcceptThreadId

\* The accept thread of one-thread-per-request mode does not look for requests.
LooksForRequests(t) ==
    \/ m_nServerRunningStatus # "ONETHREADPERREQUEST"
    \/ t # m_nAcceptThreadId

\* GetNextRequest goes round all connections, from a random one on: it finds a
\* request if there is one anywhere.
SomeRequest == queued > 0

\* GetNextRequest finds a request: it is taken and the mutex is unlocked.
TakeRequest(t) ==
    /\ Go(t, "check", "handle")
    /\ LooksForRequests(t)
    /\ SomeRequest
    /\ queued' = queued - 1
    /\ exposed' \in {exposed, exposed - 1} \cap 0..queued'
    /\ m_oCurrentRequest' = m_oCurrentRequest \cup {t}
    /\ m_oMutex' = NoThread
    /\ UNCHANGED <<control, m_bAccepting, m_nThreads, arrived, lost, appVars>>

\* It finds none, or was not asked.
NoRequest(t) ==
    /\ ~(LooksForRequests(t) /\ SomeRequest)
    /\ Move(t, "check", "idle")

\* Someone else is accepting: pthread_cond_wait releases the mutex.
Wait(t) ==
    /\ m_bAccepting
    /\ Go(t, "idle", "wait")
    /\ m_oMutex' = NoThread
    /\ UNCHANGED <<control, m_bAccepting, m_nThreads, m_oCurrentRequest, work,
                   appVars>>

\* POSIX allows pthread_cond_wait to return without a broadcast.
SpuriousWakeup(t) == Move(t, "wait", "wake")

\* The awakened thread gets the mutex back, and HandleData returns.
Resume(t) ==
    /\ Free
    /\ Move(t, "wake", "loopcond")

\* Mutant: the thread starts accepting without setting m_bAccepting.
BecomeAcceptor_NoFlag(t) ==
    /\ ~m_bAccepting
    /\ Go(t, "idle", "select")
    /\ m_oMutex' = NoThread
    /\ UNCHANGED <<control, m_bAccepting, m_nThreads, m_oCurrentRequest, work,
                   appVars>>

\* No one is accepting: this thread does, without the mutex.
BecomeAcceptor(t) ==
    /\ ~m_bAccepting
    /\ Go(t, "idle", "select")
    /\ m_bAccepting' = TRUE
    /\ m_oMutex' = NoThread
    /\ UNCHANGED <<control, m_nThreads, m_oCurrentRequest, work, appVars>>

\* CreateFdSet and select: a timeout or EINTR, or sockets to look at.
Select(t) ==
    \/ Move(t, "select", "clear")
    \/ Move(t, "select", "accept")

\* CheckAcceptSocket: no new client, or one whose SSL handshake failed ...
NoNewClient(t) == Move(t, "accept", "clients")

\* ... or a new connection, pushed on m_oEHSConnectionList under the mutex.
AcceptClient(t) ==
    /\ Go(t, "accept", "pushing")
    /\ Free
    /\ m_oMutex' = t
    /\ UNCHANGED <<control, m_bAccepting, m_nThreads, m_oCurrentRequest, work,
                   appVars>>

PushedConnection(t) ==
    /\ Go(t, "pushing", "clients")
    /\ m_oMutex' = NoThread
    /\ UNCHANGED <<control, m_bAccepting, m_nThreads, m_oCurrentRequest, work,
                   appVars>>

\* CheckClientSockets reads the rest of a request: AddBuffer queues it and
\* broadcasts m_oDoneAccepting, both without m_oMutex.
QueueRequest(t) ==
    /\ ServerExists
    /\ pc[t] = "clients"
    /\ arrived < MaxRequests
    /\ arrived' = arrived + 1
    /\ queued' = queued + 1
    /\ pc' = [Awakened EXCEPT ![t] =
                IF m_nServerRunningStatus = "ONETHREADPERREQUEST"
                THEN "spawn" ELSE "clients"]
    /\ UNCHANGED <<control, m_bAccepting, m_nThreads, m_oCurrentRequest,
                   m_oMutex, exposed, lost, appVars>>

\* CheckClientSockets sends an error response, which the connection counts as the
\* response to one of its requests, and stops reading from it: the requests in its
\* list, any number of the queued ones, are no longer safe from CheckDone.
SendError == exposed' \in exposed..queued

\* AddBuffer refuses what it is given (INVALIDREQUEST, TOOBIG).
RefuseRequest(t) ==
    /\ ServerExists
    /\ pc[t] = "clients"
    /\ arrived < MaxRequests
    /\ arrived' = arrived + 1
    /\ SendError
    /\ UNCHANGED <<control, m_bAccepting, m_nThreads, m_oCurrentRequest,
                   m_oMutex, queued, lost, pc, appVars>>

\* In one-thread-per-request mode it creates a thread for the request ...
SpawnThread(t, u) ==
    /\ ServerExists
    /\ pc[t] = "spawn"
    /\ Fresh(u)
    /\ pc' = [pc EXCEPT ![t] = "clients", ![u] = "stub"]
    /\ UNCHANGED allButPc

\* ... or fails to (ADDBUFFER_NORESOURCE): the request stays queued, and the
\* connection gets a 503.
SpawnFails(t) ==
    /\ CreateMayFail \/ ~\E u \in Threads : Fresh(u)
    /\ Go(t, "spawn", "clients")
    /\ SendError
    /\ UNCHANGED <<control, m_bAccepting, m_nThreads, m_oCurrentRequest,
                   m_oMutex, queued, arrived, lost, appVars>>

ClientsChecked(t) == Move(t, "clients", "clear")

\* Mutant: ClearIdleConnections runs without the mutex.
ClearIdleConnections_Unlocked(t) == Move(t, "clear", "clearing")

\* RemoveFinishedConnections: CheckDone (m_nRequests - 1 <= m_nResponses) may hold of
\* a connection that got an error response while requests are in its list, which are
\* deleted with it; of another one it holds only if the list is empty.
RemoveFinishedConnections ==
    \E n \in 0..exposed :
        /\ exposed' = exposed - n
        /\ queued' = queued - n
        /\ lost' = lost + n

\* mutex.Lock(); ClearIdleConnections() erases from m_oEHSConnectionList ...
ClearIdleConnections(t) ==
    /\ Go(t, "clear", "clearing")
    /\ Free
    /\ m_oMutex' = t
    /\ RemoveFinishedConnections
    /\ UNCHANGED <<control, m_bAccepting, m_nThreads, m_oCurrentRequest, arrived,
                   appVars>>

\* Mutant: m_bAccepting is never reset.
StopAccepting_KeepsFlag(t) ==
    /\ Go(t, "clearing", "loopcond")
    /\ m_oMutex' = NoThread
    /\ UNCHANGED <<control, m_bAccepting, m_nThreads, m_oCurrentRequest, work,
                   appVars>>

\* ... m_bAccepting = false; and the mutex is unlocked on return.
StopAccepting(t) ==
    /\ Go(t, "clearing", "loopcond")
    /\ m_bAccepting' = FALSE
    /\ m_oMutex' = NoThread
    /\ UNCHANGED <<control, m_nThreads, m_oCurrentRequest, work, appVars>>

\* RouteRequest and AddResponse, without the mutex, return.
HandlerReturns(t) == Move(t, "handle", "finish")

\* mutex.Lock(); m_oCurrentRequest[tid] = NULL; return.
FinishRequest(t) ==
    /\ Go(t, "finish", "loopcond")
    /\ Free
    /\ m_oCurrentRequest' = m_oCurrentRequest \ {t}
    /\ UNCHANGED <<control, m_bAccepting, m_nThreads, m_oMutex, work, appVars>>

-----------------------------------------------------------------------------
(* Exceptions, the loop of HandleData_Threaded, thread exit *)

\* HandleRequest throws; or select(), Accept() or OnData() does, in the thread
\* that accepts (m_bAccepting keeps its value).
Throw(t) ==
    \/ MayThrow("handler") /\ Move(t, "handle", "catch")
    \/ /\ MayThrow("acceptor")
       /\ \E from \in {"select", "accept", "clients"} : Move(t, from, "catch")

ThrownAt(t) == IF t \in m_oCurrentRequest THEN "handler" ELSE "acceptor"

\* HandleThreadException returned a response: it is sent.
CatchWithResponse(t) ==
    /\ <<ThrownAt(t), "response">> \in Exceptions
    /\ Move(t, "catch", "catchfin")

\* It returned NULL: the server should terminate (both writes unlocked).
CatchWithNull(t) ==
    /\ <<ThrownAt(t), "null">> \in Exceptions
    /\ Go(t, "catch", "catchfin")
    /\ m_nServerRunningStatus' = "SHOULDTERMINATE"
    /\ m_nAcceptThreadId' = NoThread
    /\ UNCHANGED <<m_bAccepting, m_nThreads, m_oCurrentRequest, m_oMutex, work,
                   appVars>>

\* Under the mutex, the request is deleted and forgotten.
CatchFinish(t) ==
    /\ Go(t, "catchfin", "loopcond")
    /\ Free
    /\ m_oCurrentRequest' = m_oCurrentRequest \ {t}
    /\ UNCHANGED <<control, m_bAccepting, m_nThreads, m_oMutex, work, appVars>>

\* The do-while condition, read without the mutex.
KeepsRunning(t) ==
    \/ m_nServerRunningStatus = "THREADPOOL"
    \/ t = m_nAcceptThreadId

LoopCondition(t) == Move(t, "loopcond", IF KeepsRunning(t) THEN "loop" ELSE "leave")

\* mh.Lock(); self->m_nThreads--; the mutex is still held ...
StubExit(t) ==
    /\ Go(t, "leave", "exiting")
    /\ Free
    /\ m_oMutex' = t
    /\ m_nThreads' = m_nThreads - 1
    /\ UNCHANGED <<control, m_bAccepting, m_oCurrentRequest, work, appVars>>

\* ... until mh's destructor unlocks it.
StubUnlock(t) ==
    /\ Go(t, "exiting", "done")
    /\ m_oMutex' = NoThread
    /\ UNCHANGED <<control, m_bAccepting, m_nThreads, m_oCurrentRequest, work,
                   appVars>>

-----------------------------------------------------------------------------

\* What thread t does by itself; SpuriousWakeup is the environment's.
ThreadStep(t) ==
    \/ StubEnter(t) \/ ThreadInit(t)
    \/ LockHandleData(t) \/ TakeRequest(t) \/ NoRequest(t)
    \/ Wait(t) \/ Resume(t)
    \/ BecomeAcceptor(t) \/ Select(t)
    \/ NoNewClient(t) \/ AcceptClient(t) \/ PushedConnection(t)
    \/ QueueRequest(t) \/ RefuseRequest(t) \/ (\E u \in Threads : SpawnThread(t, u))
    \/ SpawnFails(t) \/ ClientsChecked(t)
    \/ ClearIdleConnections(t) \/ StopAccepting(t)
    \/ HandlerReturns(t) \/ FinishRequest(t)
    \/ Throw(t) \/ CatchWithResponse(t) \/ CatchWithNull(t) \/ CatchFinish(t)
    \/ LoopCondition(t) \/ StubExit(t) \/ StubUnlock(t)

AppStep ==
    \/ \E t \in Threads : CreateThread(t)
    \/ RecordAcceptThread
    \/ CreateFails
    \/ EndServerThread
    \/ WaitForThreads
    \/ DeleteServer

\* The server is gone; nothing happens any more.
Stopped == ~ServerExists /\ UNCHANGED vars

Next ==
    \/ AppStep
    \/ \E t \in Threads : ThreadStep(t) \/ SpuriousWakeup(t)
    \/ Stopped

Spec == Init /\ [][Next]_vars

(***************************************************************************)
(* Fairness.  A thread that can go on does so, and one that waits for      *)
(* m_oMutex gets it if the mutex is free again and again (strong           *)
(* fairness: pthread mutexes are assumed not to starve a thread for ever). *)
(* This includes that select() returns (it has a timeout of one second)    *)
(* and that the application's request handlers return.  The constructor    *)
(* runs to its end and a StopServer that has begun goes on; nothing makes  *)
(* the application call StopServer.                                        *)
(***************************************************************************)
Fairness ==
    /\ \A t \in Threads : SF_vars(ThreadStep(t))
    /\ WF_vars((\E t \in Threads : CreateThread(t)) \/ RecordAcceptThread)
    /\ WF_vars(WaitForThreads \/ DeleteServer)

FairSpec == Spec /\ Fairness

-----------------------------------------------------------------------------
(* Properties *)

\* At most one thread is between m_bAccepting = true and m_bAccepting = false:
\* m_oReadFds and the unlocked walks over the connection list belong to it alone.
SingleAcceptor ==
    \A t, u \in Threads : Acceptor(t) /\ Acceptor(u) => t = u

\* Where m_oEHSConnectionList is changed (push_back in CheckAcceptSocket, erase
\* in ClearIdleConnections) and where it is walked (GetNextRequest; without the
\* mutex, CreateFdSet and CheckClientSockets).
WritesList(t) == pc[t] \in {"pushing", "clearing"}
ReadsList(t) == pc[t] \in {"check", "select", "accept", "clients", "spawn"}

\* No thread walks m_oEHSConnectionList while another one changes it, although
\* CreateFdSet and CheckClientSockets walk it without m_oMutex.
ConnectionListSafe ==
    \A t, u \in Threads :
        WritesList(t) /\ t # u => ~ReadsList(u) /\ ~WritesList(u)

\* m_nThreads, on which EndServerThread decides whether to go on waiting, is the
\* number of threads between the two locked sections of the stub.
ThreadsCounted ==
    m_nThreads = Cardinality({t \in Threads : Counted(t)})

\* In a running pool a thread sleeps on m_oDoneAccepting only while another one
\* is awake inside the loop of HandleData_Threaded, so the pool as a whole never
\* falls asleep with nobody left to broadcast.
SomeoneAwake ==
    (m_nServerRunningStatus = "THREADPOOL" /\ \E t \in Threads : pc[t] = "wait")
        => \E u \in Threads : Counted(u) /\ pc[u] \notin {"init", "wait", "leave"}

\* In one-thread-per-request mode, a thread that found no request: it sleeps on
\* m_oDoneAccepting or accepts in the accept thread's place.
EmptyHanded == {t \in Threads \ {thread} :
                    Acceptor(t) \/ pc[t] \in {"idle", "wait", "wake"}}

\* In one-thread-per-request mode a thread created for a request finds one, unless
\* a connection was deleted with requests in its list: there are never more threads
\* without a request than requests lost, whoever takes which request, whatever
\* fails or throws and however late the constructor stores the accept thread's id.
OnlyLostRequestsMissed ==
    m_nServerRunningStatus = "ONETHREADPERREQUEST" => Cardinality(EmptyHanded) <= lost

Running == m_nServerRunningStatus \in {"THREADPOOL", "ONETHREADPERREQUEST"}

\* A queued request does not stay in the lists: it is taken by some thread, or its
\* connection is deleted, unless the server is told to stop, even though the
\* broadcast in AddBuffer may reach a thread that has already looked at the queue
\* but does not yet wait.
QueuedRequestsTaken ==
    m_nServerRunningStatus = "THREADPOOL" /\ queued > 0
        ~> (queued = 0 \/ m_nServerRunningStatus # "THREADPOOL")

\* As long as a pool runs and a thread of it has passed ThreadInitHandler, it is
\* accepting again and again.
AcceptsAgain ==
    (/\ m_nServerRunningStatus = "THREADPOOL"
     /\ \E t \in Threads : Counted(t) /\ pc[t] \notin {"init", "leave"})
        ~> (\/ \E t \in Threads : Acceptor(t)
            \/ m_nServerRunningStatus # "THREADPOOL")

\* HandleData: "it's ok to not recheck our condition here, as we'll come back in
\* the same way and recheck then".  While the server runs and the accept thread of
\* one-thread-per-request mode waits for the thread that accepts, it comes back.
AcceptThreadComesBack ==
    \A t \in Threads :
        (Running /\ t = m_nAcceptThreadId /\ pc[t] = "wait") ~> (~Running \/ pc[t] # "wait")

\* EndServerThread, and StopServer with it, returns.
StopReturns == app = "ending" ~> app = "deleted"

\* "This method blocks, until all server threads have terminated"
\* (EndServerThread): no thread exists any more when the server is deleted.
AllThreadsTerminated == app = "deleted" => \A t \in Threads : ~Live(t)

\* HandleData_Threaded "runs in a loop until told to stop by StopServer()": while
\* the server runs, the accept thread has not left the loop.
AcceptThreadLoops ==
    Running /\ app = "up" => pc[m_nAcceptThreadId] \notin {"leave", "exiting", "done"}

\* m_oDoneAccepting is the "Condition for when a thread is done accepting": no
\* thread goes on waiting for it while every other thread is busy in a request
\* handler and nobody accepts.
IdleThreadAccepts ==
    (\E t \in Threads : pc[t] = "wait") =>
        \E u \in Threads : Counted(u) /\ pc[u] \notin {"wait", "handle"}

=============================================================================
