-------------------------- MODULE EHSServerProofs --------------------------
(***************************************************************************)
(* Safety of the thread protocol for every number of threads, in both      *)
(* threaded modes.  The invariants are not inductive as they stand; the    *)
(* inductive one adds who holds m_oMutex, that an acceptor implies         *)
(* m_bAccepting, and which threads have no current request.                *)
(***************************************************************************)
EXTENDS EHSServer, FiniteSetTheorems, TLAPS

\* TypeOK without m_nThreads, whose type follows from ThreadsCounted.
TypeButCount ==
    /\ m_nServerRunningStatus \in Status
    /\ m_nAcceptThreadId \in Threads \cup {NoThread}
    /\ m_bAccepting \in BOOLEAN
    /\ m_oCurrentRequest \subseteq Threads
    /\ m_oMutex \in Threads \cup {NoThread}
    /\ queued \in 0..MaxRequests
    /\ arrived \in 0..MaxRequests
    /\ exposed \in 0..queued
    /\ lost \in Nat
    /\ queued + lost <= arrived
    /\ pc \in [Threads -> Labels]
    /\ app \in {"creating", "created", "up", "ending", "deleted", "failed"}
    /\ thread \in Threads \cup {NoThread}
    /\ toStart \in Nat
    /\ app \in {"creating", "created"} => toStart > 0

\* The mutex is held exactly by the thread that is inside a locked section.
MutexHeld == \A t \in Threads : Holder(t) <=> m_oMutex = t

\* A thread that accepts has set m_bAccepting and has no current request, nor
\* has one that is about to decide whether it accepts.
AcceptorFlag ==
    \A t \in Threads :
        /\ Acceptor(t) => m_bAccepting
        /\ Acceptor(t) \/ pc[t] \in {"check", "idle"} => t \notin m_oCurrentRequest

SafeInv == TypeButCount /\ MutexHeld /\ AcceptorFlag /\ SingleAcceptor

USE DEF Labels, Status

\* Before StartServer there is nothing to be unsafe.
LEMMA InitSafe == Init => SafeInv
  <1> SUFFICES ASSUME Init PROVE SafeInv
    OBVIOUS
  <1>1. PICK mode \in Modes :
            /\ m_nServerRunningStatus = IF mode = "threadpool" THEN "THREADPOOL"
                                        ELSE "ONETHREADPERREQUEST"
            /\ toStart = ThreadsToStart(mode)
    BY DEF Init
  <1>2. TypeButCount
    <2>1. m_nServerRunningStatus \in Status
      BY <1>1
    <2>2. /\ queued \in 0..MaxRequests /\ arrived \in 0..MaxRequests
          /\ exposed \in 0..queued /\ lost \in Nat /\ queued + lost <= arrived
      BY ParameterAssumption DEF Init
    <2>3. pc \in [Threads -> Labels]
      BY DEF Init
    <2>4. toStart \in Nat /\ toStart > 0
      BY <1>1, ParameterAssumption DEF ThreadsToStart
    <2>5. m_bAccepting \in BOOLEAN
      BY DEF Init
    <2> QED BY <2>1, <2>2, <2>3, <2>4, <2>5 DEF Init, TypeButCount
  <1>3. MutexHeld /\ AcceptorFlag /\ SingleAcceptor
    BY ThreadsAssumption DEF Init, MutexHeld, AcceptorFlag, SingleAcceptor,
       Holder, Acceptor
  <1> QED BY <1>2, <1>3 DEF SafeInv

\* Every step of the application's thread preserves the invariant.
LEMMA AppSafe == SafeInv /\ AppStep => SafeInv'
  <1> SUFFICES ASSUME SafeInv, AppStep PROVE SafeInv'
    OBVIOUS
  <1> USE ThreadsAssumption, ParameterAssumption
      DEF SafeInv, TypeButCount, MutexHeld, AcceptorFlag, SingleAcceptor,
          Holder, Acceptor, work, control, appVars, allButPc
  <1>1. ASSUME NEW t \in Threads, CreateThread(t) PROVE SafeInv'
    BY <1>1 DEF CreateThread, Fresh
  <1>2. CASE RecordAcceptThread
    BY <1>2 DEF RecordAcceptThread
  <1>3. CASE CreateFails
    BY <1>3 DEF CreateFails
  <1>4. CASE EndServerThread
    BY <1>4 DEF EndServerThread
  <1>5. CASE WaitForThreads
    <2>1. pc' \in [Threads -> Labels]
      BY <1>5 DEF WaitForThreads, Awakened
    <2>2. \A t \in Threads : pc'[t] = IF pc[t] = "wait" THEN "wake" ELSE pc[t]
      BY <1>5 DEF WaitForThreads, Awakened
    <2>3. \A t \in Threads :
            /\ Holder(t)' <=> Holder(t)
            /\ Acceptor(t)' <=> Acceptor(t)
            /\ pc'[t] \in {"check", "idle"} <=> pc[t] \in {"check", "idle"}
      BY <2>2
    <2>4. TypeButCount'
      BY <1>5, <2>1 DEF WaitForThreads
    <2>5. MutexHeld'
      BY <1>5, <2>3 DEF WaitForThreads
    <2>6. AcceptorFlag'
      BY <1>5, <2>3 DEF WaitForThreads
    <2>7. SingleAcceptor'
      BY <2>3
    <2> QED BY <2>4, <2>5, <2>6, <2>7
  <1>6. CASE DeleteServer
    BY <1>6 DEF DeleteServer
  <1> QED BY <1>1, <1>2, <1>3, <1>4, <1>5, <1>6 DEF AppStep

\* Every step of a server thread preserves it.
LEMMA ThreadSafe ==
    ASSUME SafeInv, NEW t \in Threads, ThreadStep(t) \/ SpuriousWakeup(t)
    PROVE  SafeInv'
  <1> USE ThreadsAssumption, ParameterAssumption
      DEF SafeInv, TypeButCount, MutexHeld, AcceptorFlag, SingleAcceptor,
          Holder, Acceptor, work, control, appVars, allButPc, Go, Move, Free
  <1>1. CASE StubEnter(t)
    BY <1>1 DEF StubEnter
  <1>2. CASE ThreadInit(t)
    BY <1>2 DEF ThreadInit
  <1>3. CASE LockHandleData(t)
    BY <1>3 DEF LockHandleData
  <1>4. CASE TakeRequest(t)
    BY <1>4 DEF TakeRequest, SomeRequest
  <1>5. CASE NoRequest(t)
    BY <1>5 DEF NoRequest
  <1>6. CASE Wait(t)
    BY <1>6 DEF Wait
  <1>7. CASE Resume(t)
    BY <1>7 DEF Resume
  <1>8. CASE BecomeAcceptor(t)
    BY <1>8 DEF BecomeAcceptor
  <1>9. CASE Select(t)
    BY <1>9 DEF Select
  <1>10. CASE NoNewClient(t)
    BY <1>10 DEF NoNewClient
  <1>11. CASE AcceptClient(t)
    BY <1>11 DEF AcceptClient
  <1>12. CASE PushedConnection(t)
    BY <1>12 DEF PushedConnection
  <1>13. CASE QueueRequest(t)
    <2>1. \A u \in Threads : pc'[u] =
            IF u = t THEN (IF m_nServerRunningStatus = "ONETHREADPERREQUEST"
                           THEN "spawn" ELSE "clients")
            ELSE IF pc[u] = "wait" THEN "wake" ELSE pc[u]
      BY <1>13 DEF QueueRequest, Awakened
    <2>2. pc' \in [Threads -> Labels]
      BY <1>13 DEF QueueRequest, Awakened
    <2>3. \A u \in Threads :
            /\ Holder(u)' <=> Holder(u)
            /\ Acceptor(u)' <=> Acceptor(u)
            /\ pc'[u] \in {"check", "idle"} <=> pc[u] \in {"check", "idle"}
      BY <1>13, <2>1 DEF QueueRequest
    <2>4. TypeButCount'
      BY <1>13, <2>2 DEF QueueRequest
    <2>5. MutexHeld'
      BY <1>13, <2>3 DEF QueueRequest
    <2>6. AcceptorFlag'
      BY <1>13, <2>3 DEF QueueRequest
    <2>7. SingleAcceptor'
      BY <2>3
    <2> QED BY <2>4, <2>5, <2>6, <2>7
  <1>14. ASSUME NEW u \in Threads, SpawnThread(t, u) PROVE SafeInv'
    BY <1>14 DEF SpawnThread, Fresh
  <1>15. CASE SpawnFails(t)
    BY <1>15 DEF SpawnFails, SendError
  <1>16. CASE ClientsChecked(t)
    BY <1>16 DEF ClientsChecked
  <1>17. CASE ClearIdleConnections(t)
    <2>1. /\ queued' \in 0..MaxRequests /\ arrived' \in 0..MaxRequests
          /\ exposed' \in 0..queued' /\ lost' \in Nat /\ queued' + lost' <= arrived'
      BY <1>17 DEF ClearIdleConnections, RemoveFinishedConnections
    <2> QED BY <1>17, <2>1 DEF ClearIdleConnections
  <1>18. CASE StopAccepting(t)
    BY <1>18 DEF StopAccepting
  <1>19. CASE HandlerReturns(t)
    BY <1>19 DEF HandlerReturns
  <1>20. CASE FinishRequest(t)
    BY <1>20 DEF FinishRequest
  <1>21. CASE Throw(t)
    BY <1>21 DEF Throw
  <1>22. CASE CatchWithResponse(t)
    BY <1>22 DEF CatchWithResponse
  <1>23. CASE CatchWithNull(t)
    BY <1>23 DEF CatchWithNull
  <1>24. CASE CatchFinish(t)
    BY <1>24 DEF CatchFinish
  <1>25. CASE LoopCondition(t)
    BY <1>25 DEF LoopCondition
  <1>26. CASE StubExit(t)
    BY <1>26 DEF StubExit
  <1>27. CASE StubUnlock(t)
    BY <1>27 DEF StubUnlock
  <1>28. CASE SpuriousWakeup(t)
    BY <1>28 DEF SpuriousWakeup
  <1>29. CASE RefuseRequest(t)
    BY <1>29 DEF RefuseRequest, SendError
  <1> QED
    BY <1>1, <1>2, <1>3, <1>4, <1>5, <1>6, <1>7, <1>8, <1>9, <1>10, <1>11,
       <1>12, <1>13, <1>14, <1>15, <1>16, <1>17, <1>18, <1>19, <1>20,
       <1>21, <1>22, <1>23, <1>24, <1>25, <1>26, <1>27, <1>28, <1>29
    DEF ThreadStep

\* Every step preserves SafeInv.
LEMMA NextSafe == SafeInv /\ [Next]_vars => SafeInv'
  <1> SUFFICES ASSUME SafeInv, [Next]_vars PROVE SafeInv'
    OBVIOUS
  <1>1. CASE UNCHANGED vars
    BY <1>1 DEF vars, SafeInv, TypeButCount, MutexHeld, AcceptorFlag,
                SingleAcceptor, Holder, Acceptor
  <1>2. CASE AppStep
    BY <1>2, AppSafe
  <1>3. ASSUME NEW t \in Threads, ThreadStep(t) \/ SpuriousWakeup(t) PROVE SafeInv'
    BY <1>3, ThreadSafe
  <1> QED BY <1>1, <1>2, <1>3 DEF Next, Stopped

-----------------------------------------------------------------------------
(* The thread count *)

CountedThreads == {t \in Threads : Counted(t)}

\* The threads that m_nThreads counts are finitely many.
LEMMA CountedFinite ==
    IsFiniteSet(CountedThreads) /\ Cardinality(CountedThreads) \in Nat
  <1>1. CountedThreads \subseteq Threads
    BY DEF CountedThreads
  <1> QED BY <1>1, ThreadsAssumption, FS_Subset, FS_CardinalityType

\* Only the two locked sections of the stub change the set of counted threads.
LEMMA CountedStep ==
    ASSUME SafeInv, [Next]_vars
    PROVE  \/ \E t \in Threads : StubEnter(t)
           \/ \E t \in Threads : StubExit(t)
           \/ CountedThreads' = CountedThreads /\ m_nThreads' = m_nThreads
  <1> USE DEF SafeInv, TypeButCount, Counted, CountedThreads, work, control,
              appVars, allButPc, Go, Move
  <1>1. CASE UNCHANGED vars
    BY <1>1 DEF vars
  <1>2. CASE AppStep
    <2>1. ASSUME NEW t \in Threads, CreateThread(t)
          PROVE  CountedThreads' = CountedThreads /\ m_nThreads' = m_nThreads
      BY <2>1 DEF CreateThread, Fresh
    <2>2. CASE WaitForThreads
      BY <2>2 DEF WaitForThreads, Awakened
    <2>3. CASE RecordAcceptThread \/ CreateFails \/ EndServerThread \/ DeleteServer
      BY <2>3 DEF RecordAcceptThread, CreateFails, EndServerThread, DeleteServer
    <2> QED BY <1>2, <2>1, <2>2, <2>3 DEF AppStep
  <1>3. ASSUME NEW t \in Threads, ThreadStep(t) \/ SpuriousWakeup(t),
               ~StubEnter(t), ~StubExit(t)
        PROVE  CountedThreads' = CountedThreads /\ m_nThreads' = m_nThreads
    <2>1. CASE ThreadInit(t) \/ NoRequest(t) \/ Resume(t) \/ Select(t)
               \/ NoNewClient(t) \/ SpawnFails(t) \/ ClientsChecked(t)
               \/ HandlerReturns(t) \/ Throw(t) \/ CatchWithResponse(t)
               \/ LoopCondition(t) \/ SpuriousWakeup(t)
      BY <2>1 DEF ThreadInit, NoRequest, Resume, Select, NoNewClient,
                  SpawnFails, ClientsChecked, HandlerReturns, Throw,
                  CatchWithResponse, LoopCondition, SpuriousWakeup
    <2>2. CASE LockHandleData(t) \/ TakeRequest(t) \/ Wait(t)
               \/ BecomeAcceptor(t) \/ AcceptClient(t) \/ PushedConnection(t)
      BY <2>2 DEF LockHandleData, TakeRequest, SomeRequest, Wait, BecomeAcceptor,
                  AcceptClient, PushedConnection
    <2>3. CASE ClearIdleConnections(t) \/ StopAccepting(t) \/ FinishRequest(t)
               \/ CatchWithNull(t) \/ CatchFinish(t) \/ StubUnlock(t)
      BY <2>3 DEF ClearIdleConnections, StopAccepting, FinishRequest,
                  CatchWithNull, CatchFinish, StubUnlock
    <2>4. CASE QueueRequest(t) \/ RefuseRequest(t)
      BY <2>4 DEF QueueRequest, Awakened, RefuseRequest
    <2>5. ASSUME NEW u \in Threads, SpawnThread(t, u)
          PROVE  CountedThreads' = CountedThreads /\ m_nThreads' = m_nThreads
      BY <2>5 DEF SpawnThread, Fresh
    <2> QED BY <1>3, <2>1, <2>2, <2>3, <2>4, <2>5 DEF ThreadStep
  <1> QED BY <1>1, <1>2, <1>3 DEF Next, Stopped

\* Every step changes m_nThreads and the set of counted threads alike.
LEMMA CountStep == SafeInv /\ ThreadsCounted /\ [Next]_vars => ThreadsCounted'
  <1> SUFFICES ASSUME SafeInv, ThreadsCounted, [Next]_vars PROVE ThreadsCounted'
    OBVIOUS
  <1>0. m_nThreads = Cardinality(CountedThreads)
    BY DEF ThreadsCounted, CountedThreads
  <1>1. ASSUME NEW t \in Threads, StubEnter(t) PROVE ThreadsCounted'
    <2>1. t \notin CountedThreads /\ CountedThreads' = CountedThreads \cup {t}
      BY <1>1 DEF StubEnter, Go, CountedThreads, Counted, SafeInv, TypeButCount
    <2>2. Cardinality(CountedThreads') = Cardinality(CountedThreads) + 1
      BY <2>1, CountedFinite, FS_AddElement
    <2> QED BY <1>0, <1>1, <2>2 DEF StubEnter, ThreadsCounted, CountedThreads
  <1>2. ASSUME NEW t \in Threads, StubExit(t) PROVE ThreadsCounted'
    <2>1. t \in CountedThreads /\ CountedThreads' = CountedThreads \ {t}
      BY <1>2 DEF StubExit, Go, CountedThreads, Counted, SafeInv, TypeButCount
    <2>2. Cardinality(CountedThreads') = Cardinality(CountedThreads) - 1
      BY <2>1, CountedFinite, FS_RemoveElement
    <2> QED BY <1>0, <1>2, <2>2 DEF StubExit, ThreadsCounted, CountedThreads
  <1>3. CASE CountedThreads' = CountedThreads /\ m_nThreads' = m_nThreads
    BY <1>0, <1>3 DEF ThreadsCounted, CountedThreads
  <1> QED BY <1>1, <1>2, <1>3, CountedStep

\* There are no threads yet.
LEMMA InitCount == Init => ThreadsCounted
  <1> SUFFICES ASSUME Init PROVE ThreadsCounted
    OBVIOUS
  <1>1. CountedThreads = {}
    BY DEF Init, CountedThreads, Counted
  <1> QED BY <1>1, FS_EmptySet DEF Init, ThreadsCounted, CountedThreads

-----------------------------------------------------------------------------

\* The inductive invariant holds in every reachable state.
THEOREM SafeAlways == Spec => [](SafeInv /\ ThreadsCounted)
  <1>1. Init => SafeInv /\ ThreadsCounted
    BY InitSafe, InitCount
  <1>2. SafeInv /\ ThreadsCounted /\ [Next]_vars => (SafeInv /\ ThreadsCounted)'
    BY NextSafe, CountStep
  <1> QED BY <1>1, <1>2, PTL DEF Spec

\* Every variable of the server keeps its type; in particular m_nThreads never
\* becomes negative.
THEOREM TypeCorrect == Spec => []TypeOK
  <1>1. SafeInv /\ ThreadsCounted => TypeOK
    <2> SUFFICES ASSUME SafeInv, ThreadsCounted PROVE TypeOK
      OBVIOUS
    <2>1. m_nThreads \in Nat
      BY CountedFinite DEF ThreadsCounted, CountedThreads
    <2>2. lost \in 0..MaxRequests
      BY ParameterAssumption DEF SafeInv, TypeButCount
    <2> QED BY <2>1, <2>2 DEF SafeInv, TypeButCount, TypeOK
  <1> QED BY <1>1, SafeAlways, PTL

\* EndServerThread decides on a count that is exact: m_nThreads is the number
\* of threads between the two locked sections of the stub.
THEOREM CountCorrect == Spec => []ThreadsCounted
  BY SafeAlways, PTL

\* At most one thread accepts at any time.
THEOREM AcceptorUnique == Spec => []SingleAcceptor
  <1>1. SafeInv => SingleAcceptor
    BY DEF SafeInv
  <1> QED BY <1>1, SafeAlways, PTL

\* The connection list is never walked by one thread while another changes it,
\* although the acceptor walks it without the mutex.
THEOREM ListSafe == Spec => []ConnectionListSafe
  <1>1. SafeInv => ConnectionListSafe
    BY DEF SafeInv, TypeButCount, MutexHeld, SingleAcceptor,
           ConnectionListSafe, WritesList, ReadsList, Holder, Acceptor
  <1> QED BY <1>1, SafeAlways, PTL

-----------------------------------------------------------------------------
(* The pool never falls asleep as a whole *)

InLoop(t) == Counted(t) /\ pc[t] \notin {"init", "wait", "leave"}

\* While m_bAccepting is set, the thread that set it still accepts or has just
\* thrown out of it.
FlagHasOwner ==
    m_bAccepting => \E t \in Threads :
        Acceptor(t) \/ (pc[t] = "catch" /\ t \notin m_oCurrentRequest)

WaiterHasWaker ==
    (\E t \in Threads : pc[t] = "wait") => \E u \in Threads : InLoop(u)

PoolInv ==
    m_nServerRunningStatus = "THREADPOOL" => FlagHasOwner /\ WaiterHasWaker

\* HandleThreadException never answers an exception thrown while accepting with
\* a response (the default implementation always returns NULL).
AcceptorExceptionsEndServer == <<"acceptor", "response">> \notin Exceptions

\* The steps of the pool's threads: whoever leaves m_bAccepting set stays to
\* reset it, and whoever waits can be woken.
LEMMA PoolThreadStep ==
    ASSUME AcceptorExceptionsEndServer, SafeInv, PoolInv,
           m_nServerRunningStatus' = "THREADPOOL",
           NEW t \in Threads, ThreadStep(t) \/ SpuriousWakeup(t)
    PROVE  FlagHasOwner' /\ WaiterHasWaker'
  <1> USE DEF SafeInv, TypeButCount, AcceptorFlag, SingleAcceptor, FlagHasOwner,
              WaiterHasWaker, InLoop, Counted, Acceptor, work, control, appVars,
              allButPc, Go, Move
  <1>0. m_nServerRunningStatus = "THREADPOOL"
    BY DEF ThreadStep, StubEnter, ThreadInit, LockHandleData, TakeRequest,
       NoRequest, Wait, Resume, BecomeAcceptor, Select, NoNewClient,
       AcceptClient, PushedConnection, QueueRequest, SpawnThread, SpawnFails,
       ClientsChecked, ClearIdleConnections, StopAccepting, HandlerReturns,
       FinishRequest, Throw, CatchWithResponse, CatchWithNull, CatchFinish,
       LoopCondition, StubExit, StubUnlock, SpuriousWakeup, RefuseRequest
  <1> USE <1>0 DEF PoolInv
  <1>1. CASE StubEnter(t)
    BY <1>1 DEF StubEnter
  <1>2. CASE ThreadInit(t)
    BY <1>2 DEF ThreadInit
  <1>3. CASE LockHandleData(t)
    BY <1>3 DEF LockHandleData
  <1>4. CASE TakeRequest(t)
    BY <1>4 DEF TakeRequest, SomeRequest
  <1>5. CASE NoRequest(t)
    BY <1>5 DEF NoRequest
  <1>6. CASE Wait(t)
    BY <1>6 DEF Wait
  <1>7. CASE Resume(t)
    BY <1>7 DEF Resume
  <1>8. CASE BecomeAcceptor(t)
    BY <1>8 DEF BecomeAcceptor
  <1>9. CASE Select(t)
    BY <1>9 DEF Select
  <1>10. CASE NoNewClient(t)
    BY <1>10 DEF NoNewClient
  <1>11. CASE AcceptClient(t)
    BY <1>11 DEF AcceptClient
  <1>12. CASE PushedConnection(t)
    BY <1>12 DEF PushedConnection
  <1>13. CASE QueueRequest(t)
    BY <1>13 DEF QueueRequest, Awakened
  <1>14. ASSUME NEW u \in Threads, SpawnThread(t, u)
        PROVE  FlagHasOwner' /\ WaiterHasWaker'
    BY <1>14 DEF SpawnThread, Fresh
  <1>15. CASE SpawnFails(t)
    BY <1>15 DEF SpawnFails
  <1>16. CASE ClientsChecked(t)
    BY <1>16 DEF ClientsChecked
  <1>17. CASE ClearIdleConnections(t)
    BY <1>17 DEF ClearIdleConnections
  <1>18. CASE StopAccepting(t)
    BY <1>18 DEF StopAccepting
  <1>19. CASE HandlerReturns(t)
    BY <1>19 DEF HandlerReturns
  <1>20. CASE FinishRequest(t)
    BY <1>20 DEF FinishRequest
  <1>21. CASE Throw(t)
    BY <1>21 DEF Throw
  <1>22. CASE CatchWithResponse(t)
    BY <1>22 DEF CatchWithResponse, ThrownAt, AcceptorExceptionsEndServer
  <1>23. CASE CatchWithNull(t)
    BY <1>23 DEF CatchWithNull
  <1>24. CASE CatchFinish(t)
    BY <1>24 DEF CatchFinish
  <1>25. CASE LoopCondition(t)
    BY <1>25 DEF LoopCondition, KeepsRunning
  <1>26. CASE StubExit(t)
    BY <1>26 DEF StubExit
  <1>27. CASE StubUnlock(t)
    BY <1>27 DEF StubUnlock
  <1>28. CASE SpuriousWakeup(t)
    BY <1>28 DEF SpuriousWakeup
  <1>29. CASE RefuseRequest(t)
    BY <1>29 DEF RefuseRequest
  <1> QED
    BY <1>1, <1>2, <1>3, <1>4, <1>5, <1>6, <1>7, <1>8, <1>9, <1>10, <1>11,
       <1>12, <1>13, <1>14, <1>15, <1>16, <1>17, <1>18, <1>19, <1>20,
       <1>21, <1>22, <1>23, <1>24, <1>25, <1>26, <1>27, <1>28, <1>29
    DEF ThreadStep

\* Every step preserves PoolInv.
LEMMA PoolStep ==
    ASSUME AcceptorExceptionsEndServer
    PROVE  SafeInv /\ PoolInv /\ [Next]_vars => PoolInv'
  <1> SUFFICES ASSUME SafeInv, PoolInv, [Next]_vars,
                      m_nServerRunningStatus' = "THREADPOOL"
               PROVE  FlagHasOwner' /\ WaiterHasWaker'
    BY DEF PoolInv
  <1>1. CASE UNCHANGED vars
    BY <1>1 DEF vars, PoolInv, FlagHasOwner, WaiterHasWaker, InLoop, Counted,
                Acceptor
  <1>2. CASE AppStep
    <2> USE DEF SafeInv, TypeButCount, PoolInv, FlagHasOwner, WaiterHasWaker,
                InLoop, Counted, Acceptor, work, control, appVars, allButPc
    <2>1. ASSUME NEW t \in Threads, CreateThread(t)
          PROVE  FlagHasOwner' /\ WaiterHasWaker'
      BY <2>1 DEF CreateThread, Fresh
    <2>2. CASE WaitForThreads
      BY <2>2 DEF WaitForThreads, Awakened
    <2>3. CASE RecordAcceptThread \/ DeleteServer
      BY <2>3 DEF RecordAcceptThread, DeleteServer
    <2>4. CASE CreateFails \/ EndServerThread
      BY <2>4 DEF CreateFails, EndServerThread
    <2> QED BY <1>2, <2>1, <2>2, <2>3, <2>4 DEF AppStep
  <1>3. ASSUME NEW t \in Threads, ThreadStep(t) \/ SpuriousWakeup(t)
        PROVE  FlagHasOwner' /\ WaiterHasWaker'
    BY <1>3, PoolThreadStep
  <1> QED BY <1>1, <1>2, <1>3 DEF Next, Stopped

\* Unless HandleThreadException answers an exception of the accepting thread
\* with a response, a running pool always has a thread awake while any thread
\* sleeps on m_oDoneAccepting.
THEOREM PoolAwake ==
    ASSUME AcceptorExceptionsEndServer
    PROVE  Spec => []SomeoneAwake
  <1>1. Init => PoolInv
    BY DEF Init, PoolInv, FlagHasOwner, WaiterHasWaker
  <1>2. SafeInv /\ PoolInv /\ [Next]_vars => PoolInv'
    BY PoolStep
  <1>3. PoolInv => SomeoneAwake
    BY DEF PoolInv, WaiterHasWaker, SomeoneAwake, InLoop
  <1>4. Spec => []PoolInv
    BY <1>1, <1>2, SafeAlways, PTL DEF Spec
  <1> QED BY <1>3, <1>4, PTL

-----------------------------------------------------------------------------
(* One thread per request *)

\* Threads for which a request is in the lists: those created for one that have not
\* looked for it yet, and a thread that accepts where it is about to create one.
Owed == {t \in Threads :
            \/ pc[t] = "spawn"
            \/ t # thread /\ pc[t] \in {"stub", "init", "loop", "check"}}

\* The requests in the lists and the lost ones make up for the threads that are owed
\* one and those that found none; with one to spare.
Balance == Cardinality(Owed) + Cardinality(EmptyHanded) <= queued + lost
ToSpare == Cardinality(Owed) + Cardinality(EmptyHanded) < queued + lost

\* Nothing has happened but the creation of the accept thread.
Untouched == queued = 0 /\ \A u \in Threads \ {thread} : pc[u] = "unborn"

BeforeLooking == {"stub", "init", "loop", "check"}

\* Before the constructor has stored the identifier of the accept thread, either
\* nothing is queued for it to take by mistake, or the accept thread is gone (its loop
\* condition did not know it) and the identifier was given to a thread created for a
\* request, which is not among the owed ones and has one to spare.
AcceptThreadInv ==
    /\ app \in {"creating", "created", "up"}
    /\ app # "up" => toStart = 1 /\ m_nAcceptThreadId = NoThread
    /\ app = "up" => m_nAcceptThreadId = thread
    /\ app = "creating" => queued = 0 /\ \A t \in Threads : pc[t] = "unborn"
    /\ app # "creating" => thread \in Threads

StoredLate ==
    app = "created" /\ pc[thread] \in BeforeLooking => Untouched \/ ToSpare

Missed == Cardinality(EmptyHanded) <= lost

PerRequestInv ==
    m_nServerRunningStatus = "ONETHREADPERREQUEST" =>
        AcceptThreadInv /\ StoredLate /\ Balance /\ Missed

\* The two sets can be counted, before and after a step.
LEMMA ClaimsFinite ==
    /\ IsFiniteSet(Owed) /\ Cardinality(Owed) \in Nat
    /\ IsFiniteSet(Owed') /\ Cardinality(Owed') \in Nat
    /\ IsFiniteSet(EmptyHanded) /\ Cardinality(EmptyHanded) \in Nat
    /\ IsFiniteSet(EmptyHanded') /\ Cardinality(EmptyHanded') \in Nat
  <1>1. /\ Owed \subseteq Threads /\ Owed' \subseteq Threads
        /\ EmptyHanded \subseteq Threads /\ EmptyHanded' \subseteq Threads
    BY DEF Owed, EmptyHanded
  <1>2. /\ IsFiniteSet(Owed) /\ IsFiniteSet(Owed')
        /\ IsFiniteSet(EmptyHanded) /\ IsFiniteSet(EmptyHanded')
    BY <1>1, ThreadsAssumption, FS_Subset
  <1> QED BY <1>2, FS_CardinalityType

\* What a step leaves of the balance: nothing is lost of it.
Balanced == (Balance => Balance') /\ (ToSpare => ToSpare')

Counters == queued + lost \in Nat /\ queued' + lost' \in Nat

\* The arithmetic of a step: the claims grow by no more than the requests.
LEMMA SumStep ==
    ASSUME NEW a \in Nat, NEW b \in Nat, NEW q \in Nat,
           NEW a2 \in Nat, NEW b2 \in Nat, NEW q2 \in Nat,
           NEW da \in Int, NEW db \in Int, NEW dq \in Int,
           a2 <= a + da, b2 <= b + db, q2 = q + dq
    PROVE  /\ da + db <= dq => /\ a + b <= q => a2 + b2 <= q2
                               /\ a + b < q => a2 + b2 < q2
           /\ da + db < dq => (a + b <= q => a2 + b2 < q2)
  OBVIOUS

\* A step adds at most da and db threads to the two sets, and dq requests.
Adds(da, db, dq) ==
    /\ Cardinality(Owed') <= Cardinality(Owed) + da
    /\ Cardinality(EmptyHanded') <= Cardinality(EmptyHanded) + db
    /\ queued' + lost' = queued + lost + dq

\* How a step changes the balance, from how it changes the sets and the counters.
LEMMA BalanceStep ==
    ASSUME Counters, NEW da \in Int, NEW db \in Int, NEW dq \in Int, Adds(da, db, dq)
    PROVE  /\ da + db <= dq => Balanced
           /\ da + db < dq => (Balance => ToSpare')
  <1>1. /\ Balance <=> Cardinality(Owed) + Cardinality(EmptyHanded) <= queued + lost
        /\ Balance' <=> Cardinality(Owed') + Cardinality(EmptyHanded') <= queued' + lost'
        /\ ToSpare <=> Cardinality(Owed) + Cardinality(EmptyHanded) < queued + lost
        /\ ToSpare' <=> Cardinality(Owed') + Cardinality(EmptyHanded') < queued' + lost'
    BY DEF Balance, ToSpare
  <1> DEFINE a == Cardinality(Owed)     b == Cardinality(EmptyHanded)
             a2 == Cardinality(Owed')   b2 == Cardinality(EmptyHanded')
             q == queued + lost         q2 == queued' + lost'
  <1>2. /\ a \in Nat /\ b \in Nat /\ a2 \in Nat /\ b2 \in Nat
        /\ q \in Nat /\ q2 \in Nat
    BY ClaimsFinite DEF Counters
  <1>3. a2 <= a + da /\ b2 <= b + db /\ q2 = q + dq
    BY DEF Adds
  <1>4. /\ Balance <=> a + b <= q
        /\ Balance' <=> a2 + b2 <= q2
        /\ ToSpare <=> a + b < q
        /\ ToSpare' <=> a2 + b2 < q2
    BY <1>1
  <1> HIDE DEF a, b, a2, b2, q, q2
  <1>5. /\ da + db <= dq => /\ a + b <= q => a2 + b2 <= q2
                            /\ a + b < q => a2 + b2 < q2
        /\ da + db < dq => (a + b <= q => a2 + b2 < q2)
    BY <1>2, <1>3, SumStep
  <1>6. ASSUME da + db <= dq PROVE Balanced
    <2>1. Balance => Balance'
      BY <1>4, <1>5, <1>6
    <2>2. ToSpare => ToSpare'
      BY <1>4, <1>5, <1>6
    <2> QED BY <2>1, <2>2 DEF Balanced
  <1>7. ASSUME da + db < dq, Balance PROVE ToSpare'
    BY <1>4, <1>5, <1>7
  <1> QED BY <1>6, <1>7

\* A step that takes no request and makes no claim to one.
LEMMA ClaimsShrink ==
    ASSUME Counters, Owed' \subseteq Owed, EmptyHanded' \subseteq EmptyHanded,
           queued' + lost' = queued + lost
    PROVE  Balanced
  <1>1. Cardinality(Owed') <= Cardinality(Owed)
    BY ClaimsFinite, FS_Subset
  <1>2. Cardinality(EmptyHanded') <= Cardinality(EmptyHanded)
    BY ClaimsFinite, FS_Subset
  <1>3. /\ Cardinality(Owed') <= Cardinality(Owed) + 0
        /\ Cardinality(EmptyHanded') <= Cardinality(EmptyHanded) + 0
    BY <1>1, <1>2, ClaimsFinite
  <1>4. queued' + lost' = queued + lost + 0
    BY DEF Counters
  <1>9. Adds(0, 0, 0)
    BY <1>3, <1>4 DEF Adds
  <1> QED BY <1>9, BalanceStep

\* A thread that is owed a request takes one.
LEMMA ClaimSettled ==
    ASSUME Counters, NEW t \in Owed, Owed' = Owed \ {t},
           EmptyHanded' \subseteq EmptyHanded, queued' + lost' = queued + lost + (-1)
    PROVE  Balanced
  <1>1. Cardinality(Owed') = Cardinality(Owed) - 1
    BY ClaimsFinite, FS_RemoveElement
  <1>2. Cardinality(EmptyHanded') <= Cardinality(EmptyHanded)
    BY ClaimsFinite, FS_Subset
  <1>3. /\ Cardinality(Owed') <= Cardinality(Owed) + (-1)
        /\ Cardinality(EmptyHanded') <= Cardinality(EmptyHanded) + 0
    BY <1>1, <1>2, ClaimsFinite
  <1>9. Adds(-1, 0, -1)
    BY <1>3 DEF Adds
  <1> QED BY <1>9, BalanceStep

\* It finds none.
LEMMA ClaimLost ==
    ASSUME Counters, NEW t \in Owed, Owed' = Owed \ {t}, t \notin EmptyHanded,
           EmptyHanded' = EmptyHanded \cup {t}, queued' + lost' = queued + lost
    PROVE  Balanced
  <1>1. Cardinality(Owed') = Cardinality(Owed) - 1
    BY ClaimsFinite, FS_RemoveElement
  <1>2. Cardinality(EmptyHanded') = Cardinality(EmptyHanded) + 1
    BY ClaimsFinite, FS_AddElement
  <1>3. /\ Cardinality(Owed') <= Cardinality(Owed) + (-1)
        /\ Cardinality(EmptyHanded') <= Cardinality(EmptyHanded) + 1
    BY <1>1, <1>2, ClaimsFinite
  <1>4. queued' + lost' = queued + lost + 0
    BY DEF Counters
  <1>9. Adds(-1, 1, 0)
    BY <1>3, <1>4 DEF Adds
  <1> QED BY <1>9, BalanceStep

\* A request is queued by a thread that is about to create one for it.
LEMMA ClaimMade ==
    ASSUME Counters, NEW t, t \notin Owed, Owed' = Owed \cup {t},
           EmptyHanded' \subseteq EmptyHanded, queued' + lost' = queued + lost + 1
    PROVE  Balanced
  <1>1. Cardinality(Owed') = Cardinality(Owed) + 1
    BY ClaimsFinite, FS_AddElement
  <1>2. Cardinality(EmptyHanded') <= Cardinality(EmptyHanded)
    BY ClaimsFinite, FS_Subset
  <1>3. /\ Cardinality(Owed') <= Cardinality(Owed) + 1
        /\ Cardinality(EmptyHanded') <= Cardinality(EmptyHanded) + 0
    BY <1>1, <1>2, ClaimsFinite
  <1>9. Adds(1, 0, 1)
    BY <1>3 DEF Adds
  <1> QED BY <1>9, BalanceStep

\* The claim passes from the thread that accepts to the one it creates ...
LEMMA ClaimPassed ==
    ASSUME Counters, NEW t \in Owed, NEW u, u \notin Owed,
           Owed' = (Owed \ {t}) \cup {u},
           EmptyHanded' \subseteq EmptyHanded, queued' + lost' = queued + lost
    PROVE  Balanced
  <1> DEFINE others == Owed \ {t}
  <1>1. IsFiniteSet(others) /\ Cardinality(others) = Cardinality(Owed) - 1
    BY ClaimsFinite, FS_RemoveElement
  <1>2. Cardinality(Owed') = Cardinality(others) + 1
    <2>1. u \notin others /\ Owed' = others \cup {u}
      OBVIOUS
    <2> HIDE DEF others
    <2> QED BY <1>1, <2>1, FS_AddElement
  <1>3. Cardinality(EmptyHanded') <= Cardinality(EmptyHanded)
    BY ClaimsFinite, FS_Subset
  <1>4. /\ Cardinality(Owed') <= Cardinality(Owed) + 0
        /\ Cardinality(EmptyHanded') <= Cardinality(EmptyHanded) + 0
    BY <1>1, <1>2, <1>3, ClaimsFinite
  <1>5. queued' + lost' = queued + lost + 0
    BY DEF Counters
  <1>9. Adds(0, 0, 0)
    BY <1>4, <1>5 DEF Adds
  <1> QED BY <1>9, BalanceStep

\* ... and if that is given the accept thread's identifier, or the creation fails,
\* there is one request to spare.
LEMMA ClaimDropped ==
    ASSUME Counters, NEW t \in Owed, Owed' = Owed \ {t},
           EmptyHanded' \subseteq EmptyHanded, queued' + lost' = queued + lost
    PROVE  Balanced /\ (Balance => ToSpare')
  <1>1. Cardinality(Owed') = Cardinality(Owed) - 1
    BY ClaimsFinite, FS_RemoveElement
  <1>2. Cardinality(EmptyHanded') <= Cardinality(EmptyHanded)
    BY ClaimsFinite, FS_Subset
  <1>3. /\ Cardinality(Owed') <= Cardinality(Owed) + (-1)
        /\ Cardinality(EmptyHanded') <= Cardinality(EmptyHanded) + 0
    BY <1>1, <1>2, ClaimsFinite
  <1>4. queued' + lost' = queued + lost + 0
    BY DEF Counters
  <1>9. Adds(-1, 0, 0)
    BY <1>3, <1>4 DEF Adds
  <1> QED BY <1>9, BalanceStep


PerRequest == m_nServerRunningStatus = "ONETHREADPERREQUEST"

\* The sums of the counters are numbers.
LEMMA CountersTyped == ASSUME SafeInv, SafeInv' PROVE Counters
  <1>1. /\ queued \in 0..MaxRequests /\ lost \in Nat
        /\ queued' \in 0..MaxRequests /\ lost' \in Nat
    BY DEF SafeInv, TypeButCount
  <1>2. \A q \in 0..MaxRequests, l \in Nat : q + l \in Nat
    BY ParameterAssumption
  <1> QED BY <1>1, <1>2 DEF Counters

\* A step of a thread leaves the balance; but for the accept thread itself taking a
\* request.
LEMMA ClaimsStep ==
    ASSUME SafeInv, SafeInv', PerRequest, PerRequest', AcceptThreadInv,
           NEW t \in Threads, ThreadStep(t) \/ SpuriousWakeup(t), ~(t = thread /\ TakeRequest(t))
    PROVE  Balanced
  <1> DEFINE Shrinks == /\ Owed' \subseteq Owed /\ EmptyHanded' \subseteq EmptyHanded
                        /\ queued' + lost' = queued + lost
  <1>a. Counters
    BY CountersTyped
  <1>b. ASSUME Shrinks PROVE Balanced
    BY <1>a, <1>b, ClaimsShrink
  <1>c. pc \in [Threads -> Labels] /\ queued \in 0..MaxRequests /\ lost \in Nat
    BY DEF SafeInv, TypeButCount
  <1>d. t = m_nAcceptThreadId => t = thread
    BY ThreadsAssumption DEF AcceptThreadInv
  <1> USE <1>c DEF Owed, EmptyHanded, Acceptor, work, control, appVars, allButPc, Go, Move
  <1>1. CASE StubEnter(t)
    <2>1. Shrinks BY <1>1 DEF StubEnter
    <2> QED BY <1>b, <2>1
  <1>2. CASE ThreadInit(t)
    <2>1. Shrinks BY <1>2 DEF ThreadInit
    <2> QED BY <1>b, <2>1
  <1>3. CASE LockHandleData(t)
    <2>1. Shrinks BY <1>3 DEF LockHandleData
    <2> QED BY <1>b, <2>1
  <1>4. CASE TakeRequest(t)
    <2>1. t # thread /\ UNCHANGED <<thread, lost>> /\ queued' = queued - 1
      BY <1>4 DEF TakeRequest
    <2>2. t \in Owed /\ Owed' = Owed \ {t} /\ EmptyHanded' \subseteq EmptyHanded
      BY <1>4, <2>1 DEF TakeRequest
    <2>3. queued' + lost' = queued + lost + (-1)
      BY <2>1
    <2> QED BY <1>a, <2>2, <2>3, ClaimSettled
  <1>5. CASE NoRequest(t)
    <2>1. UNCHANGED <<thread, queued, lost>> /\ pc[t] = "check" /\ pc' = [pc EXCEPT ![t] = "idle"]
      BY <1>5 DEF NoRequest
    <2>2. CASE t = thread
      <3>1. Shrinks BY <2>1, <2>2
      <3> QED BY <1>b, <3>1
    <2>3. CASE t # thread
      <3>1. /\ t \in Owed /\ Owed' = Owed \ {t}
            /\ t \notin EmptyHanded /\ EmptyHanded' = EmptyHanded \cup {t}
        BY <2>1, <2>3
      <3>2. queued' + lost' = queued + lost
        BY <2>1
      <3> QED BY <1>a, <3>1, <3>2, ClaimLost
    <2> QED BY <2>2, <2>3
  <1>6. CASE Wait(t) \/ Resume(t) \/ BecomeAcceptor(t)
    <2>1. Shrinks BY <1>6 DEF Wait, Resume, BecomeAcceptor
    <2> QED BY <1>b, <2>1
  <1>7. CASE Select(t) \/ NoNewClient(t) \/ AcceptClient(t) \/ PushedConnection(t)
    <2>1. Shrinks BY <1>7 DEF Select, NoNewClient, AcceptClient, PushedConnection
    <2> QED BY <1>b, <2>1
  <1>8. CASE ClientsChecked(t) \/ SpawnFails(t) \/ StopAccepting(t) \/ RefuseRequest(t)
    <2>1. Shrinks
      BY <1>8 DEF ClientsChecked, SpawnFails, StopAccepting, RefuseRequest
    <2> QED BY <1>b, <2>1
  <1>9. CASE QueueRequest(t)
    <2>1. pc[t] = "clients" /\ queued' = queued + 1 /\ UNCHANGED <<thread, lost>>
      BY <1>9 DEF QueueRequest
    <2>2. \A u \in Threads : pc'[u] = IF u = t THEN "spawn"
                                      ELSE IF pc[u] = "wait" THEN "wake" ELSE pc[u]
      BY <1>9 DEF QueueRequest, Awakened, PerRequest
    <2>3. t \notin Owed /\ Owed' = Owed \cup {t} /\ EmptyHanded' \subseteq EmptyHanded
      BY <2>1, <2>2
    <2>4. queued' + lost' = queued + lost + 1
      BY <2>1
    <2> QED BY <1>a, <2>3, <2>4, ClaimMade
  <1>10. ASSUME NEW u \in Threads, SpawnThread(t, u) PROVE Balanced
    <2>1. /\ t # u /\ pc[t] = "spawn" /\ pc[u] \in {"unborn", "done"}
          /\ UNCHANGED <<queued, lost, thread>>
      BY <1>10 DEF SpawnThread, Fresh
    <2>2. /\ pc'[t] = "clients" /\ pc'[u] = "stub"
          /\ \A w \in Threads \ {t, u} : pc'[w] = pc[w]
      BY <1>10, <2>1 DEF SpawnThread
    <2>3. t \in Owed /\ u \notin Owed /\ EmptyHanded' \subseteq EmptyHanded
      BY <2>1, <2>2
    <2>4. u # thread => Owed' = (Owed \ {t}) \cup {u}
      BY <2>1, <2>2
    <2>5. u = thread => Owed' = Owed \ {t}
      BY <2>1, <2>2
    <2>6. queued' + lost' = queued + lost
      BY <2>1
    <2> QED BY <1>a, <2>3, <2>4, <2>5, <2>6, ClaimPassed, ClaimDropped
  <1>11. CASE HandlerReturns(t) \/ FinishRequest(t)
    <2>1. Shrinks BY <1>11 DEF HandlerReturns, FinishRequest
    <2> QED BY <1>b, <2>1
  <1>12. CASE Throw(t) \/ CatchWithResponse(t) \/ CatchFinish(t)
    <2>1. Shrinks BY <1>12 DEF Throw, CatchWithResponse, CatchFinish
    <2> QED BY <1>b, <2>1
  <1>13. CASE CatchWithNull(t)
    BY <1>13 DEF CatchWithNull, PerRequest
  <1>14. CASE LoopCondition(t)
    <2>1. Shrinks BY <1>14, <1>d DEF LoopCondition, KeepsRunning, PerRequest
    <2> QED BY <1>b, <2>1
  <1>15. CASE StubExit(t) \/ StubUnlock(t)
    <2>1. Shrinks BY <1>15 DEF StubExit, StubUnlock
    <2> QED BY <1>b, <2>1
  <1>16. CASE SpuriousWakeup(t)
    <2>1. Shrinks BY <1>16 DEF SpuriousWakeup
    <2> QED BY <1>b, <2>1
  <1>17. CASE ClearIdleConnections(t)
    <2>1. queued' + lost' = queued + lost
      <3>1. PICK n \in 0..exposed : queued' = queued - n /\ lost' = lost + n
        BY <1>17 DEF ClearIdleConnections, RemoveFinishedConnections
      <3>2. exposed \in Nat
        BY DEF SafeInv, TypeButCount
      <3> QED BY <3>1, <3>2
    <2>2. Owed' \subseteq Owed /\ EmptyHanded' \subseteq EmptyHanded
      BY <1>17 DEF ClearIdleConnections
    <2> QED BY <1>b, <2>1, <2>2
  <1> QED
    BY <1>1, <1>2, <1>3, <1>4, <1>5, <1>6, <1>7, <1>8, <1>9, <1>10, <1>11,
       <1>12, <1>13, <1>14, <1>15, <1>16, <1>17
    DEF ThreadStep


\* A step of a thread leaves what is known of the accept thread and of the
\* constructor.
LEMMA AcceptThreadStep ==
    ASSUME SafeInv, SafeInv', PerRequest, PerRequest', AcceptThreadInv,
           NEW t \in Threads, ThreadStep(t) \/ SpuriousWakeup(t)
    PROVE  AcceptThreadInv'
  <1>1. pc \in [Threads -> Labels] /\ pc[t] # "unborn"
    BY DEF SafeInv, TypeButCount, ThreadStep, Go, Move, StubEnter, ThreadInit,
       LockHandleData, TakeRequest, NoRequest, Wait, Resume, BecomeAcceptor, Select,
       NoNewClient, AcceptClient, PushedConnection, QueueRequest, RefuseRequest,
       SpawnThread, SpawnFails, ClientsChecked, ClearIdleConnections, StopAccepting,
       HandlerReturns, FinishRequest, Throw, CatchWithResponse, CatchWithNull,
       CatchFinish, LoopCondition, StubExit, StubUnlock, SpuriousWakeup
  <1>2. app # "creating"
    BY <1>1 DEF AcceptThreadInv
  <1>3. UNCHANGED <<app, thread, toStart, m_nAcceptThreadId>>
    BY DEF PerRequest, ThreadStep, control, appVars, allButPc, Go, Move, StubEnter,
       ThreadInit, LockHandleData, TakeRequest, NoRequest, Wait, Resume, BecomeAcceptor,
       Select, NoNewClient, AcceptClient, PushedConnection, QueueRequest, RefuseRequest,
       SpawnThread, SpawnFails, ClientsChecked, ClearIdleConnections, StopAccepting,
       HandlerReturns, FinishRequest, Throw, CatchWithResponse, CatchWithNull,
       CatchFinish, LoopCondition, StubExit, StubUnlock, SpuriousWakeup
  <1> QED BY <1>2, <1>3 DEF AcceptThreadInv

\* Until its identifier is stored, the accept thread only walks up to HandleData's
\* first look at the lists, and nothing else happens.
LEMMA UntouchedStep ==
    ASSUME SafeInv, PerRequest, AcceptThreadInv, app = "created", Untouched,
           NEW t \in Threads, ThreadStep(t) \/ SpuriousWakeup(t),
           pc[thread] \in BeforeLooking, pc'[thread] \in BeforeLooking
    PROVE  Untouched'
  <1>1. pc \in [Threads -> Labels] /\ thread \in Threads
    BY DEF SafeInv, TypeButCount, AcceptThreadInv
  <1> USE <1>1 DEF Untouched, BeforeLooking, work, control, appVars, allButPc, Go, Move
  <1>2. t = thread
    BY DEF ThreadStep, StubEnter, ThreadInit,
       LockHandleData, TakeRequest, NoRequest, Wait, Resume, BecomeAcceptor, Select,
       NoNewClient, AcceptClient, PushedConnection, QueueRequest, RefuseRequest,
       SpawnThread, SpawnFails, ClientsChecked, ClearIdleConnections, StopAccepting,
       HandlerReturns, FinishRequest, Throw, CatchWithResponse, CatchWithNull,
       CatchFinish, LoopCondition, StubExit, StubUnlock, SpuriousWakeup
  <1>3. CASE StubEnter(t) \/ ThreadInit(t) \/ LockHandleData(t)
    BY <1>2, <1>3 DEF StubEnter, ThreadInit, LockHandleData
  <1>4. CASE ~(StubEnter(t) \/ ThreadInit(t) \/ LockHandleData(t))
    BY <1>2, <1>4 DEF ThreadStep,
       TakeRequest, NoRequest, Wait, Resume, BecomeAcceptor, Select,
       NoNewClient, AcceptClient, PushedConnection, QueueRequest, RefuseRequest,
       SpawnThread, SpawnFails, ClientsChecked, ClearIdleConnections, StopAccepting,
       HandlerReturns, FinishRequest, Throw, CatchWithResponse, CatchWithNull,
       CatchFinish, LoopCondition, StubExit, StubUnlock, SpuriousWakeup
  <1> QED BY <1>3, <1>4

\* Before its identifier is stored, a thread gets to where it has not yet looked at
\* the lists only from there, or by being created.
LEMMA NotLooked ==
    ASSUME SafeInv, PerRequest, AcceptThreadInv, app = "created",
           NEW t \in Threads, ThreadStep(t) \/ SpuriousWakeup(t),
           ~SpawnThread(t, thread), pc'[thread] \in BeforeLooking
    PROVE  pc[thread] \in BeforeLooking
  <1>1. /\ pc \in [Threads -> Labels] /\ thread \in Threads
        /\ t # m_nAcceptThreadId
    BY ThreadsAssumption DEF SafeInv, TypeButCount, AcceptThreadInv
  <1> USE <1>1 DEF BeforeLooking, Go, Move
  <1>2. CASE QueueRequest(t)
    BY <1>2 DEF QueueRequest, Awakened, PerRequest
  <1>3. ASSUME NEW u \in Threads, SpawnThread(t, u) PROVE pc[thread] \in BeforeLooking
    BY <1>3 DEF SpawnThread
  <1>4. CASE ~(QueueRequest(t) \/ \E u \in Threads : SpawnThread(t, u))
    BY <1>4 DEF ThreadStep, StubEnter, ThreadInit, LockHandleData, PerRequest,
       TakeRequest, NoRequest, Wait, Resume, BecomeAcceptor, Select,
       NoNewClient, AcceptClient, PushedConnection, RefuseRequest,
       SpawnFails, ClientsChecked, ClearIdleConnections, StopAccepting,
       HandlerReturns, FinishRequest, Throw, CatchWithResponse, CatchWithNull,
       CatchFinish, LoopCondition, KeepsRunning, StubExit, StubUnlock, SpuriousWakeup
  <1> QED BY <1>2, <1>3, <1>4


\* A thread with the accept thread's identifier takes a request only if there is one
\* to spare.
LEMMA TakenToSpare ==
    ASSUME SafeInv, SafeInv', PerRequest, AcceptThreadInv, StoredLate, TakeRequest(thread)
    PROVE  Balance' /\ pc'[thread] \notin BeforeLooking
  <1>1. /\ pc \in [Threads -> Labels] /\ queued \in 0..MaxRequests /\ lost \in Nat
        /\ pc[thread] = "check" /\ pc' = [pc EXCEPT ![thread] = "handle"]
        /\ queued > 0 /\ queued' = queued - 1 /\ UNCHANGED <<thread, lost>>
        /\ thread # m_nAcceptThreadId
    BY DEF SafeInv, TypeButCount, PerRequest, TakeRequest, SomeRequest, Go, LooksForRequests,
           appVars
  <1>2. app = "created"
    BY <1>1 DEF AcceptThreadInv
  <1>3. ToSpare
    BY <1>1, <1>2 DEF StoredLate, BeforeLooking, Untouched
  <1>4. Owed' \subseteq Owed /\ EmptyHanded' \subseteq EmptyHanded
    BY <1>1 DEF Owed, EmptyHanded, Acceptor
  <1>5. Cardinality(Owed') <= Cardinality(Owed) /\ Cardinality(EmptyHanded') <= Cardinality(EmptyHanded)
    BY <1>4, ClaimsFinite, FS_Subset
  <1>6. Balance'
    <2> DEFINE a == Cardinality(Owed)     b == Cardinality(EmptyHanded)
               a2 == Cardinality(Owed')   b2 == Cardinality(EmptyHanded')
               q == queued + lost         q2 == queued' + lost'
    <2>1. /\ a \in Nat /\ b \in Nat /\ a2 \in Nat /\ b2 \in Nat /\ q \in Nat /\ q2 \in Nat
      BY ClaimsFinite, CountersTyped DEF Counters
    <2>2. a2 <= a /\ b2 <= b
      BY <1>5
    <2>3. q2 = q - 1
      BY <1>1
    <2>4. a + b < q
      BY <1>3 DEF ToSpare
    <2>5. a2 + b2 <= q2 => Balance'
      BY DEF Balance
    <2> HIDE DEF a, b, a2, b2, q, q2
    <2>6. a2 + b2 <= q2
      BY <2>1, <2>2, <2>3, <2>4
    <2> QED BY <2>5, <2>6
  <1>7. pc'[thread] = "handle"
    <2>1. thread \in Threads
      BY <1>2 DEF AcceptThreadInv
    <2> QED BY <1>1, <2>1
  <1> QED BY <1>6, <1>7 DEF BeforeLooking

\* A thread comes away without a request only when there is none.
LEMMA EmptyHandedStep ==
    ASSUME SafeInv, PerRequest, PerRequest', AcceptThreadInv,
           NEW t \in Threads, ThreadStep(t) \/ SpuriousWakeup(t)
    PROVE  \/ EmptyHanded' \subseteq EmptyHanded /\ lost' >= lost
           \/ queued' = 0
  <1>1. /\ pc \in [Threads -> Labels] /\ lost \in Nat /\ queued \in 0..MaxRequests
        /\ exposed \in Nat
    BY DEF SafeInv, TypeButCount
  <1>2. t = m_nAcceptThreadId => t = thread
    BY ThreadsAssumption DEF AcceptThreadInv
  <1> USE <1>1 DEF EmptyHanded, Acceptor, work, control, appVars, allButPc, Go, Move
  <1>3. CASE NoRequest(t)
    BY <1>2, <1>3 DEF NoRequest, LooksForRequests, SomeRequest
  <1>4. CASE QueueRequest(t)
    BY <1>4 DEF QueueRequest, Awakened, PerRequest
  <1>5. ASSUME NEW u \in Threads, SpawnThread(t, u)
        PROVE  EmptyHanded' \subseteq EmptyHanded /\ lost' >= lost
    BY <1>5 DEF SpawnThread, Fresh
  <1>6. CASE ClearIdleConnections(t)
    <2>1. PICK n \in 0..exposed : lost' = lost + n
      BY <1>6 DEF ClearIdleConnections, RemoveFinishedConnections
    <2>2. lost' >= lost
      BY <2>1
    <2> QED BY <1>6, <2>2 DEF ClearIdleConnections
  <1>7. CASE ~(NoRequest(t) \/ QueueRequest(t) \/ ClearIdleConnections(t)
               \/ (\E u \in Threads : SpawnThread(t, u)))
    <2>1. lost' = lost
      BY <1>7 DEF ThreadStep, StubEnter, ThreadInit, LockHandleData,
         TakeRequest, Wait, Resume, BecomeAcceptor, Select, NoNewClient, AcceptClient,
         PushedConnection, RefuseRequest, SpawnFails, ClientsChecked, StopAccepting,
         HandlerReturns, FinishRequest, Throw, CatchWithResponse, CatchWithNull,
         CatchFinish, LoopCondition, StubExit, StubUnlock, SpuriousWakeup
    <2>2. EmptyHanded' \subseteq EmptyHanded
      BY <1>7 DEF ThreadStep, StubEnter, ThreadInit, LockHandleData,
         TakeRequest, Wait, Resume, BecomeAcceptor, Select, NoNewClient, AcceptClient,
         PushedConnection, RefuseRequest, SpawnFails, ClientsChecked, StopAccepting,
         HandlerReturns, FinishRequest, Throw, CatchWithResponse, CatchWithNull,
         CatchFinish, LoopCondition, StubExit, StubUnlock, SpuriousWakeup
    <2> QED BY <2>1, <2>2
  <1> QED BY <1>3, <1>4, <1>5, <1>6, <1>7 DEF ThreadStep

\* The threads without a request are no more than the requests lost, if they were not
\* before or if nothing is queued.
LEMMA MissedStep ==
    ASSUME SafeInv, SafeInv', Missed,
           \/ EmptyHanded' \subseteq EmptyHanded /\ lost' >= lost
           \/ queued' = 0 /\ Balance'
    PROVE  Missed'
  <1>1. lost \in Nat /\ lost' \in Nat
    BY DEF SafeInv, TypeButCount
  <1>2. ASSUME EmptyHanded' \subseteq EmptyHanded, lost' >= lost PROVE Missed'
    <2>1. Cardinality(EmptyHanded') <= Cardinality(EmptyHanded)
      BY <1>2, ClaimsFinite, FS_Subset
    <2>2. Cardinality(EmptyHanded') <= lost'
      BY <1>1, <1>2, <2>1, ClaimsFinite DEF Missed
    <2> QED BY <2>2 DEF Missed
  <1>3. ASSUME queued' = 0, Balance' PROVE Missed'
    <2>1. Cardinality(Owed') + Cardinality(EmptyHanded') <= 0 + lost'
      BY <1>3 DEF Balance
    <2>2. Cardinality(EmptyHanded') <= lost'
      BY <1>1, <2>1, ClaimsFinite
    <2> QED BY <2>2 DEF Missed
  <1> QED BY <1>2, <1>3

\* The steps of threads with one thread per request.
LEMMA PerRequestThread ==
    ASSUME SafeInv, SafeInv', PerRequest, PerRequest', AcceptThreadInv, StoredLate, Balance, Missed,
           NEW t \in Threads, ThreadStep(t) \/ SpuriousWakeup(t)
    PROVE  AcceptThreadInv' /\ StoredLate' /\ Balance' /\ Missed'
  <1>1. AcceptThreadInv'
    BY AcceptThreadStep
  <1>a. Balance' => Missed'
    BY EmptyHandedStep, MissedStep
  <1>2. CASE t = thread /\ TakeRequest(t)
    <2>1. Balance' /\ pc'[thread] \notin BeforeLooking /\ thread' = thread
      BY <1>2, TakenToSpare DEF TakeRequest, appVars
    <2> QED BY <1>1, <1>a, <2>1 DEF StoredLate
  <1>3. CASE ~(t = thread /\ TakeRequest(t))
    <2>1. Balanced
      BY <1>3, ClaimsStep
    <2>2. Balance'
      BY <2>1 DEF Balanced
    <2>3. ASSUME app' = "created", pc'[thread'] \in BeforeLooking
          PROVE  Untouched' \/ ToSpare'
      <3>1. UNCHANGED <<app, thread>> /\ thread \in Threads
        BY DEF AcceptThreadInv, ThreadStep, appVars, allButPc, Go, Move, StubEnter,
           ThreadInit, LockHandleData, TakeRequest, NoRequest, Wait, Resume, BecomeAcceptor,
           Select, NoNewClient, AcceptClient, PushedConnection, QueueRequest, RefuseRequest,
           SpawnThread, SpawnFails, ClientsChecked, ClearIdleConnections, StopAccepting,
           HandlerReturns, FinishRequest, Throw, CatchWithResponse, CatchWithNull,
           CatchFinish, LoopCondition, StubExit, StubUnlock, SpuriousWakeup
      <3>2. CASE SpawnThread(t, thread)
        <4>1. pc \in [Threads -> Labels]
          BY DEF SafeInv, TypeButCount
        <4>2. /\ t # thread /\ pc[t] = "spawn" /\ pc[thread] \in {"unborn", "done"}
              /\ UNCHANGED <<queued, lost>>
              /\ pc' = [pc EXCEPT ![t] = "clients", ![thread] = "stub"]
          BY <3>2 DEF SpawnThread, Fresh, allButPc, work
        <4>3. t \in Owed /\ Owed' = Owed \ {t} /\ EmptyHanded' \subseteq EmptyHanded
          BY <3>1, <4>1, <4>2 DEF Owed, EmptyHanded, Acceptor
        <4>4. queued' + lost' = queued + lost
          BY <4>2
        <4> QED BY <4>3, <4>4, CountersTyped, ClaimDropped
      <3>3. CASE ~SpawnThread(t, thread)
        <4>1. app = "created" /\ pc'[thread] \in BeforeLooking
          BY <2>3, <3>1
        <4>2. pc[thread] \in BeforeLooking
          BY <3>3, <4>1, NotLooked
        <4>3. Untouched \/ ToSpare
          BY <4>1, <4>2 DEF StoredLate
        <4>4. Untouched => Untouched'
          BY <4>1, <4>2, UntouchedStep
        <4> QED BY <2>1, <4>3, <4>4 DEF Balanced
      <3> QED BY <3>2, <3>3
    <2>4. StoredLate'
      BY <2>3 DEF StoredLate
    <2> QED BY <1>1, <1>a, <2>2, <2>4
  <1> QED BY <1>2, <1>3

\* Every step preserves PerRequestInv.
LEMMA PerRequestStep == SafeInv /\ PerRequestInv /\ [Next]_vars => PerRequestInv'
  <1> SUFFICES ASSUME SafeInv, PerRequestInv, [Next]_vars, PerRequest'
               PROVE  AcceptThreadInv' /\ StoredLate' /\ Balance' /\ Missed'
    BY DEF PerRequestInv, PerRequest
  <1>1. SafeInv'
    BY NextSafe
  <1>2. PerRequest
    BY DEF PerRequest, Next, AppStep, Stopped, vars, control, allButPc, Go, Move, CreateThread,
       RecordAcceptThread, CreateFails, EndServerThread, WaitForThreads, DeleteServer,
       ThreadStep, StubEnter, ThreadInit, LockHandleData, TakeRequest,
       NoRequest, Wait, Resume, BecomeAcceptor, Select, NoNewClient,
       AcceptClient, PushedConnection, QueueRequest, RefuseRequest, SpawnThread, SpawnFails,
       ClientsChecked, ClearIdleConnections, StopAccepting, HandlerReturns,
       FinishRequest, Throw, CatchWithResponse, CatchWithNull, CatchFinish,
       LoopCondition, StubExit, StubUnlock, SpuriousWakeup
  <1>3. AcceptThreadInv /\ StoredLate /\ Balance /\ Missed
    BY <1>2 DEF PerRequestInv, PerRequest
  <1>4. ASSUME Owed' \subseteq Owed, EmptyHanded' \subseteq EmptyHanded,
               queued' = queued, lost' = lost
        PROVE  Balanced /\ Missed'
    <2>1. queued' + lost' = queued + lost
      BY <1>4
    <2>2. lost' >= lost
      BY <1>4 DEF SafeInv, TypeButCount
    <2> QED BY <1>1, <1>3, <1>4, <2>1, <2>2, CountersTyped, ClaimsShrink, MissedStep
  <1>5. CASE UNCHANGED vars
    <2>1. UNCHANGED <<pc, thread, queued, lost, app, toStart, m_nAcceptThreadId>>
      BY <1>5 DEF vars
    <2>2. AcceptThreadInv'
      BY <1>3, <2>1 DEF AcceptThreadInv
    <2>3. Owed' \subseteq Owed /\ EmptyHanded' \subseteq EmptyHanded
      BY <2>1 DEF Owed, EmptyHanded, Acceptor
    <2>4. Balanced /\ Missed'
      BY <1>4, <2>1, <2>3
    <2>5. Untouched' = Untouched
      BY <2>1 DEF Untouched
    <2> QED BY <1>3, <2>1, <2>2, <2>4, <2>5 DEF StoredLate, Balanced
  <1>6. ASSUME NEW t \in Threads, CreateThread(t)
        PROVE  AcceptThreadInv' /\ StoredLate' /\ Balance' /\ Missed'
    <2>1. /\ pc' = [pc EXCEPT ![t] = "stub"] /\ thread' = t /\ app = "creating"
          /\ app' = "created"
          /\ UNCHANGED <<queued, lost, toStart, m_nAcceptThreadId>>
          /\ pc \in [Threads -> Labels]
      BY <1>6 DEF CreateThread, control, work, SafeInv, TypeButCount
    <2>2. queued = 0 /\ \A u \in Threads : pc[u] = "unborn"
      BY <1>3, <2>1 DEF AcceptThreadInv
    <2>3. AcceptThreadInv'
      BY <1>3, <2>1 DEF AcceptThreadInv
    <2>4. Untouched'
      BY <2>1, <2>2 DEF Untouched
    <2>5. Owed' \subseteq Owed /\ EmptyHanded' \subseteq EmptyHanded
      BY <2>1, <2>2 DEF Owed, EmptyHanded, Acceptor
    <2>6. Balanced /\ Missed'
      BY <1>4, <2>1, <2>5
    <2> QED BY <1>3, <2>3, <2>4, <2>6 DEF StoredLate, Balanced
  <1>7. CASE RecordAcceptThread
    <2>1. /\ UNCHANGED <<pc, thread, queued, lost>> /\ app = "created"
          /\ m_nAcceptThreadId' = thread /\ toStart = 1 /\ app' = "up"
      BY <1>3, <1>7 DEF RecordAcceptThread, work, AcceptThreadInv
    <2>2. AcceptThreadInv' /\ StoredLate'
      BY <1>3, <2>1 DEF AcceptThreadInv, StoredLate
    <2>3. Owed' \subseteq Owed /\ EmptyHanded' \subseteq EmptyHanded
      BY <2>1 DEF Owed, EmptyHanded, Acceptor
    <2>4. Balanced /\ Missed'
      BY <1>4, <2>1, <2>3
    <2> QED BY <1>3, <2>2, <2>4 DEF Balanced
  <1>8. CASE CreateFails \/ EndServerThread \/ WaitForThreads \/ DeleteServer
    BY <1>3, <1>8 DEF CreateFails, EndServerThread, WaitForThreads, DeleteServer, PerRequest,
                      AcceptThreadInv
  <1>9. ASSUME NEW t \in Threads, ThreadStep(t) \/ SpuriousWakeup(t)
        PROVE  AcceptThreadInv' /\ StoredLate' /\ Balance' /\ Missed'
    BY <1>1, <1>2, <1>3, <1>9, PerRequestThread
  <1> QED BY <1>5, <1>6, <1>7, <1>8, <1>9 DEF Next, AppStep, Stopped

\* In one-thread-per-request mode only the requests deleted with their connection are
\* missed by the threads created for them, whatever other threads take, however late
\* the constructor stores the identifier of the accept thread, and whatever is thrown
\* (ehs.cpp:437 and the do-while condition of HandleData_Threaded).
THEOREM SpawnedFinds == Spec => []OnlyLostRequestsMissed
  <1>1. Init => PerRequestInv
    <2> SUFFICES ASSUME Init, PerRequest PROVE AcceptThreadInv /\ StoredLate /\ Balance /\ Missed
      BY DEF PerRequestInv, PerRequest
    <2>1. PICK mode \in Modes :
            /\ m_nServerRunningStatus = IF mode = "threadpool" THEN "THREADPOOL"
                                        ELSE "ONETHREADPERREQUEST"
            /\ toStart = ThreadsToStart(mode)
      BY DEF Init
    <2>2. toStart = 1
      BY <2>1, ParameterAssumption DEF PerRequest, ThreadsToStart
    <2>3. AcceptThreadInv /\ StoredLate
      BY <2>2 DEF Init, AcceptThreadInv, StoredLate
    <2>4. Owed = {} /\ EmptyHanded = {}
      BY DEF Init, Owed, EmptyHanded, Acceptor
    <2>5. Cardinality(Owed) = 0 /\ Cardinality(EmptyHanded) = 0
      BY <2>4, FS_EmptySet
    <2>6. Balance
      BY <2>5 DEF Init, Balance
    <2>7. Missed
      BY <2>5 DEF Init, Missed
    <2> QED BY <2>3, <2>6, <2>7
  <1>2. SafeInv /\ PerRequestInv /\ [Next]_vars => PerRequestInv'
    BY PerRequestStep
  <1>3. PerRequestInv => OnlyLostRequestsMissed
    BY DEF PerRequestInv, Missed, OnlyLostRequestsMissed
  <1>4. Spec => []PerRequestInv
    BY <1>1, <1>2, SafeAlways, PTL DEF Spec
  <1> QED BY <1>3, <1>4, PTL
=============================================================================
