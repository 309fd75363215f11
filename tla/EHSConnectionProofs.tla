------------------------ MODULE EHSConnectionProofs ------------------------
(***************************************************************************)
(* The counters of a connection, for every number of workers and requests  *)
(* and every combination of errors.  The inductive invariant has four      *)
(* parts: the data that no decision depends on, what each thread has in    *)
(* its hands, why nothing is read after an error, and the counters.  For a *)
(* single worker, a further invariant keeps the responses in order.        *)
(***************************************************************************)
EXTENDS EHSConnection, FiniteSetTheorems, SequenceTheorems, TLAPS

Sending == SendLabels \ {"generic"}

Callbacks == {"OnConnect", "OnData", "OnDisconnect"}

\* Variables that are only recorded, and flags.
DataInv ==
    /\ exists \in BOOLEAN
    /\ m_bDoneReading \in BOOLEAN /\ m_bDisconnected \in BOOLEAN /\ m_bRawMode \in BOOLEAN
    /\ stale \in BOOLEAN /\ reused \in BOOLEAN /\ fdset \in BOOLEAN
    /\ looksIdle \in BOOLEAN /\ closed \in BOOLEAN /\ quiet \in BOOLEAN
    /\ wire \in Seq(Response)
    /\ generic \in 0..MaxRaw
    /\ rawCalls \in Seq(Callbacks)

\* Where the threads are and what they hold: the queue of responses is empty
\* whenever the connection's mutex is free, because each thread takes out what
\* it has put in.
ThreadInv ==
    /\ pc \in [Senders -> WorkerLabels \cup SendLabels \cup AcceptorLabels]
    /\ pc[Acceptor] \in AcceptorLabels \cup Sending
    /\ \A w \in Workers : pc[w] \in WorkerLabels \cup SendLabels
    /\ resp \in [Senders -> Response]
    /\ m_oResponseQueue = <<>>
    /\ \A t \in Senders :
        /\ pc[t] = "generic" => ~IsHttp(resp[t])
        /\ pc[t] \in {"handle"} \cup Sending => IsHttp(resp[t])

\* The acceptor is about to send an error response.
Refusing == pc[Acceptor] \in {"refuse"} \cup Sending

\* After an error the connection is not read from again: there is at most one
\* error response, and the request that ReadNoResource leaves both queued and
\* current is the last one.
ErrorInv ==
    /\ errors \in 0..1
    /\ Refusing => errors = 0
    /\ errors = 1 => m_bDoneReading \/ pc[Acceptor] = "refused"
    /\ reused => m_bDoneReading \/ pc[Acceptor] = "refused" \/ Refusing
    /\ pc[Acceptor] = "clients" /\ fdset => errors = 0 /\ ~reused

CountInv ==
    /\ m_nRequests \in 0..(MaxRequests + 1)
    /\ reused => m_nRequests \in 1..MaxRequests
    /\ m_nResponses \in Nat /\ m_nActiveRequests \in Int
    /\ m_oHttpRequestList \in Seq(1..MaxRequests)
    /\ CountersAgree

ConnInv == DataInv /\ ThreadInv /\ ErrorInv /\ CountInv

USE DEF WorkerLabels, SendLabels, AcceptorLabels, HttpKinds, GenericKinds, Sending

-----------------------------------------------------------------------------
(* Threads and what they hold *)

\* A new connection: no thread has anything in hand.
LEMMA InitThread == Init => ThreadInv
  BY WorkersAssumption, BoundsAssumption
  DEF Init, ThreadInv, Senders, None, Response, IsHttp

\* SendResponse, whoever calls it.
LEMMA SendThread ==
    ASSUME ThreadInv, NEW t \in Senders, SendStep(t)
    PROVE  ThreadInv'
  <1> USE WorkersAssumption DEF ThreadInv, Senders, IsHttp, Go, Move, Return
  <1>1. CASE SendHeader(t)
    BY <1>1 DEF SendHeader, queues
  <1>2. CASE SendHeaderFails(t) \/ SendBody(t)
    BY <1>2 DEF SendHeaderFails, SendBody, queues
  <1>3. CASE SwitchToRaw(t) \/ OnConnect(t)
    BY <1>3 DEF SwitchToRaw, OnConnect, queues
  <1>4. CASE SendGeneric(t)
    BY <1>4 DEF SendGeneric, queues
  <1>5. CASE EndSend(t)
    BY <1>5, ZenonT(60) DEF EndSend, queues
  <1> QED BY <1>1, <1>2, <1>3, <1>4, <1>5 DEF SendStep

\* A worker that sends takes its response out of the queue again.
LEMMA WorkerThread ==
    ASSUME ThreadInv, CountInv, NEW w \in Workers,
           WorkerStep(w) \/ AddGenericResponse(w)
    PROVE  ThreadInv'
  <1> USE WorkersAssumption, BoundsAssumption
      DEF ThreadInv, Senders, IsHttp, Go, Move, Return, None, Response
  <1>1. CASE GetNextRequest(w)
    <2>1. Head(m_oHttpRequestList) \in 1..MaxRequests
      BY <1>1 DEF GetNextRequest, CountInv
    <2> QED BY <1>1, <2>1 DEF GetNextRequest
  <1>2. CASE RouteRequest(w)
    BY <1>2 DEF RouteRequest, queues
  <1>3. CASE AddGenericResponse(w)
    BY <1>3 DEF AddGenericResponse, queues
  <1>4. CASE AddResponse(w)
    <2>1. /\ Head(Append(m_oResponseQueue, resp[w])) = resp[w]
          /\ Tail(Append(m_oResponseQueue, resp[w])) = <<>>
      OBVIOUS
    <2> QED BY <1>4, <2>1 DEF AddResponse, BeginSend
  <1>5. CASE SentResponse(w)
    BY <1>5 DEF SentResponse
  <1>6. CASE SendStep(w)
    BY <1>6, SendThread
  <1> QED BY <1>1, <1>2, <1>3, <1>4, <1>5, <1>6 DEF WorkerStep

\* The acceptor's sections leave the response queue empty, too.
LEMMA AcceptorThread ==
    ASSUME ThreadInv, AcceptorStep
    PROVE  ThreadInv'
  <1> USE WorkersAssumption, BoundsAssumption
      DEF ThreadInv, Senders, IsHttp, Go, Move, Return, None, Response
  <1>1. CASE Select \/ NothingToRead
    BY <1>1 DEF Select, NothingToRead, queues
  <1>2. ASSUME NEW n \in 0..MaxRequests,
               ReadRequests(n) \/ ReadInvalid(n) \/ ReadNoResource(n)
        PROVE  ThreadInv'
    BY <1>2 DEF ReadRequests, ReadInvalid, ReadNoResource, AddBuffer
  <1>3. CASE ReadTooBig \/ ReadEnd
    BY <1>3 DEF ReadTooBig, ReadEnd, queues
  <1>4. CASE ReadRaw \/ ReadRawEarly
    BY <1>4 DEF ReadRaw, ReadRawEarly, AddBuffer, queues
  <1>5. CASE Refuse
    <2>1. pc' = [pc EXCEPT ![Acceptor] = IF m_bDisconnected THEN "refused" ELSE "head"]
      BY <1>5 DEF Refuse, BeginSend
    <2>2. resp' = [resp EXCEPT ![Acceptor] = [id |-> 0, kind |-> "body"]]
      BY <1>5 DEF Refuse
    <2> QED BY <1>5, <2>1, <2>2 DEF Refuse, queues
  <1>6. CASE Refused
    BY <1>6 DEF Refused, queues
  <1>7. CASE CheckIdle \/ CloseIdle
    BY <1>7 DEF CheckIdle, CloseIdle, queues
  <1>8. CASE KeepConnection \/ RemoveConnection
    BY <1>8 DEF KeepConnection, RemoveConnection, queues
  <1>9. CASE SendStep(Acceptor)
    BY <1>9, SendThread
  <1> QED BY <1>1, <1>2, <1>3, <1>4, <1>5, <1>6, <1>7, <1>8, <1>9 DEF AcceptorStep

\* Every step preserves what each thread has in hand.
LEMMA NextThread ==
    ASSUME ThreadInv, CountInv, [Next]_vars
    PROVE  ThreadInv'
  <1>1. CASE UNCHANGED <<pc, resp, queues>>
    BY <1>1 DEF ThreadInv, IsHttp, queues
  <1>2. CASE ClientCloses \/ TimePasses \/ Gone \/ UNCHANGED vars
    BY <1>1, <1>2 DEF ClientCloses, TimePasses, Gone, vars
  <1> QED BY <1>2, WorkerThread, AcceptorThread DEF Next

-----------------------------------------------------------------------------
(* Errors *)

\* A new connection has seen no error.
LEMMA InitError == Init => ErrorInv
  BY DEF Init, ErrorInv, Refusing, Senders

\* A worker neither makes an error response nor reads; what it does to the flags
\* only stops the reading.
LEMMA WorkerError ==
    ASSUME ThreadInv, ErrorInv, NEW w \in Workers,
           WorkerStep(w) \/ AddGenericResponse(w)
    PROVE  ErrorInv'
  <1> USE WorkersAssumption
  <1> SUFFICES /\ pc'[Acceptor] = pc[Acceptor]
               /\ UNCHANGED <<errors, reused, fdset>>
               /\ m_bDoneReading' = m_bDoneReading \/ m_bDoneReading' = TRUE
    BY DEF ErrorInv, Refusing
  <1> USE DEF ThreadInv, Senders, Go, Move, flags, counters, queues, history,
              CountResponse, DoneReading
  <1>1. CASE GetNextRequest(w) \/ RouteRequest(w) \/ AddGenericResponse(w)
    BY <1>1 DEF GetNextRequest, RouteRequest, AddGenericResponse
  <1>2. CASE AddResponse(w)
    BY <1>2 DEF AddResponse, BeginSend
  <1>3. CASE SentResponse(w)
    BY <1>3 DEF SentResponse
  <1>4. CASE SendStep(w)
    BY <1>4 DEF SendStep, SendHeader, SendHeaderFails, SendBody, SwitchToRaw,
                OnConnect, SendGeneric, EndSend
  <1> QED BY <1>1, <1>2, <1>3, <1>4 DEF WorkerStep

\* The acceptor stops reading before it sends an error response.
LEMMA AcceptorError ==
    ASSUME DataInv, ThreadInv, ErrorInv, AcceptorStep
    PROVE  ErrorInv'
  <1> USE WorkersAssumption
      DEF DataInv, ThreadInv, ErrorInv, Refusing, Senders, Go, Move, Return,
          flags, counters, queues, history, CountResponse, DoneReading
  <1>1. CASE Select
    <2>1. fdset' => ~m_bDoneReading
      BY <1>1 DEF Select, StillReading
    <2>2. UNCHANGED <<errors, reused, m_bDoneReading>> /\ pc[Acceptor] = "select"
      BY <1>1 DEF Select
    <2>3. pc'[Acceptor] \in {"clients", "clear"}
      BY <1>1 DEF Select
    <2> QED BY <2>1, <2>2, <2>3
  <1>2. ASSUME NEW n \in 0..MaxRequests,
               ReadRequests(n) \/ ReadInvalid(n) \/ ReadNoResource(n)
        PROVE  ErrorInv'
    BY <1>2 DEF ReadRequests, ReadInvalid, ReadNoResource, CanRead
  <1>3. CASE ReadTooBig \/ ReadEnd
    BY <1>3 DEF ReadTooBig, ReadEnd, CanRead
  <1>4. CASE ReadRaw \/ ReadRawEarly
    BY <1>4 DEF ReadRaw, ReadRawEarly, CanRead
  <1>5. CASE Refuse
    <2>1. IsHttp([id |-> 0, kind |-> "body"])
      BY DEF IsHttp
    <2> QED BY <1>5, <2>1 DEF Refuse, BeginSend
  <1>6. CASE Refused
    BY <1>6 DEF Refused
  <1>7. CASE CheckIdle \/ CloseIdle
    BY <1>7 DEF CheckIdle, CloseIdle
  <1>8. CASE KeepConnection \/ RemoveConnection
    BY <1>8 DEF KeepConnection, RemoveConnection
  <1>9. CASE SendStep(Acceptor)
    BY <1>9 DEF SendStep, SendHeader, SendHeaderFails, SendBody, SwitchToRaw,
                OnConnect, SendGeneric, EndSend
  <1>10. CASE NothingToRead
    BY <1>10 DEF NothingToRead
  <1> QED BY <1>1, <1>2, <1>3, <1>4, <1>5, <1>6, <1>7, <1>8, <1>9, <1>10
     DEF AcceptorStep

\* Workers never send error responses; the acceptor sends at most one.
LEMMA NextError ==
    ASSUME DataInv, ThreadInv, ErrorInv, [Next]_vars
    PROVE  ErrorInv'
  <1>1. CASE ClientCloses \/ TimePasses \/ Gone \/ UNCHANGED vars
    BY <1>1 DEF ClientCloses, TimePasses, Gone, vars, ErrorInv, Refusing, flags, history
  <1> QED BY <1>1, WorkerError, AcceptorError DEF Next

-----------------------------------------------------------------------------
(* Data *)

\* A new connection is well typed.
LEMMA InitData == Init => DataInv
  <1> SUFFICES ASSUME Init PROVE DataInv
    OBVIOUS
  <1>1. wire \in Seq(Response) /\ rawCalls \in Seq(Callbacks)
    BY DEF Init
  <1>2. generic \in 0..MaxRaw
    BY BoundsAssumption DEF Init
  <1> QED BY <1>1, <1>2, Zenon DEF Init, DataInv

\* A callback of the raw socket handler is added to the record.
LEMMA CallsGrow ==
    ASSUME rawCalls \in Seq(Callbacks), NEW c \in Callbacks
    PROVE  Append(rawCalls, c) \in Seq(Callbacks)
  OBVIOUS

\* The sections of a worker preserve types and flags.
LEMMA WorkerData ==
    ASSUME DataInv, ThreadInv, NEW w \in Workers,
           WorkerStep(w) \/ AddGenericResponse(w)
    PROVE  DataInv'
  <1> USE BoundsAssumption
      DEF DataInv, ThreadInv, Senders, Go, Move, flags, counters, queues, history,
          DoneReading, UpdateLastActivity
  <1>0. {"OnConnect", "OnData", "OnDisconnect"} \subseteq Callbacks
    BY DEF Callbacks
  <1>1. CASE GetNextRequest(w) \/ RouteRequest(w) \/ AddGenericResponse(w)
    BY <1>1 DEF GetNextRequest, RouteRequest, AddGenericResponse
  <1>2. CASE AddResponse(w) \/ SentResponse(w)
    BY <1>2 DEF AddResponse, SentResponse
  <1>3. CASE SendHeader(w)
    <2>1. resp[w] \in Response
      OBVIOUS
    <2>2. wire' \in Seq(Response)
      BY <1>3, <2>1 DEF SendHeader
    <2> QED BY <1>3, <2>2 DEF SendHeader
  <1>4. CASE SendHeaderFails(w) \/ SendBody(w) \/ SwitchToRaw(w) \/ OnConnect(w)
    <2>1. rawCalls' \in Seq(Callbacks)
      BY <1>4, <1>0, CallsGrow, SMTT(30) DEF SendHeaderFails, SendBody, SwitchToRaw, OnConnect
    <2> QED BY <1>4, <2>1, ZenonT(60) DEF SendHeaderFails, SendBody, SwitchToRaw, OnConnect
  <1>5. CASE SendGeneric(w) \/ EndSend(w)
    BY <1>5, ZenonT(60) DEF SendGeneric, EndSend
  <1> QED BY <1>1, <1>2, <1>3, <1>4, <1>5 DEF WorkerStep, SendStep

\* The sections of the acceptor preserve types and flags.
LEMMA AcceptorData ==
    ASSUME DataInv, ThreadInv, AcceptorStep
    PROVE  DataInv'
  <1> USE BoundsAssumption
      DEF DataInv, ThreadInv, Senders, Go, Move, flags, counters, queues, history,
          DoneReading, UpdateLastActivity
  <1>0. {"OnConnect", "OnData", "OnDisconnect"} \subseteq Callbacks
    BY DEF Callbacks
  <1>1. CASE Select \/ NothingToRead
    BY <1>1 DEF Select, NothingToRead, StillReading
  <1>2. ASSUME NEW n \in 0..MaxRequests,
               ReadRequests(n) \/ ReadInvalid(n) \/ ReadNoResource(n)
        PROVE  DataInv'
    BY <1>2 DEF ReadRequests, ReadInvalid, ReadNoResource
  <1>3. CASE ReadTooBig \/ ReadEnd
    BY <1>3 DEF ReadTooBig, ReadEnd
  <1>4. CASE ReadRaw \/ ReadRawEarly
    <2>1. rawCalls' \in Seq(Callbacks)
      <3>1. rawCalls' \in {rawCalls, Append(rawCalls, "OnData")}
        BY <1>4 DEF ReadRaw, ReadRawEarly
      <3> QED BY <1>0, <3>1, CallsGrow
    <2> QED BY <1>4, <2>1 DEF ReadRaw, ReadRawEarly
  <1>5. CASE Refuse \/ Refused
    BY <1>5 DEF Refuse, Refused
  <1>6. CASE CheckIdle \/ CloseIdle
    BY <1>6 DEF CheckIdle, CloseIdle, StillReading
  <1>7. CASE KeepConnection \/ RemoveConnection
    <2>1. rawCalls' \in Seq(Callbacks)
      BY <1>7, <1>0, CallsGrow DEF KeepConnection, RemoveConnection, OnDisconnect
    <2> QED BY <1>7, <2>1 DEF KeepConnection, RemoveConnection
  <1>8. CASE SendHeader(Acceptor)
    <2>1. resp[Acceptor] \in Response
      OBVIOUS
    <2>2. wire' \in Seq(Response)
      BY <1>8, <2>1 DEF SendHeader
    <2> QED BY <1>8, <2>2 DEF SendHeader
  <1>9. CASE \/ SendHeaderFails(Acceptor) \/ SendBody(Acceptor)
             \/ SwitchToRaw(Acceptor) \/ OnConnect(Acceptor)
    <2>1. rawCalls' \in Seq(Callbacks)
      BY <1>9, <1>0, CallsGrow DEF SendHeaderFails, SendBody, SwitchToRaw, OnConnect
    <2> QED BY <1>9, <2>1, ZenonT(60) DEF SendHeaderFails, SendBody, SwitchToRaw, OnConnect
  <1>10. CASE SendGeneric(Acceptor) \/ EndSend(Acceptor)
    BY <1>10, ZenonT(60) DEF SendGeneric, EndSend
  <1> QED BY <1>1, <1>2, <1>3, <1>4, <1>5, <1>6, <1>7, <1>8, <1>9, <1>10
     DEF AcceptorStep, SendStep

\* Every step preserves types and flags.
LEMMA NextData ==
    ASSUME DataInv, ThreadInv, [Next]_vars
    PROVE  DataInv'
  <1>1. CASE ClientCloses \/ TimePasses \/ Gone \/ UNCHANGED vars
    BY <1>1, ZenonT(60) DEF ClientCloses, TimePasses, Gone, vars, DataInv, flags, history
  <1> QED BY <1>1, WorkerData, AcceptorData DEF Next

-----------------------------------------------------------------------------
(* Counters *)

ActiveSet == {w \in Workers : Serving(w)}

\* The workers in service can be counted.
LEMMA ActiveFinite ==
    IsFiniteSet(ActiveSet) /\ InService \in 0..Cardinality(Workers)
  <1>1. ActiveSet \subseteq Workers
    BY DEF ActiveSet
  <1>2. IsFiniteSet(ActiveSet) /\ Cardinality(ActiveSet) <= Cardinality(Workers)
    BY <1>1, WorkersAssumption, FS_Subset
  <1>3. Cardinality(ActiveSet) \in Nat
    BY <1>2, FS_CardinalityType
  <1>4. Cardinality(Workers) \in Nat
    BY WorkersAssumption, FS_CardinalityType
  <1> QED BY <1>2, <1>3, <1>4 DEF InService, ActiveSet

\* Nobody enters or leaves service: the count stays.
LEMMA SameService ==
    ASSUME \A w \in Workers : Serving(w)' <=> Serving(w)
    PROVE  InService' = InService
  <1>1. ActiveSet' = ActiveSet
    BY DEF ActiveSet
  <1> QED BY <1>1 DEF InService, ActiveSet

\* One worker takes a request.
LEMMA EntersService ==
    ASSUME NEW w \in Workers, ~Serving(w), Serving(w)',
           \A v \in Workers \ {w} : Serving(v)' <=> Serving(v)
    PROVE  InService' = InService + 1
  <1>1. ActiveSet' = ActiveSet \cup {w} /\ w \notin ActiveSet
    BY DEF ActiveSet
  <1>2. Cardinality(ActiveSet') = Cardinality(ActiveSet) + 1
    BY <1>1, ActiveFinite, FS_AddElement
  <1> QED BY <1>2 DEF InService, ActiveSet

\* One worker has counted its response.
LEMMA LeavesService ==
    ASSUME NEW w \in Workers, Serving(w), ~Serving(w)',
           \A v \in Workers \ {w} : Serving(v)' <=> Serving(v)
    PROVE  InService' = InService - 1
  <1>1. ActiveSet' = ActiveSet \ {w} /\ w \in ActiveSet
    BY DEF ActiveSet
  <1>2. Cardinality(ActiveSet') = Cardinality(ActiveSet) - 1
    BY <1>1, ActiveFinite, FS_RemoveElement
  <1> QED BY <1>2 DEF InService, ActiveSet

\* The counters of a new connection agree.
LEMMA InitCount == Init => CountInv
  <1> SUFFICES ASSUME Init PROVE CountInv
    OBVIOUS
  <1>1. ActiveSet = {}
    BY WorkersAssumption DEF Init, ActiveSet, Serving, Senders
  <1>2. InService = 0
    BY <1>1, FS_EmptySet DEF InService, ActiveSet
  <1>3. m_oHttpRequestList \in Seq(1..MaxRequests) /\ Len(m_oHttpRequestList) = 0
    BY DEF Init
  <1> QED BY <1>2, <1>3, BoundsAssumption DEF Init, CountInv, CountersAgree, Completed

\* A step that leaves the requests alone and moves the counters together.
CountedAlike(served, answered) ==
    /\ UNCHANGED <<m_nRequests, m_oHttpRequestList, reused>>
    /\ InService' = InService - served
    /\ m_nResponses' = m_nResponses + answered
    /\ m_nActiveRequests' = m_nActiveRequests - answered
    /\ errors' = errors + (answered - served)

\* Steps that move the counters alike keep them in agreement.
LEMMA CountedAlikeSuffices ==
    ASSUME CountInv, errors \in 0..1, NEW s \in 0..1, NEW a \in s..1,
           CountedAlike(s, a)
    PROVE  CountInv'
  <1>1. InService \in Int /\ Len(m_oHttpRequestList) \in Nat
    BY ActiveFinite DEF CountInv
  <1>2. Completed' = Completed /\ Completed \in Int
    BY BoundsAssumption DEF CountedAlike, Completed, CountInv
  <1> QED BY <1>1, <1>2 DEF CountedAlike, CountInv, CountersAgree

\* SendResponse, called by a worker: its request leaves the service exactly when
\* the response is counted.
LEMMA WorkerSendCount ==
    ASSUME ThreadInv, ErrorInv, CountInv, NEW w \in Workers, SendStep(w)
    PROVE  CountInv'
  <1> USE WorkersAssumption DEF ThreadInv, Senders, Go, Move, Return, IsHttp, Serving
  <1>1. CASE \/ SendHeader(w) \/ SendHeaderFails(w) \/ SendBody(w)
             \/ SwitchToRaw(w) \/ OnConnect(w) \/ SendGeneric(w)
    <2>1. \A v \in Workers : Serving(v)' <=> Serving(v)
      <3>1. CASE SendHeader(w)
        BY <3>1 DEF SendHeader
      <3>2. CASE SendHeaderFails(w) \/ SendBody(w) \/ SwitchToRaw(w) \/ OnConnect(w)
        BY <3>2 DEF SendHeaderFails, SendBody, SwitchToRaw, OnConnect
      <3>3. CASE SendGeneric(w)
        BY <3>3 DEF SendGeneric
      <3> QED BY <1>1, <3>1, <3>2, <3>3
    <2>2. /\ UNCHANGED <<m_nRequests, m_nResponses, m_nActiveRequests>>
          /\ UNCHANGED <<m_oHttpRequestList, reused, errors>>
      BY <1>1 DEF SendHeader, SendHeaderFails, SendBody, SwitchToRaw, OnConnect,
                  SendGeneric, counters, queues, history
    <2>3. CountedAlike(0, 0)
      BY <2>1, <2>2, SameService, ActiveFinite DEF CountedAlike, CountInv, ErrorInv
    <2> QED BY <2>3, CountedAlikeSuffices DEF ErrorInv
  <1>2. CASE EndSend(w)
    <2>1. /\ Serving(w) /\ ~Serving(w)'
          /\ \A v \in Workers \ {w} : Serving(v)' <=> Serving(v)
      BY <1>2 DEF EndSend
    <2>2. InService' = InService - 1
      BY <2>1, LeavesService
    <2>3. CountedAlike(1, 1)
      BY <1>2, <2>2 DEF EndSend, CountResponse, CountedAlike, queues, CountInv, ErrorInv
    <2> QED BY <2>3, CountedAlikeSuffices DEF ErrorInv
  <1> QED BY <1>1, <1>2 DEF SendStep

\* A worker's sections keep the counters in agreement.
LEMMA WorkerCount ==
    ASSUME ThreadInv, ErrorInv, CountInv, NEW w \in Workers,
           WorkerStep(w) \/ AddGenericResponse(w)
    PROVE  CountInv'
  <1> USE WorkersAssumption DEF ThreadInv, Senders, Go, Move, Return, IsHttp, Serving
  <1>1. CASE GetNextRequest(w)
    <2>1. /\ ~Serving(w) /\ Serving(w)'
          /\ \A v \in Workers \ {w} : Serving(v)' <=> Serving(v)
      BY <1>1 DEF GetNextRequest, None
    <2>2. InService' = InService + 1
      BY <2>1, EntersService
    <2>3. /\ Len(m_oHttpRequestList') = Len(m_oHttpRequestList) - 1
          /\ Len(m_oHttpRequestList) \in Nat
          /\ m_oHttpRequestList' \in Seq(1..MaxRequests)
      BY <1>1 DEF GetNextRequest, CountInv
    <2>4. Completed' = Completed /\ Completed \in Int
      BY <1>1, BoundsAssumption DEF GetNextRequest, Completed, CountInv
    <2>5. /\ UNCHANGED <<m_nRequests, m_nResponses, reused, errors>>
          /\ m_nActiveRequests' = m_nActiveRequests + 1
      BY <1>1 DEF GetNextRequest, history
    <2> QED BY <2>2, <2>3, <2>4, <2>5, ActiveFinite, SMTT(30)
            DEF CountInv, CountersAgree, ErrorInv
  <1>2. CASE \/ RouteRequest(w) \/ AddGenericResponse(w) \/ SentResponse(w)
    <2>1. \A v \in Workers : Serving(v)' <=> Serving(v)
      <3>1. CASE RouteRequest(w)
        BY <3>1, BoundsAssumption DEF RouteRequest, Response
      <3>2. CASE AddGenericResponse(w)
        BY <3>2 DEF AddGenericResponse
      <3>3. CASE SentResponse(w)
        BY <3>3 DEF SentResponse
      <3> QED BY <1>2, <3>1, <3>2, <3>3
    <2>2. /\ UNCHANGED <<m_nRequests, m_nResponses, m_nActiveRequests>>
          /\ UNCHANGED <<m_oHttpRequestList, reused, errors>>
      BY <1>2 DEF RouteRequest, AddGenericResponse, SentResponse, counters, queues,
                  history
    <2>3. CountedAlike(0, 0)
      BY <2>1, <2>2, SameService, ActiveFinite DEF CountedAlike, CountInv, ErrorInv
    <2> QED BY <2>3, CountedAlikeSuffices DEF ErrorInv
  <1>3. CASE AddResponse(w)
    <2>1. /\ Head(Append(m_oResponseQueue, resp[w])) = resp[w]
          /\ Tail(Append(m_oResponseQueue, resp[w])) = <<>>
      OBVIOUS
    <2>2. BeginSend(w, "add", resp[w]) /\ UNCHANGED <<m_oHttpRequestList, reused>>
      BY <1>3, <2>1 DEF AddResponse
    <2>3. resp' = resp
      BY <1>3, <2>1 DEF AddResponse
    <2>4. CASE m_bDisconnected /\ IsHttp(resp[w])
      <3>1. /\ Serving(w) /\ ~Serving(w)'
            /\ \A v \in Workers \ {w} : Serving(v)' <=> Serving(v)
        BY <2>2, <2>3, <2>4 DEF BeginSend
      <3>2. InService' = InService - 1
        BY <3>1, LeavesService
      <3>3. CountedAlike(1, 1)
        BY <2>2, <2>4, <3>2 DEF BeginSend, CountResponse, CountedAlike, CountInv, ErrorInv
      <3> QED BY <3>3, CountedAlikeSuffices DEF ErrorInv
    <2>5. CASE ~(m_bDisconnected /\ IsHttp(resp[w]))
      <3>1. \A v \in Workers : Serving(v)' <=> Serving(v)
        BY <2>2, <2>3, <2>5 DEF BeginSend
      <3>2. UNCHANGED <<m_nRequests, m_nResponses, m_nActiveRequests, errors>>
        BY <2>2, <2>5 DEF BeginSend, counters
      <3>3. CountedAlike(0, 0)
        BY <2>2, <3>1, <3>2, SameService, ActiveFinite DEF CountedAlike, CountInv, ErrorInv
      <3> QED BY <3>3, CountedAlikeSuffices DEF ErrorInv
    <2> QED BY <2>4, <2>5
  <1>4. CASE SendStep(w)
    BY <1>4, WorkerSendCount
  <1> QED BY <1>1, <1>2, <1>3, <1>4 DEF WorkerStep

\* n requests that follow the ones already completed join the list.
LEMMA ListGrows ==
    ASSUME NEW first \in 1..(MaxRequests + 1), NEW n \in 0..(MaxRequests + 1 - first),
           CountInv,
           m_oHttpRequestList' =
                m_oHttpRequestList \o [i \in 1..n |-> first + i - 1]
    PROVE  /\ m_oHttpRequestList' \in Seq(1..MaxRequests)
           /\ Len(m_oHttpRequestList') = Len(m_oHttpRequestList) + n
           /\ Len(m_oHttpRequestList) \in Nat
  <1> DEFINE new == [i \in 1..n |-> first + i - 1]
  <1>1. n \in Nat /\ \A i \in 1..n : first + i - 1 \in 1..MaxRequests
    BY BoundsAssumption
  <1>2. new \in Seq(1..MaxRequests) /\ Len(new) = n
    BY <1>1
  <1>3. m_oHttpRequestList \in Seq(1..MaxRequests)
    BY DEF CountInv
  <1> HIDE DEF new
  <1>4. m_oHttpRequestList' = m_oHttpRequestList \o new
    BY DEF new
  <1>5. /\ m_oHttpRequestList \o new \in Seq(1..MaxRequests)
        /\ Len(m_oHttpRequestList \o new) = Len(m_oHttpRequestList) + Len(new)
    BY <1>2, <1>3, ConcatProperties, Zenon
  <1>6. Len(m_oHttpRequestList) \in Nat
    BY <1>3
  <1> QED BY <1>2, <1>4, <1>5, <1>6, Zenon

\* The accepting thread has no request in service: only what it reads and the
\* error response it sends move the counters.
LEMMA AcceptorKeepsService ==
    ASSUME ThreadInv, AcceptorStep
    PROVE  /\ \A w \in Workers : Serving(w)' <=> Serving(w)
           /\ InService' = InService
  <1> USE WorkersAssumption DEF ThreadInv, Senders, Go, Move, Return, IsHttp
  <1>1. \A w \in Workers : pc'[w] = pc[w] /\ resp'[w] = resp[w]
    <2>1. CASE \/ Select \/ NothingToRead \/ ReadTooBig \/ ReadEnd \/ ReadRaw
               \/ ReadRawEarly
      BY <2>1 DEF Select, NothingToRead, ReadTooBig, ReadEnd, ReadRaw, ReadRawEarly
    <2>2. ASSUME NEW n \in 0..MaxRequests,
                 ReadRequests(n) \/ ReadInvalid(n) \/ ReadNoResource(n)
          PROVE  \A w \in Workers : pc'[w] = pc[w] /\ resp'[w] = resp[w]
      BY <2>2 DEF ReadRequests, ReadInvalid, ReadNoResource
    <2>3. CASE Refuse
      BY <2>3 DEF Refuse, BeginSend
    <2>4. CASE Refused
      BY <2>4 DEF Refused
    <2>5. CASE CheckIdle \/ CloseIdle \/ KeepConnection \/ RemoveConnection
      BY <2>5 DEF CheckIdle, CloseIdle, KeepConnection, RemoveConnection
    <2>6. CASE SendStep(Acceptor)
      BY <2>6 DEF SendStep, SendHeader, SendHeaderFails, SendBody, SwitchToRaw,
                  OnConnect, SendGeneric, EndSend
    <2> QED BY <2>1, <2>2, <2>3, <2>4, <2>5, <2>6 DEF AcceptorStep
  <1> QED BY <1>1, SameService DEF Serving

\* Reading, errors and idle timeouts keep the counters in agreement.
LEMMA AcceptorCount ==
    ASSUME ThreadInv, ErrorInv, CountInv, AcceptorStep
    PROVE  CountInv'
  <1> USE WorkersAssumption DEF ThreadInv, Senders, Go, Move, Return, IsHttp
  <1>0. InService' = InService
    BY AcceptorKeepsService
  <1>1. ASSUME UNCHANGED <<counters, m_oHttpRequestList, reused, errors>>
        PROVE  CountInv'
    <2>1. CountedAlike(0, 0)
      BY <1>0, <1>1, ActiveFinite DEF CountedAlike, CountInv, ErrorInv, counters
    <2> QED BY <2>1, CountedAlikeSuffices DEF ErrorInv
  <1>2. CASE Select \/ NothingToRead \/ ReadTooBig \/ ReadEnd \/ ReadRaw
    BY <1>1, <1>2 DEF Select, NothingToRead, ReadTooBig, ReadEnd, ReadRaw, queues, history
  <1>3. CASE Refused \/ CheckIdle \/ CloseIdle \/ KeepConnection \/ RemoveConnection
    BY <1>1, <1>3 DEF Refused, CheckIdle, CloseIdle, KeepConnection, RemoveConnection,
                      queues, history
  <1>4. ASSUME NEW n \in 0..MaxRequests,
               \/ ReadRequests(n) \/ ReadInvalid(n) \/ ReadNoResource(n)
               \/ n = 0 /\ ReadRawEarly
        PROVE  CountInv'
    <2> DEFINE first == IF m_nRequests = 0 THEN 1 ELSE m_nRequests
    <2>1. n <= Budget
      BY <1>4, BoundsAssumption
      DEF ReadRequests, ReadInvalid, ReadNoResource, Budget, CountInv
    <2>2. first \in 1..(MaxRequests + 1) /\ n \in 0..(MaxRequests + 1 - first)
      BY <2>1, BoundsAssumption DEF Budget, CountInv
    <2>3. m_oHttpRequestList' =
                m_oHttpRequestList \o [i \in 1..n |-> first + i - 1]
      BY <1>4 DEF ReadRequests, ReadInvalid, ReadNoResource, ReadRawEarly, AddBuffer
    <2>4. errors = 0 /\ ~reused
      BY <1>4 DEF ReadRequests, ReadInvalid, ReadNoResource, ReadRawEarly, CanRead, ErrorInv
    <2>5. UNCHANGED <<m_nResponses, m_nActiveRequests, errors>>
      BY <1>4 DEF ReadRequests, ReadInvalid, ReadNoResource, ReadRawEarly, AddBuffer, history
    <2>6. \/ m_nRequests' = first + n /\ reused' = reused
          \/ m_nRequests' = first + n - 1 /\ n > 0 /\ reused' = TRUE
      BY <1>4 DEF ReadRequests, ReadInvalid, ReadNoResource, ReadRawEarly, AddBuffer
    <2>7. /\ Completed' = first + n - 1
          /\ Completed = first - 1
      BY <2>2, <2>4, <2>6, BoundsAssumption DEF Completed, CountInv
    <2>8. /\ m_oHttpRequestList' \in Seq(1..MaxRequests)
          /\ Len(m_oHttpRequestList') = Len(m_oHttpRequestList) + n
          /\ Len(m_oHttpRequestList) \in Nat
      <3> HIDE DEF first
      <3> QED BY <2>2, <2>3, ListGrows
    <2>9. CountersAgree'
      BY <1>0, <2>2, <2>4, <2>5, <2>7, <2>8, ActiveFinite DEF CountersAgree, CountInv
    <2> QED BY <2>2, <2>4, <2>5, <2>6, <2>8, <2>9, BoundsAssumption DEF CountInv
  <1>5. ASSUME CountResponse(Acceptor), UNCHANGED <<m_oHttpRequestList, reused>>,
               errors = 0
        PROVE  CountInv'
    <2>1. CountedAlike(0, 1)
      BY <1>0, <1>5, ActiveFinite DEF CountResponse, CountedAlike, CountInv
    <2> QED BY <2>1, CountedAlikeSuffices DEF ErrorInv
  <1>6. CASE Refuse
    <2>1. IsHttp([id |-> 0, kind |-> "body"]) /\ errors = 0
      BY <1>6 DEF Refuse, BeginSend, ErrorInv, Refusing
    <2>2. CountResponse(Acceptor) \/ UNCHANGED <<counters, errors>>
      BY <1>6, <2>1 DEF Refuse, BeginSend
    <2> QED BY <1>1, <1>5, <1>6, <2>1, <2>2 DEF Refuse, queues
  <1>7. CASE SendStep(Acceptor)
    <2>1. CASE EndSend(Acceptor)
      BY <1>5, <2>1 DEF EndSend, queues, ErrorInv, Refusing
    <2> QED BY <1>1, <1>7, <2>1 DEF SendStep, SendHeader, SendHeaderFails, SendBody,
               SwitchToRaw, OnConnect, SendGeneric, queues, history
  <1>8. 0 \in 0..MaxRequests
    BY BoundsAssumption
  <1> QED BY <1>2, <1>3, <1>4, <1>6, <1>7, <1>8 DEF AcceptorStep

\* Every step keeps the counters in agreement.
LEMMA NextCount ==
    ASSUME ThreadInv, ErrorInv, CountInv, [Next]_vars
    PROVE  CountInv'
  <1>1. CASE ClientCloses \/ TimePasses \/ Gone \/ UNCHANGED vars
    <2>1. UNCHANGED <<counters, m_oHttpRequestList, reused, errors, pc, resp>>
      BY <1>1 DEF ClientCloses, TimePasses, Gone, vars, queues, history
    <2>2. InService' = InService
      BY <2>1, SameService DEF Serving, IsHttp
    <2>3. CountedAlike(0, 0)
      BY <2>1, <2>2, ActiveFinite DEF CountedAlike, CountInv, ErrorInv, counters
    <2> QED BY <2>3, CountedAlikeSuffices DEF ErrorInv
  <1> QED BY <1>1, WorkerCount, AcceptorCount DEF Next

-----------------------------------------------------------------------------
(* Theorems *)

\* The strengthened invariant holds in every state.
THEOREM ConnAlways == Spec => []ConnInv
  <1>1. Init => ConnInv
    BY InitData, InitThread, InitError, InitCount DEF ConnInv
  <1>2. ConnInv /\ [Next]_vars => ConnInv'
    BY NextData, NextThread, NextError, NextCount DEF ConnInv
  <1> QED BY <1>1, <1>2, PTL DEF Spec

\* Whatever errors occur, no counter of a connection (src/ehs.cpp) leaves its
\* range: the responses stay within the requests and one error response.
THEOREM TypeCorrect == Spec => []TypeOK
  <1>1. ConnInv => TypeOK
    <2> SUFFICES ASSUME ConnInv PROVE TypeOK
      OBVIOUS
    <2> USE DEF ConnInv, DataInv, ThreadInv, ErrorInv, CountInv
    <2>1. /\ InService \in 0..Cardinality(Workers)
          /\ Cardinality(Workers) \in Nat /\ Len(m_oHttpRequestList) \in Nat
      BY ActiveFinite, WorkersAssumption, FS_CardinalityType
    <2>2. Completed \in 0..MaxRequests
      BY BoundsAssumption DEF Completed
    <2>3. /\ m_nResponses \in 0..(MaxRequests + 1)
          /\ m_nActiveRequests \in -1..Cardinality(Workers)
      BY <2>1, <2>2, BoundsAssumption DEF CountersAgree
    <2>4. m_oResponseQueue \in Seq(Response)
      OBVIOUS
    <2>5. rawCalls \in Seq({"OnConnect", "OnData", "OnDisconnect"})
      BY DEF Callbacks
    <2>6. \A b \in {m_bDoneReading, m_bDisconnected, m_bRawMode, stale, reused,
                 fdset, looksIdle, closed, quiet} : b \in BOOLEAN
      BY Zenon
    <2> QED BY <2>3, <2>4, <2>5, <2>6 DEF TypeOK
  <1> QED BY <1>1, ConnAlways, PTL

\* CheckDone and RequestsPending decide on counters that agree with what the
\* threads are doing, for every number of threads, requests and errors.
THEOREM CountersCorrect == Spec => []CountersAgree
  <1>1. ConnInv => CountersAgree
    BY DEF ConnInv, CountInv
  <1> QED BY <1>1, ConnAlways, PTL

\* Between the two halves of ClearIdleConnections no request comes into service,
\* because taking one needs the server's mutex.
IdleInv == pc[Acceptor] = "idle2" /\ looksIdle => \A w \in Workers : ~Serving(w)

\* A count of zero means that no worker has a request of this connection.
LEMMA NoneInService == InService = 0 <=> \A w \in Workers : ~Serving(w)
  <1>1. ActiveSet = {} <=> \A w \in Workers : ~Serving(w)
    BY DEF ActiveSet
  <1>2. Cardinality(ActiveSet) = 0 <=> ActiveSet = {}
    BY ActiveFinite, FS_EmptySet
  <1> QED BY <1>1, <1>2 DEF InService, ActiveSet

\* Nothing makes a request pending between the check of the timeout and the
\* close.
LEMMA NextIdle ==
    ASSUME ConnInv, IdleInv, [Next]_vars
    PROVE  IdleInv'
  <1> USE WorkersAssumption DEF IdleInv, ConnInv, ThreadInv, Senders, Go, Move
  <1>1. CASE AcceptorStep
    <2> SUFFICES ASSUME pc'[Acceptor] = "idle2", looksIdle'
                 PROVE  \A w \in Workers : ~Serving(w)
      BY <1>1, AcceptorKeepsService
    <2>1. CheckIdle
      <3>1. ~(Select \/ NothingToRead \/ ReadTooBig \/ ReadEnd)
        BY DEF Select, NothingToRead, ReadTooBig, ReadEnd
      <3>2. ~(ReadRaw \/ ReadRawEarly \/ Refused)
        BY DEF ReadRaw, ReadRawEarly, Refused
      <3>3. ~(CloseIdle \/ KeepConnection \/ RemoveConnection)
        BY DEF CloseIdle, KeepConnection, RemoveConnection
      <3>4. \A n \in 0..MaxRequests :
                ~(ReadRequests(n) \/ ReadInvalid(n) \/ ReadNoResource(n))
        BY DEF ReadRequests, ReadInvalid, ReadNoResource
      <3>5. ~Refuse
        BY DEF Refuse, BeginSend, Return
      <3>6. ~SendStep(Acceptor)
        BY DEF SendStep, SendHeader, SendHeaderFails, SendBody, SwitchToRaw,
               OnConnect, SendGeneric, EndSend, Return
      <3> QED BY <1>1, <3>1, <3>2, <3>3, <3>4, <3>5, <3>6 DEF AcceptorStep
    <2>2. m_nActiveRequests = 0 /\ ~m_bDoneReading /\ pc[Acceptor] = "clear"
      BY <2>1 DEF CheckIdle, StillReading
    <2>3. errors = 0
      BY <2>2 DEF ErrorInv
    <2>4. InService = 0
      BY <2>2, <2>3, ActiveFinite DEF CountInv, CountersAgree
    <2> QED BY <2>4, NoneInService
  <1>2. ASSUME NEW w \in Workers, WorkerStep(w) \/ AddGenericResponse(w)
        PROVE  IdleInv'
    <2> USE <1>2 DEF Serving, IsHttp, Return
    <2> SUFFICES ASSUME pc[Acceptor] = "idle2", \A v \in Workers : ~Serving(v)
                 PROVE  \A v \in Workers : ~Serving(v)'
      <3>1. pc'[Acceptor] = pc[Acceptor] /\ looksIdle' = looksIdle
        BY DEF WorkerStep, GetNextRequest, RouteRequest, AddGenericResponse, AddResponse,
               SentResponse, BeginSend, SendStep, SendHeader, SendHeaderFails, SendBody,
               SwitchToRaw, OnConnect, SendGeneric, EndSend
      <3> QED BY <3>1
    <2>1. ~GetNextRequest(w) /\ ~RouteRequest(w)
      BY DEF GetNextRequest, RouteRequest
    <2>2. CASE AddGenericResponse(w)
      BY <2>2 DEF AddGenericResponse
    <2>3. CASE AddResponse(w)
      <3>1. /\ Head(Append(m_oResponseQueue, resp[w])) = resp[w]
            /\ Tail(Append(m_oResponseQueue, resp[w])) = <<>>
        OBVIOUS
      <3>2. BeginSend(w, "add", resp[w]) /\ resp' = resp
        BY <2>3, <3>1 DEF AddResponse
      <3> QED BY <3>2 DEF BeginSend
    <2>4. CASE SentResponse(w)
      BY <2>4 DEF SentResponse
    <2>5. CASE SendStep(w)
      BY <2>5 DEF SendStep, SendHeader, SendHeaderFails, SendBody, SwitchToRaw,
                  OnConnect, SendGeneric, EndSend
    <2> QED BY <2>1, <2>2, <2>3, <2>4, <2>5 DEF WorkerStep
  <1>3. CASE ClientCloses \/ TimePasses \/ Gone \/ UNCHANGED vars
    BY <1>3 DEF ClientCloses, TimePasses, Gone, vars, Serving, IsHttp
  <1> QED BY <1>1, <1>2, <1>3 DEF Next

\* ClearIdleConnections never closes a connection with a request queued or in
\* service, whatever errors have upset the counters before: after an error the
\* connection is no longer read from, and is not looked at.
THEOREM IdleCloseCorrect == Spec => IdleCloseSparesPending
  <1>1. Init => IdleInv
    BY WorkersAssumption DEF Init, IdleInv, Senders
  <1>2. ConnInv /\ IdleInv /\ [Next]_vars => IdleInv'
    BY NextIdle
  <1>3. ConnInv /\ IdleInv
        => [CloseIdle /\ m_bDoneReading' # m_bDoneReading
                => InService = 0 /\ m_oHttpRequestList = <<>>]_vars
    BY NoneInService DEF IdleInv, CloseIdle, Go, flags
  <1> QED BY <1>1, <1>2, <1>3, ConnAlways, PTL DEF Spec, IdleCloseSparesPending

-----------------------------------------------------------------------------
(* Deletion, when no error occurs *)

\* Nothing is refused: no read error is possible, and no response switches the
\* connection to raw mode while it is still being parsed.
CleanInv ==
    /\ errors = 0 /\ ~reused
    /\ pc[Acceptor] \notin {"refuse", "refused"} \cup SendLabels
    /\ \A t \in Senders : resp[t].kind # "switch"
    /\ ~SwitchSent

\* A worker that sends sends no 101 and no error.
LEMMA SendClean ==
    ASSUME ConnInv, CleanInv, NEW w \in Workers, SendStep(w)
    PROVE  CleanInv'
  <1> USE WorkersAssumption
      DEF CleanInv, ConnInv, ThreadInv, Senders, Go, Move, Return, queues, history
  <1>0. wire' = wire => ~SwitchSent'
    BY DEF SwitchSent
  <1>1. CASE SendHeader(w)
    <2>1. ~SwitchSent'
      <3>1. wire \in Seq(Response) /\ resp[w] \in Response
        BY DEF DataInv
      <3>2. wire' = Append(wire, resp[w])
        BY <1>1 DEF SendHeader
      <3>3. \A i \in DOMAIN wire' :
                wire'[i] = resp[w] \/ (i \in DOMAIN wire /\ wire'[i] = wire[i])
        BY <3>1, <3>2
      <3> QED BY <3>3 DEF SwitchSent
    <2> QED BY <1>1, <2>1 DEF SendHeader
  <1>2. CASE SendHeaderFails(w) \/ SendBody(w) \/ SwitchToRaw(w) \/ OnConnect(w)
    BY <1>2, <1>0 DEF SendHeaderFails, SendBody, SwitchToRaw, OnConnect
  <1>3. CASE SendGeneric(w)
    BY <1>3, <1>0 DEF SendGeneric
  <1>4. CASE EndSend(w)
    BY <1>4, <1>0 DEF EndSend, CountResponse
  <1> QED BY <1>1, <1>2, <1>3, <1>4 DEF SendStep

\* Without reading errors and handlers that switch there is never an error
\* response, nor a connection in raw mode.
LEMMA NextClean ==
    ASSUME ConnInv, CleanInv, [Next]_vars, ReadErrors = {}, "switch" \notin Kinds
    PROVE  CleanInv'
  <1> USE WorkersAssumption
      DEF CleanInv, ConnInv, ThreadInv, Senders, Go, Move, Return, DoneReading, queues,
          history
  <1>0. wire' = wire => ~SwitchSent'
    BY DEF SwitchSent
  <1>1. ASSUME NEW w \in Workers, WorkerStep(w) \/ AddGenericResponse(w)
        PROVE  CleanInv'
    <2>1. CASE GetNextRequest(w)
      BY <2>1, <1>0 DEF GetNextRequest, None
    <2>2. CASE RouteRequest(w)
      <3>1. PICK k \in Kinds : resp' = [resp EXCEPT ![w].kind = k]
        BY <2>2 DEF RouteRequest
      <3>2. \A t \in Senders : resp'[t].kind # "switch"
        BY <3>1 DEF Response
      <3> QED BY <2>2, <3>2, <1>0 DEF RouteRequest
    <2>3. CASE AddGenericResponse(w)
      BY <2>3, <1>0 DEF AddGenericResponse
    <2>4. CASE AddResponse(w)
      <3>1. Head(Append(m_oResponseQueue, resp[w])) = resp[w]
        OBVIOUS
      <3>2. BeginSend(w, "add", resp[w]) /\ resp' = resp
        BY <2>4, <3>1 DEF AddResponse
      <3> QED BY <2>4, <3>2, <1>0 DEF AddResponse, BeginSend, CountResponse
    <2>5. CASE SentResponse(w)
      BY <2>5, <1>0 DEF SentResponse, None
    <2>6. CASE SendStep(w)
      BY <2>6, SendClean
    <2> QED BY <1>1, <2>1, <2>2, <2>3, <2>4, <2>5, <2>6 DEF WorkerStep
  <1>2. CASE AcceptorStep
    <2>1. /\ ~ReadTooBig /\ ~ReadRawEarly /\ ~Refuse /\ ~Refused
          /\ \A n \in 0..MaxRequests : ~ReadInvalid(n) /\ ~ReadNoResource(n)
      BY DEF ReadTooBig, ReadRawEarly, Refuse, Refused, BeginSend, ReadInvalid,
             ReadNoResource
    <2>2. ~SendStep(Acceptor)
      BY DEF SendStep, SendHeader, SendHeaderFails, SendBody, SwitchToRaw, OnConnect,
             SendGeneric, EndSend
    <2>3. CASE Select
      BY <2>3, <1>0 DEF Select
    <2>6. CASE NothingToRead \/ ReadEnd
      BY <2>6, <1>0 DEF NothingToRead, ReadEnd
    <2>7. CASE ReadRaw
      BY <2>7, <1>0 DEF ReadRaw
    <2>4. ASSUME NEW n \in 0..MaxRequests, ReadRequests(n)
          PROVE  CleanInv'
      BY <2>4, <1>0 DEF ReadRequests
    <2>5. CASE CheckIdle \/ CloseIdle
      BY <2>5, <1>0 DEF CheckIdle, CloseIdle
    <2>8. CASE KeepConnection \/ RemoveConnection
      BY <2>8, <1>0 DEF KeepConnection, RemoveConnection
    <2> QED BY <1>2, <2>1, <2>2, <2>3, <2>4, <2>5, <2>6, <2>7, <2>8 DEF AcceptorStep
  <1>3. CASE ClientCloses \/ TimePasses \/ Gone \/ UNCHANGED vars
    BY <1>3, <1>0 DEF ClientCloses, TimePasses, Gone, vars
  <1> QED BY <1>1, <1>2, <1>3 DEF Next

\* A deleted connection does nothing, and only RemoveConnection deletes it.
LEMMA OnlyRemoveDeletes ==
    ASSUME DataInv, [Next]_vars, ~exists'
    PROVE  UNCHANGED vars \/ RemoveConnection
  <1> USE DEF DataInv, Go, Move, DoneReading
  <1>1. ASSUME NEW w \in Workers, WorkerStep(w) \/ AddGenericResponse(w)
        PROVE  FALSE
    BY <1>1 DEF WorkerStep, GetNextRequest, RouteRequest, AddGenericResponse, AddResponse,
        SentResponse, BeginSend, SendStep, SendHeader, SendHeaderFails, SendBody,
        SwitchToRaw, OnConnect, SendGeneric, EndSend
  <1>2. CASE AcceptorStep
    <2>1. ~(Select \/ NothingToRead \/ ReadTooBig \/ ReadEnd)
      BY DEF Select, NothingToRead, ReadTooBig, ReadEnd
    <2>4. ~(ReadRaw \/ ReadRawEarly \/ Refused)
      BY DEF ReadRaw, ReadRawEarly, Refused
    <2>5. ~Refuse
      BY DEF Refuse, BeginSend
    <2>2. \A n \in 0..MaxRequests :
                ~(ReadRequests(n) \/ ReadInvalid(n) \/ ReadNoResource(n))
      BY DEF ReadRequests, ReadInvalid, ReadNoResource
    <2>3. ~(CheckIdle \/ CloseIdle \/ KeepConnection)
      BY DEF CheckIdle, CloseIdle, KeepConnection
    <2>6. ~SendStep(Acceptor)
      BY DEF SendStep, SendHeader, SendHeaderFails, SendBody, SwitchToRaw, OnConnect,
             SendGeneric, EndSend
    <2> QED BY <1>2, <2>1, <2>2, <2>3, <2>4, <2>5, <2>6 DEF AcceptorStep
  <1>3. ~ClientCloses /\ ~TimePasses
    BY DEF ClientCloses, TimePasses
  <1> QED BY <1>1, <1>2, <1>3 DEF Next, Gone

\* RemoveEHSConnection deletes a connection only when all its requests have been
\* answered, as long as nothing makes the accepting thread send an error
\* response; CheckDone's comparison of two counters is enough for that.
THEOREM DeletedCorrect ==
    ASSUME ReadErrors = {}, "switch" \notin Kinds
    PROVE  Spec => []DeletedOnlyWhenAnswered
  <1> DEFINE Inv == CleanInv /\ DeletedOnlyWhenAnswered
  <1>1. Init => Inv
    BY WorkersAssumption DEF Init, CleanInv, DeletedOnlyWhenAnswered, Senders, None, SwitchSent
  <1>2. ConnInv /\ Inv /\ [Next]_vars => Inv'
    <2> SUFFICES ASSUME ConnInv, Inv, [Next]_vars, ~exists'
                 PROVE  InService' = 0 /\ m_oHttpRequestList' = <<>>
      BY NextClean DEF DeletedOnlyWhenAnswered
    <2>1. CASE UNCHANGED vars
      <3>1. UNCHANGED <<exists, pc, resp, m_oHttpRequestList>>
        BY <2>1 DEF vars, queues
      <3>2. InService' = InService
        BY <3>1, SameService DEF Serving, IsHttp
      <3> QED BY <3>1, <3>2 DEF DeletedOnlyWhenAnswered
    <2>2. CASE RemoveConnection
      <3>1. AcceptorStep
        BY <2>2 DEF AcceptorStep
      <3>2. InService' = InService
        BY <3>1, AcceptorKeepsService DEF ConnInv
      <3>3. m_nRequests - 1 <= m_nResponses /\ m_oHttpRequestList' = m_oHttpRequestList
        BY <2>2 DEF RemoveConnection, Finished, queues
      <3>4. /\ m_oHttpRequestList \in Seq(1..MaxRequests)
            /\ Len(m_oHttpRequestList) \in Nat
        BY DEF ConnInv, CountInv
      <3>5. InService = 0 /\ Len(m_oHttpRequestList) = 0
        BY <3>3, <3>4, ActiveFinite, BoundsAssumption
        DEF ConnInv, CountInv, CountersAgree, Completed, CleanInv
      <3>6. m_oHttpRequestList = <<>>
        BY <3>4, <3>5
      <3> QED BY <3>2, <3>3, <3>5, <3>6
    <2> QED BY <2>1, <2>2, OnlyRemoveDeletes DEF ConnInv
  <1> QED BY <1>1, <1>2, ConnAlways, PTL DEF Spec


-----------------------------------------------------------------------------
(* The order of the responses, when one thread handles requests *)

\* Requests that have been taken out of the list.
Taken == Completed - Len(m_oHttpRequestList)

\* The list holds the requests that follow the ones taken, in order; a request
\* in hand is younger than every one whose header went out.
OrderInv ==
    /\ \A i \in DOMAIN m_oHttpRequestList : m_oHttpRequestList[i] = Taken + i
    /\ \A i \in DOMAIN wire : wire[i].id > 0 => wire[i].id <= Taken
    /\ resp[Acceptor].id = 0
    /\ \A w \in Workers : pc[w] \in {"handle", "add", "head"} /\ resp[w].id > 0 =>
            /\ resp[w].id <= Taken
            /\ \A i \in DOMAIN wire : wire[i].id < resp[w].id
    /\ ResponsesInOrder

\* Types of what OrderInv is about.
LEMMA OrderTypes ==
    ASSUME ConnInv
    PROVE  /\ Completed \in Nat /\ Taken \in Int
           /\ m_oHttpRequestList \in Seq(1..MaxRequests) /\ Len(m_oHttpRequestList) \in Nat
           /\ DOMAIN m_oHttpRequestList = 1..Len(m_oHttpRequestList)
           /\ wire \in Seq(Response) /\ Len(wire) \in Nat /\ DOMAIN wire = 1..Len(wire)
           /\ \A i \in DOMAIN wire : wire[i].id \in Nat
           /\ \A t \in Senders : resp[t] \in Response /\ resp[t].id \in Nat
  <1>1. /\ m_oHttpRequestList \in Seq(1..MaxRequests) /\ m_nRequests \in 0..(MaxRequests + 1)
        /\ wire \in Seq(Response) /\ resp \in [Senders -> Response] /\ MaxRequests \in Nat
    BY BoundsAssumption DEF ConnInv, CountInv, DataInv, ThreadInv
  <1>2. Completed \in Nat
    BY <1>1 DEF Completed
  <1>3. /\ Len(m_oHttpRequestList) \in Nat
        /\ DOMAIN m_oHttpRequestList = 1..Len(m_oHttpRequestList)
        /\ Len(wire) \in Nat /\ DOMAIN wire = 1..Len(wire)
    BY <1>1, LenProperties
  <1>4. \A r \in Response : r.id \in Nat
    BY <1>1 DEF Response
  <1>5. \A i \in DOMAIN wire : wire[i] \in Response
    BY <1>1, <1>3, ElementOfSeq
  <1>6. Taken \in Int
    BY <1>2, <1>3 DEF Taken
  <1> QED BY <1>1, <1>2, <1>3, <1>4, <1>5, <1>6

\* Steps that neither send a header nor take or complete a request.
LEMMA OrderUntouched ==
    ASSUME OrderInv, UNCHANGED <<wire, m_oHttpRequestList, Taken>>, resp'[Acceptor].id = 0,
           \A w \in Workers : pc'[w] \in {"handle", "add", "head"} /\ resp'[w].id > 0 =>
                pc[w] \in {"handle", "add", "head"} /\ resp'[w].id = resp[w].id
    PROVE  OrderInv'
  BY Zenon DEF OrderInv, ResponsesInOrder

\* n requests that follow the ones already completed join the list.
LEMMA ListInOrder ==
    ASSUME ConnInv, OrderInv, NEW n \in Nat, ~reused,
           m_oHttpRequestList' = m_oHttpRequestList \o
                [i \in 1..n |-> (IF m_nRequests = 0 THEN 1 ELSE m_nRequests) + i - 1],
           Completed' = Completed + n, n <= Budget,
           UNCHANGED wire, UNCHANGED resp, \A w \in Workers : pc'[w] = pc[w]
    PROVE  OrderInv'
  <1> DEFINE first == IF m_nRequests = 0 THEN 1 ELSE m_nRequests
             new == [i \in 1..n |-> first + i - 1]
             l == Len(m_oHttpRequestList)
  <1>1. /\ first \in 1..(MaxRequests + 1) /\ first = Completed + 1
        /\ n \in 0..(MaxRequests + 1 - first) /\ MaxRequests \in Nat
    <2>1. m_nRequests \in 0..(MaxRequests + 1) /\ MaxRequests \in Nat
      BY BoundsAssumption DEF ConnInv, CountInv
    <2> QED BY <2>1 DEF Completed, Budget
  <1>2. m_oHttpRequestList' = m_oHttpRequestList \o new
    BY Zenon
  <1> HIDE DEF first
  <1>3. \A i \in 1..n : new[i] = Completed + i /\ new[i] \in 1..MaxRequests
    <2>1. Completed \in Nat
      BY OrderTypes
    <2>2. \A i \in 1..n : first + i - 1 = Completed + i /\ Completed + i \in 1..MaxRequests
      BY <1>1, <2>1
    <2> QED BY <2>2, Zenon
  <1>4. new \in Seq(1..MaxRequests) /\ Len(new) = n
    <2>1. \A i \in 1..n : first + i - 1 \in 1..MaxRequests
      BY <1>1
    <2> QED BY <2>1
  <1> HIDE DEF new
  <1>5. /\ m_oHttpRequestList \o new \in Seq(1..MaxRequests)
        /\ Len(m_oHttpRequestList \o new) = l + n
        /\ \A i \in 1..(l + n) : (m_oHttpRequestList \o new)[i] =
                IF i <= l THEN m_oHttpRequestList[i] ELSE new[i - l]
    BY <1>4, OrderTypes, ConcatProperties, Zenon
  <1>6. Taken' = Taken
    <2>1. Len(m_oHttpRequestList') = l + n /\ Completed \in Nat /\ l \in Nat
      BY <1>2, <1>5, OrderTypes
    <2> QED BY <2>1 DEF Taken
  <1>7. \A i \in DOMAIN m_oHttpRequestList' : m_oHttpRequestList'[i] = Taken' + i
    <2>1. DOMAIN m_oHttpRequestList' = 1..(l + n)
      BY <1>2, <1>5, LenProperties
    <2> SUFFICES ASSUME NEW i \in 1..(l + n) PROVE m_oHttpRequestList'[i] = Taken' + i
      BY <2>1, Zenon
    <2>2. Completed \in Nat /\ l \in Nat /\ Taken = Completed - l /\ DOMAIN m_oHttpRequestList = 1..l
      BY OrderTypes DEF Taken
    <2>3. CASE i <= l
      <3>1. i \in 1..l /\ m_oHttpRequestList'[i] = m_oHttpRequestList[i]
        BY <1>2, <1>5, <2>2, <2>3
      <3> QED BY <1>6, <2>2, <3>1 DEF OrderInv
    <2>4. CASE ~(i <= l)
      <3>0. i - l \in 1..n
        BY <2>2, <2>4
      <3>1. m_oHttpRequestList'[i] = new[i - l]
        BY <1>2, <1>5, <2>4, Zenon
      <3>2. new[i - l] = Completed + (i - l)
        BY <1>3, <3>0
      <3> QED BY <1>6, <2>2, <3>1, <3>2
    <2> QED BY <2>3, <2>4
  <1> QED BY <1>6, <1>7, Zenon DEF OrderInv, ResponsesInOrder


\* Taken does not depend on anything but the counter of requests and the list.
LEMMA TakenUnchanged ==
    ASSUME UNCHANGED <<m_nRequests, reused, m_oHttpRequestList>>
    PROVE  Taken' = Taken /\ m_oHttpRequestList' = m_oHttpRequestList
  BY DEF Taken, Completed

\* A header goes out: it is that of the youngest request, or of no request.
LEMMA HeaderInOrder ==
    ASSUME ConnInv, OrderInv, \A v, w \in Workers : v = w, NEW t \in Senders, SendHeader(t)
    PROVE  OrderInv'
  <1>1. /\ pc[t] = "head" /\ pc'[t] \in {"raw", "count", "body"}
        /\ \A s \in Senders \ {t} : pc'[s] = pc[s]
        /\ wire' = Append(wire, resp[t]) /\ resp' = resp
        /\ UNCHANGED <<m_nRequests, reused, m_oHttpRequestList>>
    BY DEF SendHeader, Go, ConnInv, ThreadInv, counters, queues
  <1>2. Taken' = Taken
    BY <1>1, TakenUnchanged
  <1> DEFINE k == Len(wire)
  <1>3. /\ DOMAIN wire' = 1..(k + 1) /\ DOMAIN wire = 1..k /\ k \in Nat
        /\ \A i \in 1..k : wire'[i] = wire[i]
        /\ wire'[k + 1] = resp[t]
    <2>1. wire \in Seq(Response) /\ resp[t] \in Response /\ k \in Nat
      BY OrderTypes
    <2>2. /\ Append(wire, resp[t]) \in Seq(Response) /\ Len(Append(wire, resp[t])) = k + 1
          /\ \A i \in 1..k : Append(wire, resp[t])[i] = wire[i]
          /\ Append(wire, resp[t])[k + 1] = resp[t]
      BY <2>1, AppendProperties
    <2> QED BY <1>1, <2>1, <2>2, LenProperties
  <1>4. /\ resp[t].id \in Nat
        /\ resp[t].id > 0 => resp[t].id <= Taken /\ \A i \in 1..k : wire[i].id < resp[t].id
    BY <1>1, <1>3, OrderTypes DEF OrderInv, Senders
  <1>5. \A i \in 1..k : wire[i].id \in Nat /\ (wire[i].id > 0 => wire[i].id <= Taken)
    BY <1>3, OrderTypes DEF OrderInv
  <1> HIDE DEF k
  <1>6. \A i \in 1..(k + 1) : i \in 1..k \/ i = k + 1
    BY <1>3
  <1>7. \A i \in DOMAIN wire' : wire'[i].id > 0 => wire'[i].id <= Taken'
    BY <1>2, <1>3, <1>4, <1>5, <1>6, Zenon
  <1>8. \A w \in Workers : pc'[w] \in {"handle", "add", "head"} /\ resp'[w].id > 0 =>
            /\ resp'[w].id <= Taken'
            /\ \A i \in DOMAIN wire' : wire'[i].id < resp'[w].id
    <2> SUFFICES ASSUME NEW w \in Workers, pc'[w] \in {"handle", "add", "head"}, resp[w].id > 0
                 PROVE  /\ resp[w].id <= Taken
                        /\ \A i \in DOMAIN wire' : wire'[i].id < resp[w].id
      BY <1>1, <1>2, Zenon
    <2>1. w # t
      BY <1>1
    <2>2. t = Acceptor
      BY <2>1, Zenon DEF Senders
    <2>3. resp[t].id = 0
      BY <2>2 DEF OrderInv
    <2>4. pc[w] \in {"handle", "add", "head"}
      BY <1>1, <2>1 DEF Senders
    <2>5. resp[w].id <= Taken /\ \A i \in 1..k : wire[i].id < resp[w].id
      BY <1>3, <2>4, Zenon DEF OrderInv
    <2>6. \A i \in DOMAIN wire' : wire'[i].id < resp[w].id
      <3>1. 0 < resp[w].id
        <4>1. resp[w].id \in Nat
          BY OrderTypes DEF Senders
        <4> QED BY <4>1
      <3> QED BY <1>3, <1>6, <2>3, <2>5, <3>1, Zenon
    <2> QED BY <2>5, <2>6
  <1>9. ResponsesInOrder'
    <2> SUFFICES ASSUME NEW i \in 1..(k + 1), NEW j \in 1..(k + 1),
                        i < j, wire'[i].id > 0, wire'[j].id > 0
                 PROVE  wire'[i].id < wire'[j].id
      BY <1>3, Zenon DEF ResponsesInOrder
    <2>1. i \in 1..k
      BY <1>3
    <2>2. CASE j \in 1..k
      BY <1>3, <2>1, <2>2, Zenon DEF OrderInv, ResponsesInOrder
    <2>3. CASE j = k + 1
      BY <1>3, <1>4, <2>1, <2>3, Zenon
    <2> QED BY <1>6, <2>2, <2>3
  <1>10. \A i \in DOMAIN m_oHttpRequestList' : m_oHttpRequestList'[i] = Taken' + i
    BY <1>1, <1>2, Zenon DEF OrderInv
  <1>11. resp'[Acceptor].id = 0
    BY <1>1, Zenon DEF OrderInv
  <1> QED BY <1>7, <1>8, <1>9, <1>10, <1>11, Zenon DEF OrderInv

\* A worker takes the request that follows.
LEMMA TakeInOrder ==
    ASSUME ConnInv, OrderInv, \A v, w \in Workers : v = w, NEW w \in Workers, GetNextRequest(w)
    PROVE  OrderInv'
  <1> DEFINE list == m_oHttpRequestList
             l == Len(list)
  <1>1. /\ list # <<>> /\ list' = Tail(list)
        /\ pc'[Acceptor] = pc[Acceptor] /\ resp'[Acceptor] = resp[Acceptor]
        /\ resp'[w].id = Head(list)
        /\ UNCHANGED <<m_nRequests, reused, wire>>
    BY WorkersAssumption DEF GetNextRequest, Go, ConnInv, ThreadInv, Senders, Response, None, history
  <1>2. /\ list \in Seq(1..MaxRequests) /\ l \in Nat /\ l > 0 /\ DOMAIN list = 1..l
        /\ Completed \in Nat /\ Taken = Completed - l
    <2>1. list \in Seq(1..MaxRequests) /\ l \in Nat /\ DOMAIN list = 1..l /\ Completed \in Nat
      BY OrderTypes
    <2>2. l > 0
      BY <1>1, <2>1, EmptySeq
    <2> QED BY <2>1, <2>2 DEF Taken
  <1>3. /\ Len(list') = l - 1 /\ DOMAIN list' = 1..(l - 1)
        /\ \A i \in 1..(l - 1) : list'[i] = list[i + 1]
    <2>1. /\ Tail(list) \in Seq(1..MaxRequests) /\ Len(Tail(list)) = l - 1
          /\ \A i \in 1..(l - 1) : Tail(list)[i] = list[i + 1]
      BY <1>1, <1>2, HeadTailProperties
    <2> QED BY <1>1, <2>1, LenProperties
  <1>4. Completed' = Completed
    BY <1>1 DEF Completed
  <1>5. Taken' = Taken + 1
    <2>1. Taken' = Completed - (l - 1)
      BY <1>3, <1>4 DEF Taken
    <2> QED BY <1>2, <2>1
  <1>6. Head(list) = list[1] /\ list[1] = Taken + 1 /\ list[1] \in 1..MaxRequests
    <2>1. 1 \in 1..l
      BY <1>2
    <2>2. Head(list) = list[1]
      OBVIOUS
    <2>3. list[1] = Taken + 1
      BY <1>2, <2>1 DEF OrderInv
    <2>4. list[1] \in 1..MaxRequests
      BY <1>2, <2>1, ElementOfSeq
    <2> QED BY <2>2, <2>3, <2>4
  <1>7. \A i \in DOMAIN list' : list'[i] = Taken' + i
    <2> SUFFICES ASSUME NEW i \in 1..(l - 1) PROVE list'[i] = Taken' + i
      BY <1>3, Zenon
    <2>1. i + 1 \in 1..l /\ list'[i] = list[i + 1]
      BY <1>2, <1>3
    <2>2. list[i + 1] = Taken + (i + 1)
      BY <1>2, <2>1 DEF OrderInv
    <2> QED BY <1>2, <1>5, <2>1, <2>2
  <1> HIDE DEF l, list
  <1>8. Taken \in Int /\ \A i \in DOMAIN wire : wire[i].id \in Nat
    BY OrderTypes
  <1>9. \A i \in DOMAIN wire' : wire'[i].id > 0 => wire'[i].id <= Taken'
    BY <1>1, <1>5, <1>8 DEF OrderInv
  <1>10. \A v \in Workers : resp'[v].id = Taken'
    BY <1>1, <1>5, <1>6
  <1>11. \A i \in DOMAIN wire' : wire'[i].id < Taken'
    <2>1. Taken' > 0 /\ Taken' = Taken + 1
      BY <1>5, <1>6, <1>8
    <2>2. \A i \in DOMAIN wire : wire[i].id > 0 => wire[i].id <= Taken
      BY DEF OrderInv
    <2> QED BY <1>1, <1>8, <2>1, <2>2
  <1>12. Taken' <= Taken'
    BY <1>5, <1>8
  <1>13. resp'[Acceptor].id = 0 /\ ResponsesInOrder'
    BY <1>1 DEF OrderInv, ResponsesInOrder
  <1> QED BY <1>7, <1>9, <1>10, <1>11, <1>12, <1>13, Zenon DEF OrderInv, list


\* The other steps of a worker keep the number of the request in its hands, or
\* drop it.
LEMMA WorkerInOrder ==
    ASSUME ConnInv, OrderInv, \A v, w \in Workers : v = w, NEW w \in Workers,
           WorkerStep(w) \/ AddGenericResponse(w)
    PROVE  OrderInv'
  <1>0. /\ w \in Senders /\ Acceptor \in Senders /\ w # Acceptor
        /\ \A v \in Workers : v = w
        /\ pc \in [Senders -> WorkerLabels \cup SendLabels \cup AcceptorLabels]
        /\ resp \in [Senders -> Response] /\ m_oResponseQueue = <<>>
    BY WorkersAssumption DEF Senders, ConnInv, ThreadInv
  <1>1. ASSUME UNCHANGED <<wire, m_nRequests, reused, m_oHttpRequestList>>,
               resp'[Acceptor] = resp[Acceptor],
               pc'[w] \in {"handle", "add", "head"} /\ resp'[w].id > 0 =>
                    pc[w] \in {"handle", "add", "head"} /\ resp'[w].id = resp[w].id
        PROVE  OrderInv'
    <2>1. resp'[Acceptor].id = 0
      BY <1>1, Zenon DEF OrderInv
    <2>2. UNCHANGED <<wire, m_oHttpRequestList, Taken>>
      BY <1>1, TakenUnchanged, Zenon
    <2> QED BY <1>0, <1>1, <2>1, <2>2, OrderUntouched, Zenon
  <1>2. CASE GetNextRequest(w)
    BY <1>2, TakeInOrder
  <1>3. CASE RouteRequest(w)
    <2>1. PICK k \in Kinds : resp' = [resp EXCEPT ![w].kind = k]
      BY <1>3 DEF RouteRequest
    <2>2. resp'[w].id = resp[w].id /\ resp'[Acceptor] = resp[Acceptor]
      BY <1>0, <2>1 DEF Response
    <2>3. pc[w] = "handle" /\ UNCHANGED <<wire, m_nRequests, reused, m_oHttpRequestList>>
      BY <1>3 DEF RouteRequest, Go, counters, queues, history
    <2> QED BY <1>1, <2>2, <2>3
  <1>4. CASE AddGenericResponse(w)
    <2>1. PICK k \in GenericKinds : resp' = [resp EXCEPT ![w] = [id |-> 0, kind |-> k]]
      BY <1>4 DEF AddGenericResponse
    <2>2. resp'[w].id = 0 /\ resp'[Acceptor] = resp[Acceptor]
      BY <1>0, <2>1
    <2>3. UNCHANGED <<wire, m_nRequests, reused, m_oHttpRequestList>>
      BY <1>4 DEF AddGenericResponse, Go, counters, queues, history
    <2> QED BY <1>1, <2>2, <2>3
  <1>5. CASE AddResponse(w)
    <2>1. Head(Append(m_oResponseQueue, resp[w])) = resp[w]
      BY <1>0
    <2>2. resp' = [resp EXCEPT ![w] = resp[w]]
      BY <1>5, <2>1 DEF AddResponse
    <2>3. resp'[w] = resp[w] /\ resp'[Acceptor] = resp[Acceptor]
      BY <1>0, <2>2
    <2>4. pc[w] = "add" /\ UNCHANGED <<wire, m_nRequests, reused, m_oHttpRequestList>>
      BY <1>5 DEF AddResponse, BeginSend, CountResponse, Go, counters, queues
    <2> QED BY <1>1, <2>3, <2>4
  <1>6. CASE SentResponse(w)
    <2>1. resp' = [resp EXCEPT ![w] = None]
      BY <1>0, <1>6 DEF SentResponse
    <2>2. resp'[w].id = 0 /\ resp'[Acceptor] = resp[Acceptor]
      BY <1>0, <2>1 DEF None
    <2>3. UNCHANGED <<wire, m_nRequests, reused, m_oHttpRequestList>>
      BY <1>0, <1>6 DEF SentResponse, counters
    <2> QED BY <1>1, <2>2, <2>3
  <1>7. CASE SendHeader(w)
    BY <1>0, <1>7, HeaderInOrder
  <1>8. CASE SendStep(w) /\ ~SendHeader(w)
    <2>1. /\ UNCHANGED <<wire, m_nRequests, reused, m_oHttpRequestList>>
          /\ resp' = resp
          /\ pc'[w] \notin {"handle", "add", "head"}
      BY <1>0, <1>8 DEF SendStep, SendHeaderFails, SendBody, SwitchToRaw, OnConnect,
         SendGeneric, EndSend, CountResponse, Return, Go, Move, counters, queues, history
    <2> QED BY <1>1, <2>1
  <1> QED BY <1>2, <1>3, <1>4, <1>5, <1>6, <1>7, <1>8 DEF WorkerStep

\* Reading appends requests in order; an error response belongs to no request.
LEMMA AcceptorInOrder ==
    ASSUME ConnInv, OrderInv, \A v, w \in Workers : v = w, AcceptorStep
    PROVE  OrderInv'
  <1>0. /\ Acceptor \in Senders /\ \A w \in Workers : w \in Senders /\ w # Acceptor
        /\ pc \in [Senders -> WorkerLabels \cup SendLabels \cup AcceptorLabels]
        /\ resp \in [Senders -> Response] /\ resp[Acceptor].id = 0
    BY WorkersAssumption DEF Senders, ConnInv, ThreadInv, OrderInv
  <1>1. ASSUME UNCHANGED <<wire, m_nRequests, reused, m_oHttpRequestList>>,
               resp'[Acceptor].id = 0,
               \A w \in Workers : pc'[w] = pc[w] /\ resp'[w] = resp[w]
        PROVE  OrderInv'
    <2>2. UNCHANGED <<wire, m_oHttpRequestList, Taken>>
      BY <1>1, TakenUnchanged, Zenon
    <2> QED BY <1>1, <2>2, OrderUntouched, Zenon
  <1>2. CASE \/ Select \/ NothingToRead \/ ReadTooBig \/ ReadEnd \/ ReadRaw
             \/ CheckIdle \/ CloseIdle \/ KeepConnection \/ RemoveConnection
    <2>1. /\ UNCHANGED <<wire, m_nRequests, reused, m_oHttpRequestList>>
          /\ resp' = resp
          /\ \A w \in Workers : pc'[w] = pc[w]
      BY <1>0, <1>2 DEF Select, NothingToRead, ReadTooBig, ReadEnd, ReadRaw, CheckIdle,
         CloseIdle, KeepConnection, RemoveConnection, Go, Move, counters, queues, history
    <2> QED BY <1>0, <1>1, <2>1
  <1>3. CASE Refuse
    <2>1. /\ resp' = [resp EXCEPT ![Acceptor] = [id |-> 0, kind |-> "body"]]
          /\ UNCHANGED <<wire, m_nRequests, reused, m_oHttpRequestList>>
          /\ \A w \in Workers : pc'[w] = pc[w]
      BY <1>0, <1>3 DEF Refuse, BeginSend, CountResponse, Go, counters, queues
    <2>2. resp'[Acceptor].id = 0 /\ \A w \in Workers : resp'[w] = resp[w]
      BY <1>0, <2>1
    <2> QED BY <1>1, <2>1, <2>2
  <1>4. CASE Refused
    <2>1. /\ resp' = [resp EXCEPT ![Acceptor] = None]
          /\ UNCHANGED <<wire, m_nRequests, reused, m_oHttpRequestList>>
          /\ \A w \in Workers : pc'[w] = pc[w]
      BY <1>0, <1>4 DEF Refused, Go, counters, queues, history
    <2>2. resp'[Acceptor].id = 0 /\ \A w \in Workers : resp'[w] = resp[w]
      BY <1>0, <2>1 DEF None
    <2> QED BY <1>1, <2>1, <2>2
  <1>5. CASE SendHeader(Acceptor)
    BY <1>0, <1>5, HeaderInOrder
  <1>6. CASE SendStep(Acceptor) /\ ~SendHeader(Acceptor)
    <2>1. /\ UNCHANGED <<wire, m_nRequests, reused, m_oHttpRequestList>>
          /\ resp' = resp
          /\ \A w \in Workers : pc'[w] = pc[w]
      BY <1>0, <1>6 DEF SendStep, SendHeaderFails, SendBody, SwitchToRaw, OnConnect,
         SendGeneric, EndSend, CountResponse, Return, Go, Move, counters, queues, history
    <2> QED BY <1>0, <1>1, <2>1
  <1>7. ASSUME NEW n \in 0..MaxRequests,
               \/ ReadRequests(n) \/ ReadInvalid(n) \/ ReadNoResource(n)
               \/ n = 0 /\ ReadRawEarly
        PROVE  OrderInv'
    <2> DEFINE first == IF m_nRequests = 0 THEN 1 ELSE m_nRequests
    <2>0. m_nRequests \in 0..(MaxRequests + 1) /\ n \in Nat /\ MaxRequests \in Nat
      BY BoundsAssumption DEF ConnInv, CountInv
    <2>1. n <= Budget
      BY <1>7, <2>0 DEF ReadRequests, ReadInvalid, ReadNoResource, Budget
    <2>2. m_oHttpRequestList' =
                m_oHttpRequestList \o [i \in 1..n |-> first + i - 1]
      BY <1>7 DEF ReadRequests, ReadInvalid, ReadNoResource, ReadRawEarly, AddBuffer
    <2>3. ~reused
      BY <1>7 DEF ReadRequests, ReadInvalid, ReadNoResource, ReadRawEarly, CanRead, Go,
                  ConnInv, ErrorInv
    <2>4. \/ m_nRequests' = first + n /\ reused' = reused
          \/ m_nRequests' = first + n - 1 /\ n > 0 /\ reused' = TRUE
      BY <1>7 DEF ReadRequests, ReadInvalid, ReadNoResource, ReadRawEarly, AddBuffer
    <2>5. Completed' = Completed + n
      BY <2>0, <2>3, <2>4 DEF Completed
    <2>6. /\ UNCHANGED wire /\ UNCHANGED resp
          /\ \A w \in Workers : pc'[w] = pc[w]
      BY <1>0, <1>7 DEF ReadRequests, ReadInvalid, ReadNoResource, ReadRawEarly, Go, history
    <2> QED BY <2>0, <2>1, <2>2, <2>3, <2>5, <2>6, ListInOrder, Zenon
  <1>8. 0 \in 0..MaxRequests
    BY BoundsAssumption
  <1> QED BY <1>2, <1>3, <1>4, <1>5, <1>6, <1>7, <1>8 DEF AcceptorStep

\* With one thread that handles requests, the responses go out in the order of
\* the requests, as the comment on the "response id for making sure we send
\* responses in the right order" wants: requests join the list and leave it in
\* order, and the next one is not taken before the last one's header is out.
\* Errors, raw mode, disconnects and idle timeouts do not change that.  (With
\* two workers nothing in AddResponse keeps the order.)
THEOREM OneWorkerInOrder ==
    ASSUME \A v, w \in Workers : v = w
    PROVE  Spec => []ResponsesInOrder
  <1>1. Init => OrderInv
    <2> SUFFICES ASSUME Init PROVE OrderInv
      OBVIOUS
    <2>1. DOMAIN m_oHttpRequestList = {} /\ DOMAIN wire = {}
      BY DEF Init
    <2>2. /\ resp[Acceptor].id = 0
          /\ \A w \in Workers : ~(resp[w].id > 0)
      BY DEF Init, None, Senders
    <2> QED BY <2>1, <2>2 DEF OrderInv, ResponsesInOrder
  <1>2. ConnInv /\ OrderInv /\ [Next]_vars => OrderInv'
    <2> SUFFICES ASSUME ConnInv, OrderInv, [Next]_vars PROVE OrderInv'
      OBVIOUS
    <2>1. CASE ClientCloses \/ TimePasses \/ Gone \/ UNCHANGED vars
      <3>1. UNCHANGED <<wire, m_nRequests, reused, m_oHttpRequestList, pc, resp>>
        BY <2>1 DEF ClientCloses, TimePasses, Gone, vars, counters, queues, history
      <3>2. UNCHANGED <<wire, m_oHttpRequestList, Taken>>
        BY <3>1, TakenUnchanged, Zenon
      <3> QED BY <3>1, <3>2, OrderUntouched, Zenon DEF OrderInv
    <2> QED BY <2>1, WorkerInOrder, AcceptorInOrder DEF Next
  <1>3. OrderInv => ResponsesInOrder
    BY DEF OrderInv
  <1> QED BY <1>1, <1>2, <1>3, ConnAlways, PTL DEF Spec
=============================================================================
