---------------------------- MODULE WsGateProofs ----------------------------
(***************************************************************************)
(* The gateway's maps and the connections of EHS agree for every number of *)
(* addresses, workers and connections.  Clients are assumed to keep to     *)
(* HTTP (no request before the one before is answered), and a frame that   *)
(* arrives before raw mode is assumed not to be refused as a request: the  *)
(* hypotheses of the theorems name both, and GateEarly.cfg shows why the   *)
(* second is needed.                                                       *)
(***************************************************************************)
EXTENDS WsGate, FiniteSetTheorems, TLAPS

\* What OnData makes of a frame.
OnData(c) == OnDataMessage(c) \/ OnDataUnsent(c) \/ OnDataClose(c) \/ OnDataThrows(c)

Busy(c) == {w \in Workers : worker[w].pc # "idle" /\ worker[w].at = c}

\* A worker that has a request whose response has not gone out.
Answering(w) == worker[w].pc \notin {"idle", "count", "close"}

\* A connection with a busy worker is not deleted: the counters that CheckDone
\* looks at say that its response is missing.  A request whose handler has thrown
\* stays active although no worker is busy with it.
CountInv ==
    /\ \A w \in Workers : worker[w].pc # "idle" => Valid(w) /\ worker[w].obj # 0
    /\ \A c \in Conns : Live(c) =>
        /\ conn[c].m_nRequests
                = conn[c].m_nResponses + conn[c].queued + conn[c].m_nActiveRequests
        /\ conn[c].m_nRequests <= MaxRequests
        /\ conn[c].m_nActiveRequests >= Cardinality(Busy(c))
    /\ acceptor = "clients" => \A c \in fdset : Live(c)

\* The client of a connection waits for at most one response, and for none once
\* it has been sent a 101.
WaitInv ==
    /\ \A v, w \in Workers :
        Answering(v) /\ Answering(w) /\ worker[v].at = worker[w].at => v = w
    /\ \A w \in Workers : Answering(w) => conn[worker[w].at].queued = 0
    /\ \A c \in Conns : Live(c) =>
        /\ conn[c].queued \in 0..1
        /\ conn[c].queued = 1 => ~conn[c].switched
        /\ conn[c].m_bRawMode => conn[c].switched
    /\ \A w \in Workers :
        /\ worker[w].pc \in {"handle", "plain", "head"} => ~conn[worker[w].at].switched
        /\ worker[w].pc \in {"raw", "hmap", "cmap"} => conn[worker[w].at].switched

\* What OnConnect has done so far for the connection of a worker.
MapInv ==
    /\ EndpointsOwned
    /\ \A c \in Conns : m_cmap[c] # NoEndpoint =>
            m_cmap[c].obj # 0 /\ m_cmap[c].state # "NONE"
    /\ \A w \in Workers :
        /\ worker[w].pc \in {"raw", "hmap", "cmap"} => m_cmap[worker[w].at] = NoEndpoint
        /\ worker[w].pc \in {"hmap", "cmap"} => conn[worker[w].at].m_bRawMode
        /\ worker[w].pc = "cmap" => m_hmap[worker[w].at] = worker[w].handler

-----------------------------------------------------------------------------
(* The workers of a connection *)

\* The workers busy with a connection can be counted.
LEMMA BusyFinite ==
    ASSUME NEW c
    PROVE  IsFiniteSet(Busy(c)) /\ Cardinality(Busy(c)) \in Nat
  <1>1. Busy(c) \subseteq Workers
    BY DEF Busy
  <1>2. IsFiniteSet(Busy(c))
    BY <1>1, GateAssumption, FS_Subset
  <1> QED BY <1>2, FS_CardinalityType

\* A worker is busy: they are at least one.
LEMMA BusyPositive ==
    ASSUME NEW c, NEW w \in Busy(c)
    PROVE  Cardinality(Busy(c)) >= 1
  <1>1. Cardinality(Busy(c)) # 0
    BY BusyFinite, FS_EmptySet
  <1> QED BY <1>1, BusyFinite

\* What the counters say of a connection with a worker.
LEMMA BusyCounted ==
    ASSUME TypeOK, CountInv, NEW w \in Workers, worker[w].pc # "idle"
    PROVE  /\ worker[w].at \in Conns /\ Live(worker[w].at) /\ Valid(w)
           /\ conn[worker[w].at].m_nActiveRequests >= 1
           /\ conn[worker[w].at].m_nResponses < conn[worker[w].at].m_nRequests
  <1> DEFINE c == worker[w].at
  <1>1. c \in Conns /\ Valid(w) /\ Live(c)
    BY DEF TypeOK, Threads, CountInv, Valid, Live
  <1>2. w \in Busy(c)
    BY DEF Busy
  <1>3. /\ conn[c].queued \in Nat /\ conn[c].m_nResponses \in Nat
        /\ conn[c].m_nRequests \in Nat /\ conn[c].m_nActiveRequests \in Nat
    BY <1>1 DEF TypeOK, Connection
  <1>4. conn[c].m_nActiveRequests >= 1
    <2>1. Cardinality(Busy(c)) \in Nat /\ Cardinality(Busy(c)) >= 1
      BY <1>2, BusyPositive, BusyFinite
    <2>2. conn[c].m_nActiveRequests >= Cardinality(Busy(c))
      BY <1>1 DEF CountInv
    <2> QED BY <1>3, <2>1, <2>2
  <1>5. conn[c].m_nResponses < conn[c].m_nRequests
    BY <1>1, <1>3, <1>4 DEF CountInv
  <1> QED BY <1>1, <1>4, <1>5

-----------------------------------------------------------------------------
(* Types *)

\* The gateway starts without connections.
LEMMA InitType == Init => TypeOK
  <1> SUFFICES ASSUME Init PROVE TypeOK
    OBVIOUS
  <1>1. (CHOOSE c \in Conns : TRUE) \in Conns
    BY GateAssumption
  <1>2. NewConnection \in Connection /\ NoEndpoint \in WsEndpoints
    BY GateAssumption DEF NewConnection, Connection, NoEndpoint, WsEndpoints
  <1>3. worker \in [Workers -> Threads]
    BY <1>1, GateAssumption DEF Init, Threads
  <1> QED BY <1>2, <1>3, GateAssumption DEF Init, TypeOK

\* A step of one worker, and a change to the members of one connection.
LEMMA StepType ==
    ASSUME worker \in [Workers -> Threads], NEW w \in Workers, NEW from,
           NEW to \in {"idle", "plain", "head", "raw", "hmap", "cmap", "count", "close"},
           Step(w, from, to)
    PROVE  worker' \in [Workers -> Threads]
  BY DEF Step, Threads

\* Assignments to the members of a connection.
LEMMA MemberType ==
    ASSUME NEW r \in Connection
    PROVE  /\ \A x \in BOOLEAN : /\ [r EXCEPT !.m_bDoneReading = x] \in Connection
                                 /\ [r EXCEPT !.m_bDisconnected = x] \in Connection
           /\ \A n \in Nat : /\ [r EXCEPT !.m_nResponses = n] \in Connection
                             /\ [r EXCEPT !.m_nRequests = n] \in Connection
                             /\ [r EXCEPT !.queued = n] \in Connection
                             /\ [r EXCEPT !.frames = n] \in Connection
           /\ \A n \in 0..MaxRequests :
                    [r EXCEPT !.m_nActiveRequests = n] \in Connection
  BY DEF Connection

\* A frame is counted, and may end the reading.
LEMMA FrameType ==
    ASSUME TypeOK, NEW c \in Conns
    PROVE  /\ [conn EXCEPT ![c].frames = @ + 1] \in [Conns -> Connection]
           /\ [conn EXCEPT ![c].frames = @ + 1, ![c].m_bDoneReading = TRUE]
                    \in [Conns -> Connection]
  <1> USE DEF TypeOK
  <1>1. conn[c] \in Connection /\ conn[c].frames + 1 \in Nat
    BY DEF Connection
  <1>2. [conn[c] EXCEPT !.frames = @ + 1] \in Connection
    BY <1>1, MemberType
  <1>3. [[conn[c] EXCEPT !.frames = @ + 1] EXCEPT !.m_bDoneReading = TRUE] \in Connection
    BY <1>2, MemberType
  <1> QED BY <1>2, <1>3

\* Counting a response needs a request that is active.
LEMMA CountType ==
    ASSUME TypeOK, CountInv, NEW w \in Workers, worker[w].pc # "idle",
           NEW done \in BOOLEAN, Count(worker[w].at, done)
    PROVE  conn' \in [Conns -> Connection]
  <1> DEFINE c == worker[w].at
  <1>1. c \in Conns /\ conn[c].m_nActiveRequests >= 1
    BY BusyCounted
  <1>2. conn[c] \in Connection
    BY <1>1 DEF TypeOK
  <1>3. [conn[c] EXCEPT !.m_nResponses = @ + 1, !.m_nActiveRequests = @ - 1,
                        !.m_bDoneReading = @ \/ done, !.m_bDisconnected = @ /\ ~done]
          \in Connection
    <2>1. ASSUME NEW x \in BOOLEAN, NEW y \in BOOLEAN
          PROVE  [conn[c] EXCEPT !.m_nResponses = @ + 1, !.m_nActiveRequests = @ - 1,
                                 !.m_bDoneReading = x, !.m_bDisconnected = y]
                    \in Connection
      <3> DEFINE r == [conn[c] EXCEPT !.m_nResponses = @ + 1]
                 s == [r EXCEPT !.m_nActiveRequests = @ - 1]
                 t == [s EXCEPT !.m_bDoneReading = x]
      <3>1. /\ conn[c].m_nResponses + 1 \in Nat
            /\ conn[c].m_nActiveRequests - 1 \in 0..MaxRequests
        BY <1>1, <1>2, GateAssumption DEF Connection
      <3>2. r \in Connection
        BY <1>2, <3>1, MemberType
      <3>3. r.m_nActiveRequests = conn[c].m_nActiveRequests
        BY <1>2 DEF Connection
      <3>4. s \in Connection
        BY <3>1, <3>2, <3>3, MemberType
      <3>5. [t EXCEPT !.m_bDisconnected = y] \in Connection
        BY <3>4, MemberType
      <3> QED BY <1>2, <3>5 DEF Connection
    <2>2. /\ (conn[c].m_bDoneReading \/ done) \in BOOLEAN
          /\ (conn[c].m_bDisconnected /\ ~done) \in BOOLEAN
      OBVIOUS
    <2> QED BY <2>1, <2>2
  <1>4. conn' = [conn EXCEPT ![c] =
          [conn[c] EXCEPT !.m_nResponses = @ + 1, !.m_nActiveRequests = @ - 1,
                          !.m_bDoneReading = @ \/ done, !.m_bDisconnected = @ /\ ~done]]
    BY DEF Count
  <1> QED BY <1>3, <1>4 DEF TypeOK

\* The steps of workers are well typed.
LEMMA WorkerType ==
    ASSUME TypeOK, CountInv, NEW w \in Workers, WorkerStep(w)
    PROVE  TypeOK'
  <1> USE GateAssumption DEF TypeOK, maps, server
  <1>1. ASSUME NEW c \in Conns, GetNextRequest(w, c)
        PROVE  TypeOK'
    <2>1. conn[c].m_nActiveRequests + 1 \in 0..MaxRequests /\ conn[c].queued - 1 \in Nat
      BY <1>1 DEF GetNextRequest, CountInv, Connection
    <2>2. conn' \in [Conns -> Connection]
      BY <1>1, <2>1 DEF GetNextRequest, Connection
    <2>3. worker' \in [Workers -> Threads]
      BY <1>1 DEF GetNextRequest, Threads
    <2> QED BY <1>1, <2>2, <2>3 DEF GetNextRequest
  <1>2. CASE HandleRequest(w) \/ HandlerThrows(w)
    BY <1>2, StepType DEF HandleRequest, HandlerThrows, Terminate
  <1>3. CASE SendNothing(w) \/ EndSend(w)
    <2>1. worker[w].pc # "idle" /\ (worker[w].pc = "close") \in BOOLEAN
      BY <1>3 DEF SendNothing, EndSend, Step
    <2>2. conn' \in [Conns -> Connection]
      BY <1>3, <2>1, CountType DEF SendNothing, EndSend
    <2>3. worker' \in [Workers -> Threads]
      BY <1>3, StepType DEF SendNothing, EndSend
    <2> QED BY <1>3, <2>2, <2>3 DEF SendNothing, EndSend
  <1>4. CASE SendPlain(w)
    BY <1>4, StepType DEF SendPlain
  <1>5. CASE SendSwitch(w) \/ SwitchToRaw(w)
    <2>1. worker[w].at \in Conns
      BY DEF Threads
    <2>2. /\ [conn EXCEPT ![worker[w].at].switched = TRUE] \in [Conns -> Connection]
          /\ [conn EXCEPT ![worker[w].at].m_bRawMode = TRUE] \in [Conns -> Connection]
      BY <2>1, ZenonT(60) DEF Connection
    <2>3. conn' \in [Conns -> Connection]
      BY <1>5, <2>2 DEF SendSwitch, SwitchToRaw
    <2> QED BY <1>5, <2>3, StepType DEF SendSwitch, SwitchToRaw
  <1>6. CASE OnConnectHandler(w)
    <2>1. connects + 1 \in Nat
      OBVIOUS
    <2>2. worker' = [worker EXCEPT ![w] =
                        [worker[w] EXCEPT !.pc = "cmap", !.handler = connects + 1]]
      BY <1>6 DEF OnConnectHandler
    <2>3. [worker[w] EXCEPT !.pc = "cmap", !.handler = connects + 1] \in Threads
      BY <2>1 DEF Threads
    <2>4. worker' \in [Workers -> Threads]
      BY <2>2, <2>3
    <2>5. m_hmap' \in [Conns -> Nat] /\ connects' \in Nat
      BY <1>6, <2>1 DEF OnConnectHandler
    <2> QED BY <1>6, <2>4, <2>5 DEF OnConnectHandler
  <1>7. CASE OnConnectEndpoint(w)
    <2>1. m_cmap' \in [Conns -> WsEndpoints]
      BY <1>7 DEF OnConnectEndpoint, Threads, WsEndpoints
    <2> QED BY <1>7, <2>1, StepType DEF OnConnectEndpoint
  <1> QED BY <1>1, <1>2, <1>3, <1>4, <1>5, <1>6, <1>7 DEF WorkerStep

\* The steps of the accepting thread are well typed.
LEMMA AcceptorType ==
    ASSUME TypeOK, CountInv, AcceptorStep \/ AcceptorReads, "refused" \notin EarlyData
    PROVE  TypeOK'
  <1> USE GateAssumption DEF TypeOK, maps, server
  <1>1. CASE Select \/ EndClients \/ EndClear \/ Exit
    BY <1>1 DEF Select, EndClients, EndClear, Exit
  <1>2. ASSUME NEW c \in Conns, CloseIdle(c)
        PROVE  TypeOK'
    <2>1. conn' \in [Conns -> Connection]
      BY <1>2, ZenonT(60) DEF CloseIdle, Connection
    <2> QED BY <1>2, <2>1 DEF CloseIdle
  <1>3. ASSUME NEW c \in Conns, RemoveConnection(c)
        PROVE  TypeOK'
    <2>1. m_cmap' \in [Conns -> WsEndpoints]
      BY <1>3 DEF RemoveConnection, OnDisconnect, NoEndpoint, WsEndpoints
    <2> QED BY <1>3, <2>1 DEF RemoveConnection, OnDisconnect
  <1>4. ASSUME NEW c \in Conns, Accept(c)
        PROVE  TypeOK'
    <2>1. NewConnection \in Connection
      BY DEF NewConnection, Connection
    <2> QED BY <1>4, <2>1 DEF Accept
  <1>5. ASSUME NEW c \in Conns, ReadRequest(c) \/ ReadEarly(c) \/ ReadUnexpected(c)
        PROVE  TypeOK'
    <2>1. conn' \in [Conns -> Connection]
      <3>1. CASE ReadRequest(c)
        <4>1. /\ conn[c].m_nRequests + 1 \in Nat /\ conn[c].queued + 1 \in Nat
          BY DEF Connection
        <4>2. [[conn[c] EXCEPT !.m_nRequests = @ + 1] EXCEPT !.queued = conn[c].queued + 1]
                    \in Connection
          BY <4>1, MemberType
        <4>3. conn' = [conn EXCEPT ![c] =
                [[conn[c] EXCEPT !.m_nRequests = @ + 1] EXCEPT !.queued = conn[c].queued + 1]]
          BY <3>1 DEF ReadRequest, Connection
        <4> QED BY <4>2, <4>3
      <3>2. CASE ReadEarly(c) \/ ReadUnexpected(c)
        <4>1. \/ conn' = [conn EXCEPT ![c].frames = @ + 1]
              \/ conn' = [conn EXCEPT ![c].frames = @ + 1, ![c].m_bDoneReading = TRUE]
          BY <3>2 DEF ReadEarly, ReadUnexpected
        <4>2. /\ [conn EXCEPT ![c].frames = @ + 1] \in [Conns -> Connection]
              /\ [conn EXCEPT ![c].frames = @ + 1, ![c].m_bDoneReading = TRUE]
                    \in [Conns -> Connection]
          BY FrameType
        <4> QED BY <4>1, <4>2, Zenon
      <3> QED BY <1>5, <3>1, <3>2
    <2> QED BY <1>5, <2>1 DEF ReadRequest, ReadEarly, ReadUnexpected, SendsFrame, Reading
  <1>6. ASSUME NEW c \in Conns, OnData(c)
        PROVE  TypeOK'
    <2>1. conn' \in [Conns -> Connection]
      <3>1. \/ conn' = [conn EXCEPT ![c].frames = @ + 1]
            \/ conn' = [conn EXCEPT ![c].frames = @ + 1, ![c].m_bDoneReading = TRUE]
        BY <1>6 DEF OnData, OnDataMessage, OnDataUnsent, OnDataClose, OnDataThrows
      <3>2. /\ [conn EXCEPT ![c].frames = @ + 1] \in [Conns -> Connection]
            /\ [conn EXCEPT ![c].frames = @ + 1, ![c].m_bDoneReading = TRUE]
                    \in [Conns -> Connection]
        BY FrameType
      <3> QED BY <3>1, <3>2, Zenon
    <2>2. /\ m_cmap' \in [Conns -> WsEndpoints]
          /\ UNCHANGED <<object, accepted, m_hmap, connects, worker>>
          /\ fdset' = fdset \ {c}
      <3>1. PICK from, to \in {"OPEN", "CLOSING", "CLOSED"} : Endpoint(c, {from}, to)
        BY <1>6 DEF OnData, OnDataMessage, OnDataUnsent, OnDataClose, OnDataThrows, Endpoint
      <3>2. m_cmap' \in [Conns -> WsEndpoints]
        BY <3>1 DEF Endpoint, WsEndpoints
      <3> QED BY <3>1, <3>2 DEF Endpoint, SendsFrame, Reading
    <2> QED BY <1>6, <2>1, <2>2 DEF OnData, OnDataMessage, OnDataUnsent, OnDataClose,
          OnDataThrows, Terminate
  <1>7. ASSUME NEW c \in Conns, ReadEnd(c)
        PROVE  TypeOK'
    <2>1. conn' \in [Conns -> Connection]
      <3>1. [conn EXCEPT ![c].m_bDoneReading = TRUE, ![c].m_bDisconnected = TRUE]
                \in [Conns -> Connection]
        <4>1. conn[c] \in Connection
          OBVIOUS
        <4>2. [[conn[c] EXCEPT !.m_bDoneReading = TRUE] EXCEPT !.m_bDisconnected = TRUE]
                    \in Connection
          BY <4>1, MemberType
        <4> QED BY <4>2
      <3>2. [conn EXCEPT ![c].frames = MaxFrames] \in [Conns -> Connection]
        BY DEF Connection
      <3> QED BY <1>7, <3>1, <3>2 DEF ReadEnd
    <2> QED BY <1>7, <2>1 DEF ReadEnd, Reading
  <1> QED BY <1>1, <1>2, <1>3, <1>4, <1>5, <1>6, <1>7 DEF AcceptorStep, AcceptorReads, OnData

\* Every step is well typed.
LEMMA NextType ==
    ASSUME TypeOK, CountInv, [Next]_vars, "refused" \notin EarlyData
    PROVE  TypeOK'
  <1> USE GateAssumption DEF TypeOK, maps, server
  <1>1. CASE EndServerThread \/ Stopped \/ UNCHANGED vars
    BY <1>1 DEF EndServerThread, Stopped, vars
  <1>2. CASE DeleteServer
    <2>1. m_cmap' \in [Conns -> WsEndpoints]
      BY <1>2 DEF DeleteServer, OnDisconnect, NoEndpoint, WsEndpoints
    <2> QED BY <1>2, <2>1 DEF DeleteServer, OnDisconnect
  <1>3. ASSUME NEW c \in Conns, ClientCloses(c)
        PROVE  TypeOK'
    <2>1. conn' \in [Conns -> Connection]
      BY <1>3, ZenonT(60) DEF ClientCloses, Connection
    <2> QED BY <1>3, <2>1 DEF ClientCloses
  <1> QED BY <1>1, <1>2, <1>3, WorkerType, AcceptorType DEF Next

-----------------------------------------------------------------------------
(* Steps that the counters and the maps do not notice *)

SafeInv == CountInv /\ WaitInv /\ MapInv

SameMembers(c) ==
    /\ conn'[c].m_nRequests = conn[c].m_nRequests
    /\ conn'[c].m_nResponses = conn[c].m_nResponses
    /\ conn'[c].m_nActiveRequests = conn[c].m_nActiveRequests
    /\ conn'[c].queued = conn[c].queued
    /\ conn'[c].switched = conn[c].switched
    /\ conn'[c].m_bRawMode = conn[c].m_bRawMode

SameEndpoint(c) ==
    \/ m_cmap'[c] = m_cmap[c]
    \/ /\ m_cmap[c] # NoEndpoint
       /\ m_cmap'[c].obj = m_cmap[c].obj /\ m_cmap'[c].handler = m_cmap[c].handler
       /\ m_cmap'[c].state # "NONE"

Unnoticed ==
    /\ UNCHANGED <<object, worker, m_hmap>>
    /\ \A c \in Conns : SameMembers(c) /\ SameEndpoint(c)
    /\ acceptor' = "clients" => acceptor = "clients" /\ fdset' \subseteq fdset

\* Steps that touch nothing SafeInv mentions.
LEMMA UnnoticedSafe ==
    ASSUME TypeOK, SafeInv, Unnoticed
    PROVE  SafeInv'
  <1> USE DEF Unnoticed, SafeInv
  <1>0. \A w \in Workers : worker[w].at \in Conns
    BY DEF TypeOK, Threads
  <1>1. CountInv'
    <2>1. \A c \in Conns : Busy(c)' = Busy(c)
      BY DEF Busy
    <2> QED BY <1>0, <2>1 DEF CountInv, SameMembers, Valid, Live, TypeOK
  <1>2. WaitInv'
    BY <1>0 DEF WaitInv, SameMembers, Live, Answering
  <1>3. MapInv'
    BY <1>0 DEF MapInv, EndpointsOwned, SameMembers, SameEndpoint
  <1> QED BY <1>1, <1>2, <1>3

\* A change of members that neither counters nor maps depend on.
LEMMA OtherMembers ==
    ASSUME TypeOK, NEW c \in Conns, NEW d, NEW e, NEW f, NEW g,
           conn' \in {conn,
                      [conn EXCEPT ![c].frames = f],
                      [conn EXCEPT ![c].gone = g],
                      [conn EXCEPT ![c].m_bDoneReading = d],
                      [conn EXCEPT ![c].frames = f, ![c].m_bDoneReading = d],
                      [conn EXCEPT ![c].m_bDoneReading = d, ![c].m_bDisconnected = e]}
    PROVE  \A b \in Conns : SameMembers(b)
  BY SMTT(60) DEF TypeOK, Connection, SameMembers

\* A frame changes nothing but the state of its endpoint.
LEMMA EndpointSame ==
    ASSUME TypeOK, NEW c \in Conns, NEW from, NEW to \in {"OPEN", "CLOSING", "CLOSED"},
           Endpoint(c, from, to)
    PROVE  /\ \A b \in Conns : SameEndpoint(b)
           /\ UNCHANGED <<object, worker, m_hmap>>
           /\ acceptor = "clients" /\ fdset' \subseteq fdset
  <1>1. m_cmap[c] # NoEndpoint /\ m_cmap' = [m_cmap EXCEPT ![c].state = to]
    BY DEF Endpoint
  <1>2. \A b \in Conns : SameEndpoint(b)
    BY <1>1 DEF SameEndpoint, TypeOK, WsEndpoints
  <1> QED BY <1>2 DEF Endpoint, SendsFrame, Reading

\* Reading frames, closing and ending are such steps.
LEMMA AcceptorUnnoticed ==
    ASSUME TypeOK, "refused" \notin EarlyData,
           \/ EndClients \/ EndClear \/ Exit \/ EndServerThread \/ Stopped \/ UNCHANGED vars
           \/ \E c \in Conns :
                \/ CloseIdle(c) \/ ReadEarly(c) \/ ReadUnexpected(c) \/ ReadEnd(c)
                \/ OnData(c) \/ ClientCloses(c)
    PROVE  Unnoticed
  <1> USE DEF Unnoticed, maps, server
  <1>1. CASE \/ EndClients \/ EndClear \/ Exit \/ EndServerThread \/ Stopped
             \/ UNCHANGED vars
    BY <1>1 DEF EndClients, EndClear, Exit, EndServerThread, Stopped, vars, SameMembers,
                SameEndpoint
  <1>2. ASSUME NEW c \in Conns,
               \/ CloseIdle(c) \/ ReadEarly(c) \/ ReadUnexpected(c) \/ ReadEnd(c)
               \/ ClientCloses(c)
        PROVE  Unnoticed
    <2>1. \A b \in Conns : SameMembers(b)
      <3>1. CASE CloseIdle(c) \/ ClientCloses(c)
        BY <3>1 DEF CloseIdle, ClientCloses, TypeOK, Connection, SameMembers
      <3>2. CASE ReadEarly(c)
        BY <3>2, OtherMembers DEF ReadEarly
      <3>3. CASE ReadUnexpected(c)
        BY <3>3, OtherMembers DEF ReadUnexpected
      <3>4. CASE ReadEnd(c)
        BY <3>4, OtherMembers DEF ReadEnd
      <3> QED BY <1>2, <3>1, <3>2, <3>3, <3>4
    <2>2. \A b \in Conns : SameEndpoint(b)
      BY <1>2 DEF CloseIdle, ReadEarly, ReadUnexpected, ReadEnd, ClientCloses, SameEndpoint
    <2>3. /\ UNCHANGED <<object, worker, m_hmap>>
          /\ acceptor' = acceptor /\ fdset' \subseteq fdset
      BY <1>2 DEF CloseIdle, ReadEarly, ReadUnexpected, ReadEnd, ClientCloses, SendsFrame,
                  Reading
    <2> QED BY <2>1, <2>2, <2>3
  <1>3. ASSUME NEW c \in Conns, OnData(c)
        PROVE  Unnoticed
    <2>1. \A b \in Conns : SameMembers(b)
      BY <1>3, OtherMembers DEF OnData, OnDataMessage, OnDataUnsent, OnDataClose, OnDataThrows
    <2>2. \E from : \E to \in {"OPEN", "CLOSING", "CLOSED"} : Endpoint(c, from, to)
      BY <1>3 DEF OnData, OnDataMessage, OnDataUnsent, OnDataClose, OnDataThrows
    <2> QED BY <2>1, <2>2, EndpointSame
  <1> QED BY <1>1, <1>2, <1>3

-----------------------------------------------------------------------------
(* The steps of a worker *)

\* A step of w that is neither the first nor the last one for its request.
Progress(w) ==
    \/ HandleRequest(w) \/ SendPlain(w) \/ SendSwitch(w) \/ SwitchToRaw(w)
    \/ OnConnectHandler(w) \/ OnConnectEndpoint(w)

\* What a worker's steps leave alone while it has a request.
LEMMA ProgressEffect ==
    ASSUME TypeOK, NEW w \in Workers, Progress(w)
    PROVE  /\ worker[w].pc # "idle" /\ worker'[w].pc # "idle"
           /\ worker'[w].at = worker[w].at /\ worker'[w].obj = worker[w].obj
           /\ \A v \in Workers \ {w} : worker'[v] = worker[v]
           /\ UNCHANGED <<object, acceptor, fdset>>
           /\ \A c \in Conns :
                /\ conn'[c].m_nRequests = conn[c].m_nRequests
                /\ conn'[c].m_nResponses = conn[c].m_nResponses
                /\ conn'[c].m_nActiveRequests = conn[c].m_nActiveRequests
                /\ conn'[c].queued = conn[c].queued
  <1> USE DEF TypeOK, Step, server
  <1>1. CASE HandleRequest(w) \/ SendPlain(w)
    BY <1>1 DEF HandleRequest, SendPlain, Threads
  <1>2. CASE SendSwitch(w)
    BY <1>2 DEF SendSwitch, Threads, Connection
  <1>3. CASE SwitchToRaw(w)
    BY <1>3 DEF SwitchToRaw, Threads, Connection
  <1>4. CASE OnConnectHandler(w)
    BY <1>4 DEF OnConnectHandler, Threads
  <1>5. CASE OnConnectEndpoint(w)
    BY <1>5 DEF OnConnectEndpoint, Threads
  <1> QED BY <1>1, <1>2, <1>3, <1>4, <1>5 DEF Progress

\* A worker on its way to the count keeps the counters as they are.
LEMMA ProgressCount ==
    ASSUME TypeOK, CountInv, NEW w \in Workers, Progress(w)
    PROVE  CountInv'
  <1>1. \A v \in Workers : /\ worker'[v].pc = "idle" <=> worker[v].pc = "idle"
                           /\ worker'[v].at = worker[v].at
                           /\ worker'[v].obj = worker[v].obj
    BY ProgressEffect
  <1>2. \A c \in Conns : Busy(c)' = Busy(c)
    BY <1>1 DEF Busy
  <1>3. /\ UNCHANGED <<object, acceptor, fdset>>
        /\ \A c \in Conns :
                /\ conn'[c].m_nRequests = conn[c].m_nRequests
                /\ conn'[c].m_nResponses = conn[c].m_nResponses
                /\ conn'[c].m_nActiveRequests = conn[c].m_nActiveRequests
                /\ conn'[c].queued = conn[c].queued
    BY ProgressEffect
  <1> QED BY <1>1, <1>2, <1>3 DEF CountInv, Valid, Live, TypeOK, Threads

\* What the two steps that switch a connection to raw mode do to its members.
LEMMA SwitchEffect ==
    ASSUME TypeOK, NEW w \in Workers, Valid(w), SendSwitch(w) \/ SwitchToRaw(w)
    PROVE  /\ \A b \in Conns \ {worker[w].at} :
                /\ conn'[b].switched = conn[b].switched
                /\ conn'[b].m_bRawMode = conn[b].m_bRawMode
           /\ SendSwitch(w) => /\ conn'[worker[w].at].switched
                              /\ conn'[worker[w].at].m_bRawMode
                                    = conn[worker[w].at].m_bRawMode
           /\ SwitchToRaw(w) => /\ conn'[worker[w].at].m_bRawMode
                               /\ conn'[worker[w].at].switched
                                     = conn[worker[w].at].switched
  <1> DEFINE c == worker[w].at
  <1>0. c \in Conns
    BY DEF TypeOK, Threads
  <1>1. CASE SendSwitch(w)
    <2>1. conn' = [conn EXCEPT ![c].switched = TRUE] /\ ~SwitchToRaw(w)
      BY <1>1 DEF SendSwitch, SwitchToRaw, Step
    <2> QED BY <1>0, <1>1, <2>1 DEF TypeOK, Connection
  <1>2. CASE SwitchToRaw(w)
    <2>1. conn' = [conn EXCEPT ![c].m_bRawMode = TRUE] /\ ~SendSwitch(w)
      BY <1>2 DEF SendSwitch, SwitchToRaw, Step
    <2> QED BY <1>0, <1>2, <2>1 DEF TypeOK, Connection
  <1> QED BY <1>1, <1>2

\* A client gets one response for one request.
LEMMA ProgressWait ==
    ASSUME TypeOK, CountInv, WaitInv, NEW w \in Workers, Progress(w)
    PROVE  WaitInv'
  <1> DEFINE c == worker[w].at
  <1>0. c \in Conns /\ Live(c) /\ Valid(w)
    BY ProgressEffect, BusyCounted
  <1>1. /\ \A v \in Workers \ {w} : worker'[v] = worker[v]
        /\ worker'[w].at = c /\ object' = object
        /\ \A b \in Conns : conn'[b].queued = conn[b].queued
    BY ProgressEffect
  <1>2. \A v \in Workers : worker[v].at \in Conns
    BY DEF TypeOK, Threads
  <1> USE <1>0, <1>1, <1>2 DEF TypeOK, Step, WaitInv, Answering, Live
  <1>3. CASE HandleRequest(w)
    BY <1>3 DEF HandleRequest, Threads
  <1>4. CASE SendPlain(w)
    BY <1>4 DEF SendPlain, Threads
  <1>5. CASE SendSwitch(w)
    <2>1. worker[w].pc = "head" /\ worker'[w].pc = "raw"
      BY <1>5 DEF SendSwitch, Threads
    <2>2. /\ \A b \in Conns : conn'[b].m_bRawMode = conn[b].m_bRawMode
          /\ \A b \in Conns \ {c} : conn'[b].switched = conn[b].switched
          /\ conn'[c].switched
      BY <1>5, SwitchEffect
    <2> QED BY <2>1, <2>2
  <1>6. CASE SwitchToRaw(w)
    <2>1. worker[w].pc = "raw" /\ worker'[w].pc = "hmap"
      BY <1>6 DEF SwitchToRaw, Threads
    <2>2. /\ \A b \in Conns \ {c} : conn'[b].m_bRawMode = conn[b].m_bRawMode
          /\ \A b \in Conns : conn'[b].switched = conn[b].switched
          /\ conn'[c].m_bRawMode
      BY <1>6, SwitchEffect
    <2> QED BY <2>1, <2>2
  <1>7. CASE OnConnectHandler(w)
    BY <1>7 DEF OnConnectHandler, Threads
  <1>8. CASE OnConnectEndpoint(w)
    BY <1>8 DEF OnConnectEndpoint, Threads
  <1> QED BY <1>3, <1>4, <1>5, <1>6, <1>7, <1>8 DEF Progress

\* OnConnect fills the maps for its own connection.
LEMMA ProgressMap ==
    ASSUME TypeOK, CountInv, WaitInv, MapInv, NEW w \in Workers, Progress(w)
    PROVE  MapInv'
  <1> DEFINE c == worker[w].at
  <1>0. c \in Conns /\ Live(c) /\ Valid(w)
    BY ProgressEffect, BusyCounted
  <1>1. /\ \A v \in Workers \ {w} : worker'[v] = worker[v]
        /\ worker'[w].at = c /\ object' = object
    BY ProgressEffect
  <1>2. \A v \in Workers : worker[v].at \in Conns
    BY DEF TypeOK, Threads
  <1> USE <1>0, <1>1, <1>2 DEF TypeOK, Step, MapInv, EndpointsOwned, maps
  <1>3. CASE HandleRequest(w)
    BY <1>3 DEF HandleRequest, Threads
  <1>4. CASE SendPlain(w)
    BY <1>4 DEF SendPlain, Threads
  <1>5. CASE SendSwitch(w)
    <2>1. worker[w].pc = "head" /\ worker'[w].pc = "raw" /\ UNCHANGED <<m_hmap, m_cmap>>
      BY <1>5 DEF SendSwitch, Threads
    <2>2. \A b \in Conns : conn'[b].m_bRawMode = conn[b].m_bRawMode
      BY <1>5, SwitchEffect
    <2>3. m_cmap[c] = NoEndpoint
      BY <2>1 DEF WaitInv
    <2> QED BY <2>1, <2>2, <2>3
  <1>6. CASE SwitchToRaw(w)
    <2>1. worker[w].pc = "raw" /\ worker'[w].pc = "hmap" /\ UNCHANGED <<m_hmap, m_cmap>>
      BY <1>6 DEF SwitchToRaw, Threads
    <2>2. /\ \A b \in Conns \ {c} : conn'[b].m_bRawMode = conn[b].m_bRawMode
          /\ conn'[c].m_bRawMode
      BY <1>6, SwitchEffect
    <2> QED BY <2>1, <2>2
  <1>7. CASE OnConnectHandler(w)
    <2>1. /\ worker[w].pc = "hmap" /\ worker'[w].pc = "cmap"
          /\ worker'[w].handler = connects + 1
          /\ m_hmap' = [m_hmap EXCEPT ![c] = connects + 1]
          /\ UNCHANGED <<m_cmap, conn>>
      BY <1>7 DEF OnConnectHandler, Threads
    <2>2. m_cmap[c] = NoEndpoint
      BY <2>1
    <2>3. \A v \in Workers \ {w} : worker[v].pc = "cmap" => worker[v].at # c
      BY <2>1 DEF WaitInv, Answering
    <2> QED BY <2>1, <2>2, <2>3
  <1>8. CASE OnConnectEndpoint(w)
    <2>1. /\ worker[w].pc = "cmap" /\ worker'[w].pc = "count"
          /\ m_cmap' = [m_cmap EXCEPT ![c] = [handler |-> worker[w].handler,
                                              obj |-> worker[w].obj, state |-> "OPEN"]]
          /\ UNCHANGED <<m_hmap, conn>>
      BY <1>8 DEF OnConnectEndpoint, Threads
    <2>2. worker[w].obj = object[c] /\ worker[w].obj # 0
      BY <2>1 DEF CountInv, Valid
    <2>3. \A v \in Workers \ {w} :
                worker[v].pc \in {"raw", "hmap", "cmap"} => worker[v].at # c
      BY <2>1 DEF WaitInv, Answering
    <2> QED BY <2>1, <2>2, <2>3
  <1> QED BY <1>3, <1>4, <1>5, <1>6, <1>7, <1>8 DEF Progress

\* A worker takes a request.
LEMMA TakeSafe ==
    ASSUME TypeOK, SafeInv, NEW w \in Workers, NEW c \in Conns, GetNextRequest(w, c)
    PROVE  SafeInv'
  <1> USE DEF SafeInv
  <1>0. /\ worker' = [worker EXCEPT ![w] =
                [pc |-> "handle", at |-> c, obj |-> object[c], handler |-> 0]]
        /\ conn' = [conn EXCEPT ![c].queued = @ - 1, ![c].m_nActiveRequests = @ + 1]
    BY DEF GetNextRequest
  <1>1. /\ Live(c) /\ conn[c].queued > 0 /\ worker[w].pc = "idle"
        /\ UNCHANGED <<object, m_hmap, m_cmap, acceptor, fdset>>
    BY DEF GetNextRequest, maps, server
  <1>2. \A b \in Conns : /\ conn'[b].m_nRequests = conn[b].m_nRequests
                         /\ conn'[b].m_nResponses = conn[b].m_nResponses
                         /\ conn'[b].switched = conn[b].switched
                         /\ conn'[b].m_bRawMode = conn[b].m_bRawMode
    BY <1>0 DEF TypeOK, Connection
  <1>3. /\ conn'[c].queued = conn[c].queued - 1
        /\ conn'[c].m_nActiveRequests = conn[c].m_nActiveRequests + 1
        /\ \A b \in Conns \ {c} :
            /\ conn'[b].queued = conn[b].queued
            /\ conn'[b].m_nActiveRequests = conn[b].m_nActiveRequests
    BY <1>0 DEF TypeOK, Connection
  <1>4. /\ worker'[w].pc = "handle" /\ worker'[w].at = c /\ worker'[w].obj = object[c]
        /\ \A v \in Workers \ {w} : worker'[v] = worker[v]
        /\ \A v \in Workers : worker[v].at \in Conns
    BY <1>0 DEF TypeOK, Threads
  <1>5. Busy(c)' = Busy(c) \cup {w} /\ w \notin Busy(c)
    BY <1>1, <1>4 DEF Busy
  <1>6. \A b \in Conns \ {c} : Busy(b)' = Busy(b)
    BY <1>1, <1>4 DEF Busy
  <1>7. Cardinality(Busy(c)') = Cardinality(Busy(c)) + 1
    BY <1>5, BusyFinite, FS_AddElement
  <1>8. conn[c].queued = 1 /\ ~conn[c].switched
    BY <1>1 DEF WaitInv
  <1>9. CountInv'
    <2>1. \A b \in Conns : /\ conn[b].m_nResponses \in Nat /\ conn[b].queued \in Nat
                           /\ conn[b].m_nActiveRequests \in Nat
      BY DEF TypeOK, Connection
    <2>2. \A v \in Workers : (worker[v].pc # "idle" => Valid(v) /\ worker[v].obj # 0)'
      BY <1>1, <1>4 DEF CountInv, Valid, Live
    <2>3. (acceptor = "clients" => \A b \in fdset : Live(b))'
      BY <1>1 DEF CountInv, Live
    <2>4. \A b \in Conns : (Live(b) =>
            /\ conn[b].m_nRequests
                = conn[b].m_nResponses + conn[b].queued + conn[b].m_nActiveRequests
            /\ conn[b].m_nRequests <= MaxRequests
            /\ conn[b].m_nActiveRequests >= Cardinality(Busy(b)))'
      <3> SUFFICES ASSUME NEW b \in Conns, Live(b)
                   PROVE  /\ conn'[b].m_nRequests = conn'[b].m_nResponses
                                + conn'[b].queued + conn'[b].m_nActiveRequests
                          /\ conn'[b].m_nRequests <= MaxRequests
                          /\ conn'[b].m_nActiveRequests >= Cardinality(Busy(b)')
        BY <1>1 DEF Live
      <3>1. /\ conn[b].m_nRequests
                = conn[b].m_nResponses + conn[b].queued + conn[b].m_nActiveRequests
            /\ conn[b].m_nRequests <= MaxRequests
            /\ conn[b].m_nActiveRequests >= Cardinality(Busy(b))
        BY DEF CountInv
      <3>2. Cardinality(Busy(b)) \in Nat
        BY BusyFinite
      <3>3. CASE b = c
        <4>1. Cardinality(Busy(b)') = Cardinality(Busy(b)) + 1
          BY <1>7, <3>3
        <4>2. /\ conn'[b].queued = conn[b].queued - 1
              /\ conn'[b].m_nActiveRequests = conn[b].m_nActiveRequests + 1
          BY <1>3, <3>3
        <4> QED BY <1>2, <2>1, <3>1, <3>2, <4>1, <4>2
      <3>4. CASE b # c
        BY <1>2, <1>3, <1>6, <2>1, <3>1, <3>4
      <3> QED BY <3>3, <3>4
    <2> QED BY <2>2, <2>3, <2>4 DEF CountInv
  <1>10. WaitInv'
    BY <1>1, <1>2, <1>3, <1>4, <1>8 DEF WaitInv, Answering, Live
  <1>11. MapInv'
    BY <1>1, <1>2, <1>4 DEF MapInv, EndpointsOwned
  <1> QED BY <1>9, <1>10, <1>11

\* The response has been counted and the worker forgets its connection.
LEMMA CountSafe ==
    ASSUME TypeOK, SafeInv, NEW w \in Workers, SendNothing(w) \/ EndSend(w)
    PROVE  SafeInv'
  <1> USE DEF SafeInv
  <1>0. worker[w].pc # "idle"
    BY DEF SendNothing, EndSend, Step
  <1>1. PICK c \in Conns : c = worker[w].at /\ Live(c) /\ Valid(w)
    BY <1>0, BusyCounted
  <1>2. /\ Count(c, FALSE) \/ Count(c, TRUE)
        /\ UNCHANGED <<object, m_hmap, m_cmap, acceptor, fdset>>
    BY <1>1 DEF SendNothing, EndSend, maps, server
  <1>a. worker' = [worker EXCEPT ![w].pc = "idle"]
    BY DEF SendNothing, EndSend, Step
  <1>3. /\ worker'[w].pc = "idle"
        /\ \A v \in Workers \ {w} : worker'[v] = worker[v]
        /\ \A v \in Workers : worker'[v].at = worker[v].at /\ worker[v].at \in Conns
    BY <1>a DEF TypeOK, Threads
  <1>4. \A b \in Conns : /\ conn'[b].m_nRequests = conn[b].m_nRequests
                         /\ conn'[b].queued = conn[b].queued
                         /\ conn'[b].switched = conn[b].switched
                         /\ conn'[b].m_bRawMode = conn[b].m_bRawMode
    BY <1>2 DEF Count, TypeOK, Connection
  <1>5. /\ conn'[c].m_nResponses = conn[c].m_nResponses + 1
        /\ conn'[c].m_nActiveRequests = conn[c].m_nActiveRequests - 1
        /\ \A b \in Conns \ {c} :
            /\ conn'[b].m_nResponses = conn[b].m_nResponses
            /\ conn'[b].m_nActiveRequests = conn[b].m_nActiveRequests
    BY <1>1, <1>2 DEF Count, TypeOK, Connection
  <1>6. Busy(c)' = Busy(c) \ {w} /\ w \in Busy(c)
    BY <1>0, <1>1, <1>3 DEF Busy
  <1>7. \A b \in Conns \ {c} : Busy(b)' = Busy(b)
    BY <1>1, <1>3 DEF Busy
  <1>8. Cardinality(Busy(c)') = Cardinality(Busy(c)) - 1
    BY <1>6, BusyFinite, FS_RemoveElement
  <1>9. CountInv'
    <2>1. \A b \in Conns : /\ conn[b].m_nResponses \in Nat /\ conn[b].queued \in Nat
                           /\ conn[b].m_nActiveRequests \in Nat
      BY DEF TypeOK, Connection
    <2>2. \A v \in Workers : (worker[v].pc # "idle" => Valid(v) /\ worker[v].obj # 0)'
      BY <1>2, <1>3 DEF CountInv, Valid, Live
    <2>3. (acceptor = "clients" => \A b \in fdset : Live(b))'
      BY <1>2 DEF CountInv, Live
    <2>4. \A b \in Conns : (Live(b) =>
            /\ conn[b].m_nRequests
                = conn[b].m_nResponses + conn[b].queued + conn[b].m_nActiveRequests
            /\ conn[b].m_nRequests <= MaxRequests
            /\ conn[b].m_nActiveRequests >= Cardinality(Busy(b)))'
      <3> SUFFICES ASSUME NEW b \in Conns, Live(b)
                   PROVE  /\ conn'[b].m_nRequests = conn'[b].m_nResponses
                                + conn'[b].queued + conn'[b].m_nActiveRequests
                          /\ conn'[b].m_nRequests <= MaxRequests
                          /\ conn'[b].m_nActiveRequests >= Cardinality(Busy(b)')
        BY <1>2 DEF Live
      <3>1. /\ conn[b].m_nRequests
                = conn[b].m_nResponses + conn[b].queued + conn[b].m_nActiveRequests
            /\ conn[b].m_nRequests <= MaxRequests
            /\ conn[b].m_nActiveRequests >= Cardinality(Busy(b))
        BY DEF CountInv
      <3>2. Cardinality(Busy(b)) \in Nat
        BY BusyFinite
      <3>3. CASE b = c
        BY <1>4, <1>5, <1>8, <2>1, <3>1, <3>2, <3>3
      <3>4. CASE b # c
        BY <1>4, <1>5, <1>7, <2>1, <3>1, <3>4
      <3> QED BY <3>3, <3>4
    <2> QED BY <2>2, <2>3, <2>4 DEF CountInv
  <1>10. WaitInv'
    BY <1>2, <1>3, <1>4 DEF WaitInv, Answering, Live
  <1>11. MapInv'
    BY <1>2, <1>3, <1>4 DEF MapInv, EndpointsOwned
  <1> QED BY <1>9, <1>10, <1>11

\* The handler has thrown: the worker is gone and its request is never counted.
LEMMA ThrowSafe ==
    ASSUME TypeOK, SafeInv, NEW w \in Workers, HandlerThrows(w)
    PROVE  SafeInv'
  <1> USE DEF SafeInv
  <1>1. /\ worker' = [worker EXCEPT ![w].pc = "idle"]
        /\ UNCHANGED <<object, conn, m_hmap, m_cmap, acceptor, fdset>>
    BY DEF HandlerThrows, Step, maps
  <1>2. /\ worker'[w].pc = "idle"
        /\ \A v \in Workers \ {w} : worker'[v] = worker[v]
        /\ \A v \in Workers : worker'[v].at = worker[v].at /\ worker[v].at \in Conns
    BY <1>1 DEF TypeOK, Threads
  <1>3. CountInv'
    <2>1. \A c \in Conns : Cardinality(Busy(c)') <= Cardinality(Busy(c))
      <3> SUFFICES ASSUME NEW c \in Conns
                   PROVE  Cardinality(Busy(c)') <= Cardinality(Busy(c))
        OBVIOUS
      <3>1. Busy(c)' \subseteq Busy(c)
        BY <1>2 DEF Busy
      <3> QED BY <3>1, BusyFinite, FS_Subset
    <2>2. \A c \in Conns : Cardinality(Busy(c)') \in Nat
      <3> SUFFICES ASSUME NEW c \in Conns PROVE Cardinality(Busy(c)') \in Nat
        OBVIOUS
      <3>1. Busy(c)' \subseteq Workers
        BY DEF Busy
      <3> QED BY <3>1, GateAssumption, FS_Subset, FS_CardinalityType
    <2>3. \A c \in Conns : conn[c].m_nActiveRequests \in Nat
      BY DEF TypeOK, Connection
    <2>4. \A c \in Conns : Live(c) => conn[c].m_nActiveRequests >= Cardinality(Busy(c)')
      BY <2>1, <2>2, <2>3, BusyFinite DEF CountInv
    <2>5. \A v \in Workers : (worker[v].pc # "idle" => Valid(v) /\ worker[v].obj # 0)'
      BY <1>1, <1>2 DEF CountInv, Valid
    <2> QED BY <1>1, <2>4, <2>5 DEF CountInv, Live
  <1>4. WaitInv'
    BY <1>1, <1>2 DEF WaitInv, Answering, Live
  <1>5. MapInv'
    BY <1>1, <1>2 DEF MapInv, EndpointsOwned
  <1> QED BY <1>3, <1>4, <1>5

\* The steps of workers preserve SafeInv.
LEMMA WorkerSafe ==
    ASSUME TypeOK, SafeInv, NEW w \in Workers, WorkerStep(w)
    PROVE  SafeInv'
  <1>1. CASE Progress(w)
    BY <1>1, ProgressCount, ProgressWait, ProgressMap DEF SafeInv
  <1> QED BY <1>1, TakeSafe, CountSafe, ThrowSafe DEF WorkerStep, Progress

-----------------------------------------------------------------------------
(* The other steps *)

\* Only live connections are put into the set for select.
LEMMA SelectSafe ==
    ASSUME TypeOK, SafeInv, Select
    PROVE  SafeInv'
  <1> USE DEF SafeInv
  <1>1. UNCHANGED <<object, conn, worker, m_hmap, m_cmap>>
    BY DEF Select, maps
  <1>2. \A c \in Conns : Busy(c)' = Busy(c)
    BY <1>1 DEF Busy
  <1>3. (\A c \in fdset : Live(c))'
    BY DEF Select, Live
  <1>4. CountInv'
    BY <1>1, <1>2, <1>3 DEF CountInv, Valid, Live
  <1>5. WaitInv' /\ MapInv'
    BY <1>1 DEF WaitInv, MapInv, EndpointsOwned, Answering, Live
  <1> QED BY <1>4, <1>5

\* The object at one address comes or goes: no worker has anything to do with it,
\* and no endpoint is left at its address.
LEMMA RemoveSafe ==
    ASSUME TypeOK, SafeInv, NEW c \in Conns, RemoveConnection(c)
    PROVE  SafeInv'
  <1> USE DEF SafeInv
  <1>1. /\ Live(c) /\ conn[c].m_nRequests <= conn[c].m_nResponses
        /\ object' = [object EXCEPT ![c] = 0]
        /\ acceptor = "clear" /\ UNCHANGED <<conn, worker, acceptor, fdset>>
    BY DEF RemoveConnection, Finished, server
  <1>2. \A w \in Workers : worker[w].pc # "idle" => worker[w].at # c
    BY <1>1, BusyCounted DEF TypeOK, Connection
  <1>3. /\ m_cmap'[c] = NoEndpoint
        /\ \A b \in Conns \ {c} : m_cmap'[b] = m_cmap[b] /\ m_hmap'[b] = m_hmap[b]
    <2>1. CASE conn[c].m_bRawMode
      BY <2>1 DEF RemoveConnection, OnDisconnect
    <2>2. CASE ~conn[c].m_bRawMode
      <3>1. m_cmap[c] = NoEndpoint
        BY <2>2 DEF MapInv, EndpointsOwned
      <3> QED BY <2>2, <3>1 DEF RemoveConnection, OnDisconnect
    <2> QED BY <2>1, <2>2
  <1>4. \A w \in Workers : worker[w].at \in Conns
    BY DEF TypeOK, Threads
  <1>5. \A b \in Conns : Busy(b)' = Busy(b)
    BY <1>1 DEF Busy
  <1>6. ~Live(c)' /\ \A b \in Conns \ {c} : object'[b] = object[b]
    BY <1>1 DEF Live, TypeOK
  <1>7. CountInv'
    BY <1>1, <1>2, <1>4, <1>5, <1>6 DEF CountInv, Valid, Live
  <1>8. WaitInv'
    BY <1>1, <1>6 DEF WaitInv, Answering, Live
  <1>9. MapInv'
    BY <1>1, <1>2, <1>3, <1>4, <1>6 DEF MapInv, EndpointsOwned
  <1> QED BY <1>7, <1>8, <1>9

\* A new connection, perhaps at an address used before, finds nothing in the
\* maps.
LEMMA AcceptSafe ==
    ASSUME TypeOK, SafeInv, NEW c \in Conns, Accept(c)
    PROVE  SafeInv'
  <1> USE DEF SafeInv
  <1>1. /\ ~Live(c) /\ object' = [object EXCEPT ![c] = accepted + 1]
        /\ conn' = [conn EXCEPT ![c] = NewConnection]
        /\ UNCHANGED <<m_hmap, m_cmap, worker, acceptor, fdset>>
    BY DEF Accept, maps, server
  <1>2. \A w \in Workers : worker[w].pc # "idle" => worker[w].at # c
    BY <1>1, BusyCounted
  <1>3. m_cmap[c] = NoEndpoint
    BY <1>1 DEF MapInv, EndpointsOwned, Live
  <1>4. \A w \in Workers : worker[w].at \in Conns
    BY DEF TypeOK, Threads
  <1>5. \A b \in Conns : Busy(b)' = Busy(b)
    BY <1>1 DEF Busy
  <1>6. Cardinality(Busy(c)) = 0
    <2>1. Busy(c) = {}
      BY <1>2 DEF Busy
    <2> QED BY <2>1, FS_EmptySet
  <1>7. /\ \A b \in Conns \ {c} : object'[b] = object[b] /\ conn'[b] = conn[b]
        /\ conn'[c] = NewConnection /\ object'[c] = accepted + 1 /\ accepted + 1 # 0
    BY <1>1, GateAssumption DEF TypeOK
  <1>8. CountInv'
    <2>1. \A w \in Workers : (worker[w].pc # "idle" => Valid(w) /\ worker[w].obj # 0)'
      BY <1>1, <1>2, <1>4, <1>7 DEF CountInv, Valid
    <2>2. (acceptor = "clients" => \A b \in fdset : Live(b))'
      BY <1>1, <1>7 DEF CountInv, Live, TypeOK
    <2>3. \A b \in Conns : (Live(b) =>
            /\ conn[b].m_nRequests
                = conn[b].m_nResponses + conn[b].queued + conn[b].m_nActiveRequests
            /\ conn[b].m_nRequests <= MaxRequests
            /\ conn[b].m_nActiveRequests >= Cardinality(Busy(b)))'
      BY <1>5, <1>6, <1>7, GateAssumption DEF CountInv, Live, NewConnection
    <2> QED BY <2>1, <2>2, <2>3 DEF CountInv
  <1>9. WaitInv'
    BY <1>1, <1>2, <1>4, <1>7 DEF WaitInv, Answering, Live, NewConnection
  <1>10. MapInv'
    BY <1>1, <1>2, <1>3, <1>4, <1>7 DEF MapInv, EndpointsOwned
  <1> QED BY <1>8, <1>9, <1>10

\* A request is read from a client that waits for no other.
LEMMA ReadSafe ==
    ASSUME TypeOK, SafeInv, NEW c \in Conns, ReadRequest(c), ~Pipelined
    PROVE  SafeInv'
  <1> USE DEF SafeInv
  <1>1. /\ ~Unanswered(c) /\ ~conn[c].switched /\ conn[c].m_nRequests < MaxRequests
        /\ UNCHANGED <<object, worker, m_hmap, m_cmap, acceptor>>
        /\ fdset' \subseteq fdset /\ acceptor = "clients" /\ c \in fdset
    BY DEF ReadRequest, Reading, maps
  <1>0. conn' = [conn EXCEPT ![c].m_nRequests = @ + 1, ![c].queued = @ + 1]
    BY DEF ReadRequest
  <1>2. \A b \in Conns : /\ conn'[b].m_nResponses = conn[b].m_nResponses
                         /\ conn'[b].m_nActiveRequests = conn[b].m_nActiveRequests
                         /\ conn'[b].switched = conn[b].switched
                         /\ conn'[b].m_bRawMode = conn[b].m_bRawMode
    BY <1>0 DEF TypeOK, Connection
  <1>3. /\ conn'[c].m_nRequests = conn[c].m_nRequests + 1
        /\ conn'[c].queued = conn[c].queued + 1
        /\ \A b \in Conns \ {c} : /\ conn'[b].m_nRequests = conn[b].m_nRequests
                                  /\ conn'[b].queued = conn[b].queued
    BY <1>0 DEF TypeOK, Connection
  <1>4. \A w \in Workers : worker[w].at \in Conns
    BY DEF TypeOK, Threads
  <1>5. \A b \in Conns : Busy(b)' = Busy(b)
    BY <1>1 DEF Busy
  <1>6. \A b \in Conns : /\ conn[b].m_nResponses \in Nat /\ conn[b].queued \in Nat
                         /\ conn[b].m_nActiveRequests \in Nat /\ conn[b].m_nRequests \in Nat
    BY DEF TypeOK, Connection
  <1>7. CountInv'
    <2>1. \A w \in Workers : (worker[w].pc # "idle" => Valid(w) /\ worker[w].obj # 0)'
      BY <1>1 DEF CountInv, Valid
    <2>2. (acceptor = "clients" => \A b \in fdset : Live(b))'
      BY <1>1 DEF CountInv, Live
    <2>3. \A b \in Conns : (Live(b) =>
            /\ conn[b].m_nRequests
                = conn[b].m_nResponses + conn[b].queued + conn[b].m_nActiveRequests
            /\ conn[b].m_nRequests <= MaxRequests
            /\ conn[b].m_nActiveRequests >= Cardinality(Busy(b)))'
      <3> SUFFICES ASSUME NEW b \in Conns, Live(b)
                   PROVE  /\ conn'[b].m_nRequests = conn'[b].m_nResponses
                                + conn'[b].queued + conn'[b].m_nActiveRequests
                          /\ conn'[b].m_nRequests <= MaxRequests
                          /\ conn'[b].m_nActiveRequests >= Cardinality(Busy(b)')
        BY <1>1 DEF Live
      <3>1. /\ conn[b].m_nRequests
                = conn[b].m_nResponses + conn[b].queued + conn[b].m_nActiveRequests
            /\ conn[b].m_nRequests <= MaxRequests
            /\ conn[b].m_nActiveRequests >= Cardinality(Busy(b))
        BY DEF CountInv
      <3> QED BY <1>1, <1>2, <1>3, <1>5, <1>6, <3>1, GateAssumption
    <2> QED BY <2>1, <2>2, <2>3 DEF CountInv
  <1>8. WaitInv'
    <2>1. conn[c].queued = 0
      BY <1>1, <1>6 DEF Unanswered
    <2>2. \A w \in Workers : worker[w].at = c => ~Answering(w)
      <3> SUFFICES ASSUME NEW w \in Workers, worker[w].at = c, Answering(w)
                   PROVE  FALSE
        OBVIOUS
      <3>1. worker[w].obj = object[c]
        BY DEF Answering, CountInv, Valid
      <3>2. worker[w].pc \in {"raw", "hmap", "cmap"}
        BY <1>1, <3>1 DEF Answering, Unanswered, TypeOK, Threads
      <3> QED BY <1>1, <3>2 DEF WaitInv
    <2> QED BY <1>1, <1>2, <1>3, <1>4, <2>1, <2>2 DEF WaitInv, Answering, Live
  <1>9. MapInv'
    BY <1>1, <1>2, <1>4 DEF MapInv, EndpointsOwned
  <1> QED BY <1>7, <1>8, <1>9

\* The server is deleted when the threads have ended.
LEMMA DeleteSafe ==
    ASSUME TypeOK, SafeInv, DeleteServer
    PROVE  SafeInv'
  <1> USE DEF SafeInv
  <1>1. /\ object' = [c \in Conns |-> 0] /\ acceptor = "exited"
        /\ \A w \in Workers : worker[w].pc = "idle"
        /\ UNCHANGED <<conn, worker, acceptor, fdset>>
    BY DEF DeleteServer
  <1>2. \A c \in Conns : m_cmap'[c] = NoEndpoint
    <2> SUFFICES ASSUME NEW c \in Conns PROVE m_cmap'[c] = NoEndpoint
      OBVIOUS
    <2>1. CASE Live(c) /\ conn[c].m_bRawMode
      BY <2>1 DEF DeleteServer, OnDisconnect
    <2>2. CASE ~(Live(c) /\ conn[c].m_bRawMode)
      <3>1. m_cmap[c] = NoEndpoint
        BY <2>2 DEF MapInv, EndpointsOwned, Live
      <3> QED BY <2>2, <3>1 DEF DeleteServer, OnDisconnect
    <2> QED BY <2>1, <2>2
  <1>3. CountInv' /\ WaitInv'
    BY <1>1 DEF CountInv, WaitInv, Live, Answering
  <1>4. MapInv'
    BY <1>1, <1>2 DEF MapInv, EndpointsOwned
  <1> QED BY <1>3, <1>4

\* No connections, and empty maps.
LEMMA InitSafe == Init => SafeInv
  <1> SUFFICES ASSUME Init PROVE SafeInv
    OBVIOUS
  <1>1. /\ \A w \in Workers : worker[w].pc = "idle"
        /\ \A c \in Conns : object[c] = 0 /\ m_cmap[c] = NoEndpoint
        /\ acceptor = "select"
    BY DEF Init
  <1> QED BY <1>1 DEF SafeInv, CountInv, WaitInv, MapInv, EndpointsOwned, Live, Answering

\* Every step preserves SafeInv.
LEMMA NextSafe ==
    ASSUME TypeOK, SafeInv, [Next]_vars, ~Pipelined, "refused" \notin EarlyData
    PROVE  SafeInv'
  <1>1. ASSUME NEW w \in Workers, WorkerStep(w) PROVE SafeInv'
    BY <1>1, WorkerSafe
  <1>2. CASE AcceptorStep
    BY <1>2, SelectSafe, RemoveSafe, AcceptorUnnoticed, UnnoticedSafe DEF AcceptorStep
  <1>3. CASE AcceptorReads
    BY <1>3, AcceptSafe, ReadSafe, AcceptorUnnoticed, UnnoticedSafe DEF AcceptorReads, OnData
  <1>4. CASE DeleteServer
    BY <1>4, DeleteSafe
  <1>5. CASE \/ EndServerThread \/ Stopped \/ (\E c \in Conns : ClientCloses(c))
             \/ UNCHANGED vars
    BY <1>5, AcceptorUnnoticed, UnnoticedSafe
  <1> QED BY <1>1, <1>2, <1>3, <1>4, <1>5 DEF Next

-----------------------------------------------------------------------------
(* Theorems *)

\* The strengthened invariant holds in every state.
THEOREM GateAlways ==
    ASSUME ~Pipelined, "refused" \notin EarlyData
    PROVE  Spec => [](TypeOK /\ SafeInv)
  <1>1. Init => TypeOK /\ SafeInv
    BY InitType, InitSafe
  <1>2. TypeOK /\ SafeInv /\ [Next]_vars => (TypeOK /\ SafeInv)'
    BY NextType, NextSafe DEF SafeInv
  <1> QED BY <1>1, <1>2, PTL DEF Spec

\* No counter of a connection of the gateway leaves its range, and the maps of
\* MyRawSocketHandler hold handlers and endpoints.
THEOREM TypeCorrect ==
    ASSUME ~Pipelined, "refused" \notin EarlyData
    PROVE  Spec => []TypeOK
  BY GateAlways, PTL

\* OnConnect and OnDisconnect (src/samples/ehs_wsgate.cpp) need no lock for this:
\* whatever is in m_cmap belongs to the raw connection that lives at its address
\* and has its handler, for every number of workers and connections.
THEOREM OwnersCorrect ==
    ASSUME ~Pipelined, "refused" \notin EarlyData
    PROVE  Spec => []EndpointsOwned
  <1>1. SafeInv => EndpointsOwned
    BY DEF SafeInv, MapInv
  <1> QED BY <1>1, GateAlways, PTL
=============================================================================
