------------------------- MODULE SingleThreadedProofs -------------------------
(***************************************************************************)
(* The loop of EHS::HandleData leaves no request behind, for any number of *)
(* connections and requests and whatever is thrown.  An invalid request    *)
(* behind others in one read is excluded by the hypothesis of the theorems *)
(* (SingleErrors.cfg shows what it does).                                  *)
(***************************************************************************)
EXTENDS SingleThreaded, FiniteSetTheorems, TLAPS

\* The requests of a connection that have been read and not answered.
Load(c) == conn[c].queued + (IF pc = "route" /\ m_oCurrentRequest = c THEN 1 ELSE 0)

\* A connection with a request left is not finished in the sense of CheckDone:
\* no error response has been counted for it.
LoadInv ==
    /\ pc = "route" => m_oCurrentRequest \in Conns
    /\ \A c \in Conns :
        /\ Load(c) > 0 \/ ~conn[c].m_bDoneReading
                => conn[c].m_nResponses + Load(c) <= conn[c].complete
        /\ Load(c) > 0 => conn[c].m_nRequests = 1 + conn[c].complete

\* Sockets are looked at only when nothing is queued, and each once.
ReadInv ==
    /\ pc = "accept" => \A c \in Conns : conn[c].queued = 0
    /\ pc \in {"accept", "read"} => \A c \in m_oReadFds :
        conn[c].queued = 0 /\ ~conn[c].m_bDoneReading

PendingInv ==
    /\ pc # "ended" => m_nRequestsPending = Queued
    /\ pc = "main" => m_nRequestsPending = 0

ServeInv == TypeOK /\ LoadInv /\ ReadInv /\ PendingInv

-----------------------------------------------------------------------------
(* Counting the requests in the lists *)

Lists(f) == {q \in Conns \X (1..MaxRequests) : q[2] <= f[q[1]]}

\* The requests in the lists can be counted.
LEMMA ListsFinite ==
    ASSUME NEW f
    PROVE  IsFiniteSet(Lists(f)) /\ Cardinality(Lists(f)) \in Nat
  <1>1. IsFiniteSet(1..MaxRequests)
    BY SingleAssumption, FS_Interval
  <1>2. IsFiniteSet(Conns \X (1..MaxRequests))
    BY <1>1, SingleAssumption, FS_Product
  <1>3. Lists(f) \subseteq Conns \X (1..MaxRequests)
    BY DEF Lists
  <1>4. IsFiniteSet(Lists(f))
    BY <1>2, <1>3, FS_Subset
  <1> QED BY <1>4, FS_CardinalityType

\* One list grows by n.
LEMMA ListsGrow ==
    ASSUME NEW f \in [Conns -> 0..MaxRequests], NEW g \in [Conns -> 0..MaxRequests],
           NEW c \in Conns, NEW n \in Nat, g[c] = f[c] + n,
           \A b \in Conns \ {c} : g[b] = f[b]
    PROVE  Cardinality(Lists(g)) = Cardinality(Lists(f)) + n
  <1> DEFINE I == (f[c] + 1)..(f[c] + n)
             New == {c} \X I
  <1>0. f[c] \in Nat /\ f[c] + n <= MaxRequests /\ MaxRequests \in Nat
    BY SingleAssumption
  <1>1. IsFiniteSet(I) /\ Cardinality(I) = n
    <2>1. \A a, b \in Int : /\ IsFiniteSet(a..b)
                            /\ Cardinality(a..b) = IF a > b THEN 0 ELSE b - a + 1
      BY FS_Interval
    <2>2. f[c] + 1 \in Int /\ f[c] + n \in Int
      BY <1>0
    <2>3. IsFiniteSet(I) /\ Cardinality(I) =
                IF f[c] + 1 > f[c] + n THEN 0 ELSE (f[c] + n) - (f[c] + 1) + 1
      BY <2>1, <2>2
    <2> QED BY <1>0, <2>3
  <1>2. IsFiniteSet({c}) /\ Cardinality({c}) = 1
    BY FS_Singleton
  <1>3. IsFiniteSet(New) /\ Cardinality(New) = n
    <2>1. IsFiniteSet(New) /\ Cardinality(New) = Cardinality({c}) * Cardinality(I)
      BY <1>1, <1>2, FS_Product
    <2> QED BY <1>1, <1>2, <2>1
  <1>4. Lists(g) = Lists(f) \cup New
    <2>1. ASSUME NEW q \in Conns \X (1..MaxRequests)
          PROVE  q \in Lists(g) <=> q \in Lists(f) \/ q \in New
      <3>1. CASE q[1] = c
        BY <1>0, <3>1 DEF Lists
      <3>2. CASE q[1] # c
        BY <3>2 DEF Lists
      <3> QED BY <3>1, <3>2
    <2>2. New \subseteq Conns \X (1..MaxRequests)
      BY <1>0
    <2>3. /\ Lists(g) \subseteq Conns \X (1..MaxRequests)
          /\ Lists(f) \subseteq Conns \X (1..MaxRequests)
      BY DEF Lists
    <2> HIDE DEF New
    <2> QED BY <2>1, <2>2, <2>3
  <1>5. Lists(f) \cap New = {}
    BY <1>0 DEF Lists
  <1>6. Cardinality(Lists(f) \cap New) = 0
    BY <1>5, FS_EmptySet
  <1> HIDE DEF New
  <1>7. Cardinality(Lists(f) \cup New)
            = Cardinality(Lists(f)) + Cardinality(New) - Cardinality(Lists(f) \cap New)
    BY <1>3, ListsFinite, FS_Union
  <1> QED BY <1>3, <1>4, <1>6, <1>7, ListsFinite

queuedOf == [c \in Conns |-> conn[c].queued]

\* Queued as a cardinality.
LEMMA QueuedIs == InLists = Lists(queuedOf) /\ Queued = Cardinality(Lists(queuedOf))
  BY DEF InLists, Lists, queuedOf, Queued

\* Queued is a natural number, before and after a step.
LEMMA QueuedType == Queued \in Nat /\ Queued' \in Nat
  <1>1. Queued' = Cardinality(Lists(queuedOf'))
    BY DEF InLists, Lists, queuedOf, Queued
  <1> QED BY <1>1, QueuedIs, ListsFinite

\* No list changes.
LEMMA QueuedSame ==
    ASSUME \A c \in Conns : conn'[c].queued = conn[c].queued
    PROVE  Queued' = Queued
  <1>1. queuedOf' = queuedOf
    BY DEF queuedOf
  <1> QED BY <1>1, QueuedIs DEF Queued, InLists, queuedOf

\* One list grows.
LEMMA QueuedGrows ==
    ASSUME TypeOK, NEW c \in Conns, NEW n \in Nat, conn' \in [Conns -> Connection],
           conn'[c].queued = conn[c].queued + n,
           \A b \in Conns \ {c} : conn'[b].queued = conn[b].queued
    PROVE  Queued' = Queued + n
  <1>1. queuedOf \in [Conns -> 0..MaxRequests] /\ queuedOf' \in [Conns -> 0..MaxRequests]
    BY DEF queuedOf, TypeOK, Connection
  <1>2. queuedOf'[c] = queuedOf[c] + n /\ \A b \in Conns \ {c} : queuedOf'[b] = queuedOf[b]
    BY DEF queuedOf
  <1>3. Cardinality(Lists(queuedOf')) = Cardinality(Lists(queuedOf)) + n
    BY <1>1, <1>2, ListsGrow
  <1>4. Queued' = Cardinality(Lists(queuedOf'))
    BY DEF InLists, Lists, queuedOf, Queued
  <1> QED BY <1>3, <1>4, QueuedIs

\* One list shrinks.
LEMMA QueuedShrinks ==
    ASSUME TypeOK, NEW c \in Conns, NEW n \in Nat, conn' \in [Conns -> Connection],
           conn[c].queued = conn'[c].queued + n,
           \A b \in Conns \ {c} : conn'[b].queued = conn[b].queued
    PROVE  Queued' = Queued - n
  <1>1. queuedOf \in [Conns -> 0..MaxRequests] /\ queuedOf' \in [Conns -> 0..MaxRequests]
    BY DEF queuedOf, TypeOK, Connection
  <1>2. queuedOf[c] = queuedOf'[c] + n /\ \A b \in Conns \ {c} : queuedOf[b] = queuedOf'[b]
    BY DEF queuedOf
  <1>3. Cardinality(Lists(queuedOf)) = Cardinality(Lists(queuedOf')) + n
    BY <1>1, <1>2, ListsGrow
  <1>4. Queued' = Cardinality(Lists(queuedOf'))
    BY DEF InLists, Lists, queuedOf, Queued
  <1> QED BY <1>3, <1>4, QueuedIs, ListsFinite

-----------------------------------------------------------------------------
(* Steps that change no connection, and the end of the program *)

\* Connections that are new or not there have empty lists.
LEMMA NewType ==
    /\ NewConnection \in Connection /\ NoConnection \in Connection
    /\ NewConnection.queued = 0 /\ NewConnection.complete = 0
    /\ NewConnection.m_nResponses = 0 /\ NewConnection.m_nRequests = 0
    /\ NoConnection.queued = 0 /\ NoConnection.complete = 0
    /\ NoConnection.m_nResponses = 0 /\ NoConnection.m_nRequests = 0
  <1>1. NewConnection \in Connection
    BY SingleAssumption DEF NewConnection, Connection
  <1>2. \A r \in Connection : LET s == [r EXCEPT !.live = FALSE] IN
            /\ s \in Connection
            /\ s.queued = r.queued /\ s.complete = r.complete
            /\ s.m_nResponses = r.m_nResponses /\ s.m_nRequests = r.m_nRequests
    BY DEF Connection
  <1>3. /\ NewConnection.queued = 0 /\ NewConnection.complete = 0
        /\ NewConnection.m_nResponses = 0 /\ NewConnection.m_nRequests = 0
    BY DEF NewConnection
  <1> QED BY <1>1, <1>2, <1>3 DEF NoConnection

\* The types of a connection's members.
LEMMA FieldTypes ==
    ASSUME TypeOK, NEW c \in Conns
    PROVE  /\ conn[c] \in Connection
           /\ conn[c].queued \in 0..MaxRequests /\ conn[c].complete \in 0..MaxRequests
           /\ conn[c].m_nRequests \in Nat /\ conn[c].m_nResponses \in Nat
           /\ conn[c].m_nActiveRequests \in Int /\ conn[c].m_bDoneReading \in BOOLEAN
  BY DEF TypeOK, Connection

\* Before the first call nothing is pending.
LEMMA InitServe == Init => ServeInv
  <1> SUFFICES ASSUME Init PROVE ServeInv
    OBVIOUS
  <1>1. \A c \in Conns : conn[c] = NoConnection
    BY DEF Init
  <1>2. TypeOK
    <2>1. conn \in [Conns -> Connection]
      BY NewType DEF Init
    <2>2. accepted \in 0..MaxAccepted /\ m_nRequestsPending \in Nat
      BY SingleAssumption DEF Init
    <2> QED BY <2>1, <2>2, Zenon DEF Init, TypeOK
  <1>3. InLists = {}
    BY <1>1, NewType, SingleAssumption DEF InLists
  <1>4. Queued = 0
    BY <1>3, FS_EmptySet DEF Queued
  <1>5. LoadInv
    BY <1>1, NewType DEF Init, LoadInv, Load
  <1>6. ReadInv /\ PendingInv
    BY <1>4 DEF Init, ReadInv, PendingInv
  <1> QED BY <1>2, <1>5, <1>6 DEF ServeInv

\* A server that has ended serves nothing.
LEMMA EndsServe ==
    ASSUME ServeInv, Ends,
           UNCHANGED <<m_nRequestsPending, accepted>>, m_bAccepting' \in BOOLEAN,
           m_bAcceptedNewConnection' \in BOOLEAN, m_oCurrentRequest' \in Conns \cup {None}
    PROVE  ServeInv'
  <1>1. pc' = "ended" /\ m_oReadFds' = {} /\ \A c \in Conns : conn'[c] = NoConnection
    BY DEF Ends
  <1>2. TypeOK'
    BY <1>1, NewType DEF ServeInv, TypeOK, Ends
  <1>3. LoadInv'
    BY <1>1, NewType DEF LoadInv, Load
  <1>4. ReadInv' /\ PendingInv'
    BY <1>1 DEF ReadInv, PendingInv
  <1> QED BY <1>2, <1>3, <1>4 DEF ServeInv

\* Steps that change neither lists nor m_nRequestsPending.
LEMMA SameServe ==
    ASSUME ServeInv, UNCHANGED <<conn, m_nRequestsPending, accepted>>, pc # "ended",
           pc' \in {"main", "caught", "begin", "accept", "read", "clear", "test"},
           m_bAccepting' \in BOOLEAN, m_bAcceptedNewConnection' \in BOOLEAN,
           m_oCurrentRequest' \in Conns \cup {None}, m_oReadFds' \subseteq Conns,
           pc' = "main" => m_nRequestsPending = 0, ReadInv'
    PROVE  ServeInv'
  <1>1. TypeOK'
    BY DEF ServeInv, TypeOK
  <1>2. LoadInv'
    <2> SUFFICES ASSUME NEW c \in Conns
                 PROVE  /\ Load(c)' > 0 \/ ~conn[c].m_bDoneReading
                            => conn[c].m_nResponses + Load(c)' <= conn[c].complete
                        /\ Load(c)' > 0 => conn[c].m_nRequests = 1 + conn[c].complete
      BY DEF LoadInv
    <2>1. Load(c)' = conn[c].queued /\ Load(c) \in {conn[c].queued, conn[c].queued + 1}
      BY FieldTypes DEF Load, ServeInv
    <2>2. /\ conn[c].queued \in Nat /\ conn[c].m_nResponses \in Nat
          /\ conn[c].complete \in Nat
      BY FieldTypes, SingleAssumption DEF ServeInv
    <2> QED BY <2>1, <2>2 DEF ServeInv, LoadInv
  <1>3. Queued' = Queued
    BY QueuedSame
  <1>4. PendingInv'
    BY <1>3 DEF ServeInv, PendingInv
  <1> QED BY <1>1, <1>2, <1>4 DEF ServeInv

\* An exception ends the server or the call.
LEMMA ThrowsServe ==
    ASSUME ServeInv, pc # "ended", NEW what, Throws(what),
           UNCHANGED <<m_nRequestsPending, accepted>>, m_bAccepting' \in BOOLEAN,
           m_bAcceptedNewConnection' \in BOOLEAN, m_oCurrentRequest' \in Conns \cup {None}
    PROVE  ServeInv'
  <1>1. CASE what \in Retried
    <2>1. pc' = "caught" /\ UNCHANGED <<conn, m_oReadFds>>
      BY <1>1 DEF Throws
    <2>2. ReadInv'
      BY <2>1 DEF ReadInv
    <2> QED BY <2>1, <2>2, SameServe DEF ServeInv, TypeOK
  <1>2. CASE what \notin Retried
    BY <1>2, EndsServe DEF Throws
  <1> QED BY <1>1, <1>2

\* Steps of HandleData and of the program between those that work on connections.
LEMMA BetweenServe ==
    ASSUME ServeInv,
           \/ HandleData \/ StopServer \/ Ended \/ UNCHANGED vars \/ RouteThrows \/ Select
           \/ SelectTimeout \/ SelectFails \/ NoAccept \/ AcceptThrows \/ EndRead \/ Test
    PROVE  ServeInv'
  <1> USE DEF ServeInv, TypeOK, Goes, flags
  <1>1. CASE HandleData
    <2>1. ReadInv'
      BY <1>1 DEF HandleData, ReadInv
    <2> QED BY <1>1, <2>1, SameServe DEF HandleData
  <1>2. CASE StopServer
    BY <1>2, EndsServe DEF StopServer
  <1>3. CASE Ended \/ UNCHANGED vars
    <2>1. UNCHANGED <<pc, m_nRequestsPending, m_bAccepting, m_bAcceptedNewConnection,
                      m_oCurrentRequest, m_oReadFds, conn, accepted>>
      BY <1>3 DEF Ended, vars
    <2>2. Queued' = Queued
      BY <2>1, QueuedSame
    <2> QED BY <2>1, <2>2 DEF LoadInv, Load, ReadInv, PendingInv
  <1>4. CASE RouteThrows
    BY <1>4, ThrowsServe DEF RouteThrows
  <1>5. CASE AcceptThrows
    BY <1>5, ThrowsServe DEF AcceptThrows
  <1>6. CASE SelectFails
    BY <1>6, ThrowsServe DEF SelectFails, BeginAccepting, NoRequest
  <1>7. CASE Select
    <2>1. m_oReadFds' \subseteq Readable /\ \A c \in Conns : conn[c].queued = 0
      BY <1>7 DEF Select, BeginAccepting, NoRequest
    <2>2. ReadInv'
      BY <1>7, <2>1 DEF Select, ReadInv, Readable
    <2>3. m_oReadFds' \subseteq Conns
      BY <2>1 DEF Readable
    <2> QED BY <1>7, <2>2, <2>3, SameServe DEF Select, BeginAccepting, NoRequest
  <1>8. CASE SelectTimeout
    <2>1. ReadInv'
      BY <1>8 DEF SelectTimeout, ReadInv
    <2> QED BY <1>8, <2>1, SameServe DEF SelectTimeout, BeginAccepting, NoRequest
  <1>9. CASE NoAccept \/ EndRead
    <2>1. ReadInv'
      BY <1>9 DEF NoAccept, EndRead, ReadInv
    <2> QED BY <1>9, <2>1, SameServe DEF NoAccept, EndRead
  <1>10. CASE Test
    <2>1. ReadInv'
      BY <1>10 DEF Test, ReadInv
    <2> QED BY <1>10, <2>1, SameServe DEF Test
  <1> QED BY <1>1, <1>2, <1>3, <1>4, <1>5, <1>6, <1>7, <1>8, <1>9, <1>10


-----------------------------------------------------------------------------
(* Steps that work on a connection *)

\* What an assignment to a field of a connection leaves alone.
LEMMA Assigned ==
    ASSUME NEW r \in Connection
    PROVE  /\ \A q \in 0..MaxRequests : LET s == [r EXCEPT !.queued = q] IN
                /\ s \in Connection /\ s.queued = q /\ s.complete = r.complete
                /\ s.m_nResponses = r.m_nResponses /\ s.m_nRequests = r.m_nRequests
                /\ s.m_bDoneReading = r.m_bDoneReading
                /\ s.m_nActiveRequests = r.m_nActiveRequests
           /\ \A q \in 0..MaxRequests : LET s == [r EXCEPT !.complete = q] IN
                /\ s \in Connection /\ s.queued = r.queued /\ s.complete = q
                /\ s.m_nResponses = r.m_nResponses /\ s.m_nRequests = r.m_nRequests
                /\ s.m_bDoneReading = r.m_bDoneReading
                /\ s.m_nActiveRequests = r.m_nActiveRequests
           /\ \A q \in Nat : LET s == [r EXCEPT !.m_nRequests = q] IN
                /\ s \in Connection /\ s.queued = r.queued /\ s.complete = r.complete
                /\ s.m_nResponses = r.m_nResponses /\ s.m_nRequests = q
                /\ s.m_bDoneReading = r.m_bDoneReading
                /\ s.m_nActiveRequests = r.m_nActiveRequests
           /\ \A q \in Nat : LET s == [r EXCEPT !.m_nResponses = q] IN
                /\ s \in Connection /\ s.queued = r.queued /\ s.complete = r.complete
                /\ s.m_nResponses = q /\ s.m_nRequests = r.m_nRequests
                /\ s.m_bDoneReading = r.m_bDoneReading
                /\ s.m_nActiveRequests = r.m_nActiveRequests
           /\ \A q \in Int : LET s == [r EXCEPT !.m_nActiveRequests = q] IN
                /\ s \in Connection /\ s.queued = r.queued /\ s.complete = r.complete
                /\ s.m_nResponses = r.m_nResponses /\ s.m_nRequests = r.m_nRequests
                /\ s.m_bDoneReading = r.m_bDoneReading
           /\ \A q \in BOOLEAN : LET s == [r EXCEPT !.m_bDoneReading = q] IN
                /\ s \in Connection /\ s.queued = r.queued /\ s.complete = r.complete
                /\ s.m_nResponses = r.m_nResponses /\ s.m_nRequests = r.m_nRequests
                /\ s.m_bDoneReading = q
           /\ \A q \in BOOLEAN : LET s == [r EXCEPT !.m_bDisconnected = q] IN
                /\ s \in Connection /\ s.queued = r.queued /\ s.complete = r.complete
                /\ s.m_nResponses = r.m_nResponses /\ s.m_nRequests = r.m_nRequests
                /\ s.m_bDoneReading = r.m_bDoneReading
  <1>1. r.queued \in 0..MaxRequests /\ r.complete \in 0..MaxRequests
    BY DEF Connection
  <1> QED BY <1>1 DEF Connection

\* The connection c becomes r.
Becomes(c, r) ==
    /\ conn' \in [Conns -> Connection]
    /\ conn'[c] = r
    /\ \A b \in Conns \ {c} : conn'[b] = conn[b]

\* GetNextRequest takes a request out of a list and out of the count.
LEMMA GetNextServe ==
    ASSUME ServeInv, NEW c \in Conns, GetNextRequest(c)
    PROVE  ServeInv'
  <1> DEFINE r1 == [conn[c] EXCEPT !.queued = conn[c].queued - 1]
             r2 == [r1 EXCEPT !.m_nActiveRequests = r1.m_nActiveRequests + 1]
  <1>0. /\ TypeOK /\ pc = "begin" /\ pc' = "route" /\ conn[c].queued > 0
        /\ m_oCurrentRequest' = c /\ m_nRequestsPending' = m_nRequestsPending - 1
        /\ UNCHANGED <<m_bAccepting, m_bAcceptedNewConnection, m_oReadFds, accepted>>
    BY DEF GetNextRequest, Goes, flags, ServeInv
  <1>1. conn[c].queued - 1 \in 0..MaxRequests /\ conn[c] \in Connection
    BY <1>0, FieldTypes, SingleAssumption
  <1>2. /\ r1 \in Connection /\ r1.queued = conn[c].queued - 1
        /\ r1.complete = conn[c].complete /\ r1.m_nResponses = conn[c].m_nResponses
        /\ r1.m_nRequests = conn[c].m_nRequests
        /\ r1.m_bDoneReading = conn[c].m_bDoneReading
    BY <1>1, Assigned
  <1>3. r1.m_nActiveRequests + 1 \in Int
    BY <1>2 DEF Connection
  <1>4. /\ r2 \in Connection /\ r2.queued = conn[c].queued - 1
        /\ r2.complete = conn[c].complete /\ r2.m_nResponses = conn[c].m_nResponses
        /\ r2.m_nRequests = conn[c].m_nRequests
        /\ r2.m_bDoneReading = conn[c].m_bDoneReading
    <2> HIDE DEF r1
    <2> QED BY <1>2, <1>3, Assigned
  <1>5. conn' = [conn EXCEPT ![c] = r2]
    BY <1>0 DEF GetNextRequest, TypeOK
  <1> HIDE DEF r2
  <1>6. Becomes(c, r2)
    BY <1>0, <1>4, <1>5 DEF TypeOK, Becomes
  <1>7. Queued' = Queued - 1
    <2>1. conn[c].queued = conn'[c].queued + 1
      BY <1>0, <1>4, <1>6, FieldTypes DEF Becomes
    <2> QED BY <1>0, <1>6, <2>1, QueuedShrinks DEF Becomes
  <1>8. m_nRequestsPending' = Queued' /\ m_nRequestsPending' \in Nat
    BY <1>0, <1>7, QueuedType DEF ServeInv, PendingInv
  <1>9. TypeOK'
    BY <1>0, <1>6, <1>8 DEF TypeOK, Becomes
  <1>10. LoadInv'
    <2>1. \A b \in Conns : Load(b)' = Load(b)
      BY <1>0, <1>4, <1>6, FieldTypes DEF Load, Becomes
    <2>2. \A b \in Conns : /\ conn'[b].complete = conn[b].complete
                           /\ conn'[b].m_nResponses = conn[b].m_nResponses
                           /\ conn'[b].m_nRequests = conn[b].m_nRequests
                           /\ conn'[b].m_bDoneReading = conn[b].m_bDoneReading
      BY <1>4, <1>6 DEF Becomes
    <2> QED BY <1>0, <2>1, <2>2 DEF ServeInv, LoadInv
  <1> QED BY <1>0, <1>8, <1>9, <1>10 DEF ServeInv, ReadInv, PendingInv

\* The request in hand is answered.
LEMMA RouteServe ==
    ASSUME ServeInv, RouteRequest
    PROVE  ServeInv'
  <1> DEFINE c == m_oCurrentRequest
  <1>0. /\ TypeOK /\ pc = "route" /\ pc' = "test" /\ c \in Conns
        /\ m_oCurrentRequest' = None
        /\ UNCHANGED <<m_nRequestsPending, m_bAccepting, m_bAcceptedNewConnection, m_oReadFds,
                       accepted>>
    BY DEF RouteRequest, Goes, flags, ServeInv, LoadInv
  <1>a. PICK close \in BOOLEAN :
            conn' = [conn EXCEPT ![c].m_nActiveRequests = @ - 1,
                                 ![c].m_nResponses = @ + 1,
                                 ![c].m_bDoneReading = @ \/ (close /\ ~conn[c].m_bDisconnected)]
    BY DEF RouteRequest
  <1> DEFINE r1 == [conn[c] EXCEPT !.m_nActiveRequests = conn[c].m_nActiveRequests - 1]
             r2 == [r1 EXCEPT !.m_nResponses = r1.m_nResponses + 1]
             done == r2.m_bDoneReading \/ (close /\ ~conn[c].m_bDisconnected)
             r3 == [r2 EXCEPT !.m_bDoneReading = done]
  <1>1. conn[c].m_nActiveRequests - 1 \in Int /\ conn[c] \in Connection
    BY <1>0, FieldTypes
  <1>2. /\ r1 \in Connection /\ r1.queued = conn[c].queued
        /\ r1.complete = conn[c].complete /\ r1.m_nResponses = conn[c].m_nResponses
        /\ r1.m_nRequests = conn[c].m_nRequests
    BY <1>1, Assigned
  <1>3. r1.m_nResponses + 1 \in Nat
    BY <1>2 DEF Connection
  <1>4. /\ r2 \in Connection /\ r2.queued = conn[c].queued
        /\ r2.complete = conn[c].complete /\ r2.m_nResponses = conn[c].m_nResponses + 1
        /\ r2.m_nRequests = conn[c].m_nRequests
    <2> HIDE DEF r1
    <2> QED BY <1>2, <1>3, Assigned
  <1>5. conn' = [conn EXCEPT ![c] = r3]
    BY <1>0, <1>a DEF TypeOK
  <1>6. done \in BOOLEAN
    OBVIOUS
  <1>7. /\ r3 \in Connection /\ r3.queued = conn[c].queued
        /\ r3.complete = conn[c].complete /\ r3.m_nResponses = conn[c].m_nResponses + 1
        /\ r3.m_nRequests = conn[c].m_nRequests
    <2> HIDE DEF r2, done
    <2> QED BY <1>4, <1>6, Assigned
  <1> HIDE DEF r3
  <1>8. Becomes(c, r3)
    BY <1>0, <1>5, <1>7 DEF TypeOK, Becomes
  <1>9. Queued' = Queued
    BY <1>0, <1>7, <1>8, QueuedSame DEF Becomes
  <1>10. TypeOK'
    BY <1>0, <1>8 DEF TypeOK, Becomes
  <1>11. LoadInv'
    <2> HIDE DEF c
    <2> SUFFICES ASSUME NEW b \in Conns
                 PROVE  /\ Load(b)' > 0 \/ ~conn'[b].m_bDoneReading
                            => conn'[b].m_nResponses + Load(b)' <= conn'[b].complete
                        /\ Load(b)' > 0 => conn'[b].m_nRequests = 1 + conn'[b].complete
      BY <1>0 DEF LoadInv
    <2>1. Load(b)' = conn'[b].queued
      BY <1>0, <1>10, FieldTypes DEF Load, TypeOK, Connection
    <2>2. CASE b = c
      <3>1. Load(c) = conn[c].queued + 1
        BY <1>0, FieldTypes DEF Load, c
      <3>2. conn[c].queued \in Nat /\ conn[c].m_nResponses \in Nat /\ conn[c].complete \in Nat
        BY <1>0, FieldTypes, SingleAssumption
      <3>3. /\ conn[c].m_nResponses + (conn[c].queued + 1) <= conn[c].complete
            /\ conn[c].m_nRequests = 1 + conn[c].complete
        BY <1>0, <3>1, <3>2 DEF ServeInv, LoadInv
      <3> QED BY <1>7, <1>8, <2>1, <2>2, <3>2, <3>3 DEF Becomes
    <2>3. CASE b # c
      <3>1. conn'[b] = conn[b]
        BY <1>8, <2>3 DEF Becomes
      <3>2. Load(b) = conn[b].queued
        BY <1>0, <2>3, FieldTypes DEF Load, c
      <3> QED BY <2>1, <3>1, <3>2 DEF ServeInv, LoadInv
    <2> QED BY <2>2, <2>3
  <1> QED BY <1>0, <1>9, <1>10, <1>11 DEF ServeInv, ReadInv, PendingInv

\* A new connection has no requests.
LEMMA AcceptServe ==
    ASSUME ServeInv, NEW c \in Conns, Accept(c)
    PROVE  ServeInv'
  <1>0. /\ TypeOK /\ pc = "accept" /\ pc' = "read" /\ accepted < MaxAccepted
        /\ accepted' = accepted + 1 /\ m_bAcceptedNewConnection' = TRUE
        /\ conn' = [conn EXCEPT ![c] = NewConnection]
        /\ UNCHANGED <<m_nRequestsPending, m_bAccepting, m_oCurrentRequest, m_oReadFds>>
    BY DEF Accept, Goes, ServeInv
  <1>1. Becomes(c, NewConnection)
    BY <1>0, NewType DEF TypeOK, Becomes
  <1>2. \A b \in Conns : conn[b].queued = 0 /\ conn'[b].queued = 0
    BY <1>0, <1>1, NewType DEF ServeInv, ReadInv, Becomes
  <1>3. Queued' = Queued
    BY <1>2, QueuedSame
  <1>4. accepted' \in 0..MaxAccepted
    BY <1>0, SingleAssumption DEF TypeOK
  <1>5. TypeOK'
    BY <1>0, <1>1, <1>4 DEF TypeOK, Becomes
  <1>6. NewConnection.m_bDoneReading = FALSE
    BY DEF NewConnection
  <1>7. LoadInv'
    <2>1. \A b \in Conns : Load(b) = 0 /\ Load(b)' = 0
      BY <1>0, <1>2 DEF Load
    <2> QED BY <1>0, <1>1, <2>1, NewType DEF ServeInv, LoadInv, Becomes
  <1>8. ReadInv'
    BY <1>0, <1>1, <1>2, <1>6 DEF ServeInv, ReadInv, TypeOK, Becomes
  <1> QED BY <1>0, <1>3, <1>5, <1>7, <1>8 DEF ServeInv, PendingInv

\* A read adds n requests to the list of a connection, which was empty.
LEMMA ReadServe ==
    ASSUME ServeInv, NEW c \in Conns, Reading(c), NEW r \in Connection, Becomes(c, r),
           NEW n \in Nat, m_nRequestsPending' = m_nRequestsPending + n,
           r.queued = conn[c].queued + n,
           n > 0 \/ ~r.m_bDoneReading => r.m_nResponses + n <= r.complete,
           n > 0 => r.m_nRequests = 1 + r.complete
    PROVE  ServeInv'
  <1>0. /\ TypeOK /\ pc = "read" /\ c \in m_oReadFds /\ m_oReadFds' = m_oReadFds \ {c}
        /\ UNCHANGED <<pc, m_bAccepting, m_bAcceptedNewConnection, m_oCurrentRequest, accepted>>
    BY DEF Reading, flags, ServeInv
  <1>1. Queued' = Queued + n
    BY <1>0, QueuedGrows DEF Becomes
  <1>2. TypeOK'
    BY <1>0 DEF TypeOK, Becomes
  <1>3. r.queued = n
    BY <1>0 DEF ServeInv, ReadInv
  <1>4. LoadInv'
    <2> SUFFICES ASSUME NEW b \in Conns
                 PROVE  /\ Load(b)' > 0 \/ ~conn'[b].m_bDoneReading
                            => conn'[b].m_nResponses + Load(b)' <= conn'[b].complete
                        /\ Load(b)' > 0 => conn'[b].m_nRequests = 1 + conn'[b].complete
      BY <1>0 DEF LoadInv
    <2>1. Load(b)' = conn'[b].queued /\ Load(b) = conn[b].queued
      BY <1>0, <1>2, FieldTypes DEF Load, TypeOK, Connection
    <2>2. CASE b = c
      BY <1>3, <2>1, <2>2 DEF Becomes
    <2>3. CASE b # c
      BY <2>1, <2>3 DEF ServeInv, LoadInv, Becomes
    <2> QED BY <2>2, <2>3
  <1>5. ReadInv'
    BY <1>0 DEF ServeInv, ReadInv, TypeOK, Becomes
  <1> QED BY <1>0, <1>1, <1>2, <1>4, <1>5 DEF ServeInv, PendingInv

\* What AddBuffer does to a connection whose list is empty.
LEMMA AddBufferFields ==
    ASSUME TypeOK, NEW c \in Conns, NEW n \in Nat, conn[c].queued = 0,
           n <= MaxRequests - conn[c].complete
    PROVE  /\ AddBuffer(c, n) \in Connection
           /\ AddBuffer(c, n).queued = n
           /\ AddBuffer(c, n).complete = conn[c].complete + n
           /\ AddBuffer(c, n).m_nRequests = 1 + AddBuffer(c, n).complete
           /\ AddBuffer(c, n).m_nResponses = conn[c].m_nResponses
  <1> DEFINE r1 == [conn[c] EXCEPT !.queued = conn[c].queued + n]
             r2 == [r1 EXCEPT !.complete = r1.complete + n]
             r3 == [r2 EXCEPT !.m_nRequests = 1 + conn[c].complete + n]
  <1>1. /\ conn[c].queued + n \in 0..MaxRequests /\ conn[c].complete + n \in 0..MaxRequests
        /\ 1 + conn[c].complete + n \in Nat /\ conn[c] \in Connection
        /\ 1 + conn[c].complete + n = 1 + (conn[c].complete + n)
        /\ conn[c].queued + n = n
    BY FieldTypes, SingleAssumption
  <1>2. /\ r1 \in Connection /\ r1.queued = n /\ r1.complete = conn[c].complete
        /\ r1.m_nResponses = conn[c].m_nResponses
    BY <1>1, Assigned
  <1>3. /\ r2 \in Connection /\ r2.queued = n /\ r2.complete = conn[c].complete + n
        /\ r2.m_nResponses = conn[c].m_nResponses
    <2> HIDE DEF r1
    <2> QED BY <1>1, <1>2, Assigned
  <1>4. /\ r3 \in Connection /\ r3.queued = n /\ r3.complete = conn[c].complete + n
        /\ r3.m_nResponses = conn[c].m_nResponses
        /\ r3.m_nRequests = 1 + conn[c].complete + n
    <2> HIDE DEF r2
    <2> QED BY <1>1, <1>3, Assigned
  <1>5. AddBuffer(c, n) = r3
    BY <1>1 DEF AddBuffer, Connection
  <1> QED BY <1>1, <1>4, <1>5

\* An error response is counted, and reading ends.
LEMMA RefusedFields ==
    ASSUME NEW r \in Connection
    PROVE  LET s == [r EXCEPT !.m_nResponses = @ + 1, !.m_nActiveRequests = @ - 1,
                              !.m_bDoneReading = TRUE]
           IN  s \in Connection /\ s.queued = r.queued /\ s.m_bDoneReading = TRUE
  <1>1. r.m_nResponses + 1 \in Nat /\ r.m_nActiveRequests - 1 \in Int
    BY DEF Connection
  <1> QED BY <1>1 DEF Connection

\* Reading adds the same to the list and to the count, and an error response
\* nothing.
LEMMA ReadsServe ==
    ASSUME ServeInv, ~PipelinedInvalid, NEW c \in Conns,
           ReadRequests(c) \/ ReadInvalid(c) \/ ReadTooBig(c) \/ ReadEnd(c)
    PROVE  ServeInv'
  <1>0. Reading(c)
    BY DEF ReadRequests, ReadInvalid, ReadTooBig, ReadEnd
  <1>1. /\ TypeOK /\ conn[c].queued = 0 /\ ~conn[c].m_bDoneReading
        /\ conn[c].m_nResponses <= conn[c].complete /\ conn[c] \in Connection
        /\ m_nRequestsPending \in Nat
    <2>1. TypeOK /\ conn[c].queued = 0 /\ ~conn[c].m_bDoneReading /\ pc = "read"
      BY <1>0 DEF ServeInv, ReadInv, Reading
    <2>2. Load(c) = 0
      BY <2>1 DEF Load
    <2>3. conn[c].m_nResponses <= conn[c].complete
      BY <2>1, <2>2, FieldTypes DEF ServeInv, LoadInv
    <2> QED BY <2>1, <2>3, FieldTypes DEF TypeOK
  <1>2. ASSUME NEW r \in Connection, conn' = [conn EXCEPT ![c] = r]
        PROVE  Becomes(c, r)
    BY <1>1, <1>2 DEF TypeOK, Becomes
  <1>3. CASE ReadRequests(c)
    <2>1. PICK n \in 0..(MaxRequests - conn[c].complete) :
            /\ conn' = [conn EXCEPT ![c] = AddBuffer(c, n)]
            /\ m_nRequestsPending' = m_nRequestsPending + n
      BY <1>3 DEF ReadRequests
    <2>2. n \in Nat /\ n <= MaxRequests - conn[c].complete
      BY <1>1, FieldTypes, SingleAssumption
    <2> DEFINE r == AddBuffer(c, n)
    <2>3. /\ r \in Connection /\ r.queued = n /\ r.complete = conn[c].complete + n
          /\ r.m_nRequests = 1 + r.complete /\ r.m_nResponses = conn[c].m_nResponses
      BY <1>1, <2>2, AddBufferFields
    <2> HIDE DEF r
    <2>4. Becomes(c, r)
      BY <1>2, <2>1, <2>3 DEF r
    <2>5. r.m_nResponses + n <= r.complete /\ r.queued = conn[c].queued + n
      BY <1>1, <2>2, <2>3, FieldTypes
    <2> QED BY <1>0, <2>1, <2>2, <2>3, <2>4, <2>5, ReadServe
  <1>4. ASSUME NEW r \in Connection, conn' = [conn EXCEPT ![c] = r], r.queued = 0,
               r.m_bDoneReading = TRUE, UNCHANGED m_nRequestsPending
        PROVE  ServeInv'
    <2>1. Becomes(c, r)
      BY <1>2, <1>4
    <2>2. m_nRequestsPending' = m_nRequestsPending + 0 /\ r.queued = conn[c].queued + 0
      BY <1>1, <1>4
    <2>3. 0 > 0 \/ ~r.m_bDoneReading => r.m_nResponses + 0 <= r.complete
      BY <1>4
    <2>4. 0 > 0 => r.m_nRequests = 1 + r.complete
      OBVIOUS
    <2>5. 0 \in Nat
      OBVIOUS
    <2> QED BY <1>0, <2>1, <2>2, <2>3, <2>4, <2>5, ReadServe, Zenon
  <1>5. CASE ReadInvalid(c)
    <2> DEFINE a == AddBuffer(c, 0)
               r == [a EXCEPT !.m_nResponses = @ + 1, !.m_nActiveRequests = @ - 1,
                              !.m_bDoneReading = TRUE]
    <2>1. PICK n \in 0..(MaxRequests - conn[c].complete) :
            /\ n > 0 => PipelinedInvalid
            /\ conn' = [conn EXCEPT ![c] =
                    [AddBuffer(c, n) EXCEPT !.m_nResponses = @ + 1,
                        !.m_nActiveRequests = @ - 1, !.m_bDoneReading = TRUE]]
            /\ m_nRequestsPending' = m_nRequestsPending + n
      BY <1>5 DEF ReadInvalid
    <2>2. n = 0 /\ 0 <= MaxRequests - conn[c].complete
      BY <1>1, <2>1, FieldTypes, SingleAssumption
    <2>3. a \in Connection /\ a.queued = 0
      BY <1>1, <2>2, AddBufferFields
    <2>4. conn' = [conn EXCEPT ![c] = r] /\ UNCHANGED m_nRequestsPending
      BY <1>1, <2>1, <2>2
    <2> HIDE DEF a
    <2>5. r \in Connection /\ r.queued = 0 /\ r.m_bDoneReading = TRUE
      BY <2>3, RefusedFields
    <2> HIDE DEF r
    <2> QED BY <1>4, <2>4, <2>5
  <1>6. CASE ReadTooBig(c)
    <2> DEFINE r == [conn[c] EXCEPT !.m_nResponses = @ + 1, !.m_nActiveRequests = @ - 1,
                                    !.m_bDoneReading = TRUE]
    <2>1. conn' = [conn EXCEPT ![c] = r] /\ UNCHANGED m_nRequestsPending
      BY <1>1, <1>6 DEF ReadTooBig, TypeOK, Connection
    <2>2. r \in Connection /\ r.queued = 0 /\ r.m_bDoneReading = TRUE
      BY <1>1, RefusedFields
    <2> HIDE DEF r
    <2> QED BY <1>4, <2>1, <2>2
  <1>7. CASE ReadEnd(c)
    <2> DEFINE r1 == [conn[c] EXCEPT !.m_bDoneReading = TRUE]
               r2 == [r1 EXCEPT !.m_bDisconnected = TRUE]
    <2>1. conn' = [conn EXCEPT ![c] = r2] /\ UNCHANGED m_nRequestsPending
      BY <1>1, <1>7 DEF ReadEnd, TypeOK, Connection
    <2>2. r1 \in Connection /\ r1.queued = 0 /\ r1.m_bDoneReading = TRUE
      BY <1>1, Assigned
    <2> HIDE DEF r1
    <2>3. r2 \in Connection /\ r2.queued = 0 /\ r2.m_bDoneReading = TRUE
      BY <2>2, Assigned
    <2> HIDE DEF r2
    <2> QED BY <1>4, <2>1, <2>3
  <1> QED BY <1>3, <1>5, <1>6, <1>7

\* Connections are cleared only with empty lists.
LEMMA ClearServe ==
    ASSUME ServeInv, ClearIdleConnections
    PROVE  ServeInv'
  <1>0. /\ TypeOK /\ pc = "clear" /\ pc' = "test" /\ m_bAccepting' = FALSE
        /\ UNCHANGED <<m_nRequestsPending, m_bAcceptedNewConnection, m_oCurrentRequest,
                       m_oReadFds, accepted>>
    BY DEF ClearIdleConnections, Goes, ServeInv
  <1> DEFINE marked(i, c) == [conn[c] EXCEPT !.m_bDoneReading = @ \/ c \in i]
  <1>1. PICK idle \in SUBSET Idle :
            conn' = [c \in Conns |->
                IF Finished(marked(idle, c)) THEN NoConnection ELSE marked(idle, c)]
    BY DEF ClearIdleConnections
  <1>2. ASSUME NEW c \in Conns
        PROVE  /\ marked(idle, c) \in Connection
               /\ marked(idle, c).queued = conn[c].queued
               /\ marked(idle, c).complete = conn[c].complete
               /\ marked(idle, c).m_nResponses = conn[c].m_nResponses
               /\ marked(idle, c).m_nRequests = conn[c].m_nRequests
               /\ ~marked(idle, c).m_bDoneReading => ~conn[c].m_bDoneReading
    <2> DEFINE done == conn[c].m_bDoneReading \/ c \in idle
    <2>1. marked(idle, c) = [conn[c] EXCEPT !.m_bDoneReading = done]
      BY Zenon
    <2>2. done \in BOOLEAN /\ (~done => ~conn[c].m_bDoneReading)
      OBVIOUS
    <2> HIDE DEF done
    <2>3. conn[c] \in Connection
      BY <1>0, FieldTypes
    <2> QED BY <2>1, <2>2, <2>3, Assigned
  <1>3. ASSUME NEW c \in Conns
        PROVE  Load(c) = conn[c].queued
    BY <1>0, FieldTypes DEF Load
  <1>4. ASSUME NEW c \in Conns, Finished(marked(idle, c))
        PROVE  conn[c].queued = 0
    <2>1. conn[c].m_nRequests - 1 <= conn[c].m_nResponses
      BY <1>2, <1>4 DEF Finished
    <2>2. /\ conn[c].queued \in Nat /\ conn[c].complete \in Nat
          /\ conn[c].m_nResponses \in Nat
      BY <1>0, FieldTypes, SingleAssumption
    <2>3. conn[c].queued > 0 => /\ conn[c].m_nResponses + conn[c].queued <= conn[c].complete
                                /\ conn[c].m_nRequests = 1 + conn[c].complete
      BY <1>3 DEF ServeInv, LoadInv
    <2> QED BY <2>1, <2>2, <2>3
  <1> HIDE DEF marked
  <1>5. ASSUME NEW c \in Conns
        PROVE  \/ conn'[c] = NoConnection /\ conn[c].queued = 0
               \/ conn'[c] = marked(idle, c)
    BY <1>1, <1>4
  <1>6. conn' \in [Conns -> Connection]
    <2>1. DOMAIN conn' = Conns /\ conn' = [c \in Conns |-> conn'[c]]
      BY <1>1
    <2>2. \A c \in Conns : conn'[c] \in Connection
      BY <1>2, <1>5, NewType
    <2> QED BY <2>1, <2>2
  <1>7. \A c \in Conns : conn'[c].queued = conn[c].queued
    BY <1>2, <1>5, NewType
  <1>8. Queued' = Queued
    BY <1>7, QueuedSame
  <1>9. TypeOK'
    BY <1>0, <1>6 DEF TypeOK
  <1>10. LoadInv'
    <2> SUFFICES ASSUME NEW c \in Conns
                 PROVE  /\ Load(c)' > 0 \/ ~conn'[c].m_bDoneReading
                            => conn'[c].m_nResponses + Load(c)' <= conn'[c].complete
                        /\ Load(c)' > 0 => conn'[c].m_nRequests = 1 + conn'[c].complete
      BY <1>0 DEF LoadInv
    <2>1. Load(c)' = conn[c].queued /\ Load(c) = conn[c].queued
      BY <1>0, <1>3, <1>7, FieldTypes DEF Load
    <2>2. CASE conn'[c] = NoConnection /\ conn[c].queued = 0
      BY <2>1, <2>2, NewType
    <2>3. CASE conn'[c] = marked(idle, c)
      BY <1>2, <2>1, <2>3 DEF ServeInv, LoadInv
    <2> QED BY <1>5, <2>2, <2>3
  <1> QED BY <1>0, <1>8, <1>9, <1>10 DEF ServeInv, ReadInv, PendingInv

-----------------------------------------------------------------------------
(* Theorems *)

\* Every step preserves ServeInv.
LEMMA NextServe ==
    ASSUME ServeInv, ~PipelinedInvalid, [Next]_vars
    PROVE  ServeInv'
  <1>1. CASE \/ HandleData \/ StopServer \/ Ended \/ UNCHANGED vars \/ RouteThrows \/ Select
             \/ SelectTimeout \/ SelectFails \/ NoAccept \/ AcceptThrows \/ EndRead \/ Test
    BY <1>1, BetweenServe
  <1>2. CASE RouteRequest
    BY <1>2, RouteServe
  <1>3. CASE ClearIdleConnections
    BY <1>3, ClearServe
  <1>4. CASE \E c \in Conns :
                \/ GetNextRequest(c) \/ Accept(c)
                \/ ReadRequests(c) \/ ReadInvalid(c) \/ ReadTooBig(c) \/ ReadEnd(c)
    BY <1>4, GetNextServe, AcceptServe, ReadsServe
  <1> QED BY <1>1, <1>2, <1>3, <1>4, Zenon DEF Next, InHandleData

\* Unless an invalid request comes behind others in one read, the counter of
\* pending requests, the lists and the counters of each connection agree in every
\* state of the single-threaded mode.
THEOREM ServeAlways ==
    ASSUME ~PipelinedInvalid
    PROVE  Spec => []ServeInv
  <1>1. Init => ServeInv
    BY InitServe
  <1>2. ServeInv /\ [Next]_vars => ServeInv'
    BY NextServe
  <1> QED BY <1>1, <1>2, PTL DEF Spec

\* HandleData returns to the program with every list empty, and the counter its
\* loop looks at is always the number of requests in the lists (ehs.cpp:1066).
THEOREM ServedCorrect ==
    ASSUME ~PipelinedInvalid
    PROVE  Spec => []RequestsServed
  <1>1. ServeInv => RequestsServed
    BY DEF ServeInv, PendingInv, RequestsServed
  <1> QED BY <1>1, ServeAlways, PTL
=============================================================================
