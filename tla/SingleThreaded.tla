---------------------------- MODULE SingleThreaded ----------------------------
(***************************************************************************)
(* The single-threaded mode of EHS (src/ehs.cpp, EHS::HandleData and       *)
(* EHSServer::HandleData).  The program calls EHS::HandleData again and    *)
(* again; a call accepts, reads, routes and answers in the caller's thread *)
(* until no request is pending and no connection has been accepted.        *)
(*                                                                         *)
(* Nothing runs beside the program's thread, so that a step may be as much *)
(* of the code as has one outcome.  Connections are addresses; what a read *)
(* returns is the number of requests it completes and how it ends.  The    *)
(* order of the connections in the list is left open, and raw mode is the  *)
(* subject of WsGate.                                                      *)
(***************************************************************************)
EXTENDS Integers, FiniteSets

CONSTANTS
    Conns,             \* addresses of EHSConnection objects
    MaxAccepted,       \* bound: connections the clients open
    MaxRequests,       \* bound: requests on a connection
    Retried,           \* exceptions after which the program calls again
    PipelinedInvalid   \* an invalid request may follow others in one read

ASSUME SingleAssumption ==
    /\ IsFiniteSet(Conns)
    /\ MaxAccepted \in Nat /\ MaxRequests \in Nat
    /\ Retried \subseteq {"handler", "select", "accept"}
    /\ PipelinedInvalid \in BOOLEAN

VARIABLES
    pc,         \* "main" outside of HandleData, "caught" after an exception,
                \* "ended", or where HandleData is
    m_nRequestsPending, m_bAccepting, m_bAcceptedNewConnection,
    m_oCurrentRequest,   \* the connection of the request in work, or None
    m_oReadFds,          \* connections with something to read
    conn,                \* for each address: the object
    accepted             \* connections opened so far

flags == <<m_bAccepting, m_bAcceptedNewConnection>>
vars == <<pc, m_nRequestsPending, flags, m_oCurrentRequest, m_oReadFds, conn, accepted>>

None == "none"

\* m_nRequests counts the request being read, too; queued is the length of
\* m_oHttpRequestList, complete the requests read so far.
NewConnection ==
    [live |-> TRUE, m_bDoneReading |-> FALSE, m_bDisconnected |-> FALSE, queued |-> 0,
     m_nRequests |-> 0, m_nResponses |-> 0, m_nActiveRequests |-> 0, complete |-> 0]
NoConnection == [NewConnection EXCEPT !.live = FALSE]

Connection ==
    [live : BOOLEAN, m_bDoneReading : BOOLEAN, m_bDisconnected : BOOLEAN,
     queued : 0..MaxRequests, complete : 0..MaxRequests,
     m_nRequests : Nat, m_nResponses : Nat, m_nActiveRequests : Int]

TypeOK ==
    /\ pc \in {"main", "caught", "begin", "route", "accept", "read", "clear", "test", "ended"}
    /\ m_nRequestsPending \in Nat
    /\ m_bAccepting \in BOOLEAN /\ m_bAcceptedNewConnection \in BOOLEAN
    /\ m_oCurrentRequest \in Conns \cup {None}
    /\ m_oReadFds \subseteq Conns
    /\ conn \in [Conns -> Connection]
    /\ accepted \in 0..MaxAccepted

\* EHSServer::EHSServer
Init ==
    /\ pc = "main"
    /\ m_nRequestsPending = 0
    /\ m_bAccepting = FALSE /\ m_bAcceptedNewConnection = FALSE
    /\ m_oCurrentRequest = None
    /\ m_oReadFds = {}
    /\ conn = [c \in Conns |-> NoConnection]
    /\ accepted = 0

Goes(from, to) == pc = from /\ pc' = to

-----------------------------------------------------------------------------
(* The program *)

\* EHS::HandleData is called.
HandleData ==
    /\ Goes("main", "begin") \/ Goes("caught", "begin")
    /\ UNCHANGED <<m_nRequestsPending, flags, m_oCurrentRequest, m_oReadFds, conn, accepted>>

\* The program ends: the destructor of EHSServer deletes the connections.
Ends ==
    /\ pc' = "ended"
    /\ conn' = [c \in Conns |-> NoConnection]
    /\ m_oReadFds' = {}

\* StopServer; there is no thread to wait for.
StopServer ==
    /\ pc = "main"
    /\ Ends
    /\ UNCHANGED <<m_nRequestsPending, flags, m_oCurrentRequest, accepted>>

Ended == pc = "ended" /\ UNCHANGED vars

\* An exception leaves HandleData.  The samples catch it outside their loop and
\* end; another program may call HandleData again.
Throws(what) ==
    IF what \in Retried
    THEN pc' = "caught" /\ UNCHANGED <<conn, m_oReadFds>>
    ELSE Ends

-----------------------------------------------------------------------------
(* A request is taken, routed and answered *)

\* GetNextRequest starts at a random connection.
GetNextRequest(c) ==
    /\ Goes("begin", "route")
    /\ conn[c].queued > 0
    /\ conn' = [conn EXCEPT ![c].queued = @ - 1, ![c].m_nActiveRequests = @ + 1]
    /\ m_oCurrentRequest' = c
    /\ m_nRequestsPending' = m_nRequestsPending - 1
    /\ UNCHANGED <<flags, m_oReadFds, accepted>>

\* RouteRequest and AddResponse.  The response may force the connection to be
\* closed, and so does a send that fails.
RouteRequest ==
    /\ Goes("route", "test")
    /\ \E close \in BOOLEAN :
        LET done == close /\ ~conn[m_oCurrentRequest].m_bDisconnected IN
        conn' = [conn EXCEPT ![m_oCurrentRequest].m_nActiveRequests = @ - 1,
                             ![m_oCurrentRequest].m_nResponses = @ + 1,
                             ![m_oCurrentRequest].m_bDoneReading = @ \/ done]
    /\ m_oCurrentRequest' = None
    /\ UNCHANGED <<m_nRequestsPending, flags, m_oReadFds, accepted>>

\* HandleRequest throws: the request gets no answer and is never deleted.
RouteThrows ==
    /\ pc = "route"
    /\ Throws("handler")
    /\ UNCHANGED <<m_nRequestsPending, flags, m_oCurrentRequest, accepted>>

-----------------------------------------------------------------------------
(* No request is queued: sockets are looked at *)

\* Where the code would wait for m_oDoneAccepting, which nobody signals in this
\* mode, no step is possible.
NoRequest ==
    /\ pc = "begin"
    /\ \A c \in Conns : conn[c].queued = 0
    /\ ~m_bAccepting

\* Mutant: the flag of the pass before is kept.
BeginAccepting_KeepsFlag ==
    /\ NoRequest
    /\ m_bAccepting' = TRUE /\ UNCHANGED m_bAcceptedNewConnection
    /\ m_oCurrentRequest' = None

BeginAccepting ==
    /\ NoRequest
    /\ m_bAccepting' = TRUE /\ m_bAcceptedNewConnection' = FALSE
    /\ m_oCurrentRequest' = None

Readable == {c \in Conns : conn[c].live /\ ~conn[c].m_bDoneReading}

\* CreateFdSet and select, which finds something ...
Select ==
    /\ BeginAccepting
    /\ pc' = "accept"
    /\ m_oReadFds' \in SUBSET Readable
    /\ UNCHANGED <<m_nRequestsPending, conn, accepted>>

\* ... or nothing, in time or because of a signal, ...
SelectTimeout ==
    /\ BeginAccepting
    /\ pc' = "clear"
    /\ UNCHANGED <<m_nRequestsPending, m_oReadFds, conn, accepted>>

\* ... or fails.
SelectFails ==
    /\ BeginAccepting
    /\ Throws("select")
    /\ UNCHANGED <<m_nRequestsPending, accepted>>

\* CheckAcceptSocket
Accept(c) ==
    /\ Goes("accept", "read")
    /\ ~conn[c].live /\ accepted < MaxAccepted
    /\ conn' = [conn EXCEPT ![c] = NewConnection]
    /\ accepted' = accepted + 1
    /\ m_bAcceptedNewConnection' = TRUE
    /\ UNCHANGED <<m_nRequestsPending, m_bAccepting, m_oCurrentRequest, m_oReadFds>>

\* The accept socket is not readable, or the SSL handshake failed.
NoAccept ==
    /\ Goes("accept", "read")
    /\ UNCHANGED <<m_nRequestsPending, flags, m_oCurrentRequest, m_oReadFds, conn, accepted>>

AcceptThrows ==
    /\ pc = "accept"
    /\ Throws("accept")
    /\ UNCHANGED <<m_nRequestsPending, flags, m_oCurrentRequest, accepted>>

\* CheckClientSockets comes to a connection with something to read.
Reading(c) ==
    /\ pc = "read" /\ c \in m_oReadFds
    /\ m_oReadFds' = m_oReadFds \ {c}
    /\ UNCHANGED <<pc, flags, m_oCurrentRequest, accepted>>

\* AddBuffer completes n requests and begins with the next one.
AddBuffer(c, n) ==
    LET old == conn[c] IN
    [old EXCEPT !.queued = @ + n, !.complete = @ + n, !.m_nRequests = 1 + old.complete + n]

ReadRequests(c) ==
    /\ Reading(c)
    /\ \E n \in 0..(MaxRequests - conn[c].complete) :
        /\ conn' = [conn EXCEPT ![c] = AddBuffer(c, n)]
        /\ m_nRequestsPending' = m_nRequestsPending + n

\* An invalid request is answered with a 400 at once, and the connection is not
\* read from any more.
ReadInvalid(c) ==
    /\ Reading(c)
    /\ \E n \in 0..(MaxRequests - conn[c].complete) :
        /\ n > 0 => PipelinedInvalid
        /\ conn' = [conn EXCEPT ![c] =
                [AddBuffer(c, n) EXCEPT !.m_nResponses = @ + 1, !.m_nActiveRequests = @ - 1,
                                        !.m_bDoneReading = TRUE]]
        /\ m_nRequestsPending' = m_nRequestsPending + n

\* A request over the limit is not even added to the buffer.
ReadTooBig(c) ==
    /\ Reading(c)
    /\ conn' = [conn EXCEPT ![c].m_nResponses = @ + 1, ![c].m_nActiveRequests = @ - 1,
                            ![c].m_bDoneReading = TRUE]
    /\ UNCHANGED m_nRequestsPending

ReadEnd(c) ==
    /\ Reading(c)
    /\ conn' = [conn EXCEPT ![c].m_bDoneReading = TRUE, ![c].m_bDisconnected = TRUE]
    /\ UNCHANGED m_nRequestsPending

EndRead ==
    /\ Goes("read", "clear")
    /\ m_oReadFds = {}
    /\ UNCHANGED <<m_nRequestsPending, flags, m_oCurrentRequest, m_oReadFds, conn, accepted>>

\* The idle timeout may have passed for connections without pending requests.
Idle == {c \in Readable : conn[c].m_nActiveRequests = 0 /\ conn[c].queued = 0}

\* CheckDone
Finished(old) == old.m_bDoneReading /\ old.m_nRequests - 1 <= old.m_nResponses

\* ClearIdleConnections and RemoveFinishedConnections; a deleted connection takes
\* its list of requests with it.
ClearIdleConnections ==
    /\ Goes("clear", "test")
    /\ \E idle \in SUBSET Idle :
        LET marked == [c \in Conns |->
                [conn[c] EXCEPT !.m_bDoneReading = @ \/ c \in idle]]
        IN  conn' = [c \in Conns |->
                IF Finished(marked[c]) THEN NoConnection ELSE marked[c]]
    /\ m_bAccepting' = FALSE
    /\ UNCHANGED <<m_nRequestsPending, m_bAcceptedNewConnection, m_oCurrentRequest,
                   m_oReadFds, accepted>>

\* Mutant: the loop looks at accepted connections only.
Test_AcceptedOnly ==
    /\ IF m_bAcceptedNewConnection THEN Goes("test", "begin") ELSE Goes("test", "main")
    /\ UNCHANGED <<m_nRequestsPending, flags, m_oCurrentRequest, m_oReadFds, conn, accepted>>

\* The loop of EHS::HandleData.
Test ==
    /\ IF m_nRequestsPending # 0 \/ m_bAcceptedNewConnection
       THEN Goes("test", "begin") ELSE Goes("test", "main")
    /\ UNCHANGED <<m_nRequestsPending, flags, m_oCurrentRequest, m_oReadFds, conn, accepted>>

InHandleData ==
    \/ RouteRequest \/ RouteThrows
    \/ Select \/ SelectTimeout \/ SelectFails
    \/ NoAccept \/ AcceptThrows \/ EndRead \/ ClearIdleConnections \/ Test
    \/ \E c \in Conns :
        \/ GetNextRequest(c) \/ Accept(c)
        \/ ReadRequests(c) \/ ReadInvalid(c) \/ ReadTooBig(c) \/ ReadEnd(c)

Next == HandleData \/ StopServer \/ Ended \/ InHandleData

Spec == Init /\ [][Next]_vars

\* The program's thread goes on; select has a timeout.
FairSpec == Spec /\ WF_vars(InHandleData)

-----------------------------------------------------------------------------
(* Properties *)

\* The requests in the lists of all connections, by connection and position.
InLists == {q \in Conns \X (1..MaxRequests) : q[2] <= conn[q[1]].queued}
Queued == Cardinality(InLists)

\* HandleData comes back to the program only when every request that was read
\* has been taken, "until there are no more jobs left" (ehs.cpp:1066): the
\* counter the loop looks at is the number of requests in the lists, whatever
\* connections are closed or deleted and requests throw.
RequestsServed ==
    /\ pc # "ended" => m_nRequestsPending = Queued
    /\ pc = "main" => Queued = 0

\* With finitely many connections and requests HandleData returns: no request or
\* flag keeps its loop going for ever (ehs.cpp:1068-1072).
HandleDataReturns ==
    pc \in {"begin", "test"} ~> pc \in {"main", "caught", "ended"}
=============================================================================
