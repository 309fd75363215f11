------------------------------- MODULE WsGate -------------------------------
(***************************************************************************)
(* The sample gateway (src/samples/ehs_wsgate.cpp) in a server that runs   *)
(* one thread per request: how the connections of EHS, which switch to raw *)
(* mode when a 101 response has been sent, and the WebSocket endpoints of  *)
(* MyRawSocketHandler are kept in step.                                    *)
(*                                                                         *)
(* Worker threads call OnConnect, the accepting thread OnData and          *)
(* OnDisconnect; no mutex guards m_hmap and m_cmap, whose operations are   *)
(* the steps.  The maps are indexed by the address of a connection, and an *)
(* address may be used again after a delete: an EHSConnection is an        *)
(* address in Conns and the number of the object that lives there.  What   *)
(* is in the frames is the subject of WsEndpoint, what makes a request an  *)
(* upgrade that of WsHandshake, and the steps inside SendResponse and      *)
(* ClearIdleConnections that of EHSConnection.                             *)
(***************************************************************************)
EXTENDS Integers, FiniteSets

CONSTANTS
    Conns,        \* addresses
    Workers,      \* threads that handle a request
    MaxAccepted,  \* bound: connections accepted
    MaxRequests,  \* bound: requests on a connection
    MaxFrames,    \* bound: frames on a connection
    EarlyData,    \* what may become of data between the 101 and raw mode
    Pipelined     \* clients send requests before the one before is answered

ASSUME GateAssumption ==
    /\ IsFiniteSet(Conns) /\ Conns # {} /\ IsFiniteSet(Workers)
    /\ MaxAccepted \in Nat /\ MaxRequests \in Nat /\ MaxFrames \in Nat
    /\ EarlyData \subseteq {"buffered", "refused"} /\ Pipelined \in BOOLEAN

VARIABLES
    object,    \* for each address: the number of the object there, 0 if none
    accepted,  \* objects created so far
    conn,      \* for each address: the members of the object, and its client
    m_hmap,    \* for each address: the handler, a number, 0 if none
    m_cmap,    \* for each address: the endpoint
    connects,  \* calls of OnConnect so far
    worker,    \* for each worker: [pc, at, obj, handler]
    acceptor,  \* where the accepting thread is
    fdset,     \* addresses in m_oReadFds that have not been looked at
    status     \* m_nServerRunningStatus, and "DELETED" after StopServer

maps == <<m_hmap, m_cmap, connects>>
server == <<acceptor, fdset, status>>
vars == <<object, accepted, conn, maps, worker, server>>

\* m_nRequests counts the completed requests; queued are those nobody has taken.
\* The client has got a 101 (switched), frames of it have been read, and it has
\* closed its end (gone), after which what it had sent may still be read.
NewConnection ==
    [m_bRawMode |-> FALSE, m_bDoneReading |-> FALSE, m_bDisconnected |-> FALSE,
     m_nRequests |-> 0, m_nResponses |-> 0, m_nActiveRequests |-> 0, queued |-> 0,
     switched |-> FALSE, frames |-> 0, gone |-> FALSE]
NoEndpoint == [handler |-> 0, obj |-> 0, state |-> "NONE"]

Connection ==
    [m_bRawMode : BOOLEAN, m_bDoneReading : BOOLEAN, m_bDisconnected : BOOLEAN,
     m_nRequests : Nat, m_nResponses : Nat, m_nActiveRequests : 0..MaxRequests,
     queued : Nat, switched : BOOLEAN, frames : Nat, gone : BOOLEAN]
WsEndpoints ==
    [handler : Nat, obj : 0..MaxAccepted, state : {"NONE", "OPEN", "CLOSING", "CLOSED"}]
Threads ==
    [at : Conns, obj : 0..MaxAccepted, handler : Nat,
     pc : {"idle", "handle", "plain", "head", "raw", "hmap", "cmap", "count", "close"}]

TypeOK ==
    /\ object \in [Conns -> 0..MaxAccepted]
    /\ accepted \in 0..MaxAccepted
    /\ conn \in [Conns -> Connection]
    /\ connects \in Nat
    /\ m_hmap \in [Conns -> Nat]
    /\ m_cmap \in [Conns -> WsEndpoints]
    /\ worker \in [Workers -> Threads]
    /\ acceptor \in {"select", "clients", "clear", "exited"}
    /\ fdset \subseteq Conns
    /\ status \in {"ONETHREADPERREQUEST", "SHOULDTERMINATE", "NOTRUNNING", "DELETED"}

\* main: StartServer, with the gateway's raw socket handler.
Init ==
    /\ object = [c \in Conns |-> 0]
    /\ accepted = 0
    /\ conn = [c \in Conns |-> NewConnection]
    /\ m_hmap = [c \in Conns |-> 0]
    /\ m_cmap = [c \in Conns |-> NoEndpoint]
    /\ connects = 0
    /\ worker = [w \in Workers |->
            [at |-> CHOOSE c \in Conns : TRUE, obj |-> 0, handler |-> 0, pc |-> "idle"]]
    /\ acceptor = "select"
    /\ fdset = {}
    /\ status = "ONETHREADPERREQUEST"

Live(c) == object[c] # 0

-----------------------------------------------------------------------------
(* Worker threads: a request is taken, handled and answered *)

Step(w, from, to) ==
    /\ worker[w].pc = from
    /\ worker' = [worker EXCEPT ![w].pc = to]

\* The connection of w has not been deleted; nothing is said of what a write to
\* a deleted one does.
Valid(w) == object[worker[w].at] = worker[w].obj

\* Mutant: the request is not counted as active.
GetNextRequest_NotActive(w, c) ==
    /\ status # "DELETED" /\ acceptor # "clear"
    /\ worker[w].pc = "idle"
    /\ Live(c) /\ conn[c].queued > 0
    /\ worker' = [worker EXCEPT ![w] =
            [pc |-> "handle", at |-> c, obj |-> object[c], handler |-> 0]]
    /\ conn' = [conn EXCEPT ![c].queued = @ - 1]
    /\ UNCHANGED <<object, accepted, maps, server>>

\* GetNextRequest, with the server's mutex.
GetNextRequest(w, c) ==
    /\ status # "DELETED" /\ acceptor # "clear"
    /\ worker[w].pc = "idle"
    /\ Live(c) /\ conn[c].queued > 0
    /\ worker' = [worker EXCEPT ![w] =
            [pc |-> "handle", at |-> c, obj |-> object[c], handler |-> 0]]
    /\ conn' = [conn EXCEPT ![c].queued = @ - 1, ![c].m_nActiveRequests = @ + 1]
    /\ UNCHANGED <<object, accepted, maps, server>>

\* HandleRequest answers with a 101 ("head") or with something else, such as the
\* 500 that HandleThreadException makes of a traced exception.
HandleRequest(w) ==
    /\ Step(w, "handle", "plain") \/ Step(w, "handle", "head")
    /\ UNCHANGED <<object, accepted, conn, maps, server>>

\* The server is to terminate and m_nAcceptThreadId is cleared.  Once StopServer
\* waits for the threads, nothing depends on the value any more.
Terminate ==
    status' = IF status = "ONETHREADPERREQUEST" THEN "SHOULDTERMINATE" ELSE status

\* HandleThreadException has no answer to any other exception: the request is
\* deleted without a response, and the server terminates.
HandlerThrows(w) ==
    /\ Step(w, "handle", "idle")
    /\ Terminate
    /\ UNCHANGED <<object, accepted, conn, maps, acceptor, fdset>>

\* The end of SendResponse, where the response is counted.
Count(c, done) ==
    conn' = [conn EXCEPT ![c].m_nResponses = @ + 1, ![c].m_nActiveRequests = @ - 1,
                         ![c].m_bDoneReading = @ \/ done,
                         ![c].m_bDisconnected = @ /\ ~done]

\* SendResponse for a client that is known to be gone: nothing is sent.
SendNothing(w) ==
    /\ Valid(w) /\ conn[worker[w].at].m_bDisconnected
    /\ Step(w, "plain", "idle") \/ Step(w, "head", "idle")
    /\ Count(worker[w].at, FALSE)
    /\ UNCHANGED <<object, accepted, maps, server>>

\* A response that is not a 101 is sent, with forceClose ("close") if it says so,
\* as for most requests of HTTP/1.0; or a header could not be sent.
SendPlain(w) ==
    /\ Valid(w) /\ ~conn[worker[w].at].m_bDisconnected
    /\ \/ Step(w, "plain", "count") \/ Step(w, "plain", "close")
       \/ conn[worker[w].at].gone /\ Step(w, "head", "close")
    /\ UNCHANGED <<object, accepted, conn, maps, server>>

\* The header of the 101 is sent, ...
SendSwitch(w) ==
    /\ Valid(w) /\ ~conn[worker[w].at].m_bDisconnected
    /\ Step(w, "head", "raw")
    /\ conn' = [conn EXCEPT ![worker[w].at].switched = TRUE]
    /\ UNCHANGED <<object, accepted, maps, server>>

\* Mutant: the response is counted before OnConnect is called.
SwitchToRaw_CountsFirst(w) ==
    /\ Step(w, "raw", "hmap")
    /\ conn' = IF Valid(w) THEN [conn EXCEPT ![worker[w].at].m_bRawMode = TRUE,
                                             ![worker[w].at].m_nResponses = @ + 1]
               ELSE conn
    /\ UNCHANGED <<object, accepted, maps, server>>

\* ... then m_bRawMode is set ...
SwitchToRaw(w) ==
    /\ Step(w, "raw", "hmap")
    /\ conn' = IF Valid(w) THEN [conn EXCEPT ![worker[w].at].m_bRawMode = TRUE] ELSE conn
    /\ UNCHANGED <<object, accepted, maps, server>>

\* ... and OnConnect is called: a handler, which replaces one that is there ...
OnConnectHandler(w) ==
    /\ worker[w].pc = "hmap"
    /\ connects' = connects + 1
    /\ m_hmap' = [m_hmap EXCEPT ![worker[w].at] = connects + 1]
    /\ worker' = [worker EXCEPT ![w].pc = "cmap", ![w].handler = connects + 1]
    /\ UNCHANGED <<object, accepted, conn, m_cmap, server>>

\* ... and an endpoint that points to the handler.
OnConnectEndpoint(w) ==
    /\ Step(w, "cmap", "count")
    /\ m_cmap' = [m_cmap EXCEPT ![worker[w].at] =
            [handler |-> worker[w].handler, obj |-> worker[w].obj, state |-> "OPEN"]]
    /\ UNCHANGED <<object, accepted, conn, m_hmap, connects, server>>

\* The end of SendResponse, with DoneReading after a failure or for forceClose.
EndSend(w) ==
    /\ Step(w, "count", "idle") \/ Step(w, "close", "idle")
    /\ IF Valid(w) THEN Count(worker[w].at, worker[w].pc = "close") ELSE UNCHANGED conn
    /\ UNCHANGED <<object, accepted, maps, server>>

WorkerStep(w) ==
    \/ \E c \in Conns : GetNextRequest(w, c)
    \/ HandleRequest(w) \/ HandlerThrows(w) \/ SendNothing(w) \/ SendPlain(w) \/ SendSwitch(w)
    \/ SwitchToRaw(w) \/ OnConnectHandler(w) \/ OnConnectEndpoint(w) \/ EndSend(w)

-----------------------------------------------------------------------------
(* The accepting thread: select, CheckAcceptSocket, CheckClientSockets *)

Select ==
    /\ acceptor = "select" /\ status = "ONETHREADPERREQUEST"
    /\ acceptor' = "clients"
    /\ fdset' = {c \in Conns : Live(c) /\ ~conn[c].m_bDoneReading}
    /\ UNCHANGED <<object, accepted, conn, maps, worker, status>>

\* A new EHSConnection, at an address that may have been used before.
Accept(c) ==
    /\ acceptor = "clients"
    /\ ~Live(c) /\ accepted < MaxAccepted
    /\ accepted' = accepted + 1
    /\ object' = [object EXCEPT ![c] = accepted + 1]
    /\ conn' = [conn EXCEPT ![c] = NewConnection]
    /\ UNCHANGED <<maps, worker, server>>

\* A connection is read from.
Reading(c) ==
    /\ acceptor = "clients" /\ c \in fdset
    /\ fdset' = fdset \ {c}
    /\ UNCHANGED <<object, accepted, worker>>

\* The client waits for the response to a request.
Unanswered(c) ==
    \/ conn[c].queued > 0
    \/ \E w \in Workers : /\ worker[w].at = c /\ worker[w].obj = object[c]
                           /\ worker[w].pc \in {"handle", "plain", "head"}

\* AddBuffer completes a request and creates a thread for it.
ReadRequest(c) ==
    /\ Reading(c)
    /\ Pipelined \/ ~Unanswered(c)
    /\ ~conn[c].m_bRawMode /\ ~conn[c].switched
    /\ conn[c].m_nRequests < MaxRequests
    /\ conn' = [conn EXCEPT ![c].m_nRequests = @ + 1, ![c].queued = @ + 1]
    /\ UNCHANGED <<maps, acceptor, status>>

SendsFrame(c) ==
    /\ Reading(c)
    /\ conn[c].switched /\ conn[c].frames < MaxFrames

\* A frame that arrives before m_bRawMode is set goes to AddBuffer.  It stays in
\* the buffer, or is an invalid request, which gets a 400.
ReadEarly(c) ==
    /\ SendsFrame(c) /\ ~conn[c].m_bRawMode
    /\ \/ "buffered" \in EarlyData /\ conn' = [conn EXCEPT ![c].frames = @ + 1]
       \/ /\ "refused" \in EarlyData
          /\ conn' = [conn EXCEPT ![c].frames = @ + 1, ![c].m_nResponses = @ + 1,
                                  ![c].m_nActiveRequests = @ - 1,
                                  ![c].m_bDoneReading = TRUE]
    /\ UNCHANGED <<maps, acceptor, status>>

\* Raw data and no endpoint: OnData returns false.
ReadUnexpected(c) ==
    /\ SendsFrame(c) /\ conn[c].m_bRawMode
    /\ m_cmap[c] = NoEndpoint
    /\ conn' = [conn EXCEPT ![c].frames = @ + 1, ![c].m_bDoneReading = TRUE]
    /\ UNCHANGED <<maps, acceptor, status>>

\* AddRxData makes the endpoint go from one state to another; an endpoint that
\* is closed takes nothing.
Endpoint(c, from, to) ==
    /\ SendsFrame(c) /\ conn[c].m_bRawMode
    /\ m_cmap[c] # NoEndpoint /\ m_cmap[c].state \in from
    /\ m_cmap' = [m_cmap EXCEPT ![c].state = to]
    /\ UNCHANGED <<m_hmap, connects>>

\* A message or a ping is answered, or a message makes the endpoint send a close
\* frame of its own (see WsEndpoint).
OnDataMessage(c) ==
    /\ \/ \E s \in {"OPEN", "CLOSING", "CLOSED"} : Endpoint(c, {s}, s)
       \/ Endpoint(c, {"OPEN"}, "CLOSING")
    /\ conn' = [conn EXCEPT ![c].frames = @ + 1]
    /\ UNCHANGED <<acceptor, status>>

\* The same, but the client is gone and Send fails: DoneReading.  Only an endpoint
\* that is open has anything to send.
OnDataUnsent(c) ==
    /\ conn[c].gone
    /\ Endpoint(c, {"OPEN"}, "OPEN") \/ Endpoint(c, {"OPEN"}, "CLOSING")
    /\ conn' = [conn EXCEPT ![c].frames = @ + 1, ![c].m_bDoneReading = TRUE]
    /\ UNCHANGED <<acceptor, status>>

\* Mutant: on_close does not ask for the end of the connection.
OnDataClose_Silent(c) ==
    /\ Endpoint(c, {"OPEN", "CLOSING"}, "CLOSED")
    /\ conn' = [conn EXCEPT ![c].frames = @ + 1]
    /\ UNCHANGED <<acceptor, status>>

\* A close frame: shutdown calls on_close, whose empty response is DoneReading.
OnDataClose(c) ==
    /\ Endpoint(c, {"OPEN", "CLOSING"}, "CLOSED")
    /\ conn' = [conn EXCEPT ![c].frames = @ + 1, ![c].m_bDoneReading = TRUE]
    /\ UNCHANGED <<acceptor, status>>

\* A frame that breaks the protocol: an exception, or a string literal for a size
\* over the limit, leaves OnData and HandleData.  HandleData_Threaded catches
\* both, HandleThreadException has no answer, and the server terminates.
OnDataThrows(c) ==
    /\ \E s \in {"OPEN", "CLOSING"} : Endpoint(c, {s}, s)
    /\ conn' = [conn EXCEPT ![c].frames = @ + 1]
    /\ acceptor' = "exited"
    /\ Terminate

\* End of file or an error: no frame follows.  In raw mode an end of file leaves
\* the members alone.
ReadEnd(c) ==
    /\ Reading(c)
    /\ conn[c].gone
    /\ \/ conn' = [conn EXCEPT ![c].m_bDoneReading = TRUE, ![c].m_bDisconnected = TRUE]
       \/ conn[c].m_bRawMode /\ conn' = [conn EXCEPT ![c].frames = MaxFrames]
    /\ UNCHANGED <<maps, acceptor, status>>

\* The other connections have nothing to read.
EndClients ==
    /\ acceptor = "clients"
    /\ acceptor' = "clear"
    /\ fdset' = {}
    /\ UNCHANGED <<object, accepted, conn, maps, worker, status>>

-----------------------------------------------------------------------------
(* The accepting thread: ClearIdleConnections, with the server's mutex *)

\* The idle timeout has passed and no request is pending.
CloseIdle(c) ==
    /\ acceptor = "clear"
    /\ Live(c) /\ ~conn[c].m_bDoneReading
    /\ conn[c].m_nActiveRequests = 0 /\ conn[c].queued = 0
    /\ conn' = [conn EXCEPT ![c].m_bDoneReading = TRUE]
    /\ UNCHANGED <<object, accepted, maps, worker, server>>

\* CheckDone
Finished(c) ==
    Live(c) /\ conn[c].m_bDoneReading /\ conn[c].m_nRequests <= conn[c].m_nResponses

\* OnDisconnect for each of the connections cs: the endpoint and its handler go.
OnDisconnect(cs) ==
    /\ m_cmap' = [c \in Conns |-> IF c \in cs THEN NoEndpoint ELSE m_cmap[c]]
    /\ m_hmap' = [c \in Conns |-> IF c \in cs THEN 0 ELSE m_hmap[c]]
    /\ UNCHANGED connects

\* RemoveEHSConnection: the destructor of a raw connection calls OnDisconnect.
RemoveConnection(c) ==
    /\ acceptor = "clear"
    /\ Finished(c)
    /\ object' = [object EXCEPT ![c] = 0]
    /\ OnDisconnect(IF conn[c].m_bRawMode THEN {c} ELSE {})
    /\ UNCHANGED <<accepted, conn, worker, server>>

EndClear ==
    /\ acceptor = "clear"
    /\ \A c \in Conns : ~Finished(c)
    /\ acceptor' = "select"
    /\ UNCHANGED <<object, accepted, conn, maps, worker, fdset, status>>

\* m_nAcceptThreadId has been cleared: the thread ends.
Exit ==
    /\ acceptor = "select" /\ status # "ONETHREADPERREQUEST"
    /\ acceptor' = "exited"
    /\ UNCHANGED <<object, accepted, conn, maps, worker, fdset, status>>

AcceptorStep ==
    \/ Select \/ EndClients \/ EndClear \/ Exit
    \/ \E c \in Conns : CloseIdle(c) \/ RemoveConnection(c)

AcceptorReads ==
    \E c \in Conns :
        \/ Accept(c) \/ ReadRequest(c) \/ ReadEarly(c) \/ ReadUnexpected(c)
        \/ OnDataMessage(c) \/ OnDataUnsent(c) \/ OnDataClose(c) \/ OnDataThrows(c)
        \/ ReadEnd(c)

-----------------------------------------------------------------------------
(* main and the clients *)

\* The server should terminate, or q has been pressed: StopServer calls
\* EndServerThread, ...
EndServerThread ==
    /\ status \in {"ONETHREADPERREQUEST", "SHOULDTERMINATE"}
    /\ status' = "NOTRUNNING"
    /\ UNCHANGED <<object, accepted, conn, maps, worker, acceptor, fdset>>

\* ... which waits for the threads; the destructor deletes the connections.
DeleteServer ==
    /\ status = "NOTRUNNING"
    /\ acceptor = "exited" /\ \A w \in Workers : worker[w].pc = "idle"
    /\ status' = "DELETED"
    /\ object' = [c \in Conns |-> 0]
    /\ OnDisconnect({c \in Conns : Live(c) /\ conn[c].m_bRawMode})
    /\ UNCHANGED <<accepted, conn, worker, acceptor, fdset>>

ClientCloses(c) ==
    /\ Live(c) /\ ~conn[c].gone
    /\ conn' = [conn EXCEPT ![c].gone = TRUE]
    /\ UNCHANGED <<object, accepted, maps, worker, server>>

Stopped == status = "DELETED" /\ UNCHANGED vars

Next ==
    \/ \E w \in Workers : WorkerStep(w)
    \/ AcceptorStep \/ AcceptorReads
    \/ EndServerThread \/ DeleteServer \/ Stopped
    \/ \E c \in Conns : ClientCloses(c)

Spec == Init /\ [][Next]_vars

(***************************************************************************)
(* Fairness: the accepting thread goes on, as select has a timeout; a      *)
(* worker gets the server's mutex if it is free again and again; main      *)
(* polls ShouldTerminate, and StopServer waits for the threads.            *)
(***************************************************************************)
Fairness ==
    /\ WF_vars(AcceptorStep)
    /\ \A w \in Workers : SF_vars(WorkerStep(w))
    /\ WF_vars(status = "SHOULDTERMINATE" /\ EndServerThread)
    /\ WF_vars(DeleteServer)

FairSpec == Spec /\ Fairness

-----------------------------------------------------------------------------
(* Properties *)

\* OnConnect and OnDisconnect are called in pairs although nothing locks the
\* maps: an endpoint belongs to the connection that lives at its address now,
\* which is in raw mode, and the handler it points to exists.  Otherwise a later
\* connection at that address would talk to the endpoint of an earlier client.
EndpointsOwned ==
    \A c \in Conns : m_cmap[c] # NoEndpoint =>
        /\ m_cmap[c].obj = object[c]
        /\ conn[c].m_bRawMode
        /\ m_cmap[c].handler = m_hmap[c]

\* A session that is closed does not keep its connection: on_close, the empty
\* response and CheckDone lead to OnDisconnect, whenever the close arrives.
ClosedSessionsEnd ==
    \A c \in Conns : m_cmap[c].state = "CLOSED" ~> m_cmap[c].state # "CLOSED"

\* Data in raw mode reaches the endpoint: OnConnect is called before OnData.
DataAfterConnect == [][\A c \in Conns : ~ReadUnexpected(c)]_vars
=============================================================================
