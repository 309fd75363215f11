---------------------------- MODULE EHSConnection ----------------------------
(***************************************************************************)
(* The life of one connection (src/ehs.cpp, class EHSConnection): the      *)
(* thread that accepts reads from it, answers errors and finally deletes   *)
(* it, while worker threads take its requests and send the responses.      *)
(*                                                                         *)
(* Every section under the connection's mutex is one step, because nothing *)
(* inside it can be seen from outside; what the code does after unlocking  *)
(* it (the Send calls, DoneReading from the accepting thread, the reads of *)
(* CheckDone and RequestsPending) is interleaved with everything else.     *)
(* The server's mutex is held by the acceptor at "idle2" and "remove", and *)
(* excludes GetNextRequest there.  A request is its number; a response is  *)
(* the number of its request and what matters of its contents.             *)
(***************************************************************************)
EXTENDS Integers, Sequences, FiniteSets

CONSTANTS
    Workers,      \* threads that take requests or call AddResponse
    Acceptor,     \* the thread that is accepting
    MaxRequests,  \* bound: requests the client sends
    MaxRaw,       \* bound: raw messages, for each direction
    Kinds,        \* what the application's responses look like, of HttpKinds
    ReadErrors,   \* which of "invalid", "toobig", "noresource" AddBuffer returns
    IdleHandling  \* m_bIdleHandling

HttpKinds == {"plain",   \* header only
              "body",    \* header and body
              "close",   \* header with "Connection: close", and body
              "switch"}  \* 101 Switching Protocols
GenericKinds == {"data", "empty"}

ASSUME WorkersAssumption == IsFiniteSet(Workers) /\ Acceptor \notin Workers
ASSUME BoundsAssumption ==
    /\ MaxRequests \in Nat /\ MaxRaw \in Nat
    /\ Kinds \subseteq HttpKinds /\ IdleHandling \in BOOLEAN
    /\ ReadErrors \subseteq {"invalid", "toobig", "noresource"}

VARIABLES
    exists,             \* the EHSConnection has not been deleted
    m_nRequests, m_nResponses, m_nActiveRequests,
    m_oHttpRequestList, \* completed requests nobody has taken
    m_oResponseQueue,
    m_bDoneReading, m_bDisconnected, m_bRawMode,
    stale,              \* time(NULL) - m_nLastActivity > m_nIdleTimeout
    reused,             \* m_poCurrentHttpRequest is also in the list, or was
    pc,                 \* where each thread is
    resp,               \* per thread: the response (or request) in its hands
    fdset,              \* the connection is in m_oReadFds
    looksIdle,          \* the acceptor's reads in ClearIdleConnections so far
    closed,             \* the client has closed its end
    wire,               \* responses whose header went out, in that order
    quiet,              \* m_nIdleTimeout has passed since a response went out
    errors,             \* error responses the acceptor has accounted for
    generic,            \* raw responses the application has sent
    rawCalls            \* RawSocketHandler callbacks made so far

counters == <<m_nRequests, m_nResponses, m_nActiveRequests>>
queues   == <<m_oHttpRequestList, m_oResponseQueue>>
flags    == <<m_bDoneReading, m_bDisconnected, m_bRawMode>>
history  == <<closed, wire, quiet, errors, generic, rawCalls>>
vars == <<exists, counters, queues, flags, stale, reused, pc, resp, fdset,
          looksIdle, history>>

Senders == Workers \cup {Acceptor}
None == [id |-> 0, kind |-> "plain"]
Response == [id : 0..MaxRequests, kind : HttpKinds \cup GenericKinds]

WorkerLabels == {"idle", "handle", "add", "update"}
SendLabels == {"head", "body", "raw", "connect", "count", "fail", "generic"}
AcceptorLabels == {"select", "clients", "refuse", "refused", "clear", "idle2",
                   "remove", "gone"}

TypeOK ==
    /\ exists \in BOOLEAN
    /\ m_nRequests \in 0..(MaxRequests + 1)
    /\ m_nResponses \in 0..(MaxRequests + 1)
    /\ m_nActiveRequests \in -1..Cardinality(Workers)
    /\ m_oHttpRequestList \in Seq(1..MaxRequests)
    /\ m_oResponseQueue \in Seq(Response)
    /\ \A b \in {m_bDoneReading, m_bDisconnected, m_bRawMode, stale, reused,
                 fdset, looksIdle, closed, quiet} : b \in BOOLEAN
    /\ pc \in [Senders -> WorkerLabels \cup SendLabels \cup AcceptorLabels]
    /\ resp \in [Senders -> Response]
    /\ wire \in Seq(Response)
    /\ errors \in 0..1
    /\ generic \in 0..MaxRaw
    /\ rawCalls \in Seq({"OnConnect", "OnData", "OnDisconnect"})

\* CheckAcceptSocket has created the connection.
Init ==
    /\ exists = TRUE
    /\ m_nRequests = 0 /\ m_nResponses = 0 /\ m_nActiveRequests = 0
    /\ m_oHttpRequestList = <<>> /\ m_oResponseQueue = <<>>
    /\ m_bDoneReading = FALSE /\ m_bDisconnected = FALSE /\ m_bRawMode = FALSE
    /\ stale = FALSE
    /\ reused = FALSE
    /\ pc = [t \in Senders |-> IF t = Acceptor THEN "select" ELSE "idle"]
    /\ resp = [t \in Senders |-> None]
    /\ fdset = FALSE
    /\ looksIdle = FALSE
    /\ closed = FALSE /\ wire = <<>> /\ quiet = FALSE /\ errors = 0
    /\ generic = 0 /\ rawCalls = <<>>

-----------------------------------------------------------------------------
(* Helpers *)

\* A step of thread t; what happens to a deleted connection is not modelled.
Go(t, from, to) ==
    /\ exists
    /\ pc[t] = from
    /\ pc' = [pc EXCEPT ![t] = to]

Move(t, from, to) ==
    /\ Go(t, from, to)
    /\ UNCHANGED <<exists, counters, queues, flags, stale, reused, resp, fdset,
                   looksIdle, history>>

StillReading == ~m_bDoneReading

DoneReading(disconnected) ==
    /\ m_bDoneReading' = TRUE
    /\ m_bDisconnected' = disconnected
    /\ UNCHANGED m_bRawMode

RequestsPending == m_nActiveRequests # 0 \/ m_oHttpRequestList # <<>>

UpdateLastActivity == stale' = FALSE

\* The counters at the end of SendResponse, and whose response it was.
CountResponse(t) ==
    /\ m_nActiveRequests' = m_nActiveRequests - 1
    /\ m_nResponses' = m_nResponses + 1
    /\ UNCHANGED m_nRequests
    /\ errors' = IF t = Acceptor THEN errors + 1 ELSE errors

\* Where SendResponse returns to.
Return(t) == IF t = Acceptor THEN "refused" ELSE "update"

\* A 101 response has gone out: the client may send raw data.
SwitchSent == \E i \in DOMAIN wire : wire[i].kind = "switch"

-----------------------------------------------------------------------------
(* Worker threads: GetNextRequest, RouteRequest, AddResponse *)

\* Mutants: the active requests are not incremented; the server's mutex is not
\* needed to take a request.
GetNextRequest_NotActive(w) ==
    /\ pc[Acceptor] \notin {"idle2", "remove"}
    /\ m_oHttpRequestList # <<>>
    /\ Go(w, "idle", "handle")
    /\ resp' = [resp EXCEPT ![w] = [None EXCEPT !.id = Head(m_oHttpRequestList)]]
    /\ m_oHttpRequestList' = Tail(m_oHttpRequestList)
    /\ UNCHANGED <<exists, counters, m_oResponseQueue, flags, stale, reused,
                   fdset, looksIdle, history>>
GetNextRequest_Unlocked(w) ==
    /\ m_oHttpRequestList # <<>>
    /\ Go(w, "idle", "handle")
    /\ m_nActiveRequests' = m_nActiveRequests + 1
    /\ resp' = [resp EXCEPT ![w] = [None EXCEPT !.id = Head(m_oHttpRequestList)]]
    /\ m_oHttpRequestList' = Tail(m_oHttpRequestList)
    /\ UNCHANGED <<exists, m_nRequests, m_nResponses, m_oResponseQueue, flags,
                   stale, reused, fdset, looksIdle, history>>

\* EHSServer::GetNextRequest, with the server's mutex held, takes a request.
GetNextRequest(w) ==
    /\ pc[Acceptor] \notin {"idle2", "remove"}
    /\ m_oHttpRequestList # <<>>
    /\ Go(w, "idle", "handle")
    /\ m_nActiveRequests' = m_nActiveRequests + 1
    /\ resp' = [resp EXCEPT ![w] = [None EXCEPT !.id = Head(m_oHttpRequestList)]]
    /\ m_oHttpRequestList' = Tail(m_oHttpRequestList)
    /\ UNCHANGED <<exists, m_nRequests, m_nResponses, m_oResponseQueue, flags,
                   stale, reused, fdset, looksIdle, history>>

\* The application's HandleRequest returns a response of some kind.
RouteRequest(w) ==
    /\ Go(w, "handle", "add")
    /\ \E k \in Kinds : resp' = [resp EXCEPT ![w].kind = k]
    /\ UNCHANGED <<exists, counters, queues, flags, stale, reused, fdset,
                   looksIdle, history>>

\* The application sends raw data, or asks for a close, on a raw connection.
AddGenericResponse(w) ==
    /\ generic < MaxRaw
    /\ m_bRawMode
    /\ Go(w, "idle", "add")
    /\ \E k \in GenericKinds : resp' = [resp EXCEPT ![w] = [id |-> 0, kind |-> k]]
    /\ generic' = generic + 1
    /\ UNCHANGED <<exists, counters, queues, flags, stale, reused, fdset,
                   looksIdle, closed, wire, quiet, errors, rawCalls>>

IsHttp(r) == r.kind \in HttpKinds

\* Mutant: a response for a disconnected client is dropped without counting it.
BeginSend_Uncounted(t, from, r) ==
    /\ Go(t, from, IF m_bDisconnected THEN Return(t)
                   ELSE IF IsHttp(r) THEN "head" ELSE "generic")
    /\ UNCHANGED <<counters, errors>>

\* The locked beginning of SendResponse(r): nothing is sent to a client that
\* has disconnected, but an HTTP response counts as sent.
BeginSend(t, from, r) ==
    IF m_bDisconnected
    THEN /\ Go(t, from, Return(t))
         /\ IF IsHttp(r) THEN CountResponse(t) ELSE UNCHANGED <<counters, errors>>
    ELSE /\ Go(t, from, IF IsHttp(r) THEN "head" ELSE "generic")
         /\ UNCHANGED <<counters, errors>>

\* AddResponse: push the response, pop the front of the queue, send that.
AddResponse(w) ==
    LET q == Append(m_oResponseQueue, resp[w]) IN
    /\ BeginSend(w, "add", Head(q))
    /\ resp' = [resp EXCEPT ![w] = Head(q)]
    /\ m_oResponseQueue' = Tail(q)
    /\ UNCHANGED <<exists, m_oHttpRequestList, flags, stale, reused, fdset,
                   looksIdle, closed, wire, quiet, generic, rawCalls>>

\* SendResponse has returned: lock again, note the activity, look for more.
SentResponse(w) ==
    /\ UpdateLastActivity
    /\ IF m_oResponseQueue = <<>>
       THEN /\ Go(w, "update", "idle")
            /\ resp' = [resp EXCEPT ![w] = None]
            /\ UNCHANGED <<counters, errors, m_oResponseQueue>>
       ELSE /\ BeginSend(w, "update", Head(m_oResponseQueue))
            /\ resp' = [resp EXCEPT ![w] = Head(m_oResponseQueue)]
            /\ m_oResponseQueue' = Tail(m_oResponseQueue)
    /\ UNCHANGED <<exists, m_oHttpRequestList, flags, reused, fdset, looksIdle,
                   closed, wire, quiet, generic, rawCalls>>

-----------------------------------------------------------------------------
(* SendResponse, by a worker or by the acceptor *)

\* The header is sent, without any mutex.
SendHeader(t) ==
    /\ Go(t, "head", CASE resp[t].kind = "switch" -> "raw"
                       [] resp[t].kind = "plain"  -> "count"
                       [] OTHER                   -> "body")
    /\ wire' = Append(wire, resp[t])
    /\ quiet' = FALSE
    /\ UNCHANGED <<exists, counters, queues, flags, stale, reused, resp, fdset,
                   looksIdle, closed, errors, generic, rawCalls>>

\* Send returns -1, because the client is gone.
SendHeaderFails(t) == closed /\ Move(t, "head", "fail")

\* The body is sent; the result of this Send is not looked at.
SendBody(t) == Move(t, "body", "count")

\* 101: raw mode begins and the raw handler is told, still without a mutex.
SwitchToRaw(t) ==
    /\ Go(t, "raw", "connect")
    /\ m_bRawMode' = TRUE
    /\ UNCHANGED <<exists, counters, queues, m_bDoneReading, m_bDisconnected,
                   stale, reused, resp, fdset, looksIdle, history>>

OnConnect(t) ==
    /\ Go(t, "connect", "count")
    /\ rawCalls' = Append(rawCalls, "OnConnect")
    /\ UNCHANGED <<exists, counters, queues, flags, stale, reused, resp, fdset,
                   looksIdle, closed, wire, quiet, errors, generic>>

\* A generic response: data is sent as it is, an empty body asks for a close.
SendGeneric(t) ==
    /\ Go(t, "generic", Return(t))
    /\ \/ resp[t].kind = "data" /\ UNCHANGED flags
       \/ resp[t].kind = "data" /\ closed /\ DoneReading(FALSE)
       \/ resp[t].kind = "empty" /\ DoneReading(FALSE)
    /\ UNCHANGED <<exists, counters, queues, stale, reused, resp, fdset,
                   looksIdle, history>>

\* The locked end of SendResponse.
EndSend(t) ==
    /\ \/ Go(t, "count", Return(t)) /\ IF resp[t].kind = "close"
                                       THEN DoneReading(FALSE)
                                       ELSE UNCHANGED flags
       \/ Go(t, "fail", Return(t)) /\ DoneReading(FALSE)
    /\ CountResponse(t)
    /\ UNCHANGED <<exists, queues, stale, reused, resp, fdset, looksIdle,
                   closed, wire, quiet, generic, rawCalls>>

SendStep(t) ==
    \/ SendHeader(t) \/ SendHeaderFails(t) \/ SendBody(t)
    \/ SwitchToRaw(t) \/ OnConnect(t) \/ SendGeneric(t) \/ EndSend(t)

-----------------------------------------------------------------------------
(* The acceptor: CreateFdSet and select, CheckClientSockets *)

\* select: the client's end of file makes the socket readable for ever.
Select ==
    /\ \/ Go(Acceptor, "select", "clients")
       \/ ~(closed /\ StillReading) /\ Go(Acceptor, "select", "clear")
    /\ fdset' = StillReading
    /\ UNCHANGED <<exists, counters, queues, flags, stale, reused, resp,
                   looksIdle, history>>

\* The connection is not in the set, or has nothing to read.
NothingToRead ==
    /\ ~fdset \/ ~closed
    /\ Move(Acceptor, "clients", "clear")

\* Requests the client can still send.
Budget == MaxRequests - (IF m_nRequests = 0 THEN 0 ELSE m_nRequests - 1)

\* AddBuffer completes n requests: they are queued, and the next one (n = 0:
\* the first one, if there is none yet) becomes the current request.  In a server
\* with one thread per request the mutex is free from push_back to ++m_nRequests,
\* but those who look at m_nRequests run in this same thread, later.
AddBuffer(n) ==
    LET first == IF m_nRequests = 0 THEN 1 ELSE m_nRequests IN
    /\ m_oHttpRequestList' =
            m_oHttpRequestList \o [i \in 1..n |-> first + i - 1]
    /\ m_nRequests' = first + n
    /\ UNCHANGED <<m_nResponses, m_nActiveRequests, m_oResponseQueue>>

CanRead == fdset /\ ~closed

\* Data that completes n requests and leaves the rest incomplete.
ReadRequests(n) ==
    /\ CanRead /\ ~m_bRawMode /\ ~SwitchSent
    /\ n <= Budget
    /\ Go(Acceptor, "clients", "clear")
    /\ AddBuffer(n)
    /\ UNCHANGED <<exists, flags, stale, reused, resp, fdset, looksIdle, history>>

\* ADDBUFFER_INVALIDREQUEST after n complete requests.
ReadInvalid(n) ==
    /\ CanRead /\ ~m_bRawMode /\ ~SwitchSent
    /\ "invalid" \in ReadErrors /\ n <= Budget
    /\ Go(Acceptor, "clients", "refuse")
    /\ AddBuffer(n)
    /\ UNCHANGED <<exists, flags, stale, reused, resp, fdset, looksIdle, history>>

\* ADDBUFFER_TOOBIG, before anything is parsed.
ReadTooBig ==
    /\ CanRead /\ ~m_bRawMode
    /\ "toobig" \in ReadErrors
    /\ Move(Acceptor, "clients", "refuse")

\* ADDBUFFER_NORESOURCE: of n complete requests the last one is queued, no
\* thread can be created for it, and it remains the current request as well.
ReadNoResource(n) ==
    /\ CanRead /\ ~m_bRawMode /\ ~SwitchSent
    /\ "noresource" \in ReadErrors /\ n <= Budget /\ n > 0
    /\ Go(Acceptor, "clients", "refuse")
    /\ LET first == IF m_nRequests = 0 THEN 1 ELSE m_nRequests IN
        /\ m_oHttpRequestList' =
                m_oHttpRequestList \o [i \in 1..n |-> first + i - 1]
        /\ m_nRequests' = first + n - 1
    /\ reused' = TRUE
    /\ UNCHANGED <<exists, m_nResponses, m_nActiveRequests, m_oResponseQueue,
                   flags, stale, resp, fdset, looksIdle, history>>

\* End of file or a read error.  On a raw connection only an error counts.
ReadEnd ==
    /\ fdset /\ closed
    /\ Go(Acceptor, "clients", "clear")
    /\ \/ /\ DoneReading(TRUE)
          /\ UNCHANGED stale
       \/ /\ m_bRawMode
          /\ UpdateLastActivity
          /\ UNCHANGED flags
    /\ UNCHANGED <<exists, counters, queues, reused, resp, fdset, looksIdle,
                   history>>

\* Raw data for OnData, which may ask for a close by returning false.
ReadRaw ==
    /\ CanRead /\ m_bRawMode
    /\ Cardinality({i \in DOMAIN rawCalls : rawCalls[i] = "OnData"}) < MaxRaw
    /\ Go(Acceptor, "clients", "clear")
    /\ UpdateLastActivity
    /\ rawCalls' = Append(rawCalls, "OnData")
    /\ UNCHANGED flags \/ DoneReading(FALSE)
    /\ UNCHANGED <<exists, counters, queues, reused, resp, fdset, looksIdle,
                   closed, wire, quiet, errors, generic>>

\* Raw data that arrives before m_bRawMode is set is parsed as a request.
ReadRawEarly ==
    /\ CanRead /\ ~m_bRawMode /\ SwitchSent
    /\ Go(Acceptor, "clients", "refuse")
    /\ AddBuffer(0)
    /\ UNCHANGED <<exists, flags, stale, reused, resp, fdset, looksIdle, history>>

\* The error response: SendResponse, called by the acceptor itself ...
Refuse ==
    /\ BeginSend(Acceptor, "refuse", [id |-> 0, kind |-> "body"])
    /\ resp' = [resp EXCEPT ![Acceptor] = [id |-> 0, kind |-> "body"]]
    /\ UNCHANGED <<exists, queues, flags, stale, reused, fdset, looksIdle,
                   closed, wire, quiet, generic, rawCalls>>

\* ... and DoneReading(false) after it.
Refused ==
    /\ Go(Acceptor, "refused", "clear")
    /\ DoneReading(FALSE)
    /\ resp' = [resp EXCEPT ![Acceptor] = None]
    /\ UNCHANGED <<exists, counters, queues, stale, reused, fdset, looksIdle,
                   history>>

-----------------------------------------------------------------------------
(* The acceptor: ClearIdleConnections, RemoveFinishedConnections *)

\* With the server's mutex locked: StillReading, LastActivity and the first
\* half of RequestsPending ...
CheckIdle ==
    /\ Go(Acceptor, "clear", "idle2")
    /\ looksIdle' = (StillReading /\ IdleHandling /\ stale /\ m_nActiveRequests = 0)
    /\ UNCHANGED <<exists, counters, queues, flags, stale, reused, resp, fdset,
                   history>>

\* ... its second half, and DoneReading(false) for an idle connection.
CloseIdle ==
    /\ Go(Acceptor, "idle2", "remove")
    /\ IF looksIdle /\ m_oHttpRequestList = <<>>
       THEN DoneReading(FALSE) ELSE UNCHANGED flags
    /\ UNCHANGED <<exists, counters, queues, stale, reused, resp, fdset,
                   looksIdle, history>>

\* Mutant: CheckDone looks at the list of requests instead of the counters.
Finished_ListOnly == m_bDoneReading /\ m_oHttpRequestList = <<>>

\* CheckDone; the mutex is unlocked when HandleData returns.
Finished == m_bDoneReading /\ m_nRequests - 1 <= m_nResponses

KeepConnection == ~Finished /\ Move(Acceptor, "remove", "select")

\* The destructor: a raw handler is told.
OnDisconnect ==
    rawCalls' = IF m_bRawMode THEN Append(rawCalls, "OnDisconnect") ELSE rawCalls

\* RemoveEHSConnection deletes the connection.
RemoveConnection ==
    /\ Finished
    /\ Go(Acceptor, "remove", "gone")
    /\ exists' = FALSE
    /\ OnDisconnect
    /\ UNCHANGED <<counters, queues, flags, stale, reused, resp, fdset,
                   looksIdle, closed, wire, quiet, errors, generic>>

-----------------------------------------------------------------------------
(* The environment *)

ClientCloses ==
    /\ exists /\ ~closed
    /\ closed' = TRUE
    /\ UNCHANGED <<exists, counters, queues, flags, stale, reused, pc, resp,
                   fdset, looksIdle, wire, quiet, errors, generic, rawCalls>>

\* More than m_nIdleTimeout seconds pass.
TimePasses ==
    /\ exists /\ ~(stale /\ quiet)
    /\ stale' = TRUE /\ quiet' = TRUE
    /\ UNCHANGED <<exists, counters, queues, flags, reused, pc, resp, fdset,
                   looksIdle, closed, wire, errors, generic, rawCalls>>

WorkerStep(w) ==
    \/ GetNextRequest(w) \/ RouteRequest(w) \/ AddResponse(w)
    \/ SentResponse(w) \/ SendStep(w)

AcceptorStep ==
    \/ Select \/ NothingToRead
    \/ \E n \in 0..MaxRequests :
            ReadRequests(n) \/ ReadInvalid(n) \/ ReadNoResource(n)
    \/ ReadTooBig \/ ReadEnd \/ ReadRaw \/ ReadRawEarly
    \/ Refuse \/ SendStep(Acceptor) \/ Refused
    \/ CheckIdle \/ CloseIdle \/ KeepConnection \/ RemoveConnection

\* The connection is gone.
Gone == ~exists /\ UNCHANGED vars

Next ==
    \/ \E w \in Workers : WorkerStep(w) \/ AddGenericResponse(w)
    \/ AcceptorStep
    \/ ClientCloses \/ TimePasses
    \/ Gone

Spec == Init /\ [][Next]_vars

(***************************************************************************)
(* Fairness: the accepting thread goes on (select has a timeout, and the   *)
(* connection's mutex is never held across a blocking call); so does every *)
(* worker, which gets the server's mutex if it is free again and again     *)
(* (strong fairness), and whose request handlers are assumed to return.    *)
(***************************************************************************)
Fairness == WF_vars(AcceptorStep) /\ \A w \in Workers : SF_vars(WorkerStep(w))

FairSpec == Spec /\ Fairness

-----------------------------------------------------------------------------
(* Properties *)

\* Requests that have been completed by AddBuffer.
Completed == IF m_nRequests = 0 THEN 0
             ELSE IF reused THEN m_nRequests ELSE m_nRequests - 1

\* Workers with a request whose response is not counted yet.
Serving(w) ==
    /\ pc[w] \in {"handle", "add"} \cup SendLabels
    /\ IsHttp(resp[w])
InService == Cardinality({w \in Workers : Serving(w)})

\* The counters on which CheckDone and the idle detection decide agree with what
\* is going on: every completed request is queued, in service or answered, the
\* responses exceed the answered requests by the error responses, and so does
\* the count of active requests fall short of the requests in service.
CountersAgree ==
    /\ m_nResponses + InService + Len(m_oHttpRequestList) = Completed + errors
    /\ m_nActiveRequests = InService - errors

\* CheckDone deletes the connection only "if we're done with all our responses":
\* no request is still queued, and none is in the hands of a worker.
DeletedOnlyWhenAnswered ==
    ~exists => InService = 0 /\ m_oHttpRequestList = <<>>

\* The idle timeout never closes a connection with a request queued or in
\* service: taking a request and looking for pending ones exclude each other.
IdleCloseSparesPending ==
    [][CloseIdle /\ m_bDoneReading' # m_bDoneReading
        => InService = 0 /\ m_oHttpRequestList = <<>>]_vars

\* Every queued request gets a response, unless the client leaves first.
RequestsAnswered ==
    \A i \in 1..MaxRequests :
        (\E n \in DOMAIN m_oHttpRequestList : m_oHttpRequestList[n] = i)
            ~> ((\E n \in DOMAIN wire : wire[n].id = i) \/ closed)

\* A connection whose client has closed its end is deleted some time.
ClosedIsDeleted == closed ~> ~exists

\* A connection that is no longer read from is deleted some time, after failed
\* sends, disconnects and the idle timeout as well: the counters never keep it
\* alive for ever.
DoneIsDeleted == m_bDoneReading ~> ~exists

\* The counters are incremented at the end of SendResponse "to avoid race
\* conditions deleting the connection during sending the response": as long as
\* AddResponse has not returned, the connection exists.
SendersFindConnection ==
    ~exists => \A w \in Workers : pc[w] # "update"

\* "response id for making sure we send responses in the right order".
ResponsesInOrder ==
    \A i, j \in DOMAIN wire :
        i < j /\ wire[i].id > 0 /\ wire[j].id > 0 => wire[i].id < wire[j].id

\* m_bDisconnected: the "client has closed connection on us" for good.
DisconnectIsFinal == [][m_bDisconnected => m_bDisconnected']_vars

\* A connection is idle "if it's been more than N seconds since a response has
\* been sent and there are no pending requests".
IdleMeansQuiet ==
    [][CloseIdle /\ m_bDoneReading' # m_bDoneReading => quiet]_vars

\* "After sending this HttpResponse, EHS switches the corresponding connection
\* into raw Mode, which does no further message parsing on received data."
RawDataNotParsed == [][~ReadRawEarly]_vars

=============================================================================
