----------------------------- MODULE WsEndpoint -----------------------------
(***************************************************************************)
(* The server side of a WebSocket session (src/samples/wsendpoint.h, class *)
(* wsendpoint) with the handler of the sample gateway                      *)
(* (src/samples/ehs_wsgate.cpp, class MyWsHandler).  A client's frames     *)
(* arrive as bytes, in pieces of any size; each piece is one call of       *)
(* AddRxData by the accepting thread, and one pass of its loop is a step.  *)
(* AddRxData is never called by two threads, so that it makes no           *)
(* difference that the MutexHelper objects are temporaries which unlock at *)
(* the end of their statement.                                             *)
(*                                                                         *)
(* What the handler passes to AddResponse is recorded in responses; an     *)
(* empty response asks EHS to close the connection.  The texts sent with a *)
(* close code of the endpoint's own are left out.                          *)
(***************************************************************************)
EXTENDS WsFrame

CONSTANTS
    Inputs,   \* the sequences of frames a client may send
    Prefix,   \* "Yes, ": the begin of each answer
    Resumes,  \* AddRxData is called again after an exception has left it, by
              \* an OnData that catches it (the gateway's does not, see WsGate)
    Patient   \* after a message whose answer is too long the client waits

ASSUME EndpointAssumption ==
    Prefix \in Seq(Byte) /\ Resumes \in BOOLEAN /\ Patient \in BOOLEAN

VARIABLES
    input,      \* the client's frames: [type, payload, bytes]
    unread,     \* bytes AddRxData has not been called with
    data,       \* bytes of the current call that have not been consumed
    pc,         \* "idle", or "loop" in AddRxData
    m_state,    \* of the session
    m_parser,
    calls,      \* handler methods called: [method, payload]
    responses,  \* what do_response and on_close have passed to AddResponse
    raised      \* what left AddRxData last: "none", "exception" or "string"

vars == <<input, unread, data, pc, m_state, m_parser, calls, responses, raised>>

Bytes(frames) == FlattenSeq([i \in DOMAIN frames |-> frames[i].bytes])

\* What a client sends is bytes.
ASSUME InputsAssumption == \A frames \in Inputs : Bytes(frames) \in Seq(Byte)

TypeOK ==
    /\ input \in Inputs
    /\ unread \in Seq(Byte) /\ data \in Seq(Byte)
    /\ pc \in {"idle", "loop"}
    /\ m_state \in {"OPEN", "CLOSING", "CLOSED"}
    /\ m_parser \in Parser
    /\ raised \in {"none", "exception", "string"}

\* wsendpoint::wsendpoint
Init ==
    /\ input \in Inputs
    /\ unread = Bytes(input)
    /\ data = <<>>
    /\ pc = "idle"
    /\ m_state = "OPEN"
    /\ m_parser = NewParser
    /\ calls = <<>> /\ responses = <<>>
    /\ raised = "none"

-----------------------------------------------------------------------------
(* Calls the endpoint makes, and their effects in the handler *)

Answer(payload) == Prefix \o payload

Calls(method, payload) ==
    calls' = Append(calls, [method |-> method, payload |-> payload])

\* do_response, once for each of the frames.
Sends(frames) == responses' = responses \o frames

\* The end of an iteration of the loop with a complete frame.
FrameDone(rest) ==
    /\ m_parser' = NewParser
    /\ data' = rest
    /\ UNCHANGED <<input, unread, pc, raised>>

\* A caught wserror ends the loop: what is left of the data is dropped.
LoopBroken(p) ==
    /\ m_parser' = p
    /\ data' = <<>>
    /\ pc' = "idle"
    /\ UNCHANGED <<input, unread, raised>>

\* An exception leaves AddRxData.
Leaves(p, what) ==
    /\ m_parser' = p
    /\ data' = <<>>
    /\ pc' = "idle"
    /\ raised' = what
    /\ UNCHANGED <<input, unread, m_state, calls, responses>>

\* Mutant: on_close is not called.
shutdown_Silent(frames) ==
    /\ m_state' = "CLOSED"
    /\ Sends(frames)
    /\ UNCHANGED calls

\* shutdown, after frames have been sent: on_close sends an empty response.
shutdown(frames) ==
    /\ m_state' = "CLOSED"
    /\ Calls("on_close", <<>>)
    /\ Sends(frames \o << <<>> >>)

\* send_close does nothing unless the session is open.
send_close(code) ==
    IF m_state = "OPEN"
    THEN /\ m_state' = "CLOSING"
         /\ Sends(<<Frame(CLOSE, ToBytes(code, 2))>>)
    ELSE UNCHANGED <<m_state, responses>>

\* The frame send_close_ack sends for a code that is not ABNORMAL_CLOSE.
CloseAck(code, reason) ==
    CASE code = NO_STATUS -> Frame(CLOSE, ToBytes(NORMAL, 2))
      [] code # NO_STATUS /\ (invalidStatus(code) \/ reservedStatus(code)) ->
            Frame(CLOSE, ToBytes(PROTOCOL_ERROR, 2))
      [] OTHER -> Frame(CLOSE, ToBytes(code, 2) \o reason)

-----------------------------------------------------------------------------
(* AddRxData *)

Consumed == consume(m_parser, data)
Payload == Consumed.p.m_payload

\* Frames of input whose last byte has been taken when left bytes are left.
Complete(left) ==
    {i \in DOMAIN input : Len(Bytes(SubSeq(input, i + 1, Len(input)))) >= left}

TooBigAnswer(f) == f.type \in {"data", "fragment"} /\ TooBig(Answer(f.payload))

\* The accepting thread has read the next n bytes.
AddRxData(n) ==
    /\ pc = "idle"
    /\ raised = "none" \/ Resumes
    /\ n <= Len(unread)
    /\ Patient => ~\E i \in Complete(Len(unread) - n + 1) \ Complete(Len(unread)) :
                        TooBigAnswer(input[i])
    /\ data' = SubSeq(unread, 1, n)
    /\ unread' = SubSeq(unread, n + 1, Len(unread))
    /\ pc' = "loop"
    /\ UNCHANGED <<input, m_state, m_parser, calls, responses, raised>>

\* The condition of the loop is false.
Return ==
    /\ pc = "loop"
    /\ m_state = "CLOSED" \/ data = <<>>
    /\ pc' = "idle"
    /\ data' = <<>>
    /\ UNCHANGED <<input, unread, m_state, m_parser, calls, responses, raised>>

Iterating == pc = "loop" /\ m_state # "CLOSED" /\ data # <<>>

\* consume has taken all there is and the frame is not complete.
PartialFrame ==
    /\ Iterating
    /\ Consumed.exc = "none" /\ ~ready(Consumed.p)
    /\ m_parser' = Consumed.p
    /\ data' = Consumed.rest
    /\ UNCHANGED <<input, unread, pc, m_state, calls, responses, raised>>

\* consume throws what AddRxData does not catch.
NotCaught ==
    /\ Iterating
    /\ Consumed.exc \in {"exception", "string"}
    /\ Leaves(Consumed.p, Consumed.exc)

\* consume throws a wserror, always a fatal one.
FatalError ==
    /\ Iterating
    /\ Consumed.exc = "wserror"
    /\ shutdown(<<>>)
    /\ LoopBroken(Consumed.p)

FrameReady(control) ==
    /\ Iterating
    /\ Consumed.exc = "none" /\ ready(Consumed.p)
    /\ is_control(get_opcode(Consumed.p.m_header)) = control

\* process_data: on_message answers with send_text.  If the answer is too long
\* send throws, and the session is closed.
process_data ==
    /\ FrameReady(FALSE)
    /\ Calls("on_message", Payload)
    /\ IF TooBig(Answer(Payload))
       THEN send_close(MESSAGE_TOO_BIG) /\ LoopBroken(NewParser)
       ELSE /\ Sends(<<Frame(TEXT, Answer(Payload))>>)
            /\ FrameDone(Consumed.rest)
            /\ UNCHANGED m_state

Control(op) == FrameReady(TRUE) /\ get_opcode(Consumed.p.m_header) = op

\* process_control, PING: on_ping returns true, pong needs an open session.
ProcessPing ==
    /\ Control(PING)
    /\ Calls("on_ping", Payload)
    /\ IF m_state = "OPEN" THEN Sends(<<Frame(PONG, Payload)>>)
                           ELSE UNCHANGED responses
    /\ FrameDone(Consumed.rest)
    /\ UNCHANGED m_state

ProcessPong ==
    /\ Control(PONG)
    /\ Calls("on_pong", Payload)
    /\ FrameDone(Consumed.rest)
    /\ UNCHANGED <<m_state, responses>>

\* CLOSE in an open session: send_close_ack and shutdown, ...
ProcessClose ==
    LET code == get_close_code(Consumed.p) IN
    /\ Control(CLOSE)
    /\ m_state = "OPEN"
    /\ CASE code = NoCode -> shutdown(<<>>) /\ LoopBroken(NewParser)
         [] code = ABNORMAL_CLOSE -> Leaves(Consumed.p, "string")
         [] OTHER -> /\ shutdown(<<CloseAck(code, get_close_reason(Consumed.p))>>)
                     /\ FrameDone(Consumed.rest)

\* ... and as the answer to the endpoint's own close frame.
ProcessCloseAck ==
    /\ Control(CLOSE)
    /\ m_state = "CLOSING"
    /\ shutdown(<<>>)
    /\ FrameDone(Consumed.rest)

Iterate ==
    \/ PartialFrame \/ NotCaught \/ FatalError \/ process_data
    \/ ProcessPing \/ ProcessPong \/ ProcessClose \/ ProcessCloseAck

\* The client has sent everything, or nobody reads any more.
Finished ==
    /\ pc = "idle"
    /\ unread = <<>> \/ (raised # "none" /\ ~Resumes)
    /\ UNCHANGED vars

Next ==
    \/ \E n \in 1..Len(unread) : AddRxData(n)
    \/ Return \/ Iterate \/ Finished

\* The client's bytes arrive, and the accepting thread goes on.
Fairness ==
    /\ WF_vars(Return \/ Iterate)
    /\ WF_vars(\E n \in 1..Len(unread) : AddRxData(n))

Spec == Init /\ [][Next]_vars /\ Fairness

-----------------------------------------------------------------------------
(* Refinement *)

\* What a client reads in a response, by RFC 6455: the frame, if the size is
\* in its shortest form and no bit is set that must not be, or the end.
Decoded(bytes) ==
    LET Form(n, low, high) ==
            /\ Len(bytes) \in (2 + n + low)..(2 + n + high)
            /\ \/ n = 0 /\ bytes[2] = Len(bytes) - 2
               \/ n > 0 /\ FromBytes(SubSeq(bytes, 3, 2 + n)) = Len(bytes) - 2 - n
        Read(n) == [op |-> bytes[1] - 128, payload |-> SubSeq(bytes, 3 + n, Len(bytes))]
    IN  CASE bytes = <<>> -> [op |-> 0, payload |-> <<>>]
          [] bytes # <<>> /\ Form(0, 0, PAYLOAD_SIZE_BASIC) -> Read(0)
          [] bytes # <<>> /\ bytes[2] = BASIC_PAYLOAD_16BIT_CODE
                /\ Form(SizeBytes16, PAYLOAD_SIZE_BASIC + 1, PAYLOAD_SIZE_EXTENDED) ->
                    Read(SizeBytes16)
          [] bytes # <<>> /\ bytes[2] = BASIC_PAYLOAD_64BIT_CODE
                /\ Form(SizeBytes64, PAYLOAD_SIZE_EXTENDED + 1, max_payload_size) ->
                    Read(SizeBytes64)
          [] OTHER -> [op |-> -1, payload |-> bytes]

\* The frames of input that are not complete when left bytes are left.
Pending(left) ==
    CHOOSE rest \in Suffixes(input) :
        /\ Len(Bytes(rest)) >= left
        /\ rest # <<>> => Len(Bytes(Tail(rest))) < left

Session == INSTANCE WsSession WITH
    Inboxes <- Inputs,
    Limit   <- max_payload_size,
    state   <- m_state,
    failed  <- IF raised = "string" THEN "stuck"
               ELSE IF m_parser.m_degraded THEN "recovering" ELSE "no",
    inbox   <- Pending(Len(unread) + Len(data)),
    replies <- [i \in DOMAIN responses |-> Decoded(responses[i])]

\* Whatever way the bytes are cut, the endpoint handles the client's frames one
\* by one, in order and once, and its answers are frames a client understands:
\* the loop of AddRxData (wsendpoint.h:170-220), process_data, process_control
\* and send_close_ack over consume (wsframe.h:221-307) do, frame by frame, what
\* WsSession says, which is what the code does with fragments and violations
\* and not what RFC 6455 asks for.
ImplementsSession == Session!Spec

-----------------------------------------------------------------------------
(* Properties *)

\* The invariant the comment on consume states (wsframe.h:215-219): "one of the
\* following must always be true even in the case of exceptions", the parser
\* waits for bytes or has a frame to hand over.  It does not hold: see below.
WaitsOrReady ==
    m_state # "CLOSED" => m_parser.m_bytes_needed > 0 \/ ready(m_parser)

\* The parser has read a header whose size is over the limit.
Refused(p) ==
    /\ p.m_state = "EXTENDED_HEADER"
    /\ Len(p.m_header) = get_header_len(p.m_header)
    /\ ~NoSize(p.m_header) /\ PayloadSize(p.m_header) > max_payload_size

\* The comment's invariant fails in one case only: the string thrown for a size
\* over the limit leaves the parser with nothing to wait for and no frame, and
\* every further call of consume throws it again (wsframe.h:705-711).  After any
\* other exception, also the string of send_close_ack, a parser that is used
\* again waits for bytes or has a frame (consume, reset).
StuckOnlyBySize ==
    m_state # "CLOSED" =>
        m_parser.m_bytes_needed > 0 \/ ready(m_parser) \/ Refused(m_parser)

\* A frame for which an exception leaves AddRxData.
Breaks(f) ==
    \/ f.type \in {"bad", "huge"}
    \/ f.type = "close" /\ IsPrefix(ToBytes(ABNORMAL_CLOSE, 2), f.payload)

\* A client that keeps to the protocol and sends a close frame gets its session
\* closed in the end, wherever the frames were cut and even if the endpoint has
\* asked for the end first (process_control, shutdown).  The client must be
\* Patient: a close frame read together with a message whose answer is too long
\* is dropped by the break at wsendpoint.h:217.
CloseEndsSession ==
    (/\ \A i \in DOMAIN input : ~Breaks(input[i])
     /\ \E i \in DOMAIN input : input[i].type = "close")
    ~> (m_state = "CLOSED" /\ \E i \in DOMAIN calls : calls[i].method = "on_close")

\* AddRxData comes back to the accepting thread, by return or by an exception:
\* every iteration takes bytes from the stream or leaves the loop
\* (wsendpoint.h:173, consume), also with a parser that is stuck.
AddRxDataReturns == pc = "loop" ~> pc = "idle"

\* A violation of the protocol "must end" the session (wsframe.h:76), with the
\* close frame of wsendpoint.h:190, and does not reach the accepting thread.
ViolationEndsSession == raised # "exception"

\* on_message is called for a message that is "completely assembled"
\* (wsendpoint.h:161-163), not for a frame that is a part of one.
MessagesAssembled ==
    [][process_data => get_fin(Consumed.p.m_header) /\ get_opcode(Consumed.p.m_header) # 0]_vars
=============================================================================
