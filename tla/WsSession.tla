------------------------------ MODULE WsSession ------------------------------
(***************************************************************************)
(* What the code of AddRxData does for a client, frame by frame: frames    *)
(* are handled in order and once each, messages and pings are answered, a  *)
(* close frame ends the session.  How the frames arrive as bytes, and how  *)
(* the answers are written, is not seen here.  WsEndpoint is shown to      *)
(* implement this module.                                                  *)
(*                                                                         *)
(* This is not RFC 6455, nor all that the comments of the code say:        *)
(*   - a fragment is delivered as a message of its own, although on_message*)
(*     is documented for messages that are "completely assembled"          *)
(*     (wsendpoint.h:161-163); see Fragment;                               *)
(*   - frames that are not masked are accepted from a client;              *)
(*   - a frame that breaks the protocol, which "must end" the session      *)
(*     according to wsframe.h:76, leaves it open: until the next close     *)
(*     frame nothing is handled ("recovering"), or nothing ever ("stuck"). *)
(***************************************************************************)
EXTENDS Integers, Sequences

CONSTANTS
    Inboxes,    \* the sequences of frames a client may send
    Answer(_),  \* what a message is answered with
    Limit       \* the longest payload that can be sent

VARIABLES
    state,    \* session::state
    failed,   \* "no", "recovering" or "stuck"
    inbox,    \* frames that have not been handled: [type, payload]
    calls,    \* the handler methods called: [method, payload]
    replies   \* what was sent: [op, payload], and Closing for the end

vars == <<state, failed, inbox, calls, replies>>

TEXT  == 1
CLOSE == 8
PONG  == 10
Closing == [op |-> 0, payload |-> <<>>]

Code(n) == <<n \div 256, n % 256>>
NORMAL == 1000
PROTOCOL_ERROR == 1002
MESSAGE_TOO_BIG == 1009

\* Codes an endpoint may not receive, or nobody has defined.
Unusable(code) ==
    \/ code <= 999 \/ code >= 5000 \/ code \in 1016..2999
    \/ code \in {1004, 1012, 1013, 1014, 1015}
NO_STATUS == 1005
ABNORMAL_CLOSE == 1006

Init ==
    /\ state = "OPEN" /\ failed = "no"
    /\ inbox \in Inboxes
    /\ calls = <<>> /\ replies = <<>>

\* The next frame, of one of the types.
Take(types) ==
    /\ state # "CLOSED" /\ failed = "no"
    /\ inbox # <<>> /\ Head(inbox).type \in types
    /\ inbox' = Tail(inbox)

Call(method, payload) ==
    calls' = Append(calls, [method |-> method, payload |-> payload])

Reply(op, payload) == replies' = Append(replies, [op |-> op, payload |-> payload])

\* A payload is passed on and answered; an answer that is too long makes the
\* endpoint ask for the end of the session instead.
Deliver ==
    /\ Call("on_message", Head(inbox).payload)
    /\ LET answer == Answer(Head(inbox).payload) IN
       \/ /\ Len(answer) <= Limit
          /\ Reply(TEXT, answer)
          /\ UNCHANGED state
       \/ /\ Len(answer) > Limit /\ state = "OPEN"
          /\ state' = "CLOSING"
          /\ Reply(CLOSE, Code(MESSAGE_TOO_BIG))
       \/ /\ Len(answer) > Limit /\ state = "CLOSING"
          /\ UNCHANGED <<state, replies>>
    /\ UNCHANGED failed

Message == Take({"data"}) /\ Deliver

\* A frame without FIN, or one that continues another, is not collected:
\* process_data looks at neither FIN nor the opcode, and the handler gets each
\* fragment of a message, and answers it, as if it were the message.
Fragment == Take({"fragment"}) /\ Deliver

Ping ==
    /\ Take({"ping"})
    /\ Call("on_ping", Head(inbox).payload)
    /\ IF state = "OPEN" THEN Reply(PONG, Head(inbox).payload)
                         ELSE UNCHANGED replies
    /\ UNCHANGED <<state, failed>>

Pong ==
    /\ Take({"pong"})
    /\ Call("on_pong", Head(inbox).payload)
    /\ UNCHANGED <<state, failed, replies>>

\* The payload of the close frame that acknowledges one with payload p.  The
\* code that stands for "no code" is taken for none also if a client sends it.
Acknowledgement(p) ==
    LET code == 256 * p[1] + p[2] IN
    CASE p = <<>> -> Code(NORMAL)
      [] p # <<>> /\ code = NO_STATUS -> Code(NORMAL)
      [] p # <<>> /\ Unusable(code) -> Code(PROTOCOL_ERROR)
      [] OTHER -> p

Dropped(rest) == \E n \in 0..Len(inbox) : rest = SubSeq(inbox, n + 1, Len(inbox))

\* A close frame ends the session; it is acknowledged unless it answers one of
\* the endpoint's own.  A payload of one byte is not acknowledged.
Close ==
    /\ state # "CLOSED" /\ failed # "stuck"
    /\ \E i \in DOMAIN inbox :
        /\ inbox[i].type = "close" /\ (failed = "no" => i = 1)
        /\ LET p == inbox[i].payload
               acked == state = "OPEN" /\ Len(p) # 1
               lost == acked /\ p # <<>> /\ 256 * p[1] + p[2] = ABNORMAL_CLOSE
           IN  IF lost
               THEN failed' = "stuck" /\ UNCHANGED <<state, calls, replies>>
               ELSE /\ state' = "CLOSED"
                    /\ Call("on_close", <<>>)
                    /\ replies' = replies \o
                        (IF acked THEN <<[op |-> CLOSE, payload |-> Acknowledgement(p)]>>
                                  ELSE <<>>) \o <<Closing>>
                    /\ failed' = "no"
        /\ Dropped(inbox') /\ Len(inbox') <= Len(inbox) - i

\* A frame that breaks the protocol.
Violation ==
    /\ state # "CLOSED" /\ inbox # <<>>
    /\ \/ /\ Head(inbox).type \in {"bad", "huge"} /\ failed = "no"
          /\ failed' = IF Head(inbox).type = "bad" THEN "recovering" ELSE "stuck"
          /\ UNCHANGED <<state, calls, replies>>
       \/ /\ failed = "recovering"
          /\ \E i \in DOMAIN inbox : inbox[i].type = "bad"
          /\ state' = "CLOSED"
          /\ Call("on_close", <<>>)
          /\ replies' = Append(replies, Closing)
          /\ UNCHANGED failed
    /\ Dropped(inbox')

\* Nothing is done with what arrives after the end or after a failure.
Ignore ==
    /\ state = "CLOSED" \/ failed # "no"
    /\ Dropped(inbox')
    /\ UNCHANGED <<state, failed, calls, replies>>

Next == Message \/ Fragment \/ Ping \/ Pong \/ Close \/ Violation \/ Ignore

Spec == Init /\ [][Next]_vars
=============================================================================
