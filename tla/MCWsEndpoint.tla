---------------------------- MODULE MCWsEndpoint ----------------------------
(***************************************************************************)
(* WsEndpoint for TLC.  The client's encoder is written from RFC 6455, not *)
(* with the operators of the codec; the fields are shorter than in the RFC *)
(* (a key of two bytes, a 64 bit size of three) and the limits lower.      *)
(***************************************************************************)
EXTENDS WsEndpoint, Bitwise

MCPrefix == <<89>>
Key == <<165, 90>>

Masked(payload) == [i \in DOMAIN payload |-> payload[i] ^^ Key[1 + ((i - 1) % 2)]]

\* A frame with a size in the given form ("7", "16" or "64").
Sent(type, first, form, masked, payload) ==
    LET n == Len(payload)
        m == IF masked THEN 128 ELSE 0
        size == CASE form = "7"  -> <<m + n>>
                  [] form = "16" -> <<m + PAYLOAD_SIZE_BASIC + 1, 0, n>>
                  [] form = "64" -> <<m + PAYLOAD_SIZE_BASIC + 2, 0, 0, n>>
    IN  [type |-> type, payload |-> payload,
         bytes |-> <<first>> \o size \o
                   (IF masked THEN Key \o Masked(payload) ELSE payload)]

Chars(n) == [i \in 1..n |-> 64 + i]

\* Payloads at every border of the size forms, masked and not.
Data ==
    {Sent("data", 129, "7",  TRUE,  Chars(0)), Sent("data", 130, "7",  FALSE, Chars(0)),
     Sent("data", 129, "7",  TRUE,  Chars(3)), Sent("data", 129, "7",  FALSE, Chars(2)),
     Sent("data", 129, "16", TRUE,  Chars(4)), Sent("data", 129, "16", FALSE, Chars(5)),
     Sent("data", 129, "64", TRUE,  Chars(6))}

\* The first fragment of a message and the last one.
Fragments ==
    {Sent("fragment", 1, "7", TRUE, Chars(2)), Sent("fragment", 128, "7", FALSE, Chars(1))}

ControlFrames ==
    {Sent("ping", 137, "7", TRUE,  Chars(3)), Sent("ping", 137, "7", FALSE, <<>>),
     Sent("pong", 138, "7", TRUE,  Chars(1))}

Closes ==
    {Sent("close", 136, "7", TRUE,  p) :
        p \in {<<>>, <<3>>, <<3, 232>>, <<3, 232, 79>>, <<3, 238>>, <<3, 236>>, <<3, 231>>,
                <<3, 237>>}}

\* A reserved opcode, a reserved bit, a fragment of a control message, a control
\* frame with a long size, sizes that are not minimal, and one over the limit.
Bad ==
    {Sent("bad", 131, "7",  TRUE,  Chars(1)), Sent("bad", 193, "7",  FALSE, Chars(1)),
     Sent("bad", 9,   "7",  TRUE,  Chars(1)), Sent("bad", 136, "16", FALSE, Chars(4)),
     Sent("bad", 129, "16", TRUE,  Chars(3)), Sent("bad", 129, "64", FALSE, Chars(5)),
     Sent("huge", 129, "64", TRUE, Chars(7))}

Frames == Data \cup Fragments \cup ControlFrames \cup Closes \cup Bad

Hi    == Sent("data", 129, "7", TRUE, Chars(1))
Long  == Sent("data", 129, "64", TRUE, Chars(6))
Bye   == Sent("close", 136, "7", TRUE, <<3, 232>>)

\* Every frame with one of each kind after it, and what follows the endpoint's
\* own close frame or a failure.
MCInputs ==
    {<<f, g>> : f \in Frames, g \in {Hi, Long, Bye}
            \cup {Sent("ping", 137, "7", TRUE, Chars(3)),
                  Sent("bad", 131, "7", TRUE, Chars(1)),
                  Sent("bad", 136, "16", FALSE, Chars(4))}}
        \cup {<<Long, f, Bye>> : f \in {Hi, Long}}
        \cup {<<f, Hi, Bye>> : f \in Bad}
=============================================================================
