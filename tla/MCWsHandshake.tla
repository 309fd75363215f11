---------------------------- MODULE MCWsHandshake ----------------------------
(***************************************************************************)
(* WsHandshake for TLC.  The digests were computed with another            *)
(* implementation; that of the key of 24 characters is the example of      *)
(* RFC 6455, 1.3.  The other keys are not base64 by the RFC: they are      *)
(* expected to be accepted since base64_decode (base64.cpp:91) stops at    *)
(* the first character that is not of its alphabet and asks for no         *)
(* padding, and they move the message across the border of a block.        *)
(***************************************************************************)
EXTENDS WsHandshake

\* The key of that example without its padding, 22 characters for 16 octets,
\* and "==".
Nonce == <<100, 71, 104, 108, 73, 72, 78, 104, 98, 88, 66,
           115, 90, 83, 66, 117, 98, 50, 53, 106, 90, 81>>
Padding == <<61, 61>>
Filler(c, n) == [i \in 1..n |-> c]

\* Keys that make messages of 58, 60, 64, 119 and 120 octets: one block and two,
\* and the lengths around the border between them.
Keys ==
    {Nonce, Nonce \o Padding, Nonce \o Padding \o <<59, 120, 61, 49>>,
     Nonce \o Padding \o Filler(59, 59), Nonce \o Padding \o Filler(45, 60)}

Accepts(key) ==
    CASE Len(key) = 22 -> <<82, 90, 87, 117, 104, 50, 74, 75, 47, 104, 76, 48, 82, 77,
            103, 84, 78, 74, 70, 102, 90, 73, 65, 112, 112, 88, 103, 61>>
      [] Len(key) = 24 -> <<115, 51, 112, 80, 76, 77, 66, 105, 84, 120, 97, 81, 57, 107,
            89, 71, 122, 122, 104, 90, 82, 98, 75, 43, 120, 79, 111, 61>>
      [] Len(key) = 28 -> <<110, 103, 50, 75, 114, 83, 50, 68, 97, 50, 106, 85, 66, 85,
            86, 111, 72, 74, 104, 71, 105, 53, 108, 107, 101, 101, 56, 61>>
      [] Len(key) = 83 -> <<97, 106, 120, 118, 118, 54, 57, 122, 101, 50, 107, 101, 82, 82,
            66, 85, 67, 48, 114, 47, 48, 69, 87, 97, 120, 80, 81, 61>>
      [] Len(key) = 84 -> <<55, 117, 113, 113, 90, 70, 54, 67, 80, 74, 114, 119, 57, 52,
            54, 119, 99, 101, 65, 50, 77, 121, 112, 67, 105, 56, 77, 61>>

Valid(key) ==
    [uri |-> "/wsgate", method |-> "GET", version |-> "1.1", connection |-> {"upgrade"},
     upgrade |-> {"websocket"}, host |-> TRUE, key |-> key, wsversion |-> {"13"}]
Sample == Valid(Nonce \o Padding)

Upgrades ==
    {Valid(key) : key \in Keys} \cup
    {[Sample EXCEPT !.connection = {"keep-alive", "upgrade"}, !.wsversion = {"8", "13"}]}

Refused ==
    {[Sample EXCEPT !.method = "POST"], [Sample EXCEPT !.version = "1.0"],
     [Sample EXCEPT !.connection = {"keep-alive"}], [Sample EXCEPT !.upgrade = {""}],
     [Sample EXCEPT !.host = FALSE], Valid(<<>>), Valid(SubSeq(Nonce, 1, 20)),
     Valid(SubSeq(Nonce, 1, 21)), Valid(Nonce \o <<65>>), Valid(Nonce \o <<65, 65>>)}

Outdated == {[Sample EXCEPT !.wsversion = {"8"}]}
Others == {[Sample EXCEPT !.uri = u] : u \in {"/", "/index.html", "/other"}}

MCRequests == Upgrades \cup Refused \cup Outdated \cup Others

\* By the URI, the method and the headers; of a key, by what the code's own
\* lenient decoder makes of it, and not by RFC 6455, 4.2.1.
MCExpected ==
    [r \in MCRequests |->
        CASE r \in Upgrades -> {[code |-> 101, accept |-> Accepts(r.key)]}
          [] r \in Refused  -> {[code |-> 400, accept |-> <<>>]}
          [] r \in Outdated -> {[code |-> 426, accept |-> <<>>]}
          [] r.uri = "/other" -> {[code |-> 404, accept |-> <<>>]}
          [] OTHER -> {[code |-> c, accept |-> <<>>] : c \in {200, 500}}]
=============================================================================
