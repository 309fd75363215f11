----------------------------- MODULE WsHandshake -----------------------------
(***************************************************************************)
(* How the sample gateway answers a request (src/samples/ehs_wsgate.cpp,   *)
(* WsGate::HandleRequest), with the digest of src/samples/sha1.cpp and the *)
(* encoding of src/samples/base64.cpp that the opening handshake of a      *)
(* WebSocket session needs.  The object of class SHA1 is local to the      *)
(* call; its loops over the message and over a block are steps.            *)
(*                                                                         *)
(* Characters and octets are numbers; a 32 bit word is a pair of its 16    *)
(* bit halves.  A header that may have several values is the set of them.  *)
(***************************************************************************)
EXTENDS Integers, Sequences, SequencesExt, Bitwise

CONSTANTS
    Requests,  \* the requests: [uri, method, version, connection, upgrade,
               \* host (is it m_sHostname), key, wsversion]
    Expected   \* the right answers to each of them: a set of [code, accept]

VARIABLES
    request,
    response,  \* [code, accept], code 0 before HandleRequest has returned
    pc,        \* "uri", "input", "pad", "block", "result" or "done"
    then,      \* where ProcessMessageBlock returns to
    feed,      \* octets the operator << has still to pass to Input
    H, Message_Block, Length_Low, Computed,   \* of the SHA1 object
    W, buffers, t                             \* of ProcessMessageBlock

object == <<H, Message_Block, Length_Low, Computed>>
locals == <<W, buffers, t>>
vars == <<request, response, pc, then, feed, object, locals>>

-----------------------------------------------------------------------------
(* Words of 32 bits *)

Half == 65536
Word(hi, lo) == <<hi, lo>>

\* The functions of FIPS 180-1 on nibbles: "choose", parity and majority.
Nibbles == (0..15) \X (0..15) \X (0..15)
Choose4   == [n \in Nibbles |-> (n[1] & n[2]) | ((15 - n[1]) & n[3])]
Parity4   == [n \in Nibbles |-> (n[1] ^^ n[2]) ^^ n[3]]
Majority4 == [n \in Nibbles |-> ((n[1] & n[2]) | (n[1] & n[3])) | (n[2] & n[3])]

\* Such a function on words.
Wordwise(f, u, v, w) ==
    LET Nibble(h, k) == k * f[<<(u[h] \div k) % 16, (v[h] \div k) % 16, (w[h] \div k) % 16>>]
        InHalf(h) == Nibble(h, 1) + Nibble(h, 16) + Nibble(h, 256) + Nibble(h, 4096)
    IN  <<InHalf(1), InHalf(2)>>

\* Addition & 0xFFFFFFFF.
Plus(v, w) == <<(v[1] + w[1] + (v[2] + w[2]) \div Half) % Half, (v[2] + w[2]) % Half>>

CircularShift(bits, w) ==
    LET v == IF bits >= 16 THEN <<w[2], w[1]>> ELSE w
        n == bits % 16
        Shifted(high, low) == (high * 2^n + low \div 2^(16 - n)) % Half
    IN  <<Shifted(v[1], v[2]), Shifted(v[2], v[1])>>

-----------------------------------------------------------------------------
(* base64.cpp *)

base64_chars ==
    [i \in 0..63 |-> CASE i < 26      -> 65 + i
                       [] i \in 26..51 -> 97 + i - 26
                       [] i \in 52..61 -> 48 + i - 52
                       [] i = 62      -> 43
                       [] i = 63      -> 47]
Equals == 61

is_base64(c) == \E i \in 0..63 : base64_chars[i] = c
find(c) == CHOOSE i \in 0..63 : base64_chars[i] = c

\* The four sextets of three octets, and back.
Sextets(a, b, c) ==
    <<a \div 4, (a % 4) * 16 + b \div 16, (b % 16) * 4 + c \div 64, c % 64>>
Octets(p, q, r, s) ==
    <<(p * 4 + q \div 16) % 256, ((q % 16) * 16 + r \div 4) % 256, ((r % 4) * 64 + s) % 256>>

\* Three octets make four characters; an incomplete group is filled up with
\* zeros, and what comes only from them is written as "=".
base64_encode(octets) ==
    LET n == Len(octets)
        o(i) == IF i <= n THEN octets[i] ELSE 0
        char(k) == LET i == 3 * ((k - 1) \div 4)
                       j == (k - 1) % 4
                   IN  IF i + j > n THEN Equals
                       ELSE base64_chars[Sextets(o(i + 1), o(i + 2), o(i + 3))[j + 1]]
    IN  [k \in 1..(4 * ((n + 2) \div 3)) |-> char(k)]

\* Decoding ends at the first character that is not one of the alphabet.
base64_decode(chars) ==
    LET bad == SelectInSeq(chars, LAMBDA c : ~is_base64(c))
        n == IF bad = 0 THEN Len(chars) ELSE bad - 1
        x(i) == IF i <= n THEN find(chars[i]) ELSE 0
        octet(k) == LET i == 4 * ((k - 1) \div 3) IN
                    Octets(x(i + 1), x(i + 2), x(i + 3), x(i + 4))[1 + ((k - 1) % 3)]
    IN  [k \in 1..((3 * n) \div 4) |-> octet(k)]

-----------------------------------------------------------------------------
(* HandleRequest: its checks *)

\* "258EAFA5-E914-47DA-95CA-C5AB0DC85B11"
ws_magic ==
    <<50, 53, 56, 69, 65, 70, 65, 53, 45, 69, 57, 49, 52, 45, 52, 55, 68, 65, 45,
      57, 53, 67, 65, 45, 67, 53, 65, 66, 48, 68, 67, 56, 53, 66, 49, 49>>

\* SHA1::Reset.  Message_Block holds the octets below Message_Block_Index.  The
\* length of a message in bits stays below 2^31, so that Length_High is 0 and no
\* message is too long; nothing is put in after Result, so that the object is
\* never corrupted.
Reset ==
    /\ H = <<Word(26437, 8961), Word(61389, 43913), Word(39098, 56574),
             Word(4146, 21622), Word(50130, 57840)>>
    /\ Message_Block = <<>>
    /\ Length_Low = 0
    /\ Computed = FALSE

Init ==
    /\ request \in Requests
    /\ response = [code |-> 0, accept |-> <<>>]
    /\ pc = "uri" /\ then = "input"
    /\ feed = <<>>
    /\ Reset
    /\ W = <<>> /\ buffers = <<>> /\ t = 0

Returns(code, accept) ==
    /\ response' = [code |-> code, accept |-> accept]
    /\ pc' = "done"

Untouched == UNCHANGED <<request, then, feed, object, locals>>

\* The page is a file.  If it cannot be read HandleRequest throws a
\* tracing::runtime_error, which HandleThreadException turns into a 500.
HandlePage ==
    /\ pc = "uri" /\ request.uri \in {"/", "/index.html"}
    /\ Returns(200, <<>>) \/ Returns(500, <<>>)
    /\ Untouched

NotFound ==
    /\ pc = "uri" /\ request.uri \notin {"/", "/index.html", "/wsgate"}
    /\ Returns(404, <<>>)
    /\ Untouched

\* Mutant: the length of the decoded key is not looked at.
Acceptable_AnyKey ==
    /\ request.method = "GET" /\ request.version = "1.1" /\ request.host
    /\ "upgrade" \in request.connection /\ "websocket" \in request.upgrade

Acceptable ==
    /\ request.method = "GET"
    /\ request.version = "1.1"
    /\ "upgrade" \in request.connection
    /\ "websocket" \in request.upgrade
    /\ request.host
    /\ Len(base64_decode(request.key)) = 16

RefuseUpgrade ==
    /\ pc = "uri" /\ request.uri = "/wsgate" /\ ~Acceptable
    /\ Returns(400, <<>>)
    /\ Untouched

\* sha1 << wskey.c_str() << ws_magic
BeginDigest ==
    /\ pc = "uri" /\ request.uri = "/wsgate" /\ Acceptable
    /\ feed' = request.key \o ws_magic
    /\ pc' = "input"
    /\ UNCHANGED <<request, response, then, object, locals>>

-----------------------------------------------------------------------------
(* The class SHA1 *)

\* ProcessMessageBlock is called; it returns to label.
Process(block, label) ==
    /\ Message_Block' = block
    /\ pc' = "block" /\ then' = label
    /\ W' = [i \in 1..16 |-> Word(256 * block[4 * i - 3] + block[4 * i - 2],
                                  256 * block[4 * i - 1] + block[4 * i])]
    /\ buffers' = H
    /\ t' = 0

Input ==
    /\ pc = "input" /\ feed # <<>>
    /\ LET block == Append(Message_Block, Head(feed)) IN
        IF Len(block) = 64 THEN Process(block, "input")
        ELSE Message_Block' = block /\ UNCHANGED <<pc, then, locals>>
    /\ Length_Low' = Length_Low + 8
    /\ feed' = Tail(feed)
    /\ UNCHANGED <<request, response, H, Computed>>

K(i) == CASE i < 20 -> Word(23170, 31129)
          [] i \in 20..39 -> Word(28377, 60321)
          [] i \in 40..59 -> Word(36635, 48348)
          [] OTHER -> Word(51810, 49622)

F(i, B, C, D) ==
    Wordwise(CASE i < 20 -> Choose4 [] i \in 40..59 -> Majority4 [] OTHER -> Parity4, B, C, D)

\* The word W[i]; those above the first 16 are computed when they are needed.
WordAt(i) ==
    IF i < 16 THEN W[i + 1]
    ELSE CircularShift(1, Wordwise(Parity4, Wordwise(Parity4, W[i - 2], W[i - 7], W[i - 13]),
                                  W[i - 15], Word(0, 0)))

\* One pass of the loops over t: the buffers A to E move on.
Round ==
    /\ pc = "block" /\ t < 80
    /\ \E w \in {WordAt(t)}, v \in {buffers} :
       \E f \in {F(t, v[2], v[3], v[4])}, a \in {CircularShift(5, v[1])},
          kw \in {Plus(w, K(t))} :
       \E af \in {Plus(a, f)}, ekw \in {Plus(v[5], kw)} :
        /\ buffers' = <<Plus(af, ekw), v[1], CircularShift(30, v[2]), v[3], v[4]>>
        /\ W' = IF t < 16 THEN W ELSE Append(W, w)
    /\ t' = t + 1
    /\ UNCHANGED <<request, response, pc, then, feed, object>>

\* Mutant: Message_Block_Index is not set to 0.
EndBlock_KeepsIndex ==
    /\ pc = "block" /\ t = 80
    /\ H' = [i \in 1..5 |-> Plus(H[i], buffers[i])]
    /\ pc' = then
    /\ W' = <<>> /\ buffers' = <<>> /\ t' = 0
    /\ UNCHANGED <<request, response, then, feed, Message_Block, Length_Low, Computed>>

EndBlock ==
    /\ pc = "block" /\ t = 80
    /\ H' = [i \in 1..5 |-> Plus(H[i], buffers[i])]
    /\ Message_Block' = <<>>
    /\ pc' = then
    /\ W' = <<>> /\ buffers' = <<>> /\ t' = 0
    /\ UNCHANGED <<request, response, then, feed, Length_Low, Computed>>

Zeros(n) == [i \in 1..n |-> 0]
LengthOctets == Zeros(4) \o [i \in 1..4 |-> (Length_Low \div 256^(4 - i)) % 256]

\* Mutant: off by one, a block with 56 octets is taken for one with room.
PadMessage_OffByOne ==
    /\ pc = "input" /\ feed = <<>>
    /\ LET n == Len(Message_Block)
           padded == Message_Block \o <<128>> \o Zeros(64)
       IN  IF n > 56 THEN Process(SubSeq(padded, 1, 64), "pad")
           ELSE Process(SubSeq(padded, 1, 56) \o LengthOctets, "result")
    /\ UNCHANGED <<request, response, feed, H, Length_Low, Computed>>

\* Result calls PadMessage.  The length takes the last 8 octets of the block, or
\* of a second one if it does not fit into this one, ...
PadMessage ==
    /\ pc = "input" /\ feed = <<>>
    /\ LET n == Len(Message_Block)
           padded == Message_Block \o <<128>> \o Zeros(64)
       IN  IF n > 55 THEN Process(SubSeq(padded, 1, 64), "pad")
           ELSE Process(SubSeq(padded, 1, 56) \o LengthOctets, "result")
    /\ UNCHANGED <<request, response, feed, H, Length_Low, Computed>>

\* ... which has nothing else in it.
PadSecondBlock ==
    /\ pc = "pad"
    /\ Process(Zeros(56) \o LengthOctets, "result")
    /\ UNCHANGED <<request, response, feed, H, Length_Low, Computed>>

\* The digest as octets in network byte order.
DigestOctets ==
    [i \in 1..20 |-> LET w == H[(i + 3) \div 4]
                         half == w[IF i % 4 \in {1, 2} THEN 1 ELSE 2]
                     IN  IF i % 2 = 1 THEN half \div 256 ELSE half % 256]

\* The rest of HandleRequest.
Upgrade ==
    /\ pc = "result"
    /\ Computed' = TRUE
    /\ IF "13" \in request.wsversion
       THEN Returns(101, base64_encode(DigestOctets))
       ELSE Returns(426, <<>>)
    /\ UNCHANGED <<request, then, feed, H, Message_Block, Length_Low, locals>>

Done == pc = "done" /\ UNCHANGED vars

Next ==
    \/ HandlePage \/ NotFound \/ RefuseUpgrade \/ BeginDigest
    \/ Input \/ Round \/ EndBlock \/ PadMessage \/ PadSecondBlock
    \/ Upgrade \/ Done

Spec == Init /\ [][Next]_vars /\ WF_vars(Next)

-----------------------------------------------------------------------------
(* Properties *)

Octet == 0..255
Halves == 0..(Half - 1)

\* The block never takes more than its 64 octets (Message_Block_Index).
TypeOK ==
    /\ pc \in {"uri", "input", "pad", "block", "result", "done"}
    /\ then \in {"input", "pad", "result"}
    /\ Message_Block \in Seq(Octet)
    /\ Len(Message_Block) <= 64 /\ (pc # "block" => Len(Message_Block) < 64)
    /\ H \in [1..5 -> Halves \X Halves]
    /\ t \in 0..80

\* HandleRequest always comes to an answer, and to the right one: it switches
\* protocols exactly for an upgrade whose key base64_decode takes for 16 octets,
\* and proves with the Sec-WebSocket-Accept header that it has read the key,
\* whatever the length of the key does to the blocks of the digest
\* (ehs_wsgate.cpp:126-186).
HandshakeRight == <>(pc = "done" /\ response \in Expected[request])
=============================================================================
