------------------------------- MODULE WsFrame -------------------------------
(***************************************************************************)
(* The WebSocket frame codec of the samples (src/samples/wsframe.h, class  *)
(* wspp::frame::parser, with the constants of src/samples/wscommon.h).  A  *)
(* parser is a record; consume, which takes what it needs from a stream of *)
(* bytes and may throw, is a function from a parser and a stream to the    *)
(* parser, the rest of the stream and the exception that left it.          *)
(*                                                                         *)
(* Bytes are numbers and have the layout of the wire.  The sizes at which  *)
(* the format changes are constants, so that an instance reaches all of    *)
(* them with short payloads.                                               *)
(***************************************************************************)
EXTENDS Integers, Sequences, SequencesExt

CONSTANTS
    PAYLOAD_SIZE_BASIC,    \* 125 in the code: the largest size in a basic header
    PAYLOAD_SIZE_EXTENDED, \* 65535: the largest size in the 16 bit form
    max_payload_size,      \* 100000000
    SizeBytes16, SizeBytes64, MaskBytes  \* 2, 8 and 4: lengths of the fields

ASSUME SizesAssumption ==
    /\ {PAYLOAD_SIZE_BASIC, PAYLOAD_SIZE_EXTENDED, max_payload_size} \subseteq Nat
    /\ 2 <= PAYLOAD_SIZE_BASIC /\ PAYLOAD_SIZE_BASIC < 126
    /\ PAYLOAD_SIZE_BASIC < PAYLOAD_SIZE_EXTENDED
    /\ PAYLOAD_SIZE_EXTENDED < max_payload_size
    /\ {SizeBytes16, SizeBytes64, MaskBytes} \subseteq Nat \ {0}
    /\ SizeBytes16 + MaskBytes <= max_payload_size
    /\ SizeBytes64 + MaskBytes <= max_payload_size

BASIC_PAYLOAD_16BIT_CODE == PAYLOAD_SIZE_BASIC + 1
BASIC_PAYLOAD_64BIT_CODE == PAYLOAD_SIZE_BASIC + 2

Byte == 0..255

TEXT  == 1
CLOSE == 8
PING  == 9
PONG  == 10

reservedOpcode(v) == v \in (3..7) \cup (11..15)
is_control(v) == v >= 8

NORMAL          == 1000
PROTOCOL_ERROR  == 1002
NO_STATUS       == 1005
ABNORMAL_CLOSE  == 1006
MESSAGE_TOO_BIG == 1009

reservedStatus(s) == s \in (1016..2999) \cup {1004, 1012, 1013, 1014}
invalidStatus(s) == s <= 999 \/ s >= 5000 \/ s \in {NO_STATUS, ABNORMAL_CLOSE, 1015}

-----------------------------------------------------------------------------
(* Numbers in network byte order *)

FromBytes(bytes) ==
    LET value[n \in 0..Len(bytes)] ==
            IF n = 0 THEN 0 ELSE 256 * value[n - 1] + bytes[n]
    IN  value[Len(bytes)]
ToBytes(n, width) == [i \in 1..width |-> (n \div 256^(width - i)) % 256]

-----------------------------------------------------------------------------
(* The header h, a sequence of the bytes read so far *)

Bit(b, m) == (b \div m) % 2 = 1

\* a ^ b, bit by bit.
XorBit(a, b, m) == IF Bit(a, m) = Bit(b, m) THEN 0 ELSE m
XorByte(a, b) ==
    XorBit(a, b, 1) + XorBit(a, b, 2) + XorBit(a, b, 4) + XorBit(a, b, 8)
        + XorBit(a, b, 16) + XorBit(a, b, 32) + XorBit(a, b, 64) + XorBit(a, b, 128)

get_fin(h) == Bit(h[1], 128)
get_rsv(h) == \E m \in {64, 32, 16} : Bit(h[1], m)
get_opcode(h) == h[1] % 16
get_masked(h) == Bit(h[2], 128)
get_basic_size(h) == h[2] % 128

SizeBytes(h) ==
    CASE get_basic_size(h) = BASIC_PAYLOAD_16BIT_CODE -> SizeBytes16
      [] get_basic_size(h) = BASIC_PAYLOAD_64BIT_CODE -> SizeBytes64
      [] OTHER -> 0

get_header_len(h) == 2 + SizeBytes(h) + (IF get_masked(h) THEN MaskBytes ELSE 0)

\* What validate_basic_header accepts.
ValidBasicHeader(h) ==
    /\ is_control(get_opcode(h)) =>
            get_basic_size(h) <= PAYLOAD_SIZE_BASIC /\ get_fin(h)
    /\ ~get_rsv(h)
    /\ ~reservedOpcode(get_opcode(h))

\* The size a complete header announces.
PayloadSize(h) ==
    IF SizeBytes(h) = 0 THEN get_basic_size(h)
    ELSE FromBytes(SubSeq(h, 3, 2 + SizeBytes(h)))

\* "invalid get_basic_size": neither a size nor one of the two codes, which a
\* field of seven bits cannot be with the sizes of the code.
NoSize(h) == get_basic_size(h) > BASIC_PAYLOAD_64BIT_CODE

\* The size could have been written in a shorter form.
NotMinimal(h) ==
    \/ /\ get_basic_size(h) = BASIC_PAYLOAD_16BIT_CODE
       /\ PayloadSize(h) < BASIC_PAYLOAD_16BIT_CODE
    \/ /\ get_basic_size(h) = BASIC_PAYLOAD_64BIT_CODE
       /\ PayloadSize(h) <= PAYLOAD_SIZE_EXTENDED

-----------------------------------------------------------------------------
(* The parser *)

ParserStates == {"BASIC_HEADER", "EXTENDED_HEADER", "PAYLOAD", "READY", "RECOVERY"}

Parser ==
    [m_state : ParserStates, m_bytes_needed : 0..max_payload_size,
     m_degraded : BOOLEAN, m_header : Seq(Byte), m_payload : Seq(Byte)]

\* After the constructor and after reset.  m_payload holds the bytes read so
\* far; m_bytes_needed of it are missing.
NewParser ==
    [m_state |-> "BASIC_HEADER", m_bytes_needed |-> 2, m_degraded |-> FALSE,
     m_header |-> <<>>, m_payload |-> <<>>]

ready(p) == p.m_state = "READY"

\* Outcomes of consume: the parser, the unread bytes, and what was thrown.
Returned(p, rest) == [p |-> p, rest |-> rest, exc |-> "none"]
Threw(p, rest, exc) == [p |-> p, rest |-> rest, exc |-> exc]

\* The payload of a masked frame is unmasked in place.
process_payload(p) ==
    LET key == SubSeq(p.m_header, Len(p.m_header) - MaskBytes + 1, Len(p.m_header))
    IN  IF ~get_masked(p.m_header) THEN p
        ELSE [p EXCEPT !.m_payload =
                [i \in DOMAIN @ |-> XorByte(@[i], key[1 + ((i - 1) % MaskBytes)])]]

Ready(p) == process_payload([p EXCEPT !.m_state = "READY"])

\* Mutant: the size is not compared with the limit.
process_extended_header_NoLimit(p, rest) ==
    LET size == PayloadSize(p.m_header)
        q == [p EXCEPT !.m_bytes_needed = size]
    IN  IF NoSize(p.m_header) \/ NotMinimal(p.m_header) THEN Threw(p, rest, "wserror")
        ELSE Returned(IF size = 0 THEN Ready(q)
                      ELSE [q EXCEPT !.m_state = "PAYLOAD"], rest)

\* process_extended_header and what follows it: the size is checked, and the
\* frame is ready or its payload is read next.  The size over the limit is
\* thrown as a string, which is not a std::exception: consume does not catch it
\* and leaves the parser as it is.
process_extended_header(p, rest) ==
    LET size == PayloadSize(p.m_header)
        q == [p EXCEPT !.m_bytes_needed = size]
    IN  CASE NoSize(p.m_header) -> Threw(p, rest, "wserror")
          [] ~NoSize(p.m_header) /\ NotMinimal(p.m_header) -> Threw(q, rest, "wserror")
          [] ~NoSize(p.m_header) /\ ~NotMinimal(p.m_header) /\ size > max_payload_size ->
                Threw(p, rest, "string")
          [] OTHER -> Returned(IF size = 0 THEN Ready(q)
                               ELSE [q EXCEPT !.m_state = "PAYLOAD"], rest)

\* The basic header is complete: process_basic_header, validate_basic_header,
\* and on to the extended header, if there is one.
process_basic_header(p, rest) ==
    LET q == [p EXCEPT !.m_bytes_needed = get_header_len(p.m_header) - 2]
    IN  CASE ~ValidBasicHeader(p.m_header) -> Threw(q, rest, "wserror")
          [] ValidBasicHeader(p.m_header) /\ q.m_bytes_needed > 0 ->
                Returned([q EXCEPT !.m_state = "EXTENDED_HEADER"], rest)
          [] OTHER -> process_extended_header(q, rest)

\* The states in which consume reads: as many bytes as are needed and there.
ReadHeader(p, s) ==
    LET n == Min({p.m_bytes_needed, Len(s)})
        q == [p EXCEPT !.m_header = @ \o SubSeq(s, 1, n), !.m_bytes_needed = @ - n]
        rest == SubSeq(s, n + 1, Len(s))
    IN  CASE q.m_bytes_needed > 0 -> Returned(q, rest)
          [] q.m_bytes_needed = 0 /\ q.m_state = "BASIC_HEADER" ->
                process_basic_header(q, rest)
          [] OTHER -> process_extended_header(q, rest)

\* Mutant: a payload that arrives in pieces keeps only its last piece.
ReadPayload_LastPiece(p, s) ==
    LET n == Min({p.m_bytes_needed, Len(s)})
        q == [p EXCEPT !.m_payload = SubSeq(s, 1, n), !.m_bytes_needed = @ - n]
    IN  Returned(IF q.m_bytes_needed = 0 THEN Ready(q) ELSE q,
                 SubSeq(s, n + 1, Len(s)))

ReadPayload(p, s) ==
    LET n == Min({p.m_bytes_needed, Len(s)})
        q == [p EXCEPT !.m_payload = @ \o SubSeq(s, 1, n), !.m_bytes_needed = @ - n]
    IN  Returned(IF q.m_bytes_needed = 0 THEN Ready(q) ELSE q,
                 SubSeq(s, n + 1, Len(s)))

\* Mutant: the bytes that are not the begin of a close frame are not taken.
Recover_Peeks(p, s) ==
    LET first == SelectInSeq(s, LAMBDA b : b = 136)
    IN  IF first = 0 THEN Returned(p, s)
        ELSE Returned([p EXCEPT !.m_state = "BASIC_HEADER", !.m_header = <<136>>,
                                !.m_bytes_needed = @ - 1],
                      SubSeq(s, first + 1, Len(s)))

\* After an error everything up to the first byte of a close frame is dropped.
Recover(p, s) ==
    LET first == SelectInSeq(s, LAMBDA b : b = 136)
    IN  IF first = 0 THEN Returned(p, <<>>)
        ELSE Returned([p EXCEPT !.m_state = "BASIC_HEADER", !.m_header = <<136>>,
                                !.m_bytes_needed = @ - 1],
                      SubSeq(s, first + 1, Len(s)))

\* The switch of consume, in its try block.
consumeState(p, s) ==
    CASE p.m_state \in {"BASIC_HEADER", "EXTENDED_HEADER"} -> ReadHeader(p, s)
      [] p.m_state = "PAYLOAD"  -> ReadPayload(p, s)
      [] p.m_state = "RECOVERY" -> Recover(p, s)
      [] p.m_state = "READY"    -> Returned(p, s)

\* Mutant: a first error leaves the counter of missing bytes as it is.
consume_NoReset(p, s) ==
    LET r == consumeState(p, s)
    IN  IF r.exc # "wserror" \/ p.m_degraded THEN r
        ELSE Threw([r.p EXCEPT !.m_state = "RECOVERY", !.m_degraded = TRUE],
                   r.rest, "exception")

\* consume.  A first error puts the parser into recovery, and "throw e" throws
\* a copy of its std::exception part; a second one is thrown as a wserror.
consume(p, s) ==
    LET r == consumeState(p, s)
    IN  CASE r.exc # "wserror" -> r
          [] r.exc = "wserror" /\ p.m_degraded -> r
          [] r.exc = "wserror" /\ ~p.m_degraded ->
                Threw([NewParser EXCEPT !.m_state = "RECOVERY", !.m_degraded = TRUE],
                      r.rest, "exception")

\* get_close_code; a payload of one byte makes it throw.
NoCode == -1
get_close_code(p) ==
    CASE Len(p.m_payload) = 0 -> NO_STATUS
      [] Len(p.m_payload) = 1 -> NoCode
      [] OTHER -> FromBytes(SubSeq(p.m_payload, 1, 2))

get_close_reason(p) == SubSeq(p.m_payload, 3, Len(p.m_payload))

-----------------------------------------------------------------------------
(* The frames the server sends: final and not masked *)

\* The size in the shortest form, as set_payload_helper writes it.
SizeField(n) ==
    CASE n <= PAYLOAD_SIZE_BASIC -> <<n>>
      [] n > PAYLOAD_SIZE_BASIC /\ n <= PAYLOAD_SIZE_EXTENDED ->
            <<BASIC_PAYLOAD_16BIT_CODE>> \o ToBytes(n, SizeBytes16)
      [] OTHER -> <<BASIC_PAYLOAD_64BIT_CODE>> \o ToBytes(n, SizeBytes64)

\* set_payload_helper throws for a payload that is too long.
TooBig(payload) == Len(payload) > max_payload_size

\* set_opcode, set_fin, set_masked, set_payload; get_header_str, get_payload_str.
Frame(op, payload) == <<128 + op>> \o SizeField(Len(payload)) \o payload
=============================================================================
