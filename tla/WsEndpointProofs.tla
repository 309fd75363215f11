-------------------------- MODULE WsEndpointProofs --------------------------
(***************************************************************************)
(* The frame parser of the samples never loses count of the bytes it needs *)
(* and never hands over a frame that is shorter or longer than announced,  *)
(* for any client, any cut of its bytes and any sizes of the fields.  The  *)
(* endpoint's loop takes a byte in every turn, and a session ends once.    *)
(***************************************************************************)
EXTENDS WsEndpoint, SequenceTheorems, WellFoundedInduction, TLAPS

-----------------------------------------------------------------------------
(* Least elements, numbers and bits *)

\* A set of natural numbers that is not empty has a least element.
LEMMA LeastNat ==
    ASSUME NEW S \in SUBSET Nat, S # {}
    PROVE  \E x \in S : \A y \in S : x <= y
  <1>1. OpToRel(<, Nat) = {q \in Nat \X Nat : q[1] < q[2]}
    BY Zenon DEF OpToRel
  <1>2. PICK R : IsWellFoundedOn(R, Nat) /\ R = {q \in Nat \X Nat : q[1] < q[2]}
    BY <1>1, NatLessThanWellFounded, Zenon
  <1>3. PICK x \in S : \A y \in S : ~(<<y, x>> \in R)
    BY <1>2, WFMin
  <1>4. \A y \in S : x <= y
    <2> SUFFICES ASSUME NEW y \in S PROVE x <= y
      OBVIOUS
    <2>1. x \in Nat /\ y \in Nat
      OBVIOUS
    <2>2. <<y, x>> \in Nat \X Nat
      BY <2>1
    <2>3. ~(y < x)
      BY <1>2, <1>3, <2>2
    <2> QED BY <2>1, <2>3
  <1> QED BY <1>4

\* A read takes what is needed or what is there.
LEMMA MinOfTwo ==
    ASSUME NEW a \in Nat, NEW b \in Nat
    PROVE  /\ Min({a, b}) \in Nat
           /\ Min({a, b}) <= a /\ Min({a, b}) <= b
           /\ Min({a, b}) = a \/ Min({a, b}) = b
  BY DEF Min

\* The function that FromBytes defines: there is one, and its values are natural
\* numbers.
Values(bytes, n, f) ==
    f = [i \in 0..n |-> IF i = 0 THEN 0 ELSE 256 * f[i - 1] + bytes[i]]

\* There is such a function, or there would be a shortest prefix without one.
LEMMA ValuesExist ==
    ASSUME NEW bytes \in Seq(Byte)
    PROVE  \E f : Values(bytes, Len(bytes), f)
  <1> DEFINE Bad == {n \in 0..Len(bytes) : ~\E f : Values(bytes, n, f)}
  <1>0. Len(bytes) \in 0..Len(bytes)
    OBVIOUS
  <1>1. SUFFICES ASSUME Bad # {} PROVE FALSE
    <2>1. Bad = {} => Len(bytes) \notin Bad
      OBVIOUS
    <2> QED BY <1>0, <2>1
  <1>2. PICK n \in Bad : \A m \in Bad : n <= m
    <2>1. Bad \in SUBSET Nat
      OBVIOUS
    <2> HIDE DEF Bad
    <2> QED BY <1>1, <2>1, LeastNat
  <1>3. n \in 0..Len(bytes) /\ ~\E f : Values(bytes, n, f)
    BY <1>2
  <1>4. n # 0
    <2>1. Values(bytes, 0, [i \in 0..0 |-> 0])
      BY DEF Values
    <2> QED BY <1>3, <2>1
  <1>5. n - 1 \in 0..Len(bytes) /\ n - 1 \notin Bad
    BY <1>2, <1>3, <1>4
  <1>6. PICK f : Values(bytes, n - 1, f)
    BY <1>5
  <1> DEFINE g == [i \in 0..n |-> IF i = n THEN 256 * f[n - 1] + bytes[n] ELSE f[i]]
  <1>7. Values(bytes, n, g)
    <2>1. \A i \in 0..n : g[i] = IF i = 0 THEN 0 ELSE 256 * g[i - 1] + bytes[i]
      <3> SUFFICES ASSUME NEW i \in 0..n
                   PROVE  g[i] = IF i = 0 THEN 0 ELSE 256 * g[i - 1] + bytes[i]
        OBVIOUS
      <3>1. CASE i = n
        BY <1>3, <1>4, <3>1
      <3>2. CASE i # n
        <4>1. i \in 0..(n - 1)
          BY <1>3, <3>2
        <4>2. f[i] = IF i = 0 THEN 0 ELSE 256 * f[i - 1] + bytes[i]
          BY <1>6, <4>1 DEF Values
        <4>3. i # 0 => g[i - 1] = f[i - 1]
          BY <1>3, <4>1
        <4> QED BY <3>2, <4>2, <4>3
      <3> QED BY <3>1, <3>2
    <2> QED BY <2>1 DEF Values
  <1> QED BY <1>3, <1>7

\* Numbers in network byte order are natural numbers.
LEMMA FromBytesType ==
    ASSUME NEW bytes \in Seq(Byte)
    PROVE  FromBytes(bytes) \in Nat
  <1> DEFINE value == CHOOSE f : Values(bytes, Len(bytes), f)
  <1>1. Values(bytes, Len(bytes), value)
    BY ValuesExist
  <1>2. FromBytes(bytes) = value[Len(bytes)]
    BY DEF FromBytes, Values
  <1> HIDE DEF value
  <1> DEFINE Bad == {n \in 0..Len(bytes) : value[n] \notin Nat}
  <1>3. SUFFICES ASSUME Bad # {} PROVE FALSE
    BY <1>2
  <1>4. PICK n \in Bad : \A m \in Bad : n <= m
    <2>1. Bad \in SUBSET Nat
      OBVIOUS
    <2> HIDE DEF Bad
    <2> QED BY <1>3, <2>1, LeastNat
  <1>5. value[n] = IF n = 0 THEN 0 ELSE 256 * value[n - 1] + bytes[n]
    BY <1>1 DEF Values
  <1>6. CASE n = 0
    BY <1>5, <1>6
  <1>7. CASE n # 0
    <2>1. n \in 1..Len(bytes) /\ n - 1 \in 0..Len(bytes) /\ n - 1 \notin Bad
      BY <1>4, <1>7
    <2>2. value[n - 1] \in Nat
      BY <2>1
    <2>3. bytes[n] \in Byte
      BY <2>1, ElementOfSeq
    <2>4. \A x \in Nat, y \in Byte : 256 * x + y \in Nat
      BY DEF Byte
    <2>5. value[n] \notin Nat
      BY <1>4
    <2> QED BY <1>5, <1>7, <2>2, <2>3, <2>4, <2>5
  <1> QED BY <1>6, <1>7

\* Unmasking a byte gives a byte.
LEMMA XorType ==
    ASSUME NEW a \in Byte, NEW b \in Byte
    PROVE  XorByte(a, b) \in Byte
  <1>1. \A m \in Nat : XorBit(a, b, m) = 0 \/ XorBit(a, b, m) = m
    BY DEF XorBit
  <1>2. /\ XorBit(a, b, 1) = 0 \/ XorBit(a, b, 1) = 1
        /\ XorBit(a, b, 2) = 0 \/ XorBit(a, b, 2) = 2
        /\ XorBit(a, b, 4) = 0 \/ XorBit(a, b, 4) = 4
        /\ XorBit(a, b, 8) = 0 \/ XorBit(a, b, 8) = 8
        /\ XorBit(a, b, 16) = 0 \/ XorBit(a, b, 16) = 16
        /\ XorBit(a, b, 32) = 0 \/ XorBit(a, b, 32) = 32
        /\ XorBit(a, b, 64) = 0 \/ XorBit(a, b, 64) = 64
        /\ XorBit(a, b, 128) = 0 \/ XorBit(a, b, 128) = 128
    BY <1>1
  <1> QED BY <1>2 DEF XorByte, Byte

-----------------------------------------------------------------------------
(* The header *)

\* Facts about the sizes, one by one.
LEMMA Sizes ==
    /\ PAYLOAD_SIZE_BASIC \in Nat /\ PAYLOAD_SIZE_EXTENDED \in Nat /\ max_payload_size \in Nat
    /\ 2 <= PAYLOAD_SIZE_BASIC /\ PAYLOAD_SIZE_BASIC < 126
    /\ PAYLOAD_SIZE_BASIC < PAYLOAD_SIZE_EXTENDED
    /\ PAYLOAD_SIZE_EXTENDED < max_payload_size
    /\ SizeBytes16 \in Nat /\ SizeBytes64 \in Nat /\ MaskBytes \in Nat
    /\ SizeBytes16 > 0 /\ SizeBytes64 > 0 /\ MaskBytes > 0
    /\ SizeBytes16 + MaskBytes <= max_payload_size
    /\ SizeBytes64 + MaskBytes <= max_payload_size
  BY SizesAssumption

\* The length of a header leaves room for the size and the key.
LEMMA HeaderLength ==
    ASSUME NEW h \in Seq(Byte), Len(h) >= 2
    PROVE  /\ get_basic_size(h) \in 0..127
           /\ SizeBytes(h) \in Nat
           /\ get_header_len(h) \in 2..(2 + max_payload_size)
           /\ get_header_len(h) >= 2 + SizeBytes(h)
           /\ get_masked(h) => get_header_len(h) = 2 + SizeBytes(h) + MaskBytes
  <1>1. h[2] \in Nat
    <2>1. 2 \in 1..Len(h)
      BY LenProperties
    <2>2. h[2] \in Byte
      BY <2>1, ElementOfSeq
    <2>3. Byte \subseteq Nat
      BY DEF Byte
    <2> QED BY <2>2, <2>3
  <1>2. get_basic_size(h) \in 0..127
    <2>1. \A x \in Nat : x % 128 \in 0..127
      OBVIOUS
    <2> QED BY <1>1, <2>1 DEF get_basic_size
  <1>3. SizeBytes(h) \in {0, SizeBytes16, SizeBytes64}
    BY DEF SizeBytes
  <1>4. get_header_len(h) = 2 + SizeBytes(h) + (IF get_masked(h) THEN MaskBytes ELSE 0)
    BY DEF get_header_len
  <1> QED BY <1>2, <1>3, <1>4, Sizes

\* The length of the header is known after two bytes.
LEMMA HeaderGrows ==
    ASSUME NEW h \in Seq(Byte), NEW t \in Seq(Byte), Len(h) >= 2
    PROVE  get_header_len(h \o t) = get_header_len(h)
  <1>1. (h \o t)[2] = h[2]
    BY ConcatProperties
  <1> QED BY <1>1 DEF get_header_len, SizeBytes, get_masked, get_basic_size

\* A complete header announces a size.
LEMMA SizeAnnounced ==
    ASSUME NEW h \in Seq(Byte), Len(h) >= 2, Len(h) = get_header_len(h)
    PROVE  PayloadSize(h) \in Nat
  <1>1. CASE SizeBytes(h) = 0
    <2>1. get_basic_size(h) \in 0..127
      BY HeaderLength
    <2>2. PayloadSize(h) = get_basic_size(h)
      BY <1>1 DEF PayloadSize
    <2>3. 0..127 \subseteq Nat
      OBVIOUS
    <2> QED BY <2>1, <2>2, <2>3
  <1>2. CASE SizeBytes(h) # 0
    <2>1. \A i \in 3..(2 + SizeBytes(h)) : h[i] \in Byte
      BY HeaderLength, ElementOfSeq
    <2>2. SubSeq(h, 3, 2 + SizeBytes(h)) \in Seq(Byte)
      BY <2>1, HeaderLength, SubSeqProperties
    <2> QED BY <1>2, <2>2, FromBytesType DEF PayloadSize
  <1> QED BY <1>1, <1>2

\* A size that is not minimal is not over the limit.
LEMMA NotMinimalSize ==
    ASSUME NEW h \in Seq(Byte), Len(h) >= 2, Len(h) = get_header_len(h), NotMinimal(h)
    PROVE  PayloadSize(h) \in 0..max_payload_size
  BY SizeAnnounced, Sizes DEF NotMinimal, BASIC_PAYLOAD_16BIT_CODE

-----------------------------------------------------------------------------
(* The parser *)

\* What the parser has read fits what it still needs: in a header, the length of
\* the header; in a payload, the size the header announced.
HeaderComplete(p) == Len(p.m_header) >= 2 /\ Len(p.m_header) = get_header_len(p.m_header)

ParserInv(p) ==
    /\ p.m_state = "BASIC_HEADER" =>
            Len(p.m_header) + p.m_bytes_needed = 2 /\ Len(p.m_payload) = 0
    /\ p.m_state = "EXTENDED_HEADER" =>
            /\ Len(p.m_header) >= 2 /\ Len(p.m_payload) = 0
            /\ Len(p.m_header) + p.m_bytes_needed = get_header_len(p.m_header)
    /\ p.m_state = "PAYLOAD" =>
            /\ HeaderComplete(p)
            /\ Len(p.m_payload) + p.m_bytes_needed = PayloadSize(p.m_header)
    /\ p.m_state = "READY" =>
            /\ HeaderComplete(p)
            /\ Len(p.m_payload) = PayloadSize(p.m_header)
    /\ p.m_state = "RECOVERY" => p.m_bytes_needed = 2 /\ Len(p.m_payload) = 0

Good(p) == p \in Parser /\ ParserInv(p)

\* An outcome of consume, or of its switch.
Outcome(r) ==
    /\ r.p \in Parser /\ r.rest \in Seq(Byte)
    /\ r.exc \in {"none", "wserror", "exception", "string"}
    /\ r.exc # "wserror" => Good(r.p)
    /\ r.exc \in {"none", "exception"} => r.p.m_bytes_needed > 0 \/ ready(r.p)
    /\ r.exc = "string" => Refused(r.p)

\* The types of the parser's members.
LEMMA ParserFields ==
    ASSUME NEW p \in Parser
    PROVE  /\ p.m_state \in ParserStates /\ p.m_bytes_needed \in 0..max_payload_size
           /\ p.m_degraded \in BOOLEAN
           /\ p.m_header \in Seq(Byte) /\ p.m_payload \in Seq(Byte)
           /\ p.m_bytes_needed \in Nat /\ Len(p.m_header) \in Nat /\ Len(p.m_payload) \in Nat
  BY Sizes, LenProperties DEF Parser

\* An assignment to m_state leaves the rest alone.
LEMMA SetState ==
    ASSUME NEW p \in Parser, NEW state \in ParserStates
    PROVE  LET q == [p EXCEPT !.m_state = state] IN
           /\ q \in Parser /\ q.m_state = state
           /\ q.m_bytes_needed = p.m_bytes_needed /\ q.m_degraded = p.m_degraded
           /\ q.m_header = p.m_header /\ q.m_payload = p.m_payload
  BY DEF Parser

\* An assignment to m_bytes_needed leaves the rest alone.
LEMMA SetNeeded ==
    ASSUME NEW p \in Parser, NEW n \in 0..max_payload_size
    PROVE  LET q == [p EXCEPT !.m_bytes_needed = n] IN
           /\ q \in Parser /\ q.m_state = p.m_state
           /\ q.m_bytes_needed = n /\ q.m_degraded = p.m_degraded
           /\ q.m_header = p.m_header /\ q.m_payload = p.m_payload
  BY DEF Parser

\* An assignment to m_payload leaves the rest alone.
LEMMA SetPayload ==
    ASSUME NEW p \in Parser, NEW s \in Seq(Byte)
    PROVE  LET q == [p EXCEPT !.m_payload = s] IN
           /\ q \in Parser /\ q.m_state = p.m_state
           /\ q.m_bytes_needed = p.m_bytes_needed /\ q.m_degraded = p.m_degraded
           /\ q.m_header = p.m_header /\ q.m_payload = s
  BY DEF Parser

\* After reset the parser waits for a basic header.
LEMMA NewParserGood == Good(NewParser) /\ NewParser.m_bytes_needed > 0
  <1>1. <<>> \in Seq(Byte) /\ Len(<<>>) = 0
    BY EmptySeq
  <1>2. NewParser \in Parser
    BY <1>1, Sizes DEF NewParser, Parser, ParserStates
  <1>3. ParserInv(NewParser) /\ NewParser.m_bytes_needed > 0
    BY <1>1 DEF NewParser, ParserInv
  <1> QED BY <1>2, <1>3 DEF Good

\* Unmasking keeps the length of the payload.
LEMMA Unmasked ==
    ASSUME NEW p \in Parser, HeaderComplete(p)
    PROVE  LET q == process_payload(p) IN
           /\ q \in Parser /\ q.m_state = p.m_state
           /\ q.m_header = p.m_header /\ Len(q.m_payload) = Len(p.m_payload)
  <1> DEFINE h == p.m_header
             key == SubSeq(h, Len(h) - MaskBytes + 1, Len(h))
             s == p.m_payload
             t == [i \in DOMAIN s |-> XorByte(s[i], key[1 + ((i - 1) % MaskBytes)])]
  <1>1. CASE ~get_masked(h)
    BY <1>1 DEF process_payload
  <1>2. CASE get_masked(h)
    <2>1. Len(h) - MaskBytes >= 0 /\ Len(h) \in Nat
      BY <1>2, HeaderLength, ParserFields, Sizes DEF HeaderComplete
    <2>2. \A i \in (Len(h) - MaskBytes + 1)..Len(h) : h[i] \in Byte
      BY <2>1, ParserFields, ElementOfSeq, Sizes
    <2>3. key \in Seq(Byte) /\ Len(key) = MaskBytes
      BY <2>1, <2>2, Sizes, SubSeqProperties
    <2>4. \A i \in 1..Len(s) : s[i] \in Byte /\ 1 + ((i - 1) % MaskBytes) \in 1..MaskBytes
      <3> SUFFICES ASSUME NEW i \in 1..Len(s)
                   PROVE  s[i] \in Byte /\ 1 + ((i - 1) % MaskBytes) \in 1..MaskBytes
        OBVIOUS
      <3>1. s[i] \in Byte
        BY ParserFields, ElementOfSeq
      <3>2. i - 1 \in Nat
        BY ParserFields
      <3>3. \A k \in Nat, m \in Nat \ {0} : k % m \in 0..(m - 1)
        OBVIOUS
      <3>4. MaskBytes \in Nat \ {0}
        BY Sizes
      <3> HIDE DEF s
      <3>5. (i - 1) % MaskBytes \in 0..(MaskBytes - 1)
        BY <3>2, <3>3, <3>4
      <3> QED BY <3>1, <3>4, <3>5
    <2>5. DOMAIN s = 1..Len(s) /\ Len(s) \in Nat
      BY ParserFields, LenProperties
    <2>6. \A i \in 1..Len(s) : t[i] \in Byte
      BY <2>3, <2>4, <2>5, ElementOfSeq, XorType
    <2>7. t \in Seq(Byte) /\ Len(t) = Len(s)
      <3>1. t \in [1..Len(s) -> Byte]
        BY <2>5, <2>6
      <3> HIDE DEF t
      <3>2. t \in Seq(Byte) /\ DOMAIN t = 1..Len(s)
        BY <2>5, <3>1, SeqDef
      <3> QED BY <2>5, <3>2, LenProperties
    <2>8. process_payload(p) = [p EXCEPT !.m_payload = t]
      BY <1>2 DEF process_payload
    <2> HIDE DEF t
    <2> QED BY <2>7, <2>8, SetPayload
  <1> QED BY <1>1, <1>2

\* With the whole payload there the frame is ready.
LEMMA ReadyGood ==
    ASSUME NEW p \in Parser, HeaderComplete(p), Len(p.m_payload) = PayloadSize(p.m_header)
    PROVE  Good(Ready(p)) /\ ready(Ready(p))
  <1> DEFINE q == [p EXCEPT !.m_state = "READY"]
  <1>1. /\ q \in Parser /\ q.m_state = "READY"
        /\ q.m_header = p.m_header /\ q.m_payload = p.m_payload
    BY SetState DEF ParserStates
  <1>2. Ready(p) = process_payload(q)
    BY DEF Ready
  <1> HIDE DEF q
  <1>3. HeaderComplete(q)
    BY <1>1 DEF HeaderComplete
  <1>4. /\ Ready(p) \in Parser /\ Ready(p).m_state = "READY"
        /\ Ready(p).m_header = p.m_header
        /\ Len(Ready(p).m_payload) = Len(p.m_payload)
    BY <1>1, <1>2, <1>3, Unmasked
  <1> QED BY <1>4 DEF Good, ParserInv, HeaderComplete, ready

\* The header is complete.
LEMMA ExtendedOutcome ==
    ASSUME NEW p \in Parser, NEW rest \in Seq(Byte), HeaderComplete(p),
           Len(p.m_payload) = 0, p.m_bytes_needed = 0,
           (p.m_state = "BASIC_HEADER" /\ Len(p.m_header) = 2) \/ p.m_state = "EXTENDED_HEADER"
    PROVE  Outcome(process_extended_header(p, rest))
  <1> DEFINE size == PayloadSize(p.m_header)
             q == [p EXCEPT !.m_bytes_needed = size]
             r == process_extended_header(p, rest)
  <1>0. size \in Nat /\ max_payload_size \in Nat
    BY SizeAnnounced, ParserFields, Sizes DEF HeaderComplete
  <1>4. CASE NoSize(p.m_header)
    <2>1. r = Threw(p, rest, "wserror")
      BY <1>4 DEF process_extended_header
    <2> HIDE DEF r
    <2> QED BY <2>1 DEF Threw, Outcome, r
  <1>1. CASE ~NoSize(p.m_header) /\ NotMinimal(p.m_header)
    <2>1. size \in 0..max_payload_size
      BY <1>1, NotMinimalSize, ParserFields DEF HeaderComplete
    <2>2. q \in Parser
      BY <2>1, SetNeeded
    <2>3. r = Threw(q, rest, "wserror")
      BY <1>1 DEF process_extended_header
    <2> HIDE DEF q, r
    <2> QED BY <2>2, <2>3 DEF Threw, Outcome, r
  <1>2. CASE ~NoSize(p.m_header) /\ ~NotMinimal(p.m_header) /\ size > max_payload_size
    <2>1. r = Threw(p, rest, "string")
      BY <1>2 DEF process_extended_header
    <2>2. Good(p)
      BY ParserFields DEF Good, ParserInv, HeaderComplete
    <2>3. p.m_header \in Seq(Byte) /\ Len(p.m_header) >= 2
      BY ParserFields DEF HeaderComplete
    <2>4. p.m_state = "EXTENDED_HEADER"
      <3>1. SUFFICES ASSUME Len(p.m_header) = 2 PROVE FALSE
        OBVIOUS
      <3>2. get_header_len(p.m_header) = 2
        BY <3>1 DEF HeaderComplete
      <3>3. SizeBytes(p.m_header) = 0
        BY <2>3, <3>2, HeaderLength
      <3>4. /\ get_basic_size(p.m_header) \in 0..127
            /\ get_basic_size(p.m_header) # PAYLOAD_SIZE_BASIC + 1
            /\ get_basic_size(p.m_header) # PAYLOAD_SIZE_BASIC + 2
        <4>1. get_basic_size(p.m_header) \in 0..127
          BY <2>3, HeaderLength
        <4>2. SizeBytes16 # 0 /\ SizeBytes64 # 0
          BY Sizes
        <4>3. /\ get_basic_size(p.m_header) # BASIC_PAYLOAD_16BIT_CODE
              /\ get_basic_size(p.m_header) # BASIC_PAYLOAD_64BIT_CODE
          <5>1. BASIC_PAYLOAD_16BIT_CODE # BASIC_PAYLOAD_64BIT_CODE
            BY Sizes DEF BASIC_PAYLOAD_16BIT_CODE, BASIC_PAYLOAD_64BIT_CODE
          <5> QED BY <3>3, <4>2, <5>1 DEF SizeBytes
        <4> QED BY <4>1, <4>3 DEF BASIC_PAYLOAD_16BIT_CODE, BASIC_PAYLOAD_64BIT_CODE
      <3>5. size = get_basic_size(p.m_header)
        BY <3>3 DEF PayloadSize
      <3>6. ~(get_basic_size(p.m_header) > PAYLOAD_SIZE_BASIC + 2)
        BY <1>2 DEF NoSize, BASIC_PAYLOAD_64BIT_CODE
      <3> DEFINE b == get_basic_size(p.m_header)
      <3>7. b > max_payload_size
        BY <1>2, <3>5
      <3>8. b \in 0..127 /\ b # PAYLOAD_SIZE_BASIC + 1 /\ b # PAYLOAD_SIZE_BASIC + 2
              /\ ~(b > PAYLOAD_SIZE_BASIC + 2)
        BY <3>4, <3>6
      <3> HIDE DEF b
      <3> QED BY <3>7, <3>8, Sizes
    <2>5. Refused(p)
      BY <1>2, <2>4 DEF Refused, HeaderComplete
    <2> QED BY <2>1, <2>2, <2>5 DEF Threw, Outcome
  <1>3. CASE ~NoSize(p.m_header) /\ ~NotMinimal(p.m_header) /\ ~(size > max_payload_size)
    <2>1. size \in 0..max_payload_size
      BY <1>0, <1>3
    <2>2. /\ q \in Parser /\ q.m_bytes_needed = size
          /\ q.m_header = p.m_header /\ q.m_payload = p.m_payload
      BY <2>1, SetNeeded
    <2>3. r = Returned(IF size = 0 THEN Ready(q) ELSE [q EXCEPT !.m_state = "PAYLOAD"], rest)
      BY <1>3 DEF process_extended_header
    <2> HIDE DEF q, r
    <2>4. HeaderComplete(q)
      BY <2>2 DEF HeaderComplete
    <2>5. CASE size = 0
      <3>1. Good(Ready(q)) /\ ready(Ready(q))
        BY <2>2, <2>4, <2>5, ReadyGood
      <3> QED BY <2>3, <2>5, <3>1 DEF Returned, Outcome, Good, r
    <2>6. CASE size # 0
      <3> DEFINE u == [q EXCEPT !.m_state = "PAYLOAD"]
      <3>1. /\ u \in Parser /\ u.m_state = "PAYLOAD" /\ u.m_bytes_needed = size
            /\ u.m_header = p.m_header /\ u.m_payload = p.m_payload
        BY <2>2, SetState DEF ParserStates
      <3> HIDE DEF u
      <3>2. Good(u)
        BY <1>0, <3>1, ParserFields DEF Good, ParserInv, HeaderComplete
      <3>3. u.m_bytes_needed > 0
        BY <1>0, <2>6, <3>1
      <3>4. r = Returned(u, rest)
        BY <2>3, <2>6 DEF u
      <3> QED BY <3>1, <3>2, <3>3, <3>4 DEF Returned, Outcome, r
    <2> QED BY <2>5, <2>6
  <1> QED BY <1>1, <1>2, <1>3, <1>4

\* The basic header is complete: it is refused, or the rest of the header
\* comes next, or the payload.
LEMMA BasicOutcome ==
    ASSUME NEW p \in Parser, NEW rest \in Seq(Byte), p.m_state = "BASIC_HEADER",
           Len(p.m_header) = 2, Len(p.m_payload) = 0
    PROVE  Outcome(process_basic_header(p, rest))
  <1>0. p.m_header \in Seq(Byte) /\ Len(p.m_header) >= 2
    BY ParserFields
  <1>1. PICK n \in 0..max_payload_size :
            get_header_len(p.m_header) = 2 + n /\ get_header_len(p.m_header) - 2 = n
    <2>1. get_header_len(p.m_header) \in 2..(2 + max_payload_size)
      BY <1>0, HeaderLength
    <2>2. get_header_len(p.m_header) - 2 \in 0..max_payload_size
      BY <2>1, Sizes
    <2> QED BY <2>1, <2>2, Sizes
  <1> DEFINE q == [p EXCEPT !.m_bytes_needed = get_header_len(p.m_header) - 2]
             r == process_basic_header(p, rest)
  <1>2. /\ q \in Parser /\ q.m_bytes_needed = n /\ q.m_state = "BASIC_HEADER"
        /\ q.m_header = p.m_header /\ q.m_payload = p.m_payload
    BY <1>1, SetNeeded
  <1>3. CASE ~ValidBasicHeader(p.m_header)
    <2>1. r = Threw(q, rest, "wserror")
      BY <1>3 DEF process_basic_header
    <2> HIDE DEF q, r
    <2> QED BY <1>2, <2>1 DEF Threw, Outcome, r
  <1>4. CASE ValidBasicHeader(p.m_header) /\ q.m_bytes_needed > 0
    <2> DEFINE u == [q EXCEPT !.m_state = "EXTENDED_HEADER"]
    <2>1. r = Returned(u, rest)
      BY <1>4 DEF process_basic_header
    <2> HIDE DEF q, r
    <2>2. /\ u \in Parser /\ u.m_bytes_needed = n /\ u.m_state = "EXTENDED_HEADER"
          /\ u.m_header = p.m_header /\ u.m_payload = p.m_payload
      BY <1>2, SetState DEF ParserStates
    <2> HIDE DEF u
    <2>3. Good(u)
      BY <1>0, <1>1, <2>2 DEF Good, ParserInv
    <2> QED BY <1>2, <1>4, <2>1, <2>2, <2>3 DEF Returned, Outcome, r
  <1>5. CASE ValidBasicHeader(p.m_header) /\ ~(q.m_bytes_needed > 0)
    <2>1. r = process_extended_header(q, rest)
      BY <1>5 DEF process_basic_header
    <2> HIDE DEF q, r
    <2>2. n = 0
      BY <1>2, <1>5, Sizes
    <2>3. HeaderComplete(q)
      <3>1. get_header_len(p.m_header) = 2
        BY <1>1, <2>2
      <3> QED BY <1>0, <1>2, <3>1 DEF HeaderComplete
    <2>4. Outcome(process_extended_header(q, rest))
      BY <1>2, <2>2, <2>3, ExtendedOutcome
    <2> QED BY <2>1, <2>4 DEF r
  <1> QED BY <1>3, <1>4, <1>5

\* What a read takes and what it leaves.
LEMMA Cut ==
    ASSUME NEW s \in Seq(Byte), NEW n \in Nat, n <= Len(s)
    PROVE  /\ SubSeq(s, 1, n) \in Seq(Byte) /\ Len(SubSeq(s, 1, n)) = n
           /\ SubSeq(s, n + 1, Len(s)) \in Seq(Byte)
  <1>1. Len(s) \in Nat /\ \A i \in 1..Len(s) : s[i] \in Byte
    BY LenProperties, ElementOfSeq
  <1>2. \A i \in 1..n : s[i] \in Byte
    BY <1>1
  <1>3. \A i \in (n + 1)..Len(s) : s[i] \in Byte
    BY <1>1
  <1>4. SubSeq(s, 1, n) \in Seq(Byte)
    BY <1>2, SubSeqProperties
  <1>5. Len(SubSeq(s, 1, n)) = IF 1 <= n THEN n - 1 + 1 ELSE 0
    BY <1>2, SubSeqProperties
  <1>6. SubSeq(s, n + 1, Len(s)) \in Seq(Byte)
    BY <1>1, <1>3, SubSeqProperties
  <1> QED BY <1>4, <1>5, <1>6

\* consume in a header, ...
LEMMA HeaderOutcome ==
    ASSUME NEW p, Good(p), NEW s \in Seq(Byte),
           p.m_state \in {"BASIC_HEADER", "EXTENDED_HEADER"}
    PROVE  Outcome(ReadHeader(p, s))
  <1> DEFINE n == Min({p.m_bytes_needed, Len(s)})
             part == SubSeq(s, 1, n)
             rest == SubSeq(s, n + 1, Len(s))
             q == [p EXCEPT !.m_header = @ \o part, !.m_bytes_needed = @ - n]
             r == ReadHeader(p, s)
  <1>1. /\ p \in Parser /\ p.m_bytes_needed \in 0..max_payload_size /\ p.m_bytes_needed \in Nat
        /\ p.m_header \in Seq(Byte) /\ Len(p.m_header) \in Nat
    BY ParserFields DEF Good
  <1>2. n \in Nat /\ n <= p.m_bytes_needed /\ n <= Len(s)
    BY <1>1, LenProperties, MinOfTwo
  <1>3. part \in Seq(Byte) /\ Len(part) = n /\ rest \in Seq(Byte)
    <2> HIDE DEF n
    <2> QED BY <1>2, Cut
  <1>4. r = CASE q.m_bytes_needed > 0 -> Returned(q, rest)
              [] q.m_bytes_needed = 0 /\ q.m_state = "BASIC_HEADER" ->
                    process_basic_header(q, rest)
              [] OTHER -> process_extended_header(q, rest)
    BY DEF ReadHeader
  <1> HIDE DEF n, part, rest, r
  <1>5. p.m_header \o part \in Seq(Byte) /\ Len(p.m_header \o part) = Len(p.m_header) + n
    BY <1>1, <1>3, ConcatProperties
  <1>6. p.m_bytes_needed - n \in 0..max_payload_size /\ p.m_bytes_needed - n \in Nat
    BY <1>1, <1>2, Sizes
  <1>7. /\ q \in Parser /\ q.m_state = p.m_state /\ q.m_bytes_needed = p.m_bytes_needed - n
        /\ q.m_header = p.m_header \o part /\ q.m_payload = p.m_payload
    BY <1>1, <1>5, <1>6 DEF Parser
  <1> HIDE DEF q
  <1>8. /\ Len(q.m_header) + q.m_bytes_needed = Len(p.m_header) + p.m_bytes_needed
        /\ Len(q.m_header) >= Len(p.m_header)
        /\ Len(q.m_payload) = 0
    BY <1>1, <1>2, <1>5, <1>7 DEF Good, ParserInv
  <1>9. Good(q)
    <2>1. CASE p.m_state = "BASIC_HEADER"
      BY <1>7, <1>8, <2>1 DEF Good, ParserInv
    <2>2. CASE p.m_state = "EXTENDED_HEADER"
      <3>1. Len(p.m_header) >= 2
        BY <2>2 DEF Good, ParserInv
      <3>2. get_header_len(q.m_header) = get_header_len(p.m_header)
        BY <1>1, <1>3, <1>7, <3>1, HeaderGrows
      <3>3. Len(q.m_header) >= 2
        BY <1>1, <1>2, <1>5, <1>7, <3>1
      <3> QED BY <1>7, <1>8, <2>2, <3>2, <3>3 DEF Good, ParserInv
    <2> QED BY <2>1, <2>2
  <1>10. CASE q.m_bytes_needed > 0
    <2>1. r = Returned(q, rest)
      BY <1>4, <1>10
    <2> QED BY <1>3, <1>7, <1>9, <1>10, <2>1 DEF Returned, Outcome, r
  <1>11. CASE q.m_bytes_needed = 0 /\ q.m_state = "BASIC_HEADER"
    <2>1. r = process_basic_header(q, rest)
      BY <1>4, <1>11
    <2>2. Len(q.m_header) = 2
      BY <1>7, <1>9, <1>11, ParserFields DEF Good, ParserInv
    <2> QED BY <1>3, <1>7, <1>8, <1>11, <2>1, <2>2, BasicOutcome DEF r
  <1>12. CASE q.m_bytes_needed = 0 /\ q.m_state = "EXTENDED_HEADER"
    <2>1. r = process_extended_header(q, rest)
      BY <1>4, <1>12
    <2>2. HeaderComplete(q)
      BY <1>7, <1>9, <1>12, ParserFields DEF Good, ParserInv, HeaderComplete
    <2> QED BY <1>3, <1>7, <1>8, <1>12, <2>1, <2>2, ExtendedOutcome DEF r
  <1> QED BY <1>6, <1>7, <1>10, <1>11, <1>12

\* ... in a payload, ...
LEMMA PayloadOutcome ==
    ASSUME NEW p, Good(p), NEW s \in Seq(Byte), p.m_state = "PAYLOAD"
    PROVE  Outcome(ReadPayload(p, s))
  <1> DEFINE n == Min({p.m_bytes_needed, Len(s)})
             part == SubSeq(s, 1, n)
             rest == SubSeq(s, n + 1, Len(s))
             q == [p EXCEPT !.m_payload = @ \o part, !.m_bytes_needed = @ - n]
             r == ReadPayload(p, s)
  <1>1. /\ p \in Parser /\ p.m_bytes_needed \in 0..max_payload_size /\ p.m_bytes_needed \in Nat
        /\ p.m_payload \in Seq(Byte) /\ Len(p.m_payload) \in Nat
    BY ParserFields DEF Good
  <1>2. n \in Nat /\ n <= p.m_bytes_needed /\ n <= Len(s)
    BY <1>1, LenProperties, MinOfTwo
  <1>3. part \in Seq(Byte) /\ Len(part) = n /\ rest \in Seq(Byte)
    <2> HIDE DEF n
    <2> QED BY <1>2, Cut
  <1>4. r = Returned(IF q.m_bytes_needed = 0 THEN Ready(q) ELSE q, rest)
    BY DEF ReadPayload
  <1> HIDE DEF n, part, rest, r
  <1>5. p.m_payload \o part \in Seq(Byte) /\ Len(p.m_payload \o part) = Len(p.m_payload) + n
    BY <1>1, <1>3, ConcatProperties
  <1>6. p.m_bytes_needed - n \in 0..max_payload_size /\ p.m_bytes_needed - n \in Nat
    BY <1>1, <1>2, Sizes
  <1>7. /\ q \in Parser /\ q.m_state = p.m_state /\ q.m_bytes_needed = p.m_bytes_needed - n
        /\ q.m_header = p.m_header /\ q.m_payload = p.m_payload \o part
    BY <1>1, <1>5, <1>6 DEF Parser
  <1> HIDE DEF q
  <1>8. /\ Len(q.m_payload) + q.m_bytes_needed = Len(p.m_payload) + p.m_bytes_needed
        /\ HeaderComplete(q)
        /\ Len(q.m_payload) + q.m_bytes_needed = PayloadSize(q.m_header)
    BY <1>1, <1>2, <1>5, <1>7 DEF Good, ParserInv, HeaderComplete
  <1>9. CASE q.m_bytes_needed = 0
    <2>1. Len(q.m_payload) = PayloadSize(q.m_header)
      BY <1>7, <1>8, <1>9, ParserFields
    <2>2. Good(Ready(q)) /\ ready(Ready(q))
      BY <1>7, <1>8, <2>1, ReadyGood
    <2>3. r = Returned(Ready(q), rest)
      BY <1>4, <1>9
    <2> QED BY <1>3, <2>2, <2>3 DEF Returned, Outcome, Good, r
  <1>10. CASE q.m_bytes_needed # 0
    <2>1. Good(q)
      BY <1>7, <1>8 DEF Good, ParserInv
    <2>2. r = Returned(q, rest)
      BY <1>4, <1>10
    <2>3. q.m_bytes_needed > 0
      BY <1>6, <1>7, <1>10
    <2> QED BY <1>3, <1>7, <2>1, <2>2, <2>3 DEF Returned, Outcome, r
  <1> QED BY <1>9, <1>10

\* ... and after an error.
LEMMA RecoverOutcome ==
    ASSUME NEW p, Good(p), NEW s \in Seq(Byte), p.m_state = "RECOVERY"
    PROVE  Outcome(Recover(p, s))
  <1> DEFINE first == SelectInSeq(s, LAMBDA b : b = 136)
             q == [p EXCEPT !.m_state = "BASIC_HEADER", !.m_header = <<136>>,
                            !.m_bytes_needed = @ - 1]
             r == Recover(p, s)
  <1>1. p \in Parser /\ p.m_bytes_needed = 2 /\ Len(p.m_payload) = 0
    BY DEF Good, ParserInv
  <1>2. first \in 0..Len(s)
    <2> DEFINE I == {i \in 1..Len(s) : s[i] = 136}
    <2>1. I \in SUBSET Nat /\ Len(s) \in Nat
      BY LenProperties
    <2>2. first = IF I # {} THEN Min(I) ELSE 0
      BY DEF SelectInSeq
    <2>3. I # {} => Min(I) \in I
      <3> HIDE DEF I
      <3> QED BY <2>1, LeastNat DEF Min
    <2> QED BY <2>1, <2>2, <2>3
  <1>3. r = IF first = 0 THEN Returned(p, <<>>)
            ELSE Returned(q, SubSeq(s, first + 1, Len(s)))
    BY DEF Recover
  <1> HIDE DEF first, r
  <1>4. CASE first = 0
    <2>1. r = Returned(p, <<>>) /\ <<>> \in Seq(Byte)
      BY <1>3, <1>4, EmptySeq
    <2> QED BY <1>1, <2>1 DEF Returned, Outcome, r
  <1>5. CASE first # 0
    <2>1. r = Returned(q, SubSeq(s, first + 1, Len(s)))
      BY <1>3, <1>5
    <2>2. SubSeq(s, first + 1, Len(s)) \in Seq(Byte)
      BY <1>2, Cut, LenProperties
    <2>3. <<136>> \in Seq(Byte) /\ Len(<<136>>) = 1
      BY DEF Byte
    <2>4. /\ q \in Parser /\ q.m_state = "BASIC_HEADER" /\ q.m_bytes_needed = 1
          /\ q.m_header = <<136>> /\ q.m_payload = p.m_payload
      <3>1. p.m_bytes_needed - 1 = 1 /\ 1 \in 0..max_payload_size
        BY <1>1, Sizes
      <3> QED BY <1>1, <2>3, <3>1 DEF Parser, ParserStates
    <2> HIDE DEF q
    <2>5. Good(q)
      BY <1>1, <2>3, <2>4 DEF Good, ParserInv
    <2> QED BY <2>1, <2>2, <2>4, <2>5 DEF Returned, Outcome, r
  <1> QED BY <1>4, <1>5

\* One pass through the switch of consume.
LEMMA StateOutcome ==
    ASSUME NEW p, Good(p), NEW s \in Seq(Byte)
    PROVE  Outcome(consumeState(p, s))
  <1>1. p.m_state \in ParserStates
    BY ParserFields DEF Good
  <1>2. CASE p.m_state \in {"BASIC_HEADER", "EXTENDED_HEADER"}
    BY <1>2, HeaderOutcome DEF consumeState
  <1>3. CASE p.m_state = "PAYLOAD"
    BY <1>3, PayloadOutcome DEF consumeState
  <1>4. CASE p.m_state = "RECOVERY"
    BY <1>4, RecoverOutcome DEF consumeState
  <1>5. CASE p.m_state = "READY"
    <2>1. consumeState(p, s) = Returned(p, s)
      BY <1>5 DEF consumeState
    <2> QED BY <1>5, <2>1 DEF Returned, Outcome, Good, ready
  <1> QED BY <1>1, <1>2, <1>3, <1>4, <1>5 DEF ParserStates

\* All of consume, with recovery and reset after an exception.
LEMMA ConsumeOutcome ==
    ASSUME NEW p, Good(p), NEW s \in Seq(Byte)
    PROVE  Outcome(consume(p, s))
  <1> DEFINE r == consumeState(p, s)
             q == [NewParser EXCEPT !.m_state = "RECOVERY", !.m_degraded = TRUE]
  <1>1. Outcome(r)
    BY StateOutcome
  <1>2. p.m_degraded \in BOOLEAN
    BY ParserFields DEF Good
  <1>3. CASE r.exc # "wserror" \/ p.m_degraded
    BY <1>1, <1>3 DEF consume
  <1>4. CASE r.exc = "wserror" /\ ~p.m_degraded
    <2>1. consume(p, s) = Threw(q, r.rest, "exception")
      BY <1>4 DEF consume
    <2>2. <<>> \in Seq(Byte) /\ Len(<<>>) = 0
      BY EmptySeq
    <2>3. q \in Parser /\ q.m_state = "RECOVERY" /\ q.m_bytes_needed = 2 /\ q.m_payload = <<>>
      <3>1. NewParser.m_bytes_needed = 2 /\ NewParser.m_payload = <<>>
        BY DEF NewParser
      <3>2. NewParser \in Parser
        BY NewParserGood DEF Good
      <3> QED BY <3>1, <3>2 DEF Parser, ParserStates
    <2> HIDE DEF q
    <2>4. Good(q)
      BY <2>2, <2>3 DEF Good, ParserInv
    <2>5. r.rest \in Seq(Byte)
      BY <1>1 DEF Outcome
    <2> HIDE DEF r
    <2> QED BY <2>1, <2>3, <2>4, <2>5 DEF Threw, Outcome
  <1> QED BY <1>2, <1>3, <1>4

-----------------------------------------------------------------------------
(* The endpoint *)

\* As long as the session is not closed, the parser's account is right.
EndpointInv ==
    /\ TypeOK
    /\ m_state # "CLOSED" => Good(m_parser)
    /\ StuckOnlyBySize

\* A new endpoint waits for a frame.
LEMMA InitEndpoint == Init => EndpointInv
  <1> SUFFICES ASSUME Init PROVE EndpointInv
    OBVIOUS
  <1>1. unread \in Seq(Byte) /\ data \in Seq(Byte)
    BY InputsAssumption, EmptySeq DEF Init
  <1>2. m_parser \in Parser
    BY NewParserGood DEF Init, Good
  <1> QED BY <1>1, <1>2, NewParserGood DEF Init, EndpointInv, TypeOK, StuckOnlyBySize

\* What consume leaves in an iteration of the loop.
LEMMA ConsumedOutcome ==
    ASSUME EndpointInv, Iterating
    PROVE  Outcome(Consumed)
  BY ConsumeOutcome DEF EndpointInv, TypeOK, Iterating, Consumed

\* AddRxData is given bytes.
LEMMA ReadEndpoint ==
    ASSUME EndpointInv, NEW n \in 1..Len(unread), AddRxData(n)
    PROVE  EndpointInv'
  <1>1. unread \in Seq(Byte) /\ Len(unread) \in Nat /\ n \in Nat /\ n <= Len(unread)
    BY LenProperties DEF EndpointInv, TypeOK
  <1>2. data' \in Seq(Byte) /\ unread' \in Seq(Byte)
    BY <1>1, Cut DEF AddRxData
  <1> QED BY <1>2 DEF AddRxData, EndpointInv, TypeOK, StuckOnlyBySize

\* A frame has been handled: the parser begins a new one.
LEMMA FrameDoneEndpoint ==
    ASSUME EndpointInv, Outcome(Consumed), FrameDone(Consumed.rest),
           m_state' \in {"OPEN", "CLOSING", "CLOSED"}
    PROVE  EndpointInv'
  <1>1. data' \in Seq(Byte)
    BY DEF Outcome, FrameDone
  <1>2. Good(m_parser') /\ m_parser' \in Parser /\ m_parser'.m_bytes_needed > 0
    BY NewParserGood DEF FrameDone, Good
  <1> QED BY <1>1, <1>2 DEF FrameDone, EndpointInv, TypeOK, StuckOnlyBySize

\* The loop is left by break.
LEMMA BrokenEndpoint ==
    ASSUME EndpointInv, NEW p \in Parser, LoopBroken(p),
           m_state' \in {"OPEN", "CLOSING", "CLOSED"},
           m_state' = "CLOSED" \/ (Good(p) /\ p.m_bytes_needed > 0)
    PROVE  EndpointInv'
  <1>1. data' \in Seq(Byte)
    BY EmptySeq DEF LoopBroken
  <1> QED BY <1>1 DEF LoopBroken, EndpointInv, TypeOK, StuckOnlyBySize

\* An exception leaves AddRxData.
LEMMA LeavesEndpoint ==
    ASSUME EndpointInv, NEW p, Good(p), NEW what \in {"exception", "string"}, Leaves(p, what),
           p.m_bytes_needed > 0 \/ ready(p) \/ Refused(p)
    PROVE  EndpointInv'
  <1>1. data' \in Seq(Byte) /\ p \in Parser
    BY EmptySeq DEF Leaves, Good
  <1> QED BY <1>1 DEF Leaves, EndpointInv, TypeOK, StuckOnlyBySize, ready

\* One pass through the loop of AddRxData.
LEMMA IterateEndpoint ==
    ASSUME EndpointInv, Iterate
    PROVE  EndpointInv'
  <1>0. Iterating /\ m_state \in {"OPEN", "CLOSING"}
    BY DEF Iterate, PartialFrame, NotCaught, FatalError, process_data, ProcessPing, ProcessPong,
           ProcessClose, ProcessCloseAck, Control, FrameReady, Iterating, EndpointInv, TypeOK
  <1>1. Outcome(Consumed)
    BY <1>0, ConsumedOutcome
  <1> USE <1>0
  <1>2. CASE PartialFrame
    <2>1. /\ Good(m_parser') /\ m_parser' \in Parser /\ data' \in Seq(Byte)
          /\ m_parser'.m_bytes_needed > 0 \/ ready(m_parser')
      BY <1>1, <1>2 DEF PartialFrame, Outcome, Good
    <2> QED BY <1>2, <2>1 DEF PartialFrame, EndpointInv, TypeOK, StuckOnlyBySize, ready
  <1>3. CASE NotCaught
    <2>1. Good(Consumed.p)
      BY <1>1, <1>3 DEF NotCaught, Outcome
    <2>2. Consumed.p.m_bytes_needed > 0 \/ ready(Consumed.p) \/ Refused(Consumed.p)
      BY <1>1, <1>3 DEF NotCaught, Outcome
    <2> QED BY <1>3, <2>1, <2>2, LeavesEndpoint DEF NotCaught
  <1>4. CASE FatalError
    <2>1. Consumed.p \in Parser
      BY <1>1 DEF Outcome
    <2> QED BY <1>4, <2>1, BrokenEndpoint DEF FatalError, shutdown
  <1>5. CASE process_data
    <2>1. CASE TooBig(Answer(Payload))
      <3>1. send_close(MESSAGE_TOO_BIG) /\ LoopBroken(NewParser)
        BY <1>5, <2>1 DEF process_data
      <3>2. m_state' \in {"OPEN", "CLOSING", "CLOSED"}
        BY <3>1 DEF send_close
      <3> QED BY <3>1, <3>2, NewParserGood, BrokenEndpoint DEF Good
    <2>2. CASE ~TooBig(Answer(Payload))
      BY <1>1, <1>5, <2>2, FrameDoneEndpoint DEF process_data
    <2> QED BY <2>1, <2>2
  <1>6. CASE ProcessPing
    BY <1>1, <1>6, FrameDoneEndpoint DEF ProcessPing
  <1>7. CASE ProcessPong
    BY <1>1, <1>7, FrameDoneEndpoint DEF ProcessPong
  <1>8. CASE ProcessClose
    <2> DEFINE code == get_close_code(Consumed.p)
    <2>1. CASE code = NoCode
      <3>1. shutdown(<<>>) /\ LoopBroken(NewParser)
        BY <1>8, <2>1 DEF ProcessClose, NoCode, ABNORMAL_CLOSE
      <3> QED BY <3>1, NewParserGood, BrokenEndpoint DEF Good, shutdown
    <2>2. CASE code = ABNORMAL_CLOSE
      <3>1. Leaves(Consumed.p, "string")
        BY <1>8, <2>2 DEF ProcessClose, NoCode, ABNORMAL_CLOSE
      <3>2. Good(Consumed.p) /\ ready(Consumed.p)
        BY <1>1, <1>8 DEF ProcessClose, Control, FrameReady, Outcome
      <3> QED BY <3>1, <3>2, LeavesEndpoint
    <2>3. CASE code # NoCode /\ code # ABNORMAL_CLOSE
      <3>1. /\ shutdown(<<CloseAck(code, get_close_reason(Consumed.p))>>)
            /\ FrameDone(Consumed.rest)
        BY <1>8, <2>3 DEF ProcessClose
      <3> QED BY <1>1, <3>1, FrameDoneEndpoint DEF shutdown
    <2> QED BY <2>1, <2>2, <2>3
  <1>9. CASE ProcessCloseAck
    BY <1>1, <1>9, FrameDoneEndpoint DEF ProcessCloseAck, shutdown
  <1> QED BY <1>2, <1>3, <1>4, <1>5, <1>6, <1>7, <1>8, <1>9 DEF Iterate

\* Every step preserves EndpointInv.
LEMMA NextEndpoint == EndpointInv /\ [Next]_vars => EndpointInv'
  <1> SUFFICES ASSUME EndpointInv, [Next]_vars PROVE EndpointInv'
    OBVIOUS
  <1>1. CASE Return
    <2>1. data' \in Seq(Byte)
      BY <1>1, EmptySeq DEF Return
    <2> QED BY <1>1, <2>1 DEF Return, EndpointInv, TypeOK, StuckOnlyBySize
  <1>2. CASE UNCHANGED vars
    BY <1>2 DEF vars, EndpointInv, TypeOK, StuckOnlyBySize
  <1> QED BY <1>1, <1>2, ReadEndpoint, IterateEndpoint DEF Next, Finished

\* The account of the frame parser is right in every reachable state of an open
\* session, however the client's bytes are cut into calls of AddRxData.
THEOREM EndpointAlways == Spec => []EndpointInv
  BY InitEndpoint, NextEndpoint, PTL DEF Spec

\* Every reachable state of the endpoint is well typed; in particular the parser
\* never waits for more bytes than max_payload_size (consume, wsframe.h).
THEOREM TypeCorrect == Spec => []TypeOK
  <1>1. EndpointInv => TypeOK
    BY DEF EndpointInv
  <1> QED BY <1>1, EndpointAlways, PTL

\* In a session that is not over the parser waits for bytes, has a frame to hand
\* over or has refused a size over the limit, after any exception and however
\* often it is used again: the invariant stated at wsframe.h:215-219 fails in the
\* last case and in no other.
THEOREM WaitingCorrect == Spec => []StuckOnlyBySize
  <1>1. EndpointInv => StuckOnlyBySize
    BY DEF EndpointInv
  <1> QED BY <1>1, EndpointAlways, PTL

\* A frame that AddRxData hands to the handler has a complete header and exactly
\* as many bytes as the header announces, within the limit, however it arrived
\* (consume and process_payload in wsframe.h; wsendpoint.h:175-183).
FramesWhole ==
    [][\A control \in BOOLEAN : FrameReady(control) =>
        /\ Len(Consumed.p.m_header) = get_header_len(Consumed.p.m_header)
        /\ Len(Payload) = PayloadSize(Consumed.p.m_header)]_vars

\* Frames are handed over whole, for any sizes, limits and cuts.
THEOREM WholeCorrect == Spec => FramesWhole
  <1>1. EndpointInv => \A control \in BOOLEAN : FrameReady(control) =>
            /\ Len(Consumed.p.m_header) = get_header_len(Consumed.p.m_header)
            /\ Len(Payload) = PayloadSize(Consumed.p.m_header)
    <2> SUFFICES ASSUME EndpointInv, NEW control \in BOOLEAN, FrameReady(control)
                 PROVE  /\ Len(Consumed.p.m_header) = get_header_len(Consumed.p.m_header)
                        /\ Len(Payload) = PayloadSize(Consumed.p.m_header)
      OBVIOUS
    <2>1. Outcome(Consumed)
      BY ConsumedOutcome DEF FrameReady
    <2> QED BY <2>1 DEF FrameReady, ready, Outcome, Good, ParserInv, HeaderComplete, Payload
  <1> QED BY <1>1, EndpointAlways, PTL DEF FramesWhole


-----------------------------------------------------------------------------
(* AddRxData makes progress *)

\* What the processing of a header leaves of the stream, and may throw.
Thrown == {"none", "wserror", "string"}

\* A complete header is processed without reading any further.
LEMMA HeaderReadsNothing ==
    ASSUME NEW p, NEW rest
    PROVE  /\ process_extended_header(p, rest).rest = rest
           /\ process_extended_header(p, rest).exc \in Thrown
           /\ process_basic_header(p, rest).rest = rest
           /\ process_basic_header(p, rest).exc \in Thrown
  <1>1. \A q : /\ Returned(q, rest).rest = rest /\ Returned(q, rest).exc \in Thrown
               /\ Threw(q, rest, "wserror").rest = rest /\ Threw(q, rest, "wserror").exc \in Thrown
               /\ Threw(q, rest, "string").rest = rest /\ Threw(q, rest, "string").exc \in Thrown
    BY DEF Returned, Threw, Thrown
  <1>2. \A q : /\ process_extended_header(q, rest).rest = rest
               /\ process_extended_header(q, rest).exc \in Thrown
    <2> SUFFICES ASSUME NEW q
                 PROVE  /\ process_extended_header(q, rest).rest = rest
                        /\ process_extended_header(q, rest).exc \in Thrown
      OBVIOUS
    <2>1. \/ process_extended_header(q, rest) = Threw([q EXCEPT !.m_bytes_needed = PayloadSize(q.m_header)],
                                                      rest, "wserror")
          \/ process_extended_header(q, rest) = Threw(q, rest, "wserror")
          \/ process_extended_header(q, rest) = Threw(q, rest, "string")
          \/ \E x : process_extended_header(q, rest) = Returned(x, rest)
      BY DEF process_extended_header
    <2> QED BY <1>1, <2>1, Zenon
  <1>3. \/ \E x : process_basic_header(p, rest) = Threw(x, rest, "wserror")
        \/ \E x : process_basic_header(p, rest) = Returned(x, rest)
        \/ \E x : process_basic_header(p, rest) = process_extended_header(x, rest)
    BY DEF process_basic_header
  <1> QED BY <1>1, <1>2, <1>3, Zenon

\* A shorter rest of a stream.
LEMMA RestShorter ==
    ASSUME NEW s \in Seq(Byte), NEW n \in 1..Len(s)
    PROVE  Len(SubSeq(s, n + 1, Len(s))) < Len(s)
  <1>1. Len(s) \in Nat /\ \A i \in 1..Len(s) : s[i] \in Byte
    BY LenProperties, ElementOfSeq
  <1>2. \A i \in (n + 1)..Len(s) : s[i] \in Byte
    BY <1>1
  <1>3. Len(SubSeq(s, n + 1, Len(s))) =
            IF n + 1 <= Len(s) THEN Len(s) - (n + 1) + 1 ELSE 0
    BY <1>1, <1>2, SubSeqProperties
  <1> QED BY <1>1, <1>3

\* The switch of consume throws no exception other than these.
LEMMA StateThrows ==
    ASSUME NEW p, Good(p), NEW s
    PROVE  consumeState(p, s).exc \in Thrown
  <1>1. p.m_state \in ParserStates
    BY ParserFields DEF Good
  <1>2. CASE p.m_state \in {"BASIC_HEADER", "EXTENDED_HEADER"}
    <2>1. consumeState(p, s) = ReadHeader(p, s)
      BY <1>2 DEF consumeState
    <2>2. \E q, rest : \/ ReadHeader(p, s) = Returned(q, rest)
                       \/ ReadHeader(p, s) = process_basic_header(q, rest)
                       \/ ReadHeader(p, s) = process_extended_header(q, rest)
      BY DEF ReadHeader
    <2> QED BY <2>1, <2>2, HeaderReadsNothing DEF Returned, Thrown
  <1>3. CASE p.m_state \in {"PAYLOAD", "RECOVERY", "READY"}
    <2>1. \E q, rest : consumeState(p, s) = Returned(q, rest)
      BY <1>3 DEF consumeState, ReadPayload, Recover
    <2> QED BY <2>1 DEF Returned, Thrown
  <1> QED BY <1>1, <1>2, <1>3 DEF ParserStates

\* A parser that waits for bytes takes at least one of the stream, whatever
\* state it is in.
LEMMA StateTakes ==
    ASSUME NEW p, Good(p), NEW s \in Seq(Byte), s # <<>>,
           p.m_bytes_needed > 0, ~ready(p)
    PROVE  Len(consumeState(p, s).rest) < Len(s)
  <1> DEFINE n == Min({p.m_bytes_needed, Len(s)})
             rest == SubSeq(s, n + 1, Len(s))
  <1>1. /\ p.m_bytes_needed \in Nat /\ p.m_state \in ParserStates
        /\ Len(s) \in Nat /\ Len(s) > 0
    <2>1. Len(s) \in Nat /\ Len(s) # 0
      BY LenProperties, EmptySeq
    <2> QED BY <2>1, ParserFields DEF Good
  <1>2. n \in 1..Len(s)
    BY <1>1, MinOfTwo
  <1>3. Len(rest) < Len(s)
    <2> HIDE DEF n
    <2> QED BY <1>2, RestShorter
  <1>4. CASE p.m_state \in {"BASIC_HEADER", "EXTENDED_HEADER"}
    <2>1. consumeState(p, s) = ReadHeader(p, s)
      BY <1>4 DEF consumeState
    <2>2. \E q : \/ ReadHeader(p, s) = Returned(q, rest)
                 \/ ReadHeader(p, s) = process_basic_header(q, rest)
                 \/ ReadHeader(p, s) = process_extended_header(q, rest)
      BY DEF ReadHeader
    <2> HIDE DEF rest
    <2>3. ReadHeader(p, s).rest = rest
      BY <2>2, HeaderReadsNothing DEF Returned
    <2> QED BY <1>3, <2>1, <2>3
  <1>5. CASE p.m_state = "PAYLOAD"
    <2>1. consumeState(p, s) = ReadPayload(p, s)
      BY <1>5 DEF consumeState
    <2>2. \E q : ReadPayload(p, s) = Returned(q, rest)
      BY DEF ReadPayload
    <2> HIDE DEF rest
    <2> QED BY <1>3, <2>1, <2>2 DEF Returned
  <1>6. CASE p.m_state = "RECOVERY"
    <2> DEFINE I == {i \in 1..Len(s) : s[i] = 136}
               first == SelectInSeq(s, LAMBDA b : b = 136)
    <2>1. consumeState(p, s) = Recover(p, s)
      BY <1>6 DEF consumeState
    <2>2. first \in 0..Len(s)
      <3>1. I \in SUBSET Nat
        BY <1>1
      <3>2. first = IF I # {} THEN Min(I) ELSE 0
        BY DEF SelectInSeq
      <3>3. I # {} => Min(I) \in I
        <4> HIDE DEF I
        <4> QED BY <3>1, LeastNat DEF Min
      <3> QED BY <1>1, <3>1, <3>2, <3>3
    <2>3. \/ first = 0 /\ Recover(p, s) = Returned(p, <<>>)
          \/ first # 0 /\ \E q : Recover(p, s) = Returned(q, SubSeq(s, first + 1, Len(s)))
      BY DEF Recover
    <2> HIDE DEF first
    <2>4. CASE first = 0
      BY <1>1, <2>1, <2>3, <2>4 DEF Returned
    <2>5. CASE first # 0
      <3>1. first \in 1..Len(s)
        BY <1>1, <2>2, <2>5
      <3>2. Len(SubSeq(s, first + 1, Len(s))) < Len(s)
        BY <3>1, RestShorter
      <3>3. PICK q : Recover(p, s) = Returned(q, SubSeq(s, first + 1, Len(s)))
        BY <2>3, <2>5
      <3>4. Returned(q, SubSeq(s, first + 1, Len(s))).rest = SubSeq(s, first + 1, Len(s))
        BY Zenon DEF Returned
      <3>5. Recover(p, s).rest = SubSeq(s, first + 1, Len(s))
        BY <3>3, <3>4, Zenon
      <3> QED BY <2>1, <3>2, <3>5
    <2> QED BY <2>4, <2>5
  <1> QED BY <1>1, <1>4, <1>5, <1>6 DEF ParserStates, ready

\* The same for consume, after whose own exception the parser is in recovery.
LEMMA ConsumeTakes ==
    ASSUME NEW p, Good(p), NEW s \in Seq(Byte)
    PROVE  /\ consume(p, s).exc = "exception" => ~ready(consume(p, s).p)
           /\ s # <<>> /\ p.m_bytes_needed > 0 /\ ~ready(p) =>
                    Len(consume(p, s).rest) < Len(s)
  <1> DEFINE r == consumeState(p, s)
             q == [NewParser EXCEPT !.m_state = "RECOVERY", !.m_degraded = TRUE]
  <1>1. /\ r.exc \in Thrown
        /\ s # <<>> /\ p.m_bytes_needed > 0 /\ ~ready(p) => Len(r.rest) < Len(s)
    BY StateThrows, StateTakes
  <1>2. p.m_degraded \in BOOLEAN
    BY ParserFields DEF Good
  <1>3. \/ consume(p, s) = r
        \/ consume(p, s) = Threw(q, r.rest, "exception")
    BY <1>2 DEF consume
  <1>4. Threw(q, r.rest, "exception").rest = r.rest /\ Threw(q, r.rest, "exception").p = q
    BY DEF Threw
  <1>5. q.m_state = "RECOVERY"
    BY DEF NewParser
  <1> HIDE DEF q, r
  <1> QED BY <1>1, <1>3, <1>4, <1>5 DEF ready, Thrown

\* The frames for which a string was thrown stay in the parser: a size over the
\* limit, and a close frame that has the code ABNORMAL_CLOSE.
AbnormalClose(p) ==
    /\ ready(p) /\ get_opcode(p.m_header) = CLOSE
    /\ get_close_code(p) = ABNORMAL_CLOSE

Waiting(p) == p.m_bytes_needed > 0 /\ ~ready(p)

\* Between two iterations of an open session there is no frame ready: whatever
\* was complete has been handed over, unless a string was thrown instead.
WaitingInv ==
    m_state # "CLOSED" =>
        \/ Waiting(m_parser)
        \/ Refused(m_parser)
        \/ m_state = "OPEN" /\ AbnormalClose(m_parser)

\* With a size over the limit consume reads nothing and throws the string again.
LEMMA RefusesAgain ==
    ASSUME NEW p, Good(p), Refused(p), NEW s \in Seq(Byte)
    PROVE  consume(p, s).exc = "string"
  <1>1. /\ p \in Parser /\ p.m_header \in Seq(Byte) /\ Len(p.m_header) >= 2
        /\ Len(p.m_header) \in Nat /\ p.m_bytes_needed \in Nat
        /\ Len(p.m_header) + p.m_bytes_needed = get_header_len(p.m_header)
        /\ p.m_state = "EXTENDED_HEADER" /\ Len(p.m_header) = get_header_len(p.m_header)
    BY ParserFields DEF Good, ParserInv, Refused
  <1>2. p.m_bytes_needed = 0 /\ Len(s) \in Nat
    BY <1>1, LenProperties
  <1>3. PayloadSize(p.m_header) > max_payload_size /\ PayloadSize(p.m_header) \in Nat
    BY <1>1, SizeAnnounced DEF Refused
  <1>4. ~NotMinimal(p.m_header) /\ ~NoSize(p.m_header)
    BY <1>1, <1>3, NotMinimalSize, Sizes DEF Refused
  <1> DEFINE n == Min({p.m_bytes_needed, Len(s)})
             part == SubSeq(s, 1, n)
             rest == SubSeq(s, n + 1, Len(s))
             q == [p EXCEPT !.m_header = @ \o part, !.m_bytes_needed = @ - n]
  <1>5. n = 0
    BY <1>2, MinOfTwo
  <1>6. part = <<>>
    <2> HIDE DEF n
    <2>1. part \in Seq(Byte) /\ Len(part) = 0
      BY <1>2, <1>5, Cut
    <2> HIDE DEF part
    <2> QED BY <2>1, EmptySeq
  <1>7. p.m_header \o part = p.m_header
    BY <1>1, <1>6, ConcatEmptySeq
  <1>8. q.m_header = p.m_header /\ q.m_state = "EXTENDED_HEADER" /\ q.m_bytes_needed = 0
    <2> HIDE DEF n, part
    <2> QED BY <1>1, <1>2, <1>5, <1>7 DEF Parser
  <1>9. ReadHeader(p, s) = CASE q.m_bytes_needed > 0 -> Returned(q, rest)
              [] q.m_bytes_needed = 0 /\ q.m_state = "BASIC_HEADER" ->
                    process_basic_header(q, rest)
              [] OTHER -> process_extended_header(q, rest)
    BY DEF ReadHeader
  <1> HIDE DEF n, part, rest, q
  <1>10. ReadHeader(p, s) = process_extended_header(q, rest)
    BY <1>8, <1>9
  <1>11. process_extended_header(q, rest) = Threw(q, rest, "string")
    BY <1>3, <1>4, <1>8 DEF process_extended_header
  <1>12. consumeState(p, s).exc = "string"
    BY <1>1, <1>10, <1>11 DEF consumeState, Threw
  <1> QED BY <1>12 DEF consume

\* What consume does in an iteration of the loop: the parser takes bytes, or a
\* string is thrown again.
LEMMA ConsumedTakes ==
    ASSUME EndpointInv, WaitingInv, Iterating
    PROVE  /\ \/ Len(Consumed.rest) < Len(data)
              \/ Consumed.exc = "string"
              \/ m_state = "OPEN" /\ AbnormalClose(m_parser) /\ Consumed = Returned(m_parser, data)
           /\ Consumed.exc = "exception" => ~ready(Consumed.p)
           /\ Outcome(Consumed)
           /\ data # <<>> /\ data \in Seq(Byte)
           /\ m_state \in {"OPEN", "CLOSING"}
  <1>1. /\ data \in Seq(Byte) /\ data # <<>> /\ Good(m_parser)
        /\ m_state \in {"OPEN", "CLOSING"}
        /\ \/ Waiting(m_parser)
           \/ Refused(m_parser)
           \/ m_state = "OPEN" /\ AbnormalClose(m_parser)
    BY DEF EndpointInv, TypeOK, WaitingInv, Iterating
  <1>2. Outcome(Consumed) /\ (Consumed.exc = "exception" => ~ready(Consumed.p))
    BY <1>1, ConsumeTakes, ConsumedOutcome DEF Consumed
  <1>3. CASE Waiting(m_parser)
    <2>1. Len(Consumed.rest) < Len(data)
      BY <1>1, <1>3, ConsumeTakes DEF Consumed, Waiting
    <2> QED BY <1>1, <1>2, <2>1
  <1>4. CASE Refused(m_parser)
    <2>1. Consumed.exc = "string"
      BY <1>1, <1>4, RefusesAgain DEF Consumed
    <2> QED BY <1>1, <1>2, <2>1
  <1>5. CASE m_state = "OPEN" /\ AbnormalClose(m_parser)
    <2>1. m_parser.m_state = "READY"
      BY <1>5 DEF AbnormalClose, ready
    <2>2. consumeState(m_parser, data) = Returned(m_parser, data)
      BY <2>1 DEF consumeState
    <2>3. Returned(m_parser, data).exc = "none"
      BY DEF Returned
    <2>4. Consumed = Returned(m_parser, data)
      BY <2>2, <2>3 DEF Consumed, consume
    <2> QED BY <1>1, <1>2, <1>5, <2>4
  <1> QED BY <1>1, <1>3, <1>4, <1>5

\* The loop of AddRxData iterates only in these actions.
LEMMA IterateIterating ==
    ASSUME Iterate
    PROVE  Iterating
  BY DEF Iterate, PartialFrame, NotCaught, FatalError, process_data, ProcessPing, ProcessPong,
         ProcessClose, ProcessCloseAck, Control, FrameReady

\* Every step leaves a parser without a complete frame.
LEMMA NextWaiting ==
    ASSUME EndpointInv, WaitingInv, [Next]_vars
    PROVE  WaitingInv'
  <1> SUFFICES ASSUME m_state' # "CLOSED"
               PROVE  \/ Waiting(m_parser')
                      \/ Refused(m_parser')
                      \/ m_state' = "OPEN" /\ AbnormalClose(m_parser')
    BY DEF WaitingInv, Waiting, Refused, AbnormalClose, ready, get_close_code
  <1>0. Waiting(NewParser)
    BY DEF NewParser, ready, Waiting
  <1>1. CASE UNCHANGED <<m_state, m_parser>>
    BY <1>1 DEF WaitingInv
  <1>2. CASE Iterate
    <2>1. /\ Consumed.exc = "exception" => ~ready(Consumed.p)
          /\ Outcome(Consumed)
      BY <1>2, IterateIterating, ConsumedTakes
    <2>2. CASE PartialFrame
      BY <2>1, <2>2 DEF PartialFrame, Outcome, Waiting
    <2>3. CASE NotCaught
      BY <2>1, <2>3 DEF NotCaught, Leaves, Outcome, Waiting
    <2>4. CASE FatalError
      BY <2>4 DEF FatalError, shutdown
    <2>5. CASE process_data \/ ProcessPing \/ ProcessPong \/ ProcessCloseAck
      <3>1. m_parser' = NewParser
        BY <2>5 DEF process_data, ProcessPing, ProcessPong, ProcessCloseAck, FrameDone, LoopBroken
      <3> QED BY <1>0, <3>1
    <2>6. CASE ProcessClose
      <3>1. /\ get_opcode(Consumed.p.m_header) = CLOSE /\ ready(Consumed.p)
            /\ m_state = "OPEN"
        BY <2>6 DEF ProcessClose, Control, FrameReady
      <3>2. /\ get_close_code(Consumed.p) = ABNORMAL_CLOSE
            /\ Leaves(Consumed.p, "string")
        BY <2>6 DEF ProcessClose, shutdown
      <3> QED BY <3>1, <3>2 DEF Leaves, AbnormalClose
    <2> QED BY <1>2, <2>2, <2>3, <2>4, <2>5, <2>6 DEF Iterate
  <1>3. CASE \/ \E n \in 1..Len(unread) : AddRxData(n)
             \/ Return \/ Finished \/ UNCHANGED vars
    <2>1. UNCHANGED <<m_state, m_parser>>
      BY <1>3 DEF AddRxData, Return, Finished, vars
    <2> QED BY <1>1, <2>1
  <1> QED BY <1>2, <1>3 DEF Next

\* Every iteration of the loop of AddRxData takes at least one byte from what it
\* was called with, so that the accepting thread comes back from it
\* (wsendpoint.h:173).  A parser for whose frame a string was thrown takes none,
\* but then the string leaves the loop, and all of the data is dropped.
LoopShrinks == [][Iterate => Len(data') < Len(data)]_vars

\* AddRxData cannot loop for ever: the safety argument behind AddRxDataReturns,
\* for every client and every cut of its bytes.
THEOREM LoopEnds == Spec => LoopShrinks
  <1>1. Init => WaitingInv
    BY DEF Init, WaitingInv, Waiting, NewParser, ready
  <1>2. EndpointInv /\ WaitingInv /\ [Next]_vars => WaitingInv'
    BY NextWaiting
  <1>3. EndpointInv /\ WaitingInv =>
            (Iterate => Len(data') < Len(data))
    <2> SUFFICES ASSUME EndpointInv, WaitingInv, Iterate
                 PROVE  Len(data') < Len(data)
      OBVIOUS
    <2>1. /\ \/ Len(Consumed.rest) < Len(data)
             \/ Consumed.exc = "string"
             \/ /\ m_state = "OPEN" /\ AbnormalClose(m_parser)
                /\ Consumed = Returned(m_parser, data)
          /\ data # <<>> /\ data \in Seq(Byte)
      BY IterateIterating, ConsumedTakes
    <2>2. Len(data) \in Nat /\ Len(data) > 0 /\ Len(<<>>) = 0
      BY <2>1, EmptySeq, LenProperties
    <2>3. data' = Consumed.rest \/ data' = <<>>
      BY DEF Iterate, PartialFrame, NotCaught, FatalError, process_data, ProcessPing,
         ProcessPong, ProcessClose, ProcessCloseAck, FrameDone, LoopBroken, Leaves
    <2>4. CASE Consumed.exc = "string"
      <3>1. data' = <<>>
        BY <2>4 DEF Iterate, PartialFrame, NotCaught, FatalError, process_data, ProcessPing,
           ProcessPong, ProcessClose, ProcessCloseAck, Control, FrameReady, Leaves
      <3> QED BY <2>2, <3>1
    <2>5. CASE /\ m_state = "OPEN" /\ AbnormalClose(m_parser)
               /\ Consumed = Returned(m_parser, data)
      <3>1. /\ Consumed.p = m_parser /\ Consumed.exc = "none"
            /\ ready(Consumed.p) /\ get_opcode(Consumed.p.m_header) = CLOSE
            /\ get_close_code(Consumed.p) = ABNORMAL_CLOSE
        BY <2>5 DEF Returned, AbnormalClose
      <3>2. is_control(CLOSE) /\ CLOSE # PING /\ CLOSE # PONG /\ ABNORMAL_CLOSE # NoCode
        BY DEF is_control, CLOSE, PING, PONG, ABNORMAL_CLOSE, NoCode
      <3>3. ProcessClose
        BY <2>5, <3>1, <3>2 DEF Iterate, PartialFrame, NotCaught, FatalError, process_data,
           ProcessPing, ProcessPong, ProcessCloseAck, Control, FrameReady
      <3>4. data' = <<>>
        BY <3>1, <3>2, <3>3 DEF ProcessClose, Leaves
      <3> QED BY <2>2, <3>4
    <2> QED BY <2>1, <2>2, <2>3, <2>4, <2>5
  <1> QED BY <1>1, <1>2, <1>3, EndpointAlways, PTL DEF Spec, LoopShrinks


-----------------------------------------------------------------------------
(* The end of a session *)

\* A sequence, whatever its elements are.
IsSeq(s) == \E S : s \in Seq(S)

\* s with one more element.
Extends(t, s, e) ==
    /\ IsSeq(t) /\ Len(s) \in Nat /\ Len(t) = Len(s) + 1
    /\ DOMAIN s = 1..Len(s) /\ DOMAIN t = 1..(Len(s) + 1)
    /\ \A i \in 1..Len(s) : t[i] = s[i]
    /\ t[Len(s) + 1] = e

\* Append and a concatenation with one element extend a sequence.
LEMMA OneMore ==
    ASSUME NEW s, NEW e, IsSeq(s)
    PROVE  Extends(Append(s, e), s, e) /\ Extends(s \o <<e>>, s, e)
  <1>1. PICK S : s \in Seq(S)
    BY DEF IsSeq
  <1> DEFINE T == S \cup {e}
  <1>2. s \in Seq(T) /\ <<e>> \in Seq(T) /\ e \in T /\ Len(<<e>>) = 1 /\ <<e>>[1] = e
    <2>1. /\ Len(s) \in Nat /\ DOMAIN s = 1..Len(s)
          /\ s \in [1..Len(s) -> S]
      BY <1>1, LenProperties
    <2>2. s \in [1..Len(s) -> T]
      BY <2>1
    <2>3. s \in Seq(T)
      BY <2>1, <2>2
    <2> QED BY <2>3
  <1> HIDE DEF T
  <1>3. Len(s) \in Nat /\ DOMAIN s = 1..Len(s)
    BY <1>2, LenProperties
  <1>4. Extends(Append(s, e), s, e)
    <2>1. /\ Append(s, e) \in Seq(T) /\ Len(Append(s, e)) = Len(s) + 1
          /\ \A i \in 1..Len(s) : Append(s, e)[i] = s[i]
          /\ Append(s, e)[Len(s) + 1] = e
      BY <1>2, AppendProperties
    <2>2. DOMAIN Append(s, e) = 1..(Len(s) + 1)
      BY <2>1, LenProperties
    <2> QED BY <1>3, <2>1, <2>2, Zenon DEF Extends, IsSeq
  <1>5. Extends(s \o <<e>>, s, e)
    <2>1. /\ s \o <<e>> \in Seq(T) /\ Len(s \o <<e>>) = Len(s) + Len(<<e>>)
          /\ \A i \in 1..(Len(s) + Len(<<e>>)) :
                (s \o <<e>>)[i] = IF i <= Len(s) THEN s[i] ELSE <<e>>[i - Len(s)]
      BY <1>2, ConcatProperties
    <2>2. DOMAIN (s \o <<e>>) = 1..(Len(s) + 1) /\ Len(s \o <<e>>) = Len(s) + 1
      BY <1>2, <2>1, LenProperties
    <2> DEFINE t == s \o <<e>>
    <2>3. \A i \in 1..(Len(s) + 1) : t[i] = IF i <= Len(s) THEN s[i] ELSE <<e>>[i - Len(s)]
      BY <1>2, <2>1
    <2> HIDE DEF t
    <2>4. /\ \A i \in 1..Len(s) : t[i] = s[i]
      BY <1>3, <2>3
    <2>5. t[Len(s) + 1] = e
      <3>1. Len(s) + 1 \in 1..(Len(s) + 1) /\ ~(Len(s) + 1 <= Len(s)) /\ Len(s) + 1 - Len(s) = 1
        BY <1>3
      <3>2. t[Len(s) + 1] = <<e>>[Len(s) + 1 - Len(s)]
        BY <2>3, <3>1
      <3> QED BY <1>2, <3>1, <3>2
    <2> QED BY <1>3, <2>1, <2>2, <2>4, <2>5, Zenon DEF Extends, IsSeq, t
  <1> QED BY <1>4, <1>5

\* The concatenation of two sequences begins with the first one.
LEMMA Joined ==
    ASSUME NEW s, NEW t, IsSeq(s), IsSeq(t)
    PROVE  /\ IsSeq(s \o t)
           /\ Len(s) \in Nat /\ Len(t) \in Nat /\ Len(s \o t) = Len(s) + Len(t)
           /\ \A i \in 1..Len(s) : (s \o t)[i] = s[i]
  <1>1. PICK S : s \in Seq(S)
    BY DEF IsSeq
  <1>2. PICK R : t \in Seq(R)
    BY DEF IsSeq
  <1> DEFINE T == S \cup R
  <1>3. s \in Seq(T) /\ t \in Seq(T) /\ Len(s) \in Nat /\ Len(t) \in Nat
    <2>1. Len(s) \in Nat /\ s \in [1..Len(s) -> S] /\ Len(t) \in Nat /\ t \in [1..Len(t) -> R]
      BY <1>1, <1>2, LenProperties
    <2>2. s \in [1..Len(s) -> T] /\ t \in [1..Len(t) -> T]
      BY <2>1
    <2> QED BY <2>1, <2>2
  <1> HIDE DEF T
  <1>4. /\ s \o t \in Seq(T) /\ Len(s \o t) = Len(s) + Len(t)
        /\ \A i \in 1..(Len(s) + Len(t)) :
                (s \o t)[i] = IF i <= Len(s) THEN s[i] ELSE t[i - Len(s)]
    BY <1>3, ConcatProperties
  <1>5. \A i \in 1..Len(s) : i \in 1..(Len(s) + Len(t)) /\ i <= Len(s)
    BY <1>3
  <1>6. \A i \in 1..Len(s) : (s \o t)[i] = s[i]
    BY <1>4, <1>5, Zenon
  <1> QED BY <1>3, <1>4, <1>6, Zenon DEF IsSeq

\* A number in network byte order is a sequence.
LEMMA ToBytesSeq ==
    ASSUME NEW n, NEW width \in Nat
    PROVE  IsSeq(ToBytes(n, width))
  <1> DEFINE b(i) == (n \div 256^(width - i)) % 256
             f == [i \in 1..width |-> b(i)]
  <1>1. ToBytes(n, width) = f
    BY Zenon DEF ToBytes
  <1> HIDE DEF b
  <1>2. f \in [1..width -> {b(i) : i \in 1..width}]
    BY Zenon
  <1>3. f \in Seq({b(i) : i \in 1..width})
    BY <1>2
  <1> QED BY <1>1, <1>3, Zenon DEF IsSeq

\* A frame is not empty, and begins with its opcode.
LEMMA FrameBegins ==
    ASSUME NEW op, NEW payload, IsSeq(payload)
    PROVE  Frame(op, payload) # <<>> /\ Frame(op, payload)[1] = 128 + op
  <1> DEFINE first == <<128 + op>>
             size == SizeField(Len(payload))
  <1>1. IsSeq(first) /\ Len(first) = 1 /\ first[1] = 128 + op
    <2>1. first \in Seq({128 + op}) /\ Len(first) = 1 /\ first[1] = 128 + op
      OBVIOUS
    <2> QED BY <2>1, Zenon DEF IsSeq
  <1>2. IsSeq(size)
    <2>1. \A n : IsSeq(<<n>>)
      <3>1. \A n : <<n>> \in Seq({n})
        OBVIOUS
      <3> QED BY <3>1, Zenon DEF IsSeq
    <2>2. \A n : IsSeq(ToBytes(n, SizeBytes16)) /\ IsSeq(ToBytes(n, SizeBytes64))
      BY ToBytesSeq, SizesAssumption
    <2>3. \A n, m : /\ IsSeq(<<m>> \o ToBytes(n, SizeBytes16))
                    /\ IsSeq(<<m>> \o ToBytes(n, SizeBytes64))
      BY <2>1, <2>2, Joined, Zenon
    <2> QED BY <2>1, <2>3 DEF SizeField
  <1>3. Frame(op, payload) = first \o size \o payload
    BY DEF Frame
  <1> HIDE DEF first, size
  <1>4. /\ IsSeq(first \o size) /\ Len(first \o size) \in Nat /\ Len(first \o size) >= 1
        /\ (first \o size)[1] = 128 + op
    <2>1. /\ IsSeq(first \o size) /\ Len(size) \in Nat
          /\ Len(first \o size) = Len(first) + Len(size)
          /\ \A i \in 1..Len(first) : (first \o size)[i] = first[i]
      BY <1>1, <1>2, Joined
    <2>2. 1 \in 1..Len(first) /\ Len(first) + Len(size) \in Nat /\ Len(first) + Len(size) >= 1
      BY <1>1, <2>1
    <2> QED BY <1>1, <2>1, <2>2, Zenon
  <1>5. /\ Len(first \o size \o payload) = Len(first \o size) + Len(payload)
        /\ Len(payload) \in Nat
        /\ \A i \in 1..Len(first \o size) : (first \o size \o payload)[i] = (first \o size)[i]
    BY <1>4, Joined, Zenon
  <1>6. 1 \in 1..Len(first \o size) /\ Len(first \o size \o payload) > 0 /\ Len(<<>>) = 0
    BY <1>4, <1>5
  <1> QED BY <1>3, <1>4, <1>5, <1>6


\* A close frame among the responses.
CloseFrame(r) == r # <<>> /\ r[1] = 128 + CLOSE

\* on_close is the last call the handler gets, and the empty response that makes
\* EHS close the connection is the last it sends; both happen once, when the
\* session becomes CLOSED.  At most one close frame is sent, and not before the
\* session leaves OPEN (process_control, send_close and shutdown in
\* wsendpoint.h).
CallsEnd(c, state) ==
    /\ \A i \in DOMAIN c : c[i].method = "on_close" <=> state = "CLOSED" /\ i = Len(c)
    /\ state = "CLOSED" => c # <<>>
ResponsesEnd(r, state) ==
    /\ \A i \in DOMAIN r : r[i] = <<>> <=> state = "CLOSED" /\ i = Len(r)
    /\ state = "CLOSED" => r # <<>>
    /\ \A i, j \in DOMAIN r : CloseFrame(r[i]) /\ CloseFrame(r[j]) => i = j
    /\ state = "OPEN" => \A i \in DOMAIN r : ~CloseFrame(r[i])
SessionEndsOnce == CallsEnd(calls, m_state) /\ ResponsesEnd(responses, m_state)

SessionInv == IsSeq(calls) /\ IsSeq(responses) /\ SessionEndsOnce

\* A call, on_close if and only if the session ends with it.
LEMMA OneMoreCall ==
    ASSUME NEW c, NEW d, NEW e, NEW state, NEW after,
           CallsEnd(c, state), state # "CLOSED", Extends(d, c, e),
           e.method = "on_close" <=> after = "CLOSED"
    PROVE  CallsEnd(d, after) /\ IsSeq(d)
  <1> DEFINE n == Len(c)
  <1>1. /\ IsSeq(d) /\ n \in Nat /\ Len(d) = n + 1
        /\ DOMAIN c = 1..n /\ DOMAIN d = 1..(n + 1)
        /\ \A i \in 1..n : d[i] = c[i]
        /\ d[n + 1] = e
    BY Zenon DEF Extends
  <1>2. \A i \in 1..n : c[i].method # "on_close"
    BY <1>1, Zenon DEF CallsEnd
  <1> HIDE DEF n
  <1>3. \A i \in 1..(n + 1) : (i \in 1..n /\ i # n + 1) \/ i = n + 1
    BY <1>1
  <1>4. \A i \in DOMAIN d : d[i].method = "on_close" <=> after = "CLOSED" /\ i = Len(d)
    BY <1>1, <1>2, <1>3, Zenon
  <1>5. d # <<>>
    <2>1. Len(d) # 0 /\ Len(<<>>) = 0
      BY <1>1
    <2> QED BY <2>1
  <1> QED BY <1>1, <1>4, <1>5, Zenon DEF CallsEnd

\* A response, empty if and only if the session ends with it; a close frame only
\* when the session leaves OPEN.
LEMMA OneMoreResponse ==
    ASSUME NEW r, NEW q, NEW e, NEW state, NEW after,
           ResponsesEnd(r, state), state # "CLOSED", Extends(q, r, e),
           e = <<>> <=> after = "CLOSED",
           CloseFrame(e) => state = "OPEN" /\ after # "OPEN",
           after = "OPEN" => state = "OPEN"
    PROVE  ResponsesEnd(q, after) /\ IsSeq(q)
  <1> DEFINE n == Len(r)
  <1>1. /\ IsSeq(q) /\ n \in Nat /\ Len(q) = n + 1
        /\ DOMAIN r = 1..n /\ DOMAIN q = 1..(n + 1)
        /\ \A i \in 1..n : q[i] = r[i]
        /\ q[n + 1] = e
    BY Zenon DEF Extends
  <1>2. /\ \A i \in 1..n : r[i] # <<>>
        /\ \A i, j \in 1..n : CloseFrame(r[i]) /\ CloseFrame(r[j]) => i = j
        /\ state = "OPEN" => \A i \in 1..n : ~CloseFrame(r[i])
    BY <1>1, Zenon DEF ResponsesEnd
  <1> HIDE DEF n
  <1>3. \A i \in 1..(n + 1) : (i \in 1..n /\ i # n + 1) \/ i = n + 1
    BY <1>1
  <1>4. \A i \in DOMAIN q : q[i] = <<>> <=> after = "CLOSED" /\ i = Len(q)
    BY <1>1, <1>2, <1>3, Zenon
  <1>5. q # <<>>
    <2>1. Len(q) # 0 /\ Len(<<>>) = 0
      BY <1>1
    <2> QED BY <2>1
  <1>6. \A i, j \in DOMAIN q : CloseFrame(q[i]) /\ CloseFrame(q[j]) => i = j
    <2> SUFFICES ASSUME NEW i \in 1..(n + 1), NEW j \in 1..(n + 1),
                        CloseFrame(q[i]), CloseFrame(q[j])
                 PROVE  i = j
      BY <1>1, Zenon
    <2>1. CASE i \in 1..n /\ j \in 1..n
      BY <1>1, <1>2, <2>1, Zenon
    <2>2. CASE i = n + 1 /\ j \in 1..n
      BY <1>1, <1>2, <2>2, Zenon
    <2>3. CASE i \in 1..n /\ j = n + 1
      BY <1>1, <1>2, <2>3, Zenon
    <2> QED BY <1>3, <2>1, <2>2, <2>3
  <1>7. after = "OPEN" => \A i \in DOMAIN q : ~CloseFrame(q[i])
    BY <1>1, <1>2, <1>3, Zenon
  <1> QED BY <1>1, <1>4, <1>5, <1>6, <1>7, Zenon DEF ResponsesEnd

\* Nothing is sent, and the session goes on.
LEMMA SameResponses ==
    ASSUME NEW r, NEW state, NEW after, ResponsesEnd(r, state), state # "CLOSED",
           after # "CLOSED", after = "OPEN" => state = "OPEN"
    PROVE  ResponsesEnd(r, after)
  BY Zenon DEF ResponsesEnd

\* Frames of the endpoint: a close frame, or another one.
LEMMA FrameKinds ==
    ASSUME NEW payload, IsSeq(payload)
    PROVE  /\ CloseFrame(Frame(CLOSE, payload)) /\ Frame(CLOSE, payload) # <<>>
           /\ ~CloseFrame(Frame(TEXT, payload)) /\ Frame(TEXT, payload) # <<>>
           /\ ~CloseFrame(Frame(PONG, payload)) /\ Frame(PONG, payload) # <<>>
  <1>1. \A op : Frame(op, payload) # <<>> /\ Frame(op, payload)[1] = 128 + op
    BY FrameBegins
  <1> QED BY <1>1 DEF CloseFrame, CLOSE, TEXT, PONG

\* shutdown after no frame, or after an acknowledgement in an open session.
LEMMA ShutdownEnds ==
    ASSUME SessionInv, m_state # "CLOSED", NEW frames, shutdown(frames),
           \/ frames = <<>>
           \/ m_state = "OPEN" /\ \E f : frames = <<f>> /\ CloseFrame(f)
    PROVE  SessionInv'
  <1>1. /\ m_state' = "CLOSED" /\ responses' = responses \o (frames \o << <<>> >>)
        /\ calls' = Append(calls, [method |-> "on_close", payload |-> <<>>])
    BY DEF shutdown, Calls, Sends
  <1>2. CallsEnd(calls', m_state') /\ IsSeq(calls')
    <2> DEFINE e == [method |-> "on_close", payload |-> <<>>]
    <2>1. Extends(Append(calls, e), calls, e)
      BY OneMore DEF SessionInv
    <2>2. e.method = "on_close"
      OBVIOUS
    <2> HIDE DEF e
    <2> QED BY <1>1, <2>1, <2>2, OneMoreCall DEF SessionInv, SessionEndsOnce, e
  <1>3. ResponsesEnd(responses', m_state') /\ IsSeq(responses')
    <2>0. ~CloseFrame(<<>>)
      BY DEF CloseFrame
    <2>1. CASE frames = <<>>
      <3>1. <<>> \o << <<>> >> = << <<>> >>
        OBVIOUS
      <3>2. Extends(responses \o << <<>> >>, responses, <<>>)
        BY OneMore DEF SessionInv
      <3>3. Extends(responses', responses, <<>>)
        BY <1>1, <2>1, <3>1, <3>2
      <3> QED BY <1>1, <2>0, <3>3, OneMoreResponse DEF SessionInv, SessionEndsOnce
    <2>2. ASSUME m_state = "OPEN", NEW f, frames = <<f>>, CloseFrame(f)
          PROVE  ResponsesEnd(responses', m_state') /\ IsSeq(responses')
      <3>1. responses' = (responses \o <<f>>) \o << <<>> >>
        <4>1. PICK S : responses \in Seq(S)
          BY DEF SessionInv, IsSeq
        <4> DEFINE T == S \cup {f, <<>>}
        <4>2. responses \in Seq(T) /\ <<f>> \in Seq(T) /\ << <<>> >> \in Seq(T)
          <5>1. Len(responses) \in Nat /\ responses \in [1..Len(responses) -> S]
            BY <4>1, LenProperties
          <5>2. responses \in [1..Len(responses) -> T]
            BY <5>1
          <5>3. f \in T /\ <<>> \in T
            OBVIOUS
          <5> HIDE DEF T
          <5> QED BY <5>1, <5>2, <5>3
        <4> HIDE DEF T
        <4> QED BY <1>1, <2>2, <4>2, ConcatAssociative
      <3> DEFINE middle == responses \o <<f>>
      <3>2. ResponsesEnd(middle, "CLOSING") /\ IsSeq(middle)
        <4>1. Extends(middle, responses, f)
          BY OneMore DEF SessionInv
        <4>2. f # <<>>
          BY <2>2 DEF CloseFrame
        <4> HIDE DEF middle
        <4> QED BY <2>2, <4>1, <4>2, OneMoreResponse DEF SessionInv, SessionEndsOnce
      <3> HIDE DEF middle
      <3>3. Extends(middle \o << <<>> >>, middle, <<>>)
        BY <3>2, OneMore
      <3>4. ResponsesEnd(middle \o << <<>> >>, "CLOSED") /\ IsSeq(middle \o << <<>> >>)
        BY <2>0, <3>2, <3>3, OneMoreResponse
      <3> QED BY <1>1, <3>1, <3>4 DEF middle
    <2> QED BY <2>1, <2>2
  <1> QED BY <1>2, <1>3 DEF SessionInv, SessionEndsOnce


\* A handler method other than on_close is called, and the session goes on.
LEMMA CallGoesOn ==
    ASSUME SessionInv, m_state # "CLOSED", NEW method, NEW payload, Calls(method, payload),
           method # "on_close", m_state' # "CLOSED"
    PROVE  CallsEnd(calls', m_state') /\ IsSeq(calls')
  <1> DEFINE e == [method |-> method, payload |-> payload]
  <1>1. calls' = Append(calls, e) /\ e.method = method
    BY DEF Calls
  <1>2. Extends(Append(calls, e), calls, e)
    BY OneMore DEF SessionInv
  <1> HIDE DEF e
  <1> QED BY <1>1, <1>2, OneMoreCall DEF SessionInv, SessionEndsOnce

\* One frame is sent, and the session goes on.
LEMMA SendGoesOn ==
    ASSUME SessionInv, m_state # "CLOSED", NEW f, Sends(<<f>>), f # <<>>, m_state' # "CLOSED",
           CloseFrame(f) => m_state = "OPEN" /\ m_state' # "OPEN",
           m_state' = "OPEN" => m_state = "OPEN"
    PROVE  ResponsesEnd(responses', m_state') /\ IsSeq(responses')
  <1>1. responses' = responses \o <<f>>
    BY DEF Sends
  <1>2. Extends(responses', responses, f)
    BY <1>1, OneMore DEF SessionInv
  <1> QED BY <1>2, OneMoreResponse DEF SessionInv, SessionEndsOnce

\* One pass through the loop of AddRxData.
LEMMA IterateSession ==
    ASSUME EndpointInv, SessionInv, Iterate
    PROVE  SessionInv'
  <1>0. Iterating /\ m_state \in {"OPEN", "CLOSING"} /\ m_state # "CLOSED"
    BY IterateIterating DEF Iterating, EndpointInv, TypeOK
  <1>1. Outcome(Consumed)
    BY <1>0, ConsumedOutcome
  <1>2. /\ Payload \in Seq(Byte) /\ IsSeq(Payload) /\ IsSeq(Answer(Payload))
    <2>1. Consumed.p \in Parser
      BY <1>1 DEF Outcome
    <2>2. Payload \in Seq(Byte)
      BY <2>1, ParserFields DEF Payload
    <2>3. Answer(Payload) \in Seq(Byte)
      BY <2>2, EndpointAssumption, ConcatProperties DEF Answer
    <2> QED BY <2>2, <2>3, Zenon DEF IsSeq
  <1>3. ASSUME CallsEnd(calls', m_state'), IsSeq(calls'),
               ResponsesEnd(responses', m_state'), IsSeq(responses')
        PROVE  SessionInv'
    BY <1>3 DEF SessionInv, SessionEndsOnce
  <1>4. ASSUME responses' = responses, m_state' = m_state
        PROVE  ResponsesEnd(responses', m_state') /\ IsSeq(responses')
    BY <1>4, Zenon DEF SessionInv, SessionEndsOnce
  <1>5. CASE PartialFrame \/ NotCaught
    <2>1. UNCHANGED <<calls, responses, m_state>>
      BY <1>5 DEF PartialFrame, NotCaught, Leaves
    <2> QED BY <2>1 DEF SessionInv, SessionEndsOnce
  <1>6. CASE FatalError
    BY <1>0, <1>6, ShutdownEnds DEF FatalError
  <1>7. CASE process_data
    <2>1. Calls("on_message", Payload) /\ "on_message" # "on_close"
      BY <1>7 DEF process_data
    <2>2. CASE TooBig(Answer(Payload)) /\ m_state = "OPEN"
      <3>1. m_state' = "CLOSING" /\ Sends(<<Frame(CLOSE, ToBytes(MESSAGE_TOO_BIG, 2))>>)
        BY <1>7, <2>2 DEF process_data, send_close
      <3>2. IsSeq(ToBytes(MESSAGE_TOO_BIG, 2))
        BY ToBytesSeq
      <3>3. Frame(CLOSE, ToBytes(MESSAGE_TOO_BIG, 2)) # <<>>
        BY <3>2, FrameKinds
      <3>4. ResponsesEnd(responses', m_state') /\ IsSeq(responses')
        BY <1>0, <2>2, <3>1, <3>3, SendGoesOn
      <3> QED BY <1>0, <1>3, <2>1, <3>1, <3>4, CallGoesOn
    <2>3. CASE TooBig(Answer(Payload)) /\ m_state # "OPEN"
      <3>1. UNCHANGED <<m_state, responses>>
        BY <1>7, <2>3 DEF process_data, send_close
      <3> QED BY <1>0, <1>3, <1>4, <2>1, <3>1, CallGoesOn
    <2>4. CASE ~TooBig(Answer(Payload))
      <3>1. m_state' = m_state /\ Sends(<<Frame(TEXT, Answer(Payload))>>)
        BY <1>7, <2>4 DEF process_data
      <3>2. /\ Frame(TEXT, Answer(Payload)) # <<>>
            /\ ~CloseFrame(Frame(TEXT, Answer(Payload)))
        BY <1>2, FrameKinds
      <3>3. ResponsesEnd(responses', m_state') /\ IsSeq(responses')
        BY <1>0, <3>1, <3>2, SendGoesOn
      <3> QED BY <1>0, <1>3, <2>1, <3>1, <3>3, CallGoesOn
    <2> QED BY <2>2, <2>3, <2>4
  <1>8. CASE ProcessPing
    <2>1. Calls("on_ping", Payload) /\ "on_ping" # "on_close" /\ m_state' = m_state
      BY <1>8 DEF ProcessPing
    <2>2. CASE m_state = "OPEN"
      <3>1. Sends(<<Frame(PONG, Payload)>>)
        BY <1>8, <2>2 DEF ProcessPing
      <3>2. Frame(PONG, Payload) # <<>> /\ ~CloseFrame(Frame(PONG, Payload))
        BY <1>2, FrameKinds
      <3>3. ResponsesEnd(responses', m_state') /\ IsSeq(responses')
        BY <1>0, <2>1, <3>1, <3>2, SendGoesOn
      <3> QED BY <1>0, <1>3, <2>1, <3>3, CallGoesOn
    <2>3. CASE m_state # "OPEN"
      <3>1. responses' = responses
        BY <1>8, <2>3 DEF ProcessPing
      <3> QED BY <1>0, <1>3, <1>4, <2>1, <3>1, CallGoesOn
    <2> QED BY <2>2, <2>3
  <1>9. CASE ProcessPong
    <2>1. /\ Calls("on_pong", Payload) /\ "on_pong" # "on_close"
          /\ m_state' = m_state /\ responses' = responses
      BY <1>9 DEF ProcessPong
    <2> QED BY <1>0, <1>3, <1>4, <2>1, CallGoesOn
  <1>10. CASE ProcessClose
    <2> DEFINE code == get_close_code(Consumed.p)
               reason == get_close_reason(Consumed.p)
    <2>1. CASE code = NoCode
      <3>1. shutdown(<<>>)
        BY <1>10, <2>1 DEF ProcessClose, NoCode, ABNORMAL_CLOSE
      <3> QED BY <1>0, <3>1, ShutdownEnds
    <2>2. CASE code = ABNORMAL_CLOSE
      <3>1. Leaves(Consumed.p, "string")
        BY <1>10, <2>2 DEF ProcessClose, NoCode, ABNORMAL_CLOSE
      <3>2. UNCHANGED <<calls, responses, m_state>>
        BY <3>1 DEF Leaves
      <3> QED BY <3>2 DEF SessionInv, SessionEndsOnce
    <2>3. CASE code # NoCode /\ code # ABNORMAL_CLOSE
      <3>1. shutdown(<<CloseAck(code, reason)>>) /\ m_state = "OPEN"
        BY <1>10, <2>3 DEF ProcessClose
      <3>2. IsSeq(reason)
        <4>1. Len(Payload) \in Nat /\ \A i \in 1..Len(Payload) : Payload[i] \in Byte
          BY <1>2, LenProperties, ElementOfSeq
        <4>2. \A i \in 3..Len(Payload) : Payload[i] \in Byte
          BY <4>1
        <4>3. SubSeq(Payload, 3, Len(Payload)) \in Seq(Byte)
          BY <4>1, <4>2, SubSeqProperties
        <4> QED BY <4>3, Zenon DEF IsSeq, get_close_reason, Payload
      <3> HIDE DEF code, reason
      <3>3. \E payload : IsSeq(payload) /\ CloseAck(code, reason) = Frame(CLOSE, payload)
        <4>1. IsSeq(ToBytes(NORMAL, 2)) /\ IsSeq(ToBytes(PROTOCOL_ERROR, 2))
          BY ToBytesSeq
        <4>2. IsSeq(ToBytes(code, 2) \o reason)
          <5>1. IsSeq(ToBytes(code, 2))
            BY ToBytesSeq
          <5> QED BY <3>2, <5>1, Joined
        <4>3. \/ CloseAck(code, reason) = Frame(CLOSE, ToBytes(NORMAL, 2))
              \/ CloseAck(code, reason) = Frame(CLOSE, ToBytes(PROTOCOL_ERROR, 2))
              \/ CloseAck(code, reason) = Frame(CLOSE, ToBytes(code, 2) \o reason)
          BY DEF CloseAck
        <4> QED BY <4>1, <4>2, <4>3, Zenon
      <3>4. CloseFrame(CloseAck(code, reason))
        BY <3>3, FrameKinds, Zenon
      <3> QED BY <1>0, <3>1, <3>4, ShutdownEnds, Zenon
    <2> QED BY <2>1, <2>2, <2>3
  <1>11. CASE ProcessCloseAck
    BY <1>0, <1>11, ShutdownEnds DEF ProcessCloseAck
  <1> QED BY <1>5, <1>6, <1>7, <1>8, <1>9, <1>10, <1>11 DEF Iterate

\* A session ends once, whatever the client sends and in whatever pieces: after
\* on_close no handler method is called and nothing is sent, and the endpoint
\* never sends a second close frame, also when both sides ask for the end.
THEOREM SessionEndCorrect == Spec => []SessionEndsOnce
  <1>1. Init => SessionInv
    <2> SUFFICES ASSUME Init PROVE SessionInv
      OBVIOUS
    <2>1. calls = <<>> /\ responses = <<>> /\ m_state = "OPEN"
      BY DEF Init
    <2>2. IsSeq(<<>>) /\ DOMAIN <<>> = {}
      <3>1. <<>> \in Seq({}) /\ DOMAIN <<>> = {}
        OBVIOUS
      <3> QED BY <3>1, Zenon DEF IsSeq
    <2> QED BY <2>1, <2>2, Zenon DEF SessionInv, SessionEndsOnce, CallsEnd, ResponsesEnd
  <1>2. EndpointInv /\ SessionInv /\ [Next]_vars => SessionInv'
    <2> SUFFICES ASSUME EndpointInv, SessionInv, [Next]_vars PROVE SessionInv'
      OBVIOUS
    <2>1. CASE \/ \E n \in 1..Len(unread) : AddRxData(n)
               \/ Return \/ Finished \/ UNCHANGED vars
      <3>1. UNCHANGED <<calls, responses, m_state>>
        BY <2>1 DEF AddRxData, Return, Finished, vars
      <3> QED BY <3>1 DEF SessionInv, SessionEndsOnce
    <2> QED BY <2>1, IterateSession DEF Next
  <1>3. SessionInv => SessionEndsOnce
    BY DEF SessionInv
  <1> QED BY <1>1, <1>2, <1>3, EndpointAlways, PTL DEF Spec
=============================================================================
