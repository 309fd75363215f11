------------------------- MODULE HttpRequestProofs -------------------------
(***************************************************************************)
(* The parser never loses count of the bytes of a chunk, never loses or    *)
(* repeats a byte of the buffer between two reads, keeps to its limit, and *)
(* never turns without taking something from the buffer: for any client    *)
(* and any cut of its bytes.                                               *)
(***************************************************************************)
EXTENDS HttpRequest, SequenceTheorems, WellFoundedInduction, TLAPS

-----------------------------------------------------------------------------
(* Least and greatest elements, slices *)

\* A set of natural numbers that is not empty has a least element.
LEMMA LeastNat ==
    ASSUME NEW S \in SUBSET Nat, S # {}
    PROVE  \E x \in S : \A y \in S : x <= y
  <1>1. OpToRel(<, Nat) = {q \in Nat \X Nat : q[1] < q[2]}
    BY Zenon DEF OpToRel
  <1>2. PICK R : IsWellFoundedOn(R, Nat) /\ R = {q \in Nat \X Nat : q[1] < q[2]}
    BY <1>1, NatLessThanWellFounded, Zenon
  <1>3. PICK x \in S : \A y \in S : ~(<<y, x>> \in R)
    BY <1>2, WFMin
  <1>4. \A y \in S : x <= y
    <2> SUFFICES ASSUME NEW y \in S PROVE x <= y
      OBVIOUS
    <2>1. x \in Nat /\ y \in Nat
      OBVIOUS
    <2>2. <<y, x>> \in Nat \X Nat
      BY <2>1
    <2>3. ~(y < x)
      BY <1>2, <1>3, <2>2
    <2> QED BY <2>1, <2>3
  <1> QED BY <1>4

\* The first of some places.
LEMMA MinIn ==
    ASSUME NEW S \in SUBSET Nat, S # {}
    PROVE  Min(S) \in S /\ \A y \in S : Min(S) <= y
  BY LeastNat DEF Min

\* The last of some places up to n.
LEMMA MaxIn ==
    ASSUME NEW n \in Nat, NEW S \in SUBSET (0..n), S # {}
    PROVE  Max(S) \in S /\ \A y \in S : Max(S) >= y
  <1> DEFINE T == {n - x : x \in S}
  <1>0. \A x \in S : x \in 0..n /\ n - x \in Nat
    OBVIOUS
  <1>1. T \in SUBSET Nat /\ T # {}
    BY <1>0
  <1>2. PICK t \in T : \A y \in T : t <= y
    <2> HIDE DEF T
    <2> QED BY <1>1, LeastNat
  <1>3. PICK x \in S : t = n - x
    BY <1>2
  <1>4. \A y \in S : x >= y
    <2> SUFFICES ASSUME NEW y \in S PROVE x >= y
      OBVIOUS
    <2>1. n - y \in T
      OBVIOUS
    <2>2. n - x <= n - y
      BY <1>2, <1>3, <2>1
    <2>3. x \in 0..n /\ y \in 0..n
      BY <1>0
    <2> HIDE DEF T
    <2> QED BY <2>2, <2>3
  <1> QED BY <1>4 DEF Max

\* A slice of a sequence.
LEMMA Slice ==
    ASSUME NEW S, NEW s \in Seq(S), NEW m \in 1..(Len(s) + 1), NEW n \in (m - 1)..Len(s)
    PROVE  /\ SubSeq(s, m, n) \in Seq(S)
           /\ Len(SubSeq(s, m, n)) = n - m + 1
           /\ \A i \in 1..(n - m + 1) : SubSeq(s, m, n)[i] = s[m + i - 1]
  <1>1. Len(s) \in Nat /\ \A i \in 1..Len(s) : s[i] \in S
    BY ElementOfSeq, LenProperties
  <1>2. m \in Int /\ n \in Int /\ \A i \in m..n : s[i] \in S
    BY <1>1
  <1>3. /\ SubSeq(s, m, n) \in Seq(S)
        /\ Len(SubSeq(s, m, n)) = IF m <= n THEN n - m + 1 ELSE 0
        /\ \A i \in 1..(n - m + 1) : SubSeq(s, m, n)[i] = s[m + i - 1]
    BY <1>2, SubSeqProperties
  <1>4. m <= n \/ n - m + 1 = 0
    BY <1>1
  <1>5. Len(SubSeq(s, m, n)) = n - m + 1
    BY <1>2, <1>3, <1>4
  <1> QED BY <1>3, <1>5

\* A slice that may be empty because its end lies before its begin.
LEMMA SliceType ==
    ASSUME NEW S, NEW s \in Seq(S), NEW m \in Int, NEW n \in Int, m >= 1, n <= Len(s)
    PROVE  SubSeq(s, m, n) \in Seq(S)
  <1>1. Len(s) \in Nat /\ \A i \in 1..Len(s) : s[i] \in S
    BY ElementOfSeq, LenProperties
  <1>2. \A i \in m..n : s[i] \in S
    BY <1>1
  <1> QED BY <1>2, SubSeqProperties

\* A sequence whose elements are in T is a sequence over T.
LEMMA SeqRetyped ==
    ASSUME NEW S, NEW T, NEW s \in Seq(S), \A i \in 1..Len(s) : s[i] \in T
    PROVE  s \in Seq(T)
  <1>1. PICK n \in Nat : n = Len(s) /\ s \in [1..n -> S]
    BY LenProperties
  <1>2. s \in [1..n -> T]
    BY <1>1
  <1>3. Seq(T) = UNION {[1..m -> T] : m \in Nat}
    BY SeqDef, Zenon
  <1> QED BY <1>2, <1>3, Zenon

\* A sequence with one more element.
LEMMA Appended ==
    ASSUME NEW S, NEW s \in Seq(S), NEW e \in S, NEW t, t = Append(s, e)
    PROVE  t \in Seq(S) /\ t # <<>>
  BY AppendProperties

\* A sequence without its last element.
LEMMA FrontType ==
    ASSUME NEW S, NEW s \in Seq(S)
    PROVE  Front(s) \in Seq(S)
  <1> DEFINE m == Len(s) - 1
  <1>1. Len(s) \in Nat
    BY LenProperties
  <1>2. m \in Int /\ m <= Len(s)
    BY <1>1
  <1>3. Front(s) = SubSeq(s, 1, m)
    BY DEF Front
  <1> HIDE DEF m
  <1> QED BY <1>2, <1>3, SliceType

-----------------------------------------------------------------------------
(* Loops that search *)

\* f is what a loop finds behind each place up to len, counted from the end: the
\* last k places.
Scans(match, len, k, f) ==
    f = [n \in (len - k)..len |->
            IF match[n].next = 0 THEN <<>> ELSE <<match[n].item>> \o f[match[n].next]]

\* Each match ends behind the place where the search began.
Forward(match, len, Items) ==
    \A n \in 0..len : match[n].next # 0 =>
        match[n].next \in (n + 1)..len /\ match[n].item \in Items

\* There is such a function, or there would be a shortest rest without one.
LEMMA ScansExist ==
    ASSUME NEW len \in Nat, NEW match, NEW Items, Forward(match, len, Items)
    PROVE  \E f : Scans(match, len, len, f)
  <1> DEFINE Bad == {k \in 0..len : ~\E f : Scans(match, len, k, f)}
  <1>0. len \in 0..len
    OBVIOUS
  <1>1. SUFFICES ASSUME Bad # {} PROVE FALSE
    <2>1. Bad = {} => len \notin Bad
      OBVIOUS
    <2> QED BY <1>0, <2>1
  <1>2. PICK k \in Bad : \A j \in Bad : k <= j
    <2>1. Bad \in SUBSET Nat
      OBVIOUS
    <2> HIDE DEF Bad
    <2> QED BY <1>1, <2>1, LeastNat
  <1>3. k \in 0..len /\ ~\E f : Scans(match, len, k, f)
    BY <1>2
  <1>4. k # 0
    <2>1. match[len].next = 0
      <3>1. len \in 0..len /\ \A x : x \notin (len + 1)..len
        OBVIOUS
      <3> QED BY <3>1 DEF Forward
    <2> DEFINE f == [n \in (len - 0)..len |-> <<>>]
    <2>2. \A n \in (len - 0)..len :
            f[n] = IF match[n].next = 0 THEN <<>> ELSE <<match[n].item>> \o f[match[n].next]
      BY <2>1
    <2>3. Scans(match, len, 0, f)
      BY <2>1 DEF Scans
    <2> QED BY <1>3, <2>3
  <1>5. k - 1 \in 0..len /\ k - 1 \notin Bad
    BY <1>2, <1>3, <1>4
  <1>6. PICK f : Scans(match, len, k - 1, f)
    BY <1>5
  <1> DEFINE b == len - k
             Value(n) == IF match[n].next = 0 THEN <<>> ELSE <<match[n].item>> \o f[match[n].next]
             g == [n \in (len - k)..len |-> IF n = b THEN Value(b) ELSE f[n]]
  <1>7. \A n \in (len - k)..len : match[n].next # 0 => match[n].next \in (len - (k - 1))..len
    <2>1. \A n \in (len - k)..len : n \in 0..len
      BY <1>3
    <2>2. \A n \in (len - k)..len : \A x \in (n + 1)..len : x \in (len - (k - 1))..len
      BY <1>3
    <2> QED BY <2>1, <2>2 DEF Forward
  <1>8. \A n \in (len - (k - 1))..len : f[n] = Value(n)
    BY <1>6 DEF Scans
  <1>9. \A n \in (len - (k - 1))..len : n \in (len - k)..len /\ n # b
    BY <1>3
  <1>10. \A n \in (len - (k - 1))..len : g[n] = f[n]
    BY <1>9
  <1>11. \A n \in (len - k)..len :
            g[n] = IF match[n].next = 0 THEN <<>> ELSE <<match[n].item>> \o g[match[n].next]
    <2> SUFFICES ASSUME NEW n \in (len - k)..len
                 PROVE  g[n] = IF match[n].next = 0 THEN <<>>
                               ELSE <<match[n].item>> \o g[match[n].next]
      OBVIOUS
    <2>1. g[n] = Value(n)
      <3>1. n = b \/ n \in (len - (k - 1))..len
        BY <1>3
      <3>2. b \in (len - k)..len
        BY <1>3
      <3> QED BY <1>8, <1>10, <3>1, <3>2
    <2>2. match[n].next # 0 => g[match[n].next] = f[match[n].next]
      BY <1>7, <1>10
    <2> HIDE DEF g
    <2> QED BY <2>1, <2>2
  <1>12. Scans(match, len, k, g)
    BY <1>11 DEF Scans
  <1> QED BY <1>3, <1>12

\* Whatever it is, it holds items that were found.
LEMMA ScansType ==
    ASSUME NEW len \in Nat, NEW match, NEW Items, Forward(match, len, Items),
           NEW f, Scans(match, len, len, f), NEW n \in 0..len
    PROVE  f[n] \in Seq(Items)
  <1> DEFINE Bad == {k \in 0..len : f[len - k] \notin Seq(Items)}
  <1>1. SUFFICES ASSUME Bad # {} PROVE FALSE
    <2>1. len - n \in 0..len /\ len - (len - n) = n
      OBVIOUS
    <2> QED BY <2>1
  <1>2. PICK k \in Bad : \A j \in Bad : k <= j
    <2>1. Bad \in SUBSET Nat
      OBVIOUS
    <2> HIDE DEF Bad
    <2> QED BY <1>1, <2>1, LeastNat
  <1>3. k \in 0..len /\ f[len - k] \notin Seq(Items)
    BY <1>2
  <1> DEFINE b == len - k
             next == match[b].next
  <1>4. b \in 0..len /\ b \in (len - len)..len
    BY <1>3
  <1>5. f[b] = IF next = 0 THEN <<>> ELSE <<match[b].item>> \o f[next]
    BY <1>4 DEF Scans
  <1>6. CASE next = 0
    BY <1>3, <1>5, <1>6
  <1>7. CASE next # 0
    <2>1. next \in (b + 1)..len /\ match[b].item \in Items
      BY <1>4, <1>7 DEF Forward
    <2>2. len - next \in 0..len /\ len - next < k /\ len - (len - next) = next
      BY <1>3, <1>4, <2>1
    <2>3. len - next \notin Bad
      BY <1>2, <1>3, <2>2
    <2>4. f[next] \in Seq(Items)
      BY <2>2, <2>3
    <2>5. <<match[b].item>> \in Seq(Items)
      BY <2>1
    <2>6. <<match[b].item>> \o f[next] \in Seq(Items)
      BY <2>4, <2>5, ConcatProperties
    <2> QED BY <1>3, <1>5, <1>7, <2>6
  <1> QED BY <1>6, <1>7

-----------------------------------------------------------------------------
(* Form values and cookies *)

Text == Seq(Tokens)
Pairs == [name : Text, value : Text]

\* The first place with a token, if there is one.
LEMMA FirstPlace ==
    ASSUME NEW Places, NEW n \in Nat, Places \subseteq 1..n, NEW place,
           place = IF Places # {} THEN Min(Places) ELSE 0
    PROVE  /\ place \in 0..n
           /\ place # 0 => place \in Places
           /\ place = 0 => Places = {}
  <1>1. Places \in SUBSET Nat
    OBVIOUS
  <1>2. Places # {} => Min(Places) \in Places
    BY <1>1, MinIn
  <1>3. Places # {} => place \in Places
    BY <1>2
  <1>4. \A p \in Places : p \in 1..n
    OBVIOUS
  <1>5. Places = {} => place = 0
    OBVIOUS
  <1>6. 0 \notin Places /\ 0 \in 0..n /\ \A p \in 1..n : p \in 0..n
    OBVIOUS
  <1> QED BY <1>3, <1>4, <1>5, <1>6

\* The last place with a token, if there is one.
LEMMA LastPlace ==
    ASSUME NEW Places, NEW n \in Nat, Places \subseteq 1..n, NEW place,
           place = IF Places # {} THEN Max(Places) ELSE 0
    PROVE  /\ place \in 0..n
           /\ place # 0 => place \in Places
  <1>1. Places \in SUBSET (0..n)
    OBVIOUS
  <1>2. Places # {} => Max(Places) \in Places
    BY <1>1, MaxIn
  <1>3. Places # {} => place \in Places
    BY <1>2
  <1>4. \A p \in Places : p \in 1..n
    OBVIOUS
  <1>5. Places = {} => place = 0
    OBVIOUS
  <1>6. 0 \notin Places /\ 0 \in 0..n /\ \A p \in 1..n : p \in 0..n
    OBVIOUS
  <1> QED BY <1>3, <1>4, <1>5, <1>6

\* A pair of a URI or a body is a name and a value taken from the text, and the
\* search goes on behind it.
LEMMA FormPairType ==
    ASSUME NEW s \in Text, NEW n \in 0..Len(s), NEW found, found = NextFormPair(s, n),
           found.next # 0
    PROVE  found.next \in (n + 1)..Len(s) /\ found.item \in Pairs
  <1> DEFINE Eqs   == {i \in (n + 1)..Len(s) : s[i] = "="}
             eq    == SelectInSubSeq(s, n + 1, Len(s), LAMBDA c : c = "=")
             Marks == {i \in (n + 1)..(eq - 1) : s[i] = "?"}
             mark  == SelectLastInSubSeq(s, n + 1, eq - 1, LAMBDA c : c = "?")
             Amps  == {i \in (eq + 1)..Len(s) : s[i] = "&"}
             amp   == SelectInSubSeq(s, eq + 1, Len(s), LAMBDA c : c = "&")
             end   == IF amp = 0 THEN Len(s) + 1 ELSE amp
             name  == SubSeq(s, 1 + (IF mark = 0 THEN n ELSE mark), eq - 1)
             value == SubSeq(s, eq + 1, end - 1)
  <1>0. Len(s) \in Nat
    BY LenProperties DEF Text
  <1>1. found = IF eq = 0 THEN NoMatch
                ELSE [item |-> [name |-> name, value |-> value],
                      next |-> IF amp = 0 THEN Len(s) ELSE amp]
    BY Zenon DEF NextFormPair
  <1>2. eq = IF Eqs # {} THEN Min(Eqs) ELSE 0
    BY Zenon DEF SelectInSubSeq
  <1>3. mark = IF Marks # {} THEN Max(Marks) ELSE 0
    BY Zenon DEF SelectLastInSubSeq
  <1>4. amp = IF Amps # {} THEN Min(Amps) ELSE 0
    BY Zenon DEF SelectInSubSeq
  <1> HIDE DEF eq, mark, amp, name, value
  <1>5. eq # 0
    BY <1>1 DEF NoMatch
  <1>6. eq \in (n + 1)..Len(s)
    <2>1. Eqs \subseteq 1..Len(s)
      BY <1>0
    <2>2. eq # 0 => eq \in Eqs
      <3> HIDE DEF Eqs
      <3> QED BY <1>0, <1>2, <2>1, FirstPlace
    <2> QED BY <1>5, <2>2
  <1>7. mark = 0 \/ mark \in (n + 1)..(eq - 1)
    <2>1. Marks \subseteq 1..Len(s)
      BY <1>0, <1>6
    <2>2. mark # 0 => mark \in Marks
      <3> HIDE DEF Marks
      <3> QED BY <1>0, <1>3, <2>1, LastPlace
    <2> QED BY <2>2
  <1>8. amp = 0 \/ amp \in (eq + 1)..Len(s)
    <2>1. Amps \subseteq 1..Len(s)
      BY <1>0, <1>6
    <2>2. amp # 0 => amp \in Amps
      <3> HIDE DEF Amps
      <3> QED BY <1>0, <1>4, <2>1, FirstPlace
    <2> QED BY <2>2
  <1>9. name \in Text
    <2>1. PICK m \in 1..eq : name = SubSeq(s, m, eq - 1)
      <3>1. 1 + (IF mark = 0 THEN n ELSE mark) \in 1..eq
        BY <1>0, <1>6, <1>7
      <3> QED BY <3>1 DEF name
    <2> QED BY <1>0, <1>6, <2>1, SliceType DEF Text
  <1>10. value \in Text
    <2>1. eq + 1 \in Int /\ end - 1 \in Int /\ eq + 1 >= 1 /\ end - 1 <= Len(s)
      BY <1>0, <1>6, <1>8
    <2> HIDE DEF end
    <2> QED BY <2>1, SliceType DEF Text, value
  <1>11. found.item = [name |-> name, value |-> value]
         /\ found.next = IF amp = 0 THEN Len(s) ELSE amp
    BY <1>1, <1>5
  <1>12. found.next \in (n + 1)..Len(s)
    BY <1>0, <1>6, <1>8, <1>11
  <1> QED BY <1>9, <1>10, <1>11, <1>12 DEF Pairs

\* So is a pair of a Cookie header.
LEMMA CookiePairType ==
    ASSUME NEW s \in Text, NEW n \in 0..Len(s), NEW found, found = NextCookiePair(s, n),
           found.next # 0
    PROVE  found.next \in (n + 1)..Len(s) /\ found.item \in Pairs
  <1> DEFINE eqs   == {i \in (n + 2)..(Len(s) - 1) :
                          s[i] = "=" /\ s[i - 1] # "=" /\ s[i + 1] # ";"}
             eq    == Min(eqs)
             Lasts == {i \in (n + 1)..(eq - 1) : s[i] = "="}
             last  == SelectLastInSubSeq(s, n + 1, eq - 1, LAMBDA c : c = "=")
             name  == SubSeq(s, 1 + (IF last = 0 THEN n ELSE last), eq - 1)
             Semis == {i \in (eq + 1)..Len(s) : s[i] = ";"}
             semi  == SelectInSubSeq(s, eq + 1, Len(s), LAMBDA c : c = ";")
             end   == IF semi = 0 THEN Len(s) + 1 ELSE semi
             Nexts == {i \in end..Len(s) : s[i] # ";"}
             next  == SelectInSubSeq(s, end, Len(s), LAMBDA c : c # ";")
             short == IF name[1] = " " /\ Len(name) > 1 THEN Tail(name) ELSE name
             value == SubSeq(s, eq + 1, end - 1)
  <1>0. Len(s) \in Nat
    BY LenProperties DEF Text
  <1>1. found = IF eqs = {} THEN NoMatch
                ELSE [item |-> [name |-> short, value |-> value],
                      next |-> IF next = 0 THEN Len(s) ELSE next - 1]
    BY Zenon DEF NextCookiePair
  <1>2. last = IF Lasts # {} THEN Max(Lasts) ELSE 0
    BY Zenon DEF SelectLastInSubSeq
  <1>3. semi = IF Semis # {} THEN Min(Semis) ELSE 0
    BY Zenon DEF SelectInSubSeq
  <1>4. next = IF Nexts # {} THEN Min(Nexts) ELSE 0
    BY Zenon DEF SelectInSubSeq
  <1> HIDE DEF eqs, eq, Lasts, last, name, Semis, semi, end, Nexts, next, short, value
  <1>5. eqs # {}
    BY <1>1 DEF NoMatch
  <1>6. \A i \in eqs : i \in (n + 2)..(Len(s) - 1)
    BY DEF eqs
  <1>7. eq \in (n + 2)..(Len(s) - 1)
    <2>1. eqs \in SUBSET Nat
      BY <1>0, <1>6
    <2> QED BY <1>5, <1>6, <2>1, MinIn DEF eq
  <1>8. last = 0 \/ last \in (n + 1)..(eq - 1)
    <2>1. \A i \in Lasts : i \in (n + 1)..(eq - 1)
      BY DEF Lasts
    <2>2. Lasts \subseteq 1..Len(s)
      BY <1>0, <1>7, <2>1
    <2> QED BY <1>0, <1>2, <2>1, <2>2, LastPlace
  <1>9. semi = 0 \/ (semi \in (eq + 1)..Len(s) /\ s[semi] = ";")
    <2>1. \A i \in Semis : i \in (eq + 1)..Len(s) /\ s[i] = ";"
      BY DEF Semis
    <2>2. Semis \subseteq 1..Len(s)
      <3>1. Semis \subseteq (eq + 1)..Len(s)
        BY <2>1
      <3> QED BY <1>0, <1>7, <3>1
    <2> QED BY <1>0, <1>3, <2>1, <2>2, FirstPlace
  <1>b. semi = 0 \/ semi \in (eq + 1)..Len(s)
    BY <1>9
  <1>a. end \in (eq + 1)..(Len(s) + 1) /\ (semi = 0 => end = Len(s) + 1) /\ (semi # 0 => end = semi)
    BY <1>0, <1>7, <1>b DEF end
  <1>10. next = 0 \/ (next \in end..Len(s) /\ s[next] # ";")
    <2>1. \A i \in Nexts : i \in end..Len(s) /\ s[i] # ";"
      BY DEF Nexts
    <2>2. Nexts \subseteq 1..Len(s)
      <3>1. Nexts \subseteq end..Len(s)
        BY <2>1
      <3> QED BY <1>0, <1>7, <1>a, <3>1
    <2> QED BY <1>0, <1>4, <2>1, <2>2, FirstPlace
  <1>11. name \in Text
    <2>1. PICK m \in 1..eq : name = SubSeq(s, m, eq - 1)
      <3>1. 1 + (IF last = 0 THEN n ELSE last) \in 1..eq
        BY <1>0, <1>7, <1>8
      <3> QED BY <3>1 DEF name
    <2> QED BY <1>0, <1>7, <2>1, SliceType DEF Text
  <1>12. short \in Text
    <2>1. Len(name) > 1 => name # <<>>
      OBVIOUS
    <2>2. name # <<>> => Tail(name) \in Text
      BY <1>11, HeadTailProperties DEF Text
    <2> QED BY <1>11, <2>1, <2>2 DEF short
  <1>13. value \in Text
    <2>1. eq + 1 \in Int /\ end - 1 \in Int /\ eq + 1 >= 1 /\ end - 1 <= Len(s)
      BY <1>0, <1>7, <1>a
    <2> QED BY <2>1, SliceType DEF Text, value
  <1>14. found.item = [name |-> short, value |-> value]
         /\ found.next = IF next = 0 THEN Len(s) ELSE next - 1
    BY <1>1, <1>5
  <1>15. found.next \in (n + 1)..Len(s)
    <2>1. CASE next = 0
      BY <1>0, <1>7, <1>14, <2>1
    <2>2. CASE next # 0
      <3>0. next \in end..Len(s)
        BY <1>10, <2>2
      <3>1. semi # 0
        BY <1>0, <1>a, <3>0
      <3>2. next \in semi..Len(s) /\ next # semi
        BY <1>9, <1>10, <1>a, <2>2, <3>0, <3>1
      <3>3. next - 1 \in (n + 1)..Len(s)
        BY <1>0, <1>7, <1>b, <3>1, <3>2
      <3> QED BY <1>14, <2>2, <3>3
    <2> QED BY <2>1, <2>2
  <1> QED BY <1>12, <1>13, <1>14, <1>15 DEF Pairs

\* A part of a multipart body gives a name and a value, or nothing.
LEMMA SubbodyType ==
    ASSUME NEW s \in Text
    PROVE  ParseSubbody(s) \in Pairs
  <1> DEFINE At == {i \in 0..(Len(s) - Len(<<"crlf", "crlf">>)) :
                        SubSeq(s, i + 1, i + Len(<<"crlf", "crlf">>)) = <<"crlf", "crlf">>}
             blank == Find(s, <<"crlf", "crlf">>, 0)
  <1>0. Len(s) \in Nat
    BY LenProperties DEF Text
  <1>1. <<>> \in Text
    BY DEF Text
  <1>2. blank > 0 => blank \in 1..Len(s)
    <2>1. blank = IF At = {} THEN -1 ELSE Min(At)
      BY Zenon DEF Find
    <2>2. At \in SUBSET (0..Len(s))
      BY <1>0
    <2>3. At # {} => Min(At) \in At
      <3> HIDE DEF At
      <3> QED BY <2>2, MinIn
    <2> HIDE DEF At, blank
    <2> QED BY <1>0, <2>1, <2>2, <2>3
  <1> HIDE DEF blank
  <1>3. blank > 0 => SubSeq(s, blank + 3, Len(s)) \in Text
    BY <1>0, <1>2, SliceType DEF Text
  <1>4. <<FieldName(s[1])>> \in Text
    <2>1. FieldName(s[1]) \in Tokens
      BY DEF FieldName, Tokens, Bytes, FieldNames
    <2> QED BY <2>1 DEF Text
  <1>5. ParseSubbody(s) = IF blank > 0 /\ s[1] \in Dispositions
                          THEN [name |-> <<FieldName(s[1])>>,
                                value |-> SubSeq(s, blank + 3, Len(s))]
                          ELSE [name |-> <<>>, value |-> <<>>]
    BY DEF ParseSubbody, blank
  <1> QED BY <1>1, <1>3, <1>4, <1>5 DEF Pairs

\* The next part of a multipart body lies behind the one before.
LEMMA NextSubbodyType ==
    ASSUME NEW s \in Text, NEW n \in 0..Len(s), NEW found, found = NextSubbody(s, n),
           found.next # 0
    PROVE  found.next \in (n + 1)..Len(s) /\ found.item \in Pairs
  <1> DEFINE pattern == <<"crlf">> \o Boundary
             At == {i \in n..(Len(s) - Len(pattern)) :
                        SubSeq(s, i + 1, i + Len(pattern)) = pattern}
             part == Find(s, pattern, n)
  <1>0. Len(s) \in Nat /\ Len(pattern) = 3 /\ Len(Boundary) = 2
    BY LenProperties DEF Text, Boundary
  <1>1. found = IF part = -1 THEN NoMatch
                ELSE [item |-> ParseSubbody(SubSeq(s, n + 1, part)),
                      next |-> part + Len(Boundary)]
    BY Zenon DEF NextSubbody
  <1>2. part = IF At = {} THEN -1 ELSE Min(At)
    BY Zenon DEF Find
  <1> HIDE DEF part, pattern
  <1>3. part # -1
    BY <1>1 DEF NoMatch
  <1>4. part \in n..(Len(s) - 3)
    <2>1. At \in SUBSET Nat /\ At \subseteq n..(Len(s) - 3)
      BY <1>0
    <2>2. At # {} => Min(At) \in At
      <3> HIDE DEF At
      <3> QED BY <2>1, MinIn
    <2> HIDE DEF At
    <2> QED BY <1>2, <1>3, <2>1, <2>2
  <1>5. found.item = ParseSubbody(SubSeq(s, n + 1, part)) /\ found.next = part + 2
    BY <1>0, <1>1, <1>3
  <1>6. SubSeq(s, n + 1, part) \in Text
    BY <1>0, <1>4, SliceType DEF Text
  <1>7. found.next \in (n + 1)..Len(s)
    BY <1>0, <1>4, <1>5
  <1> QED BY <1>5, <1>6, <1>7, SubbodyType

\* The pairs that a loop over a text finds are pairs of texts.
LEMMA FormPairsType ==
    ASSUME NEW s \in Text
    PROVE  FormPairs(s) \in Seq(Pairs)
  <1> DEFINE match == [n \in 0..Len(s) |-> NextFormPair(s, n)]
             from  == CHOOSE f : f = [n \in 0..Len(s) |->
                        IF NextFormPair(s, n).next = 0 THEN <<>>
                        ELSE <<NextFormPair(s, n).item>> \o f[NextFormPair(s, n).next]]
  <1>0. Len(s) \in Nat
    BY LenProperties DEF Text
  <1>1. FormPairs(s) = from[0]
    BY Zenon DEF FormPairs
  <1>2. Forward(match, Len(s), Pairs)
    BY FormPairType DEF Forward
  <1>3. \A f : Scans(match, Len(s), Len(s), f) <=>
               f = [n \in 0..Len(s) |->
                        IF NextFormPair(s, n).next = 0 THEN <<>>
                        ELSE <<NextFormPair(s, n).item>> \o f[NextFormPair(s, n).next]]
    <2>1. Len(s) - Len(s) = 0
      BY <1>0
    <2> QED BY <2>1 DEF Scans
  <1>4. \E f : Scans(match, Len(s), Len(s), f)
    <2> HIDE DEF match
    <2> QED BY <1>0, <1>2, ScansExist
  <1>5. Scans(match, Len(s), Len(s), from)
    <2> HIDE DEF match
    <2> QED BY <1>3, <1>4, Zenon
  <1> HIDE DEF match, from
  <1>6. 0 \in 0..Len(s)
    BY <1>0
  <1> QED BY <1>0, <1>1, <1>2, <1>5, <1>6, ScansType

\* Those of a Cookie header, too.
LEMMA CookiePairsType ==
    ASSUME NEW s \in Text
    PROVE  CookiePairs(s) \in Seq(Pairs)
  <1> DEFINE match == [n \in 0..Len(s) |-> NextCookiePair(s, n)]
             from  == CHOOSE f : f = [n \in 0..Len(s) |->
                        IF NextCookiePair(s, n).next = 0 THEN <<>>
                        ELSE <<NextCookiePair(s, n).item>> \o f[NextCookiePair(s, n).next]]
  <1>0. Len(s) \in Nat
    BY LenProperties DEF Text
  <1>1. CookiePairs(s) = from[0]
    BY Zenon DEF CookiePairs
  <1>2. Forward(match, Len(s), Pairs)
    BY CookiePairType DEF Forward
  <1>3. \A f : Scans(match, Len(s), Len(s), f) <=>
               f = [n \in 0..Len(s) |->
                        IF NextCookiePair(s, n).next = 0 THEN <<>>
                        ELSE <<NextCookiePair(s, n).item>> \o f[NextCookiePair(s, n).next]]
    <2>1. Len(s) - Len(s) = 0
      BY <1>0
    <2> QED BY <2>1 DEF Scans
  <1>4. \E f : Scans(match, Len(s), Len(s), f)
    <2> HIDE DEF match
    <2> QED BY <1>0, <1>2, ScansExist
  <1>5. Scans(match, Len(s), Len(s), from)
    <2> HIDE DEF match
    <2> QED BY <1>3, <1>4, Zenon
  <1> HIDE DEF match, from
  <1>6. 0 \in 0..Len(s)
    BY <1>0
  <1> QED BY <1>0, <1>1, <1>2, <1>5, <1>6, ScansType

\* And those of the parts of a multipart body that is long enough.
LEMMA SubbodiesType ==
    ASSUME NEW s \in Text, StartsAtBoundary(s)
    PROVE  Subbodies(s) \in Seq(Pairs)
  <1> DEFINE match == [n \in 0..Len(s) |-> NextSubbody(s, n)]
             from  == CHOOSE f : f = [n \in 0..Len(s) |->
                        IF NextSubbody(s, n).next = 0 THEN <<>>
                        ELSE <<NextSubbody(s, n).item>> \o f[NextSubbody(s, n).next]]
  <1>0. Len(s) \in Nat
    BY LenProperties DEF Text
  <1>1. Subbodies(s) = from[Len(Boundary) + 1]
    BY Zenon DEF Subbodies
  <1>2. Forward(match, Len(s), Pairs)
    BY NextSubbodyType DEF Forward
  <1>3. \A f : Scans(match, Len(s), Len(s), f) <=>
               f = [n \in 0..Len(s) |->
                        IF NextSubbody(s, n).next = 0 THEN <<>>
                        ELSE <<NextSubbody(s, n).item>> \o f[NextSubbody(s, n).next]]
    <2>1. Len(s) - Len(s) = 0
      BY <1>0
    <2> QED BY <2>1 DEF Scans
  <1>4. \E f : Scans(match, Len(s), Len(s), f)
    <2> HIDE DEF match
    <2> QED BY <1>0, <1>2, ScansExist
  <1>5. Scans(match, Len(s), Len(s), from)
    <2> HIDE DEF match
    <2> QED BY <1>3, <1>4, Zenon
  <1> HIDE DEF match, from
  <1>6. Len(Boundary) + 1 \in 0..Len(s)
    <2>1. Len(Boundary) = 2
      BY DEF Boundary
    <2>2. Len(s) > Len(Boundary)
      BY DEF StartsAtBoundary
    <2> QED BY <1>0, <2>1, <2>2
  <1> QED BY <1>0, <1>1, <1>2, <1>5, <1>6, ScansType

\* Storing pairs keeps a map of values.
LEMMA StoreType ==
    ASSUME NEW map \in Maps, NEW pairs \in Seq(Pairs)
    PROVE  Store(map, pairs) \in Maps
  <1>0. Len(pairs) \in Nat /\ DOMAIN pairs = 1..Len(pairs)
    BY LenProperties
  <1> SUFFICES ASSUME NEW name \in FieldNames
               PROVE  Store(map, pairs)[name] \in Seq(Text)
    BY DEF Store, Maps, Text
  <1> DEFINE hits == {i \in DOMAIN pairs : pairs[i].name = <<name>>}
  <1>1. Store(map, pairs)[name] = IF hits = {} THEN map[name] ELSE <<pairs[Max(hits)].value>>
    BY DEF Store
  <1>2. hits \in SUBSET (0..Len(pairs)) /\ hits \subseteq 1..Len(pairs)
    BY <1>0
  <1> HIDE DEF hits
  <1>3. CASE hits = {}
    BY <1>1, <1>3 DEF Maps, Text
  <1>4. CASE hits # {}
    <2>1. Max(hits) \in 1..Len(pairs)
      BY <1>0, <1>2, <1>4, MaxIn
    <2>2. pairs[Max(hits)] \in Pairs
      BY <2>1, ElementOfSeq
    <2>3. pairs[Max(hits)].value \in Text
      BY <2>2 DEF Pairs
    <2> QED BY <1>1, <1>4, <2>3
  <1> QED BY <1>3, <1>4

-----------------------------------------------------------------------------
(* The inductive invariant *)

Requests ==
    [state : States, version : {"", "1.0", "1.1"}, headers : [HeaderNames -> Seq(Seq(HeaderTexts))],
     lastHeader : HeaderNames \cup {""}, chunked : BOOLEAN, chunkLen : 0..20, body : Text,
     form : Maps, cookies : Maps]

\* Each item of a header's value begins with the text of a line of that header
\* and goes on with the lines that continue it.
TextsOf(name) == {HeaderValue(line) : line \in {l \in HeaderLines : HeaderName(l) = name}}
Items(name) ==
    {item \in Seq(HeaderTexts) :
        /\ Len(item) > 0 /\ item[1] \in TextsOf(name)
        /\ \A i \in 2..Len(item) : item[i] = Continuation}

\* What holds of a request between two passes of the loop of ParseData.
Sound(req) ==
    /\ req \in Requests
    /\ \A name \in HeaderNames : req.headers[name] \in Seq(Items(name))
    /\ req.lastHeader # "" => req.headers[req.lastHeader] # <<>>
    /\ req.state = "BODY" => req.chunked \/ req.headers["Content-Length"] # <<>>
    /\ req.state \in {"BODYCHUNK", "BODYTRAILER", "BODYTRAILER2"} => req.chunked
    /\ req.state \in {"REQUEST", "HEADERS"} => ~req.chunked
    /\ req.chunked \/ Len(req.body) <= MaxRequestSize

\* The buffer is the last part of what was received.
BufferInv ==
    result # "TOOBIG" =>
        /\ Len(m_sBuffer) <= received
        /\ m_sBuffer = SubSeq(input.stream, received - Len(m_sBuffer) + 1, received)

ParserInv ==
    /\ input \in Inputs
    /\ received \in 0..Len(input.stream)
    /\ m_sBuffer \in Text /\ Len(m_sBuffer) <= MaxRequestSize
    /\ Sound(request)
    /\ phase \in {"wait", "parse", "return"}
    /\ requests \in Seq([body : Text, form : Maps, cookies : Maps])
    /\ result \in {"OK", "INVALIDREQUEST", "TOOBIG"}
    /\ phase # "wait" => result = "OK"
    /\ BufferInv

\* A request with another state is a request.
LEMMA StateChanged ==
    ASSUME NEW q, Sound(q), NEW s \in {"COMPLETEREQUEST", "INVALIDREQUEST"}
    PROVE  Sound([q EXCEPT !.state = s])
  <1>1. q \in Requests
    BY DEF Sound
  <1> DEFINE r == [q EXCEPT !.state = s]
  <1>2. r \in Requests
    BY <1>1 DEF Requests, States
  <1>3. /\ r.state = s /\ r.headers = q.headers /\ r.lastHeader = q.lastHeader
        /\ r.chunked = q.chunked /\ r.body = q.body
    BY <1>1 DEF Requests
  <1> HIDE DEF r
  <1> QED BY <1>2, <1>3, Zenon DEF Sound, r

\* A request with the headers of a sound one is sound, if its body is delimited.
LEMMA SoundAgain ==
    ASSUME NEW q, Sound(q), NEW r \in Requests,
           r.headers = q.headers, r.lastHeader = q.lastHeader,
           r.state = "BODY" => r.chunked \/ r.headers["Content-Length"] # <<>>,
           r.state \in {"BODYCHUNK", "BODYTRAILER", "BODYTRAILER2"} => r.chunked,
           r.state \in {"REQUEST", "HEADERS"} => ~r.chunked,
           r.chunked \/ Len(r.body) <= MaxRequestSize
    PROVE  Sound(r)
  BY Zenon DEF Sound

\* The lines of a Content-Length header hold numbers.
LEMMA LengthTexts ==
    ASSUME NEW line \in HeaderLines, HeaderName(line) = "Content-Length"
    PROVE  HeaderValue(line) \in {"0", "1", "2", "3", "7", "12", "20"}
  BY DEF HeaderLines, HeaderName, HeaderValue

\* Every number is small.
LEMMA NumberType ==
    ASSUME NEW text \in {"0", "1", "2", "3", "7", "12", "20"}
    PROVE  Number(text) \in 0..20
  BY DEF Number

\* The headers that the parser asks for are headers that lines have.
LEMMA NamesKnown ==
    {"Content-Length", "Cookie", "Content-Type", "Host", "Connection", "Upgrade",
     "Transfer-Encoding"} \subseteq HeaderNames
  <1>1. /\ HeaderName("Content-Length: 0") = "Content-Length"
        /\ HeaderName("Cookie: u=y") = "Cookie"
        /\ HeaderName("Content-Type: multipart") = "Content-Type"
        /\ HeaderName("Host: h") = "Host"
        /\ HeaderName("Connection: Upgrade") = "Connection"
        /\ HeaderName("Upgrade: websocket") = "Upgrade"
        /\ HeaderName("Transfer-Encoding: chunked") = "Transfer-Encoding"
    BY DEF HeaderName
  <1>2. {"Content-Length: 0", "Cookie: u=y", "Content-Type: multipart", "Host: h",
         "Connection: Upgrade", "Upgrade: websocket", "Transfer-Encoding: chunked"}
            \subseteq HeaderLines
    BY DEF HeaderLines
  <1> QED BY <1>1, <1>2 DEF HeaderNames

\* The last item of a header that was sent.
LEMMA LastItem ==
    ASSUME NEW q, Sound(q), NEW name \in HeaderNames, q.headers[name] # <<>>
    PROVE  /\ Last(q.headers[name]) \in Items(name)
           /\ Front(q.headers[name]) \in Seq(Items(name))
  <1> DEFINE h == q.headers[name]
  <1>1. h \in Seq(Items(name)) /\ h # <<>>
    BY DEF Sound
  <1> HIDE DEF h
  <1>2. Len(h) \in Nat /\ Len(h) # 0
    BY <1>1, EmptySeq, LenProperties
  <1>3. Last(h) \in Items(name)
    <2>1. Len(h) \in 1..Len(h)
      BY <1>2
    <2> QED BY <1>1, <2>1, ElementOfSeq DEF Last
  <1>4. Front(h) \in Seq(Items(name))
    BY <1>1, <1>2, SliceType DEF Front
  <1> QED BY <1>3, <1>4 DEF h

\* Characters of a URI and of a cookie.
LEMMA UriType ==
    ASSUME NEW line
    PROVE  Uri(line) \in Text
  <1>1. {"/", "?", "u", "=", "y", "&", "v", "z"} \subseteq Tokens
    BY DEF Tokens, Bytes, FieldNames
  <1>2. /\ <<"/", "?", "u", "=", "y">> \in Text
        /\ <<"/", "?", "u", "=", "&", "v", "=", "y", "=", "?", "z">> \in Text
        /\ <<"/">> \in Text
    BY <1>1 DEF Text
  <1>3. \/ Uri(line) = <<"/", "?", "u", "=", "y">>
        \/ Uri(line) = <<"/", "?", "u", "=", "&", "v", "=", "y", "=", "?", "z">>
        \/ Uri(line) = <<"/">>
    BY DEF Uri
  <1> QED BY <1>2, <1>3

\* The text of a cookie with the lines that continue it.
LEMMA CookieTextType ==
    ASSUME NEW value \in Items("Cookie")
    PROVE  CookieText(value) \in Text
  <1>1. /\ value \in Seq(HeaderTexts) /\ Len(value) > 0
        /\ \A i \in 2..Len(value) : value[i] = Continuation
    BY DEF Items
  <1>2. value # <<>> /\ Len(value) \in Nat
    BY <1>1, LenProperties
  <1>3. /\ Tail(value) \in Seq(HeaderTexts) /\ Len(Tail(value)) = Len(value) - 1
        /\ \A i \in 1..Len(Tail(value)) : Tail(value)[i] = value[i + 1]
    BY <1>1, <1>2, HeadTailProperties
  <1>4. \A i \in 1..Len(Tail(value)) : Tail(value)[i] \in Tokens
    <2>1. \A i \in 1..Len(Tail(value)) : i + 1 \in 2..Len(value)
      BY <1>2, <1>3
    <2>2. Continuation \in Tokens
      BY DEF Tokens
    <2> QED BY <1>1, <1>3, <2>1, <2>2
  <1>5. Tail(value) \in Text
    <2>1. PICK s : s = Tail(value)
      OBVIOUS
    <2>2. s \in Seq(HeaderTexts) /\ \A i \in 1..Len(s) : s[i] \in Tokens
      BY <1>3, <1>4, <2>1
    <2>3. s \in Seq(Tokens)
      <3> DEFINE S == HeaderTexts
                 T == Tokens
      <3> HIDE DEF S, T
      <3>1. s \in Seq(S) /\ \A i \in 1..Len(s) : s[i] \in T
        BY <2>2 DEF S, T
      <3>2. s \in Seq(T)
        BY <3>1, SeqRetyped
      <3> QED BY <3>2 DEF T
    <2> QED BY <2>1, <2>3 DEF Text
  <1>6. {";", " ", "u", "=", "y", "v", "z"} \subseteq Tokens
    BY DEF Tokens, Bytes, FieldNames
  <1>7. /\ <<"u", "=", "y">> \in Text
        /\ <<"u", "=", "y", ";", ";", " ", "v", "=", "z", "=", "y">> \in Text
    <2>1. \A a, b, c, d, e, f, g \in Tokens :
            <<a, b, c>> \in Seq(Tokens) /\ <<a, b, c, d, d, e, f, b, g, b, c>> \in Seq(Tokens)
      OBVIOUS
    <2>2. /\ ";" \in Tokens /\ " " \in Tokens /\ "u" \in Tokens /\ "=" \in Tokens
          /\ "y" \in Tokens /\ "v" \in Tokens /\ "z" \in Tokens
      BY <1>6, Zenon
    <2> QED BY <2>1, <2>2, Zenon DEF Text
  <1>8. PICK first \in Text : CookieText(value) = first \o Tail(value)
    BY <1>7, Zenon DEF CookieText
  <1> QED BY <1>5, <1>8, ConcatProperties DEF Text

-----------------------------------------------------------------------------
(* The requests that the passes of the loop leave *)

\* After the request line.
LEMMA LineSound ==
    ASSUME NEW q, Sound(q), q.state = "REQUEST", NEW line \in RequestLines
    PROVE  Sound([q EXCEPT !.state = "HEADERS", !.version = Version(line),
                           !.form = GetFormDataFromString(@, Uri(line))])
  <1>1. q \in Requests
    BY DEF Sound
  <1>2. GetFormDataFromString(q.form, Uri(line)) \in Maps
    <2>1. q.form \in Maps
      BY <1>1 DEF Requests
    <2> QED BY <2>1, UriType, FormPairsType, StoreType DEF GetFormDataFromString
  <1>3. Version(line) \in {"", "1.0", "1.1"}
    BY DEF Version
  <1> DEFINE f == GetFormDataFromString(q.form, Uri(line))
             v == Version(line)
             r == [q EXCEPT !.state = "HEADERS", !.version = v, !.form = f]
  <1> HIDE DEF f, v
  <1>4. r \in Requests
    BY <1>1, <1>2, <1>3 DEF Requests, States, f, v
  <1>5. /\ r.state = "HEADERS" /\ r.headers = q.headers /\ r.lastHeader = q.lastHeader
        /\ r.chunked = q.chunked /\ r.body = q.body
    BY <1>1 DEF Requests
  <1> HIDE DEF r
  <1>6. Sound(r)
    BY <1>4, <1>5, Zenon DEF Sound
  <1> QED BY <1>6 DEF r, f, v

\* After the blank line behind the headers.
LEMMA HeadersSound ==
    ASSUME Sound(request), request.state = "HEADERS"
    PROVE  Sound(AfterHeaders)
  <1> DEFINE websocket == /\ MultivalHeaderContains("Connection", "upgrade")
                          /\ MultivalHeaderContains("Upgrade", "websocket")
             chunked == MultivalHeaderContains("Transfer-Encoding", "chunked")
             cookies == IF HasHeader("Cookie")
                        THEN ParseCookieData(request.cookies,
                                             CookieText(Last(request.headers["Cookie"])))
                        ELSE request.cookies
             req == [request EXCEPT !.cookies = cookies]
  <1>1. request \in Requests
    BY DEF Sound
  <1>2. cookies \in Maps
    <2>1. request.cookies \in Maps
      BY <1>1 DEF Requests
    <2>2. ASSUME HasHeader("Cookie")
          PROVE  ParseCookieData(request.cookies, CookieText(Last(request.headers["Cookie"])))
                    \in Maps
      <3>1. Last(request.headers["Cookie"]) \in Items("Cookie")
        BY <2>2, LastItem, NamesKnown DEF HasHeader
      <3> QED BY <2>1, <3>1, CookieTextType, CookiePairsType, StoreType DEF ParseCookieData
    <2> QED BY <2>1, <2>2
  <1>3. chunked \in BOOLEAN
    BY DEF MultivalHeaderContains, Contains
  <1>4. AfterHeaders = IF request.version = "1.1" /\ ~HasHeader("Host") THEN Invalid
                       ELSE IF ~websocket /\ (chunked \/ HasHeader("Content-Length"))
                       THEN [req EXCEPT !.state = "BODY", !.chunked = chunked]
                       ELSE [req EXCEPT !.state = "COMPLETEREQUEST"]
    BY Zenon DEF AfterHeaders
  <1> HIDE DEF websocket, chunked, cookies
  <1>5. Sound(Invalid)
    BY StateChanged DEF Invalid
  <1>6. /\ req \in Requests /\ req.headers = request.headers
        /\ req.lastHeader = request.lastHeader /\ req.chunked = request.chunked
        /\ req.body = request.body /\ req.state = request.state
    BY <1>1, <1>2 DEF Requests
  <1> HIDE DEF req
  <1>7. Sound(req)
    BY <1>6, Zenon DEF Sound
  <1>8. Sound([req EXCEPT !.state = "COMPLETEREQUEST"])
    BY <1>7, StateChanged
  <1>9. ASSUME chunked \/ HasHeader("Content-Length")
        PROVE  Sound([req EXCEPT !.state = "BODY", !.chunked = chunked])
    <2> DEFINE r == [req EXCEPT !.state = "BODY", !.chunked = chunked]
    <2>1. r \in Requests
      BY <1>3, <1>6 DEF Requests, States
    <2>2. /\ r.state = "BODY" /\ r.headers = req.headers /\ r.lastHeader = req.lastHeader
          /\ r.chunked = chunked /\ r.body = req.body
      BY <1>6 DEF Requests
    <2> HIDE DEF r
    <2>3. r.chunked \/ r.headers["Content-Length"] # <<>>
      BY <1>6, <1>9, <2>2, Zenon DEF HasHeader
    <2>4. Len(r.body) <= MaxRequestSize
      BY <1>6, <2>2, Zenon DEF Sound
    <2> QED BY <1>7, <2>1, <2>2, <2>3, <2>4, Zenon DEF Sound, r
  <1> QED BY <1>4, <1>5, <1>8, <1>9

\* After a header line.
LEMMA HeaderSound ==
    ASSUME NEW q, Sound(q), NEW line \in HeaderLines
    PROVE  Sound([q EXCEPT !.headers[HeaderName(line)] = Append(@, <<HeaderValue(line)>>),
                           !.lastHeader = HeaderName(line)])
  <1> DEFINE n == HeaderName(line)
             h == [q.headers EXCEPT ![n] = Append(@, <<HeaderValue(line)>>)]
             r == [q EXCEPT !.headers = h, !.lastHeader = n]
  <1>1. q \in Requests /\ q.headers \in [HeaderNames -> Seq(Seq(HeaderTexts))]
    BY DEF Sound, Requests
  <1>2. n \in HeaderNames /\ HeaderValue(line) \in TextsOf(n) /\ HeaderValue(line) \in HeaderTexts
    BY DEF HeaderNames, TextsOf, HeaderTexts
  <1>3. <<HeaderValue(line)>> \in Items(n) /\ <<HeaderValue(line)>> \in Seq(HeaderTexts)
    <2> DEFINE v == HeaderValue(line)
    <2>1. <<v>> \in Seq(HeaderTexts) /\ Len(<<v>>) = 1 /\ <<v>>[1] = v
      BY <1>2
    <2>2. \A i \in 2..1 : FALSE
      OBVIOUS
    <2> HIDE DEF v, n
    <2> QED BY <1>2, <2>1, <2>2 DEF Items, v
  <1> DEFINE item == <<HeaderValue(line)>>
  <1> HIDE DEF item
  <1>4. /\ q.headers[n] \in Seq(Items(n)) /\ q.headers[n] \in Seq(Seq(HeaderTexts))
        /\ item \in Items(n) /\ item \in Seq(HeaderTexts)
    BY <1>1, <1>2, <1>3 DEF Sound, item
  <1>5. /\ Append(q.headers[n], item) \in Seq(Items(n))
        /\ Append(q.headers[n], item) \in Seq(Seq(HeaderTexts))
        /\ Append(q.headers[n], item) # <<>>
    <2> DEFINE s == q.headers[n]
               t == Append(s, item)
               S == Items(n)
               T == Seq(HeaderTexts)
    <2>1. s \in Seq(S) /\ s \in Seq(T) /\ item \in S /\ item \in T
      BY <1>4
    <2> HIDE DEF s, t, S, T
    <2>2. t \in Seq(S) /\ t # <<>> /\ t \in Seq(T)
      BY <2>1, Appended DEF t
    <2> QED BY <2>2 DEF s, t, S, T
  <1> HIDE DEF n
  <1>6. /\ h \in [HeaderNames -> Seq(Seq(HeaderTexts))]
        /\ h[n] = Append(q.headers[n], item)
        /\ \A name \in HeaderNames \ {n} : h[name] = q.headers[name]
    BY <1>1, <1>2, <1>5 DEF item
  <1> HIDE DEF h
  <1>7. r \in Requests
    BY <1>1, <1>2, <1>6 DEF Requests
  <1>8. /\ r.headers = h /\ r.lastHeader = n /\ r.state = q.state
        /\ r.chunked = q.chunked /\ r.body = q.body
    BY <1>1 DEF Requests
  <1> HIDE DEF r
  <1>9. \A name \in HeaderNames : r.headers[name] \in Seq(Items(name))
    BY <1>5, <1>6, <1>8 DEF Sound
  <1>10. r.lastHeader # "" => r.headers[r.lastHeader] # <<>>
    BY <1>5, <1>6, <1>8
  <1>11. r.state = "BODY" => r.chunked \/ r.headers["Content-Length"] # <<>>
    <2>1. r.headers["Content-Length"] # <<>> \/ q.headers["Content-Length"] = <<>>
      BY <1>5, <1>6, <1>8, NamesKnown
    <2> QED BY <1>8, <2>1, Zenon DEF Sound
  <1>12. Sound(r)
    BY <1>7, <1>8, <1>9, <1>10, <1>11, Zenon DEF Sound
  <1>13. r = [q EXCEPT !.headers[HeaderName(line)] = Append(@, <<HeaderValue(line)>>),
                       !.lastHeader = HeaderName(line)]
    BY <1>1 DEF r, h, n
  <1> QED BY <1>12, <1>13

\* An item with one more line that continues it.
LEMMA ItemContinued ==
    ASSUME NEW n, NEW last \in Items(n), NEW item, item = Append(last, Continuation)
    PROVE  item \in Items(n) /\ item \in Seq(HeaderTexts)
  <1>1. /\ last \in Seq(HeaderTexts) /\ Len(last) > 0 /\ last[1] \in TextsOf(n)
        /\ \A i \in 2..Len(last) : last[i] = Continuation
    BY DEF Items
  <1>2. Continuation \in HeaderTexts
    BY DEF HeaderTexts
  <1>3. PICK k \in Nat : k = Len(last)
    BY <1>1, LenProperties
  <1>4. /\ item \in Seq(HeaderTexts) /\ Len(item) = k + 1
        /\ \A i \in 1..k : item[i] = last[i]
        /\ item[k + 1] = Continuation
    <2> DEFINE T == HeaderTexts
               e == Continuation
    <2> HIDE DEF T, e
    <2>1. last \in Seq(T) /\ e \in T
      BY <1>1, <1>2 DEF T, e
    <2>2. PICK u : u = Append(last, e)
      OBVIOUS
    <2>3. /\ u \in Seq(T) /\ Len(u) = k + 1
          /\ \A i \in 1..k : u[i] = last[i]
          /\ u[k + 1] = e
      BY <1>3, <2>1, <2>2, AppendProperties
    <2>4. u = item
      BY <2>2 DEF e
    <2> QED BY <2>3, <2>4 DEF T, e
  <1>5. item[1] \in TextsOf(n) /\ Len(item) > 0
    <2>1. k > 0
      BY <1>1, <1>3
    <2>2. 1 \in 1..k /\ k + 1 > 0
      BY <2>1
    <2> QED BY <1>1, <1>4, <2>2
  <1>6. \A i \in 2..Len(item) : item[i] = Continuation
    <2>1. \A i \in 2..(k + 1) : i = k + 1 \/ (i \in 2..k /\ i \in 1..k)
      OBVIOUS
    <2>2. \A i \in 2..k : last[i] = Continuation
      BY <1>1, <1>3, Zenon
    <2> QED BY <1>4, <2>1, <2>2, Zenon
  <1> QED BY <1>4, <1>5, <1>6 DEF Items

\* After a line that continues the last header.
LEMMA ContinuedSound ==
    ASSUME NEW q, Sound(q), q.lastHeader # ""
    PROVE  Sound([q EXCEPT !.headers[q.lastHeader] =
                                Append(Front(@), Append(Last(@), Continuation))])
  <1> DEFINE n == q.lastHeader
             last == Last(q.headers[n])
             item == Append(last, Continuation)
             h == [q.headers EXCEPT ![n] = Append(Front(@), Append(Last(@), Continuation))]
             r == [q EXCEPT !.headers = h]
  <1>1. /\ q \in Requests /\ q.headers \in [HeaderNames -> Seq(Seq(HeaderTexts))]
        /\ n \in HeaderNames /\ q.headers[n] # <<>>
    BY DEF Sound, Requests
  <1>2. last \in Items(n) /\ Front(q.headers[n]) \in Seq(Items(n))
    BY <1>1, LastItem
  <1> HIDE DEF n, last
  <1>3. item \in Items(n) /\ item \in Seq(HeaderTexts)
    BY <1>2, ItemContinued
  <1> DEFINE value == Append(Front(q.headers[n]), item)
  <1>4. value \in Seq(Items(n)) /\ value # <<>> /\ value \in Seq(Seq(HeaderTexts))
    <2>1. Front(q.headers[n]) \in Seq(Seq(HeaderTexts))
      BY <1>1, FrontType
    <2> DEFINE s == Front(q.headers[n])
               S == Items(n)
               T == Seq(HeaderTexts)
    <2>2. s \in Seq(S) /\ s \in Seq(T) /\ item \in S /\ item \in T
      BY <1>2, <1>3, <2>1
    <2> HIDE DEF item, s, S, T
    <2>3. value \in Seq(S) /\ value # <<>> /\ value \in Seq(T)
      BY <2>2, Appended DEF s
    <2> QED BY <2>3 DEF S, T
  <1>5. /\ h \in [HeaderNames -> Seq(Seq(HeaderTexts))]
        /\ h[n] = value
        /\ \A name \in HeaderNames \ {n} : h[name] = q.headers[name]
    BY <1>1, <1>4 DEF last
  <1> HIDE DEF h, value, item
  <1>6. r \in Requests
    BY <1>1, <1>5 DEF Requests
  <1>7. /\ r.headers = h /\ r.lastHeader = n /\ r.state = q.state
        /\ r.chunked = q.chunked /\ r.body = q.body
    BY <1>1 DEF Requests, n
  <1> HIDE DEF r
  <1>8. \A name \in HeaderNames : r.headers[name] \in Seq(Items(name))
    BY <1>4, <1>5, <1>7 DEF Sound
  <1>9. r.lastHeader # "" => r.headers[r.lastHeader] # <<>>
    BY <1>4, <1>5, <1>7
  <1>10. r.state = "BODY" => r.chunked \/ r.headers["Content-Length"] # <<>>
    <2>1. r.headers["Content-Length"] # <<>> \/ q.headers["Content-Length"] = <<>>
      BY <1>4, <1>5, <1>7, NamesKnown
    <2> QED BY <1>7, <2>1, Zenon DEF Sound
  <1>11. Sound(r)
    BY <1>6, <1>7, <1>8, <1>9, <1>10, Zenon DEF Sound
  <1>12. r = [q EXCEPT !.headers[q.lastHeader] =
                    Append(Front(@), Append(Last(@), Continuation))]
    BY <1>1 DEF r, h, n
  <1> QED BY <1>11, <1>12


\* After the last byte of the body.
LEMMA CompleteSound ==
    ASSUME Sound(request), NEW body \in Text, request.chunked \/ Len(body) <= MaxRequestSize
    PROVE  /\ Sound(Complete(body))
           /\ Complete(body).state \in {"COMPLETEREQUEST", "INVALIDREQUEST"}
  <1> DEFINE req == [request EXCEPT !.state = "COMPLETEREQUEST", !.body = body]
             type == request.headers["Content-Type"]
  <1>1. request \in Requests
    BY DEF Sound
  <1>2. /\ req \in Requests /\ req.state = "COMPLETEREQUEST" /\ req.headers = request.headers
        /\ req.lastHeader = request.lastHeader /\ req.chunked = request.chunked
        /\ req.body = body /\ req.form \in Maps
    BY <1>1 DEF Requests, States
  <1>3. Complete(body) =
            IF ~HasHeader("Content-Type") THEN [req EXCEPT !.form = GetFormDataFromString(@, body)]
            ELSE IF Last(type) = <<"multipart; boundary">> /\ StartsAtBoundary(body)
            THEN [req EXCEPT !.form = ParseMultipartFormData(@, body)]
            ELSE [req EXCEPT !.state = "INVALIDREQUEST"]
    BY Zenon DEF Complete
  <1> HIDE DEF req, type
  <1>4. Sound(req)
    BY <1>2, Zenon DEF Sound
  <1>5. \A f \in Maps : Sound([req EXCEPT !.form = f])
                            /\ [req EXCEPT !.form = f].state = "COMPLETEREQUEST"
    <2> SUFFICES ASSUME NEW f \in Maps
                 PROVE  Sound([req EXCEPT !.form = f])
                            /\ [req EXCEPT !.form = f].state = "COMPLETEREQUEST"
      OBVIOUS
    <2> DEFINE r == [req EXCEPT !.form = f]
    <2>1. /\ r \in Requests /\ r.state = "COMPLETEREQUEST" /\ r.headers = req.headers
          /\ r.lastHeader = req.lastHeader /\ r.chunked = req.chunked /\ r.body = req.body
      BY <1>2 DEF Requests
    <2> HIDE DEF r
    <2>2. Sound(r)
      BY <1>2, <1>4, <2>1, Zenon DEF Sound
    <2> QED BY <2>1, <2>2 DEF r
  <1>6. GetFormDataFromString(req.form, body) \in Maps
    BY <1>2, FormPairsType, StoreType DEF GetFormDataFromString
  <1>7. StartsAtBoundary(body) => ParseMultipartFormData(req.form, body) \in Maps
    BY <1>2, SubbodiesType, StoreType DEF ParseMultipartFormData
  <1>8. /\ Sound([req EXCEPT !.state = "INVALIDREQUEST"])
        /\ [req EXCEPT !.state = "INVALIDREQUEST"].state = "INVALIDREQUEST"
    <2>1. Sound([req EXCEPT !.state = "INVALIDREQUEST"])
      BY <1>4, StateChanged
    <2>2. [req EXCEPT !.state = "INVALIDREQUEST"].state = "INVALIDREQUEST"
      BY <1>2 DEF Requests
    <2> QED BY <2>1, <2>2
  <1>9. CASE ~HasHeader("Content-Type")
    BY <1>3, <1>5, <1>6, <1>9, Zenon
  <1>10. CASE /\ HasHeader("Content-Type")
              /\ Last(type) = <<"multipart; boundary">> /\ StartsAtBoundary(body)
    BY <1>3, <1>5, <1>7, <1>10, Zenon
  <1>11. CASE /\ HasHeader("Content-Type")
              /\ ~(Last(type) = <<"multipart; boundary">> /\ StartsAtBoundary(body))
    BY <1>3, <1>8, <1>11, Zenon
  <1> QED BY <1>9, <1>10, <1>11, Zenon

\* The states of a chunked body follow one another; its length is counted down
\* and its bytes are appended.
LEMMA ChunkedSound ==
    ASSUME NEW q, Sound(q), q.chunked, NEW r \in Requests,
           r.headers = q.headers, r.lastHeader = q.lastHeader, r.chunked = q.chunked,
           r.state \in {"BODY", "BODYCHUNK", "BODYTRAILER", "BODYTRAILER2"}
    PROVE  Sound(r)
  <1>1. r.state \notin {"REQUEST", "HEADERS"}
    OBVIOUS
  <1> QED BY <1>1, SoundAgain, Zenon

\* A new request.
LEMMA NewSound == Sound(NewRequest)
  <1>1. <<>> \in Seq(Seq(HeaderTexts)) /\ <<>> \in Text /\ \A name : <<>> \in Seq(Items(name))
    BY DEF Text
  <1>2. NoForm \in Maps
    <2>1. <<>> \in Seq(Seq(Tokens))
      OBVIOUS
    <2> QED BY <2>1 DEF NoForm, Maps
  <1> DEFINE h == [name \in HeaderNames |-> <<>>]
  <1>3. h \in [HeaderNames -> Seq(Seq(HeaderTexts))] /\ \A name \in HeaderNames : h[name] = <<>>
    BY <1>1
  <1> HIDE DEF h
  <1>4. NewRequest = [state |-> "REQUEST", version |-> "", headers |-> h, lastHeader |-> "",
                      chunked |-> FALSE, chunkLen |-> 0, body |-> <<>>, form |-> NoForm,
                      cookies |-> NoForm]
    BY Zenon DEF NewRequest, h
  <1>5. NewRequest \in Requests
    <2>1. 0 \in 0..20 /\ "REQUEST" \in States
      BY DEF States
    <2> QED BY <1>1, <1>2, <1>3, <1>4, <2>1 DEF Requests
  <1>6. /\ NewRequest.state = "REQUEST" /\ NewRequest.headers = h /\ NewRequest.lastHeader = ""
        /\ NewRequest.chunked = FALSE /\ NewRequest.body = <<>>
    BY <1>4
  <1>7. \A name \in HeaderNames : NewRequest.headers[name] \in Seq(Items(name))
    BY <1>1, <1>3, <1>6, Zenon
  <1>8. Len(<<>>) <= MaxRequestSize
    BY SizeAssumption
  <1>9. Len(NewRequest.body) <= MaxRequestSize
    BY <1>6, <1>8, Zenon
  <1> QED BY <1>5, <1>6, <1>7, <1>9 DEF Sound

-----------------------------------------------------------------------------
(* The buffer *)

\* t is the slice of s from m to n, of length len.
IsSlice(t, s, m, n, len) ==
    t = SubSeq(s, m, n) /\ Len(t) = len /\ \A i \in 1..len : t[i] = s[m + i - 1]

\* There is such a slice.
LEMMA SliceOf ==
    ASSUME NEW S, NEW s \in Seq(S), NEW m \in 1..(Len(s) + 1), NEW n \in (m - 1)..Len(s),
           NEW len, len = n - m + 1
    PROVE  \E t \in Seq(S) : IsSlice(t, s, m, n, len)
  <1> DEFINE t == SubSeq(s, m, n)
  <1>1. t \in Seq(S) /\ Len(t) = len /\ \A i \in 1..len : t[i] = s[m + i - 1]
    BY Slice
  <1>2. IsSlice(t, s, m, n, len)
    BY <1>1, Zenon DEF IsSlice
  <1> QED BY <1>1, <1>2, Zenon

\* The end of a part of the data is the end of a shorter part.
LEMMA Suffix ==
    ASSUME NEW S, NEW s \in Seq(S), NEW b \in 0..Len(s), NEW l \in 0..b, NEW k \in 0..l
    PROVE  SubSeq(SubSeq(s, b - l + 1, b), k + 1, l) = SubSeq(s, b - (l - k) + 1, b)
  <1>0. Len(s) \in Nat
    BY LenProperties
  <1>1. PICK m \in 1..(Len(s) + 1) : m = b - l + 1 /\ b \in (m - 1)..Len(s) /\ l = b - m + 1
    BY <1>0
  <1>2. PICK d \in 0..l : d = l - k
    OBVIOUS
  <1>3. PICK n \in 1..(Len(s) + 1) : n = b - d + 1 /\ b \in (n - 1)..Len(s) /\ d = b - n + 1
    BY <1>0
  <1>4. PICK t \in Seq(S) : IsSlice(t, s, m, b, l)
    BY <1>1, SliceOf
  <1>5. PICK f \in 1..(Len(t) + 1) : f = k + 1 /\ l \in (f - 1)..Len(t) /\ d = l - f + 1
    BY <1>2, <1>4 DEF IsSlice
  <1>6. PICK u \in Seq(S) : IsSlice(u, t, f, l, d)
    BY <1>5, SliceOf
  <1>7. PICK v \in Seq(S) : IsSlice(v, s, n, b, d)
    BY <1>3, SliceOf
  <1>8. \A i \in 1..d : u[i] = v[i]
    <2> SUFFICES ASSUME NEW i \in 1..d PROVE u[i] = v[i]
      OBVIOUS
    <2>1. PICK j \in 1..l : j = f + i - 1 /\ m + j - 1 = n + i - 1
      BY <1>1, <1>2, <1>3, <1>5
    <2>2. t[j] = s[n + i - 1]
      BY <1>4, <2>1, Zenon DEF IsSlice
    <2> QED BY <1>6, <1>7, <2>1, <2>2, Zenon DEF IsSlice
  <1>9. u = v
    BY <1>6, <1>7, <1>8, SeqEqual, Zenon DEF IsSlice
  <1> QED BY <1>1, <1>2, <1>3, <1>4, <1>5, <1>6, <1>7, <1>9, Zenon DEF IsSlice

\* What is left when k tokens are taken from the buffer.
LEMMA DropType ==
    ASSUME NEW S, NEW s \in Seq(S), NEW k \in 0..Len(s)
    PROVE  Drop(s, k) \in Seq(S) /\ Len(Drop(s, k)) = Len(s) - k
  <1>0. Len(s) \in Nat
    BY LenProperties
  <1>1. PICK l \in Nat : l = Len(s)
    BY <1>0
  <1>2. PICK m \in 1..(Len(s) + 1) : m = k + 1 /\ l \in (m - 1)..Len(s) /\ l - k = l - m + 1
    BY <1>1
  <1>3. PICK t \in Seq(S) : IsSlice(t, s, m, l, l - k)
    BY <1>2, SliceOf
  <1> QED BY <1>1, <1>2, <1>3, Zenon DEF Drop, IsSlice

\* The first k tokens of the buffer, or all there are.
LEMMA TakeType ==
    ASSUME NEW S, NEW s \in Seq(S), NEW k \in Nat
    PROVE  Take(s, k) \in Seq(S) /\ Len(Take(s, k)) <= Len(s)
  <1>0. Len(s) \in Nat
    BY LenProperties
  <1>1. PICK n \in 0..Len(s) : Take(s, k) = SubSeq(s, 1, n)
    BY <1>0 DEF Take
  <1>2. 1 \in 1..(Len(s) + 1) /\ n \in (1 - 1)..Len(s) /\ n - 1 + 1 = n
    BY <1>0
  <1> QED BY <1>0, <1>1, <1>2, Slice

\* A line that is there ends in the buffer.
LEMMA LineInBuffer ==
    ASSUME m_sBuffer \in Text
    PROVE  LineEnd \in 0..Len(m_sBuffer) /\ (HasLine => LineEnd \in 1..Len(m_sBuffer))
  <1> DEFINE Ends == {i \in 1..Len(m_sBuffer) : m_sBuffer[i] = "crlf"}
  <1>1. LineEnd = IF Ends # {} THEN Min(Ends) ELSE 0
    BY Zenon DEF LineEnd, SelectInSeq
  <1>2. Ends \subseteq 1..Len(m_sBuffer) /\ Len(m_sBuffer) \in Nat
    BY LenProperties DEF Text
  <1> HIDE DEF Ends
  <1>3. LineEnd \in 0..Len(m_sBuffer)
    BY <1>1, <1>2, FirstPlace
  <1> QED BY <1>2, <1>3 DEF HasLine


-----------------------------------------------------------------------------
(* One pass of the loop, or the return of ParseData *)

\* How many more passes at most leave the buffer as it is: a request that is
\* complete is queued, and a new one is begun.
WorkIn(ph, st) ==
    IF st = "COMPLETEREQUEST" THEN 3
    ELSE IF ph = "wait" THEN 0
    ELSE IF ph = "return" \/ st = "INVALIDREQUEST" THEN 1
    ELSE IF st = "BODY" THEN 4
    ELSE IF st = "BODYTRAILER" THEN 3
    ELSE 2
Work == WorkIn(phase, request.state)

\* A step takes from the buffer or brings the return of AddBuffer nearer.
Shrinks ==
    \/ Len(m_sBuffer') < Len(m_sBuffer)
    \/ Len(m_sBuffer') = Len(m_sBuffer) /\ Work' < Work

\* A pass that takes k tokens and leaves a sound request.
LEMMA PassKeeps ==
    ASSUME ParserInv, phase = "parse", NEW k \in 0..Len(m_sBuffer), NEW req, Sound(req),
           NEW done, Pass(Drop(m_sBuffer, k), req, done)
    PROVE  ParserInv' /\ Len(m_sBuffer') = Len(m_sBuffer) - k
  <1>1. /\ input \in Inputs /\ received \in 0..Len(input.stream)
        /\ m_sBuffer \in Text /\ Len(m_sBuffer) <= MaxRequestSize
        /\ requests \in Seq([body : Text, form : Maps, cookies : Maps])
        /\ result = "OK" /\ BufferInv
    BY Zenon DEF ParserInv
  <1>2. /\ m_sBuffer' = Drop(m_sBuffer, k) /\ request' = req /\ phase' \in {"parse", "return"}
        /\ input' = input /\ received' = received /\ requests' = requests /\ result' = result
    BY Zenon DEF Pass
  <1>3. PICK l \in Nat : l = Len(m_sBuffer)
    BY <1>1, LenProperties DEF Text
  <1>4. m_sBuffer' \in Text /\ Len(m_sBuffer') = l - k
    <2>1. m_sBuffer \in Seq(Tokens)
      BY <1>1 DEF Text
    <2> QED BY <1>2, <1>3, <2>1, DropType DEF Text
  <1>5. Len(m_sBuffer') <= MaxRequestSize /\ k \in 0..l
    <2>1. k \in 0..l /\ l <= MaxRequestSize
      BY <1>1, <1>3
    <2> QED BY <1>4, <2>1, SizeAssumption
  <1>6. BufferInv'
    <2>1. l <= received /\ m_sBuffer = SubSeq(input.stream, received - l + 1, received)
      BY <1>1, <1>3, Zenon DEF BufferInv
    <2>2. PICK s \in Seq(Tokens) : s = input.stream
      BY <1>1, InputAssumption
    <2>3. PICK b \in 0..Len(s) : b = received
      BY <1>1, <2>2
    <2>4. l \in 0..b /\ l - k <= b
      <3>1. Len(s) \in Nat
        BY LenProperties
      <3>2. l <= b
        BY <2>1, <2>3
      <3> QED BY <1>5, <3>1, <3>2
    <2>5. SubSeq(SubSeq(s, b - l + 1, b), k + 1, l) = SubSeq(s, b - (l - k) + 1, b)
      BY <1>5, <2>4, Suffix
    <2>6. Drop(m_sBuffer, k) = SubSeq(s, b - (l - k) + 1, b)
      BY <1>3, <2>1, <2>2, <2>3, <2>5, Zenon DEF Drop
    <2>7. Len(m_sBuffer') <= b
      BY <1>4, <2>4
    <2> QED BY <1>2, <1>4, <2>2, <2>3, <2>6, <2>7, Zenon DEF BufferInv
  <1>7. ParserInv'
    <2>1. phase' \in {"wait", "parse", "return"} /\ result' \in {"OK", "INVALIDREQUEST", "TOOBIG"}
      BY <1>1, <1>2, Zenon
    <2> QED BY <1>1, <1>2, <1>4, <1>5, <1>6, <2>1, Zenon DEF ParserInv
  <1> QED BY <1>3, <1>4, <1>7

\* A pass that takes something.
LEMMA PassTakes ==
    ASSUME ParserInv, phase = "parse", NEW k \in 1..Len(m_sBuffer), NEW req, Sound(req),
           NEW done, Pass(Drop(m_sBuffer, k), req, done)
    PROVE  ParserInv' /\ Shrinks
  <1>1. Len(m_sBuffer) \in Nat
    BY LenProperties DEF ParserInv, Text
  <1>2. k \in 0..Len(m_sBuffer) /\ Len(m_sBuffer) - k < Len(m_sBuffer)
    BY <1>1
  <1>3. ParserInv' /\ Len(m_sBuffer') = Len(m_sBuffer) - k
    BY <1>2, PassKeeps
  <1> QED BY <1>2, <1>3 DEF Shrinks

\* A pass that takes a line.
LEMMA LineTaken ==
    ASSUME ParserInv, phase = "parse", HasLine, NEW req, Sound(req), NEW done, Pass(Rest, req, done)
    PROVE  ParserInv' /\ Shrinks
  <1>1. LineEnd \in 1..Len(m_sBuffer)
    BY LineInBuffer DEF ParserInv
  <1> QED BY <1>1, PassTakes DEF Rest

\* A pass that leaves the buffer as it is.
LEMMA PassWaits ==
    ASSUME ParserInv, phase = "parse", NEW req, Sound(req), NEW done, Pass(m_sBuffer, req, done),
           WorkIn(IF done THEN "return" ELSE "parse", req.state) < Work
    PROVE  ParserInv' /\ Shrinks
  <1>1. m_sBuffer \in Seq(Tokens) /\ Len(m_sBuffer) \in Nat
    BY LenProperties DEF ParserInv, Text
  <1>2. Drop(m_sBuffer, 0) = m_sBuffer
    <2>1. SubSeq(m_sBuffer, 1, Len(m_sBuffer)) = m_sBuffer
      BY <1>1, SubSeqFull
    <2>2. 0 + 1 = 1
      OBVIOUS
    <2> QED BY <2>1, <2>2, Zenon DEF Drop
  <1>3. Pass(Drop(m_sBuffer, 0), req, done)
    BY <1>2
  <1>4. ParserInv'
    <2>1. 0 \in 0..Len(m_sBuffer)
      BY <1>1
    <2> QED BY <1>3, <2>1, PassKeeps
  <1>5. m_sBuffer' = m_sBuffer /\ Work' < Work
    <2>1. request' = req /\ phase' = (IF done THEN "return" ELSE "parse") /\ m_sBuffer' = m_sBuffer
      BY Zenon DEF Pass
    <2>2. Work' = WorkIn(IF done THEN "return" ELSE "parse", req.state)
      BY <2>1, Zenon DEF Work
    <2> QED BY <2>1, <2>2
  <1> QED BY <1>4, <1>5, Zenon DEF Shrinks

\* The passes that wait for more data.
LEMMA WaitsForMore ==
    ASSUME ParserInv, phase = "parse",
           request.state \notin {"COMPLETEREQUEST", "INVALIDREQUEST"}, NotEnoughData
    PROVE  ParserInv' /\ Shrinks
  <1>1. Work \in {2, 3, 4}
    BY DEF Work, WorkIn
  <1>2. WorkIn("return", request.state) = 1
    BY DEF WorkIn
  <1>3. WorkIn(IF TRUE THEN "return" ELSE "parse", request.state) < Work
    BY <1>1, <1>2
  <1>4. Sound(request)
    BY DEF ParserInv
  <1> QED BY <1>3, <1>4, PassWaits DEF NotEnoughData


\* An invalid request is sound.
LEMMA InvalidSound ==
    ASSUME Sound(request)
    PROVE  Sound(Invalid) /\ Invalid.state = "INVALIDREQUEST"
  <1>1. Sound(Invalid)
    BY StateChanged DEF Invalid
  <1>2. request \in Requests
    BY DEF Sound
  <1>3. Invalid.state = "INVALIDREQUEST"
    BY <1>2 DEF Invalid, Requests
  <1> QED BY <1>1, <1>3

\* The request line.
LEMMA RequestLineKeeps ==
    ASSUME ParserInv, ParseRequestLine
    PROVE  ParserInv' /\ Shrinks
  <1>1. phase = "parse" /\ request.state = "REQUEST" /\ Sound(request)
    BY DEF ParseRequestLine, Parsing, ParserInv
  <1>2. CASE ~HasLine
    <2>1. NotEnoughData
      BY <1>2, Zenon DEF ParseRequestLine
    <2> QED BY <1>1, <2>1, WaitsForMore
  <1>3. CASE HasLine
    <2>1. \/ Pass(Rest, request, TRUE)
          \/ \E line \in RequestLines :
                Pass(Rest, [request EXCEPT !.state = "HEADERS", !.version = Version(line),
                                !.form = GetFormDataFromString(@, Uri(line))], FALSE)
          \/ Pass(Rest, Invalid, FALSE)
      BY <1>3, Zenon DEF ParseRequestLine
    <2>2. \A line \in RequestLines :
            Sound([request EXCEPT !.state = "HEADERS", !.version = Version(line),
                                  !.form = GetFormDataFromString(@, Uri(line))])
      BY <1>1, LineSound
    <2>3. \A req, done : Sound(req) /\ Pass(Rest, req, done) => ParserInv' /\ Shrinks
      BY <1>1, <1>3, LineTaken
    <2> QED BY <1>1, <2>1, <2>2, <2>3, InvalidSound, Zenon
  <1> QED BY <1>2, <1>3

\* A header line.
LEMMA HeaderLineKeeps ==
    ASSUME ParserInv, ParseHeaderLine
    PROVE  ParserInv' /\ Shrinks
  <1>1. phase = "parse" /\ request.state = "HEADERS" /\ Sound(request)
    BY DEF ParseHeaderLine, Parsing, ParserInv
  <1>2. CASE ~HasLine
    <2>1. NotEnoughData
      BY <1>2, Zenon DEF ParseHeaderLine
    <2> QED BY <1>1, <2>1, WaitsForMore
  <1>3. CASE HasLine
    <2>1. \A req, done : Sound(req) /\ Pass(Rest, req, done) => ParserInv' /\ Shrinks
      BY <1>1, <1>3, LineTaken
    <2>2. \/ Pass(Rest, AfterHeaders, FALSE)
          \/ TextOf(Line) \in HeaderLines /\ AddHeader(TextOf(Line))
          \/ ContinueHeader
          \/ Pass(Rest, Invalid, TRUE)
      BY <1>3, Zenon DEF ParseHeaderLine
    <2>3. CASE Pass(Rest, AfterHeaders, FALSE)
      BY <1>1, <2>1, <2>3, HeadersSound, Zenon
    <2>4. CASE TextOf(Line) \in HeaderLines /\ AddHeader(TextOf(Line))
      <3> DEFINE line == TextOf(Line)
                 req == [request EXCEPT
                            !.headers[HeaderName(line)] = Append(@, <<HeaderValue(line)>>),
                            !.lastHeader = HeaderName(line)]
      <3>1. Pass(Rest, Invalid, TRUE) \/ Pass(Rest, req, FALSE)
        BY <2>4, Zenon DEF AddHeader
      <3>2. Sound(req)
        BY <1>1, <2>4, HeaderSound
      <3> HIDE DEF req
      <3> QED BY <1>1, <2>1, <3>1, <3>2, InvalidSound, Zenon
    <2>5. CASE ContinueHeader
      <3> DEFINE req == [request EXCEPT !.headers[request.lastHeader] =
                            Append(Front(@), Append(Last(@), Continuation))]
      <3>1. Pass(Rest, Invalid, TRUE) \/ (request.lastHeader # "" /\ Pass(Rest, req, FALSE))
        BY <2>5, Zenon DEF ContinueHeader
      <3>2. request.lastHeader # "" => Sound(req)
        BY <1>1, ContinuedSound
      <3> HIDE DEF req
      <3> QED BY <1>1, <2>1, <3>1, <3>2, InvalidSound, Zenon
    <2>6. CASE Pass(Rest, Invalid, TRUE)
      BY <1>1, <2>1, <2>6, InvalidSound, Zenon
    <2> QED BY <2>2, <2>3, <2>4, <2>5, <2>6
  <1> QED BY <1>2, <1>3

\* The length that a Content-Length header gives.
LEMMA LengthType ==
    ASSUME Sound(request), request.state = "BODY", ~request.chunked
    PROVE  Number(Last(request.headers["Content-Length"])[1]) \in 0..20
  <1>1. request.headers["Content-Length"] # <<>>
    BY Zenon DEF Sound
  <1>2. Last(request.headers["Content-Length"]) \in Items("Content-Length")
    BY <1>1, LastItem, NamesKnown
  <1>3. Last(request.headers["Content-Length"])[1] \in TextsOf("Content-Length")
    BY <1>2, Zenon DEF Items
  <1>4. TextsOf("Content-Length") \subseteq {"0", "1", "2", "3", "7", "12", "20"}
    BY LengthTexts, Zenon DEF TextsOf
  <1> QED BY <1>3, <1>4, NumberType, Zenon

\* The body of known length.
LEMMA BodyKeeps ==
    ASSUME ParserInv, ParseBody
    PROVE  ParserInv' /\ Shrinks
  <1> DEFINE text == Last(request.headers["Content-Length"])
             length == Number(text[1])
             whole == Complete(Take(m_sBuffer, length))
  <1>1. /\ phase = "parse" /\ request.state = "BODY" /\ ~request.chunked /\ Sound(request)
        /\ m_sBuffer \in Seq(Tokens) /\ Len(m_sBuffer) <= MaxRequestSize
    BY DEF ParseBody, Parsing, ParserInv, Text
  <1>2. length \in 0..20
    BY <1>1, LengthType
  <1>3. Work = 4
    BY <1>1, Zenon DEF Work, WorkIn
  <1>4. \/ Pass(m_sBuffer, Invalid, FALSE)
        \/ NotEnoughData
        \/ Len(m_sBuffer) >= length /\ Pass(Drop(m_sBuffer, length), whole, TRUE)
    <2>1. \/ Pass(m_sBuffer, Invalid, FALSE)
          \/ NotEnoughData
          \/ ~(Len(m_sBuffer) < length) /\ Pass(Drop(m_sBuffer, length), whole, TRUE)
      BY Zenon DEF ParseBody
    <2>2. Len(m_sBuffer) \in Nat
      BY <1>1, LenProperties
    <2> HIDE DEF length, whole
    <2>3. ~(Len(m_sBuffer) < length) => Len(m_sBuffer) >= length
      BY <1>2, <2>2
    <2> QED BY <2>1, <2>3, Zenon
  <1>5. CASE Pass(m_sBuffer, Invalid, FALSE)
    <2>1. Sound(Invalid) /\ Invalid.state = "INVALIDREQUEST"
      BY <1>1, InvalidSound
    <2>2. WorkIn(IF FALSE THEN "return" ELSE "parse", Invalid.state) = 1
      BY <2>1, Zenon DEF WorkIn
    <2>3. WorkIn(IF FALSE THEN "return" ELSE "parse", Invalid.state) < Work
      BY <1>3, <2>2
    <2> QED BY <1>1, <1>5, <2>1, <2>3, PassWaits
  <1>6. CASE NotEnoughData
    BY <1>1, <1>6, WaitsForMore
  <1>7. CASE Len(m_sBuffer) >= length /\ Pass(Drop(m_sBuffer, length), whole, TRUE)
    <2>1. PICK k \in Nat : k = length
      BY <1>2
    <2>2. Take(m_sBuffer, k) \in Seq(Tokens) /\ Len(Take(m_sBuffer, k)) <= Len(m_sBuffer)
      BY <1>1, TakeType
    <2>3. Len(Take(m_sBuffer, k)) <= MaxRequestSize /\ Len(m_sBuffer) \in Nat
      <3>1. Len(Take(m_sBuffer, k)) \in Nat /\ Len(m_sBuffer) \in Nat
        BY <1>1, <2>2, LenProperties
      <3> QED BY <1>1, <2>2, <3>1, SizeAssumption
    <2>4. Sound(whole) /\ whole.state \in {"COMPLETEREQUEST", "INVALIDREQUEST"}
      BY <1>1, <2>1, <2>2, <2>3, CompleteSound, Zenon DEF Text
    <2>5. k \in 0..Len(m_sBuffer) /\ (k # 0 => k \in 1..Len(m_sBuffer))
      BY <1>7, <2>1, <2>3
    <2> HIDE DEF length, whole
    <2>6. Pass(Drop(m_sBuffer, k), whole, TRUE)
      BY <1>7, <2>1, Zenon
    <2>7. CASE k # 0
      BY <1>1, <2>4, <2>5, <2>6, <2>7, PassTakes
    <2>8. CASE k = 0
      <3>1. SubSeq(m_sBuffer, 1, Len(m_sBuffer)) = m_sBuffer /\ k + 1 = 1
        BY <1>1, <2>8, SubSeqFull
      <3>2. Drop(m_sBuffer, k) = m_sBuffer
        BY <3>1, Zenon DEF Drop
      <3>3. Pass(m_sBuffer, whole, TRUE)
        BY <2>6, <3>2, Zenon
      <3>4. WorkIn(IF TRUE THEN "return" ELSE "parse", whole.state) \in {1, 3}
        BY <2>4, Zenon DEF WorkIn
      <3>5. WorkIn(IF TRUE THEN "return" ELSE "parse", whole.state) < Work
        BY <1>3, <3>4
      <3> QED BY <1>1, <2>4, <3>3, <3>5, PassWaits
    <2> QED BY <2>7, <2>8
  <1> QED BY <1>4, <1>5, <1>6, <1>7, Zenon


\* The head of a chunk.
LEMMA ChunkHeadKeeps ==
    ASSUME ParserInv, ParseChunkHead
    PROVE  ParserInv' /\ Shrinks
  <1>1. phase = "parse" /\ request.state = "BODY" /\ request.chunked /\ Sound(request)
    BY DEF ParseChunkHead, Parsing, ParserInv
  <1>2. CASE ~HasLine
    <2>1. NotEnoughData
      BY <1>2, Zenon DEF ParseChunkHead
    <2> QED BY <1>1, <2>1, WaitsForMore
  <1>3. CASE HasLine
    <2> DEFINE last == [request EXCEPT !.state = "BODYTRAILER"]
               chunk == [request EXCEPT !.state = "BODYCHUNK", !.chunkLen = Number(TextOf(Line))]
    <2>1. \A req, done : Sound(req) /\ Pass(Rest, req, done) => ParserInv' /\ Shrinks
      BY <1>1, <1>3, LineTaken
    <2>2. \/ Pass(Rest, Invalid, TRUE)
          \/ TextOf(Line) \in ChunkHeads /\ (Pass(Rest, last, FALSE) \/ Pass(Rest, chunk, FALSE))
      BY <1>3, Zenon DEF ParseChunkHead
    <2>3. request \in Requests /\ request.body \in Text /\ request.chunkLen \in 0..20
      BY <1>1 DEF Sound, Requests
    <2>4. Sound(last)
      <3>1. /\ last \in Requests /\ last.headers = request.headers
            /\ last.lastHeader = request.lastHeader /\ last.chunked = request.chunked
            /\ last.state = "BODYTRAILER"
        BY <2>3 DEF Requests, States
      <3> HIDE DEF last
      <3> QED BY <1>1, <2>3, <3>1, ChunkedSound
    <2>5. TextOf(Line) \in ChunkHeads => Sound(chunk)
      <3> SUFFICES ASSUME TextOf(Line) \in ChunkHeads PROVE Sound(chunk)
        OBVIOUS
      <3>1. PICK n \in 0..20 : n = Number(TextOf(Line))
        BY NumberType DEF ChunkHeads
      <3>2. /\ chunk \in Requests /\ chunk.headers = request.headers
            /\ chunk.lastHeader = request.lastHeader /\ chunk.chunked = request.chunked
            /\ chunk.state = "BODYCHUNK"
        BY <2>3, <3>1 DEF Requests, States
      <3> HIDE DEF chunk
      <3> QED BY <1>1, <2>3, <3>2, ChunkedSound
    <2> HIDE DEF last, chunk
    <2> QED BY <1>1, <2>1, <2>2, <2>4, <2>5, InvalidSound, Zenon
  <1> QED BY <1>2, <1>3

\* The bytes of a chunk.
LEMMA ChunkKeeps ==
    ASSUME ParserInv, ParseChunk
    PROVE  ParserInv' /\ Shrinks
  <1> DEFINE n == request.chunkLen
             body == request.body \o Take(m_sBuffer, n)
             whole == [request EXCEPT !.body = body, !.chunkLen = 0]
             part == [request EXCEPT !.body = body, !.chunkLen = @ - Len(m_sBuffer)]
  <1>1. /\ phase = "parse" /\ request.state = "BODYCHUNK" /\ Sound(request)
        /\ m_sBuffer \in Seq(Tokens)
    BY DEF ParseChunk, Parsing, ParserInv, Text
  <1>2. request \in Requests /\ request.chunked /\ request.body \in Seq(Tokens) /\ n \in 0..20
    BY <1>1 DEF Sound, Requests, Text
  <1>3. n > 0
    BY DEF ParseChunk
  <1>4. \/ Len(m_sBuffer) > n /\ Pass(Drop(m_sBuffer, n), whole, FALSE)
        \/ ~(Len(m_sBuffer) > n) /\ Pass(m_sBuffer, part, TRUE)
    BY Zenon DEF ParseChunk
  <1>5. body \in Text
    <2>1. PICK k \in Nat : k = n
      BY <1>2
    <2>2. Take(m_sBuffer, k) \in Seq(Tokens)
      BY <1>1, TakeType
    <2>3. request.body \o Take(m_sBuffer, k) \in Seq(Tokens)
      BY <1>2, <2>2, ConcatProperties
    <2> QED BY <2>1, <2>3 DEF Text
  <1>6. Len(m_sBuffer) \in Nat
    BY <1>1, LenProperties
  <1> HIDE DEF n, body
  <1>7. CASE Len(m_sBuffer) > n /\ Pass(Drop(m_sBuffer, n), whole, FALSE)
    <2>1. /\ whole \in Requests /\ whole.headers = request.headers
          /\ whole.lastHeader = request.lastHeader /\ whole.chunked = request.chunked
          /\ whole.state = "BODYCHUNK"
      <3>1. request \in Requests /\ request.state = "BODYCHUNK" /\ body \in Text /\ 0 \in 0..20
        BY <1>1, <1>2, <1>5
      <3> QED BY <3>1 DEF Requests
    <2>2. n \in 1..Len(m_sBuffer)
      <3>1. Len(m_sBuffer) > n /\ n \in 0..20
        BY <1>2, <1>7
      <3> QED BY <1>3, <1>6, <3>1
    <2> HIDE DEF whole
    <2>3. Sound(whole)
      BY <1>1, <1>2, <2>1, ChunkedSound
    <2> QED BY <1>1, <1>7, <2>2, <2>3, PassTakes
  <1>8. CASE ~(Len(m_sBuffer) > n) /\ Pass(m_sBuffer, part, TRUE)
    <2>1. PICK m \in 0..20 : m = n - Len(m_sBuffer)
      <3>1. ~(Len(m_sBuffer) > n) /\ n \in 0..20
        BY <1>2, <1>8, Zenon
      <3>2. n - Len(m_sBuffer) \in 0..20
        BY <1>6, <3>1
      <3> QED BY <3>2
    <2>2. part = [request EXCEPT !.body = body, !.chunkLen = m]
      BY <1>2, <2>1 DEF Requests, n
    <2>3. /\ part \in Requests /\ part.headers = request.headers
          /\ part.lastHeader = request.lastHeader /\ part.chunked = request.chunked
          /\ part.state = "BODYCHUNK"
      BY <1>1, <1>2, <1>5, <2>2 DEF Requests, States
    <2> HIDE DEF part
    <2>4. Sound(part)
      BY <1>1, <1>2, <2>3, ChunkedSound
    <2>5. Work = 2 /\ WorkIn(IF TRUE THEN "return" ELSE "parse", part.state) = 1
      BY <1>1, <2>3, Zenon DEF Work, WorkIn
    <2>6. WorkIn(IF TRUE THEN "return" ELSE "parse", part.state) < Work
      BY <2>5
    <2> QED BY <1>1, <1>8, <2>4, <2>6, PassWaits
  <1> QED BY <1>4, <1>7, <1>8, Zenon

\* The line end behind a chunk.
LEMMA ChunkEndKeeps ==
    ASSUME ParserInv, ParseChunkEnd
    PROVE  ParserInv' /\ Shrinks
  <1>1. phase = "parse" /\ request.state = "BODYCHUNK" /\ Sound(request)
    BY DEF ParseChunkEnd, Parsing, ParserInv
  <1>2. CASE ~HasLine
    <2>1. NotEnoughData
      BY <1>2, Zenon DEF ParseChunkEnd
    <2> QED BY <1>1, <2>1, WaitsForMore
  <1>3. CASE HasLine
    <2> DEFINE req == [request EXCEPT !.state = "BODY"]
    <2>1. \A r, done : Sound(r) /\ Pass(Rest, r, done) => ParserInv' /\ Shrinks
      BY <1>1, <1>3, LineTaken
    <2>2. Pass(Rest, Invalid, FALSE) \/ Pass(Rest, req, FALSE)
      BY <1>3, Zenon DEF ParseChunkEnd
    <2>3. /\ request \in Requests /\ request.body \in Text /\ request.chunkLen \in 0..20
          /\ request.chunked
      BY <1>1 DEF Sound, Requests
    <2>4. Sound(req)
      <3>1. /\ req \in Requests /\ req.headers = request.headers
            /\ req.lastHeader = request.lastHeader /\ req.chunked = request.chunked
            /\ req.state = "BODY"
        BY <2>3 DEF Requests, States
      <3> HIDE DEF req
      <3> QED BY <1>1, <2>3, <3>1, ChunkedSound
    <2> HIDE DEF req
    <2> QED BY <1>1, <2>1, <2>2, <2>4, InvalidSound, Zenon
  <1> QED BY <1>2, <1>3

\* The trailer line, or the blank line that is put back.
LEMMA TrailerKeeps ==
    ASSUME ParserInv, ParseTrailer
    PROVE  ParserInv' /\ Shrinks
  <1>1. phase = "parse" /\ request.state = "BODYTRAILER" /\ Sound(request)
    BY DEF ParseTrailer, Parsing, ParserInv
  <1>2. CASE ~HasLine
    <2>1. NotEnoughData
      BY <1>2, Zenon DEF ParseTrailer
    <2> QED BY <1>1, <2>1, WaitsForMore
  <1>3. CASE HasLine
    <2> DEFINE req == [request EXCEPT !.state = "BODYTRAILER2"]
    <2>1. Pass(m_sBuffer, req, FALSE) \/ Pass(Rest, req, FALSE)
      BY <1>3, Zenon DEF ParseTrailer
    <2>2. /\ request \in Requests /\ request.body \in Text /\ request.chunkLen \in 0..20
          /\ request.chunked
      BY <1>1 DEF Sound, Requests
    <2>3. Sound(req)
      <3>1. /\ req \in Requests /\ req.headers = request.headers
            /\ req.lastHeader = request.lastHeader /\ req.chunked = request.chunked
            /\ req.state = "BODYTRAILER2"
        BY <2>2 DEF Requests, States
      <3> HIDE DEF req
      <3> QED BY <1>1, <2>2, <3>1, ChunkedSound
    <2>4. req.state = "BODYTRAILER2"
      BY <2>2 DEF Requests
    <2> HIDE DEF req
    <2>5. Work = 3 /\ WorkIn(IF FALSE THEN "return" ELSE "parse", req.state) = 2
      BY <1>1, <2>4, Zenon DEF Work, WorkIn
    <2>6. WorkIn(IF FALSE THEN "return" ELSE "parse", req.state) < Work
      BY <2>5
    <2>7. CASE Pass(m_sBuffer, req, FALSE)
      BY <1>1, <2>3, <2>6, <2>7, PassWaits
    <2>8. CASE Pass(Rest, req, FALSE)
      BY <1>1, <1>3, <2>3, <2>8, LineTaken
    <2> QED BY <2>1, <2>7, <2>8
  <1> QED BY <1>2, <1>3

\* The blank line that ends a chunked request.
LEMMA TrailerEndKeeps ==
    ASSUME ParserInv, ParseTrailerEnd
    PROVE  ParserInv' /\ Shrinks
  <1>1. phase = "parse" /\ request.state = "BODYTRAILER2" /\ Sound(request)
    BY DEF ParseTrailerEnd, Parsing, ParserInv
  <1>2. CASE ~HasLine
    <2>1. NotEnoughData
      BY <1>2, Zenon DEF ParseTrailerEnd
    <2> QED BY <1>1, <2>1, WaitsForMore
  <1>3. CASE HasLine
    <2>1. \A r, done : Sound(r) /\ Pass(Rest, r, done) => ParserInv' /\ Shrinks
      BY <1>1, <1>3, LineTaken
    <2>2. Pass(Rest, Invalid, TRUE) \/ Pass(Rest, Complete(request.body), TRUE)
      BY <1>3, Zenon DEF ParseTrailerEnd
    <2>3. request.body \in Text /\ request.chunked
      BY <1>1 DEF Sound, Requests
    <2>4. Sound(Complete(request.body))
      BY <1>1, <2>3, CompleteSound
    <2> QED BY <1>1, <2>1, <2>2, <2>4, InvalidSound, Zenon
  <1> QED BY <1>2, <1>3


\* ParseData returns.
LEMMA ReturnKeeps ==
    ASSUME ParserInv, ParseDataReturns
    PROVE  ParserInv' /\ Shrinks
  <1>1. /\ input' = input /\ received' = received /\ m_sBuffer' = m_sBuffer
        /\ phase \in {"parse", "return"} /\ result = "OK" /\ Sound(request)
    BY Zenon DEF ParserInv, ParseDataReturns
  <1>2. BufferInv /\ result # "TOOBIG"
    BY <1>1 DEF ParserInv
  <1>3. BufferInv'
    BY <1>1, <1>2, Zenon DEF BufferInv
  <1>4. CASE request.state = "COMPLETEREQUEST"
    <2> DEFINE new == [body |-> request.body, form |-> request.form, cookies |-> request.cookies]
    <2>1. requests' = Append(requests, new) /\ request' = NewRequest
          /\ phase' = "parse" /\ result' = result
      BY <1>4, Zenon DEF ParseDataReturns
    <2>2. new \in [body : Text, form : Maps, cookies : Maps]
      BY <1>1 DEF Sound, Requests
    <2> HIDE DEF new
    <2>3. requests' \in Seq([body : Text, form : Maps, cookies : Maps])
      <3> DEFINE S == [body : Text, form : Maps, cookies : Maps]
      <3>1. requests \in Seq(S) /\ new \in S
        BY <2>2 DEF ParserInv
      <3> HIDE DEF S
      <3>2. Append(requests, new) \in Seq(S)
        BY <3>1, Appended
      <3> QED BY <2>1, <3>2 DEF S
    <2>4. ParserInv'
      BY <1>1, <1>3, <2>1, <2>3, NewSound, Zenon DEF ParserInv
    <2>5. NewRequest.state = "REQUEST"
      BY DEF NewRequest
    <2>6. Work = 3 /\ Work' = 2
      BY <1>4, <2>1, <2>5, Zenon DEF Work, WorkIn
    <2>7. Work' < Work
      BY <2>6
    <2> QED BY <1>1, <2>4, <2>7, Zenon DEF Shrinks
  <1>5. CASE request.state # "COMPLETEREQUEST"
    <2>1. /\ result' \in {"OK", "INVALIDREQUEST"} /\ phase' = "wait"
          /\ requests' = requests /\ request' = request
      BY <1>5, Zenon DEF ParseDataReturns
    <2>2. ParserInv'
      BY <1>1, <1>3, <2>1, Zenon DEF ParserInv
    <2>3. phase = "return" \/ request.state = "INVALIDREQUEST"
      BY <1>5, Zenon DEF ParseDataReturns
    <2>4. Work = 1 /\ Work' = 0
      BY <1>1, <1>5, <2>1, <2>3, Zenon DEF Work, WorkIn
    <2>5. Work' < Work
      BY <2>4
    <2> QED BY <1>1, <2>2, <2>5, Zenon DEF Shrinks
  <1> QED BY <1>4, <1>5

\* AddBuffer: what was read goes behind the rest that was kept, or the
\* connection has sent too much.
LEMMA AddBufferKeeps ==
    ASSUME ParserInv, NEW n \in input.cuts, AddBuffer(n)
    PROVE  ParserInv'
  <1>1. /\ input \in Inputs /\ received \in 0..Len(input.stream)
        /\ m_sBuffer \in Text /\ Len(m_sBuffer) <= MaxRequestSize
        /\ Sound(request) /\ requests \in Seq([body : Text, form : Maps, cookies : Maps])
    BY DEF ParserInv
  <1>2. /\ phase = "wait" /\ result = "OK" /\ n > received /\ received' = n
        /\ input' = input /\ request' = request /\ requests' = requests
    BY Zenon DEF AddBuffer
  <1>3. PICK s \in Seq(Tokens) : s = input.stream /\ Len(s) \in Nat
    BY <1>1, InputAssumption, LenProperties
  <1>4. PICK b \in 0..Len(s) : b = received
    BY <1>1, <1>3
  <1>5. n \in 1..Len(s)
    BY <1>1, <1>3, InputAssumption
  <1>6. received' \in 0..Len(input'.stream)
    BY <1>2, <1>3, <1>5
  <1>7. CASE Len(m_sBuffer) + (n - received) > MaxRequestSize
    <2>1. result' = "TOOBIG" /\ m_sBuffer' = m_sBuffer /\ phase' = phase
      BY <1>7, Zenon DEF AddBuffer
    <2> QED BY <1>1, <1>2, <1>6, <2>1, Zenon DEF ParserInv, BufferInv
  <1>8. CASE ~(Len(m_sBuffer) + (n - received) > MaxRequestSize)
    <2>1. /\ m_sBuffer' = m_sBuffer \o SubSeq(input.stream, received + 1, n)
          /\ phase' = "parse" /\ result' = result
      BY <1>8, Zenon DEF AddBuffer
    <2>2. PICK l \in Nat : l = Len(m_sBuffer)
      BY <1>1, LenProperties DEF Text
    <2>3. l <= b /\ m_sBuffer = SubSeq(s, b - l + 1, b)
      BY <1>2, <1>3, <1>4, <2>2, Zenon DEF ParserInv, BufferInv
    <2>4. b < n
      BY <1>2, <1>4
    <2>5. PICK m \in 1..(Len(s) + 1) : /\ m = b - l + 1 /\ b \in (m - 1)..Len(s) /\ n \in b..Len(s)
                                       /\ n \in (m - 1)..Len(s)
      BY <1>3, <1>5, <2>3, <2>4
    <2>6. SubSeq(s, m, b) \o SubSeq(s, b + 1, n) = SubSeq(s, m, n)
      BY <2>5, ConcatAdjacentSubSeq
    <2>7. m_sBuffer' = SubSeq(s, m, n)
      BY <1>3, <1>4, <2>1, <2>3, <2>5, <2>6, Zenon
    <2>8. SubSeq(s, m, n) \in Seq(Tokens) /\ Len(SubSeq(s, m, n)) = n - m + 1
      BY <2>5, Slice
    <2>9. PICK k \in Nat : k = n - m + 1
      BY <1>3, <2>5
    <2>10. k <= MaxRequestSize /\ k <= n /\ n - k + 1 = m
      <3>1. ~(l + (n - b) > MaxRequestSize)
        BY <1>4, <1>8, <2>2
      <3>2. l + (n - b) = k
        BY <1>3, <1>5, <2>5, <2>9
      <3>3. k <= MaxRequestSize
        BY <3>1, <3>2, SizeAssumption
      <3>4. k <= n /\ n - k + 1 = m
        BY <1>3, <1>5, <2>5, <2>9
      <3> QED BY <3>3, <3>4
    <2>11. m_sBuffer' \in Text /\ Len(m_sBuffer') = k
      BY <2>7, <2>8, <2>9 DEF Text
    <2>12. BufferInv'
      BY <1>2, <1>3, <2>7, <2>10, <2>11, Zenon DEF BufferInv
    <2> QED BY <1>1, <1>2, <1>6, <2>1, <2>10, <2>11, <2>12, Zenon DEF ParserInv
  <1> QED BY <1>7, <1>8, Zenon

-----------------------------------------------------------------------------
(* Theorems *)

\* One pass of the loop keeps the invariant.
LEMMA ParseDataKeeps ==
    ASSUME ParserInv, ParseData
    PROVE  ParserInv' /\ Shrinks
  BY RequestLineKeeps, HeaderLineKeeps, BodyKeeps, ChunkHeadKeeps, ChunkKeeps, ChunkEndKeeps,
     TrailerKeeps, TrailerEndKeeps DEF ParseData

\* The invariant holds in the initial states, and every step preserves it.
THEOREM ParserCorrect == Spec => []ParserInv
  <1>1. Init => ParserInv
    <2> SUFFICES ASSUME Init PROVE ParserInv
      OBVIOUS
    <2>1. /\ input \in Inputs /\ received = 0 /\ m_sBuffer = <<>> /\ request = NewRequest
          /\ phase = "wait" /\ requests = <<>> /\ result = "OK"
      BY DEF Init
    <2>2. PICK s \in Seq(Tokens) : s = input.stream /\ Len(s) \in Nat
      BY <2>1, InputAssumption, LenProperties
    <2>3. received \in 0..Len(input.stream)
      BY <2>1, <2>2
    <2>4. /\ <<>> \in Text /\ Len(<<>>) <= MaxRequestSize /\ Len(<<>>) <= 0
          /\ <<>> \in Seq([body : Text, form : Maps, cookies : Maps])
      BY SizeAssumption DEF Text
    <2>5. <<>> = SubSeq(s, 0 - Len(<<>>) + 1, 0)
      <3>1. SubSeq(s, 1, 0) = <<>>
        BY SubSeqEmpty
      <3>2. 0 - Len(<<>>) + 1 = 1
        OBVIOUS
      <3> QED BY <3>1, <3>2, Zenon
    <2>6. BufferInv
      BY <2>1, <2>2, <2>4, <2>5, Zenon DEF BufferInv
    <2> QED BY <2>1, <2>3, <2>4, <2>6, NewSound, Zenon DEF ParserInv
  <1>2. ParserInv /\ [Next]_vars => ParserInv'
    <2> SUFFICES ASSUME ParserInv, [Next]_vars PROVE ParserInv'
      OBVIOUS
    <2>1. ASSUME NEW n \in input.cuts, AddBuffer(n) PROVE ParserInv'
      BY <2>1, AddBufferKeeps
    <2>2. CASE ParseData
      BY <2>2, ParseDataKeeps
    <2>3. CASE ParseDataReturns
      BY <2>3, ReturnKeeps
    <2>4. CASE UNCHANGED vars
      BY <2>4, Zenon DEF vars, ParserInv, BufferInv
    <2> QED BY <2>1, <2>2, <2>3, <2>4, Zenon DEF Next
  <1> QED BY <1>1, <1>2, PTL DEF Spec

\* Every variable of the parser keeps its type.  What is counted down while a
\* chunk arrives never falls below zero, whatever the reads cut it into.
THEOREM TypeCorrect == Spec => []TypeOK
  <1>1. ParserInv => TypeOK
    <2> SUFFICES ASSUME ParserInv PROVE TypeOK
      OBVIOUS
    <2>1. request \in Requests
      BY DEF ParserInv, Sound
    <2>2. /\ request.state \in States /\ request.version \in {"", "1.0", "1.1"}
          /\ request.headers \in [HeaderNames -> Seq(Seq(HeaderTexts))]
          /\ request.lastHeader \in HeaderNames \cup {""} /\ request.chunkLen \in 0..20
          /\ request.body \in Seq(Tokens) /\ request.form \in Maps /\ request.cookies \in Maps
      BY <2>1 DEF Requests, Text
    <2>3. /\ input \in Inputs /\ received \in 0..Len(input.stream)
          /\ m_sBuffer \in Seq(Tokens) /\ phase \in {"wait", "parse", "return"}
          /\ requests \in Seq([body : Seq(Tokens), form : Maps, cookies : Maps])
          /\ result \in {"OK", "INVALIDREQUEST", "TOOBIG"}
      BY DEF ParserInv, Text
    <2> QED BY <2>2, <2>3, Zenon DEF TypeOK
  <1> QED BY <1>1, ParserCorrect, PTL

\* The buffer is, between any two steps, exactly the end of what was received:
\* no byte that a pass did not consume is lost, and none is parsed twice.
THEOREM BufferCorrect == Spec => []BufferInv
  <1>1. ParserInv => BufferInv
    BY DEF ParserInv
  <1> QED BY <1>1, ParserCorrect, PTL

\* What maxrequestsize bounds: the buffer, and the body of every request that is
\* not sent in chunks.
SizeBounded ==
    /\ Len(m_sBuffer) <= MaxRequestSize
    /\ request.chunked \/ RequestWithinLimit

\* AddBuffer refuses data that would take the buffer over the limit, and a body
\* of known length is taken from the buffer in one piece.
THEOREM SizeCorrect == Spec => []SizeBounded
  <1>1. ParserInv => SizeBounded
    BY Zenon DEF ParserInv, Sound, SizeBounded, RequestWithinLimit
  <1> QED BY <1>1, ParserCorrect, PTL

\* No pass of the loop, and no return of ParseData, leaves both the buffer and
\* the work still to do as they were.
ParsingShrinks == [][ParseData \/ ParseDataReturns => Shrinks]_vars

\* ParseData's loop and the loop of AddBuffer around it come to an end: each
\* pass takes tokens from the buffer, or it is one of at most four in a row that
\* do not.
THEOREM ParsingEnds == Spec => ParsingShrinks
  <1>1. ParserInv /\ [Next]_vars => [ParseData \/ ParseDataReturns => Shrinks]_vars
    BY ParseDataKeeps, ReturnKeeps
  <1> QED BY <1>1, ParserCorrect, PTL DEF Spec, ParsingShrinks
=============================================================================
