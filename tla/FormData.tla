------------------------------ MODULE FormData ------------------------------
(***************************************************************************)
(* Form data and cookies (src/httprequest.cpp), as functions of the text:  *)
(* HttpRequest::ParseMultipartFormData and ParseSubbody for multipart      *)
(* bodies, GetFormDataFromString for URIs and other bodies, and            *)
(* ParseCookieData for the Cookie header.                                  *)
(*                                                                         *)
(* The code cuts the body by counting bytes, so every token of a multipart *)
(* body stands for two of them: "crlf", the dashes "--" and the text "b"   *)
(* of the boundary, the value bytes.  A part's Content-Disposition line is *)
(* one token (of any even length: it is only ever found, never counted).   *)
(***************************************************************************)
EXTENDS Integers, SequencesExt

Boundary == <<"--", "b">>

FieldNames == {"u", "v"}
Dispositions == {"Content-Disposition: u", "Content-Disposition: v"}
FieldName(line) == IF line = "Content-Disposition: u" THEN "u" ELSE "v"

\* m_oFormValueMap, and m_oCookieMap: for each name no value or one.  What is
\* stored under names that nobody sends is not recorded.
NoForm == [name \in FieldNames |-> <<>>]

\* string::find: the place in front of the first occurrence of pattern behind
\* the first n tokens of s, or -1 (npos).
Find(s, pattern, n) ==
    LET At == {i \in n..(Len(s) - Len(pattern)) :
                    SubSeq(s, i + 1, i + Len(pattern)) = pattern}
    IN  IF At = {} THEN -1 ELSE Min(At)

\* What a loop finds next: an item, and the place to go on behind, or nothing.
NoMatch == [item |-> <<>>, next |-> 0]

\* The map with what the pairs say: the last pair with a name counts.
Store(map, pairs) ==
    [name \in FieldNames |->
        LET hits == {i \in DOMAIN pairs : pairs[i].name = <<name>>}
        IN  IF hits = {} THEN map[name] ELSE <<pairs[Max(hits)].value>>]

-----------------------------------------------------------------------------
(* Multipart bodies *)

\* ParseSubbody: the value of a part whose headers begin with its
\* Content-Disposition line, and its name; any other part has no name.
ParseSubbody(subbody) ==
    LET blank == Find(subbody, <<"crlf", "crlf">>, 0) IN
    IF blank > 0 /\ subbody[1] \in Dispositions
    THEN [name  |-> <<FieldName(subbody[1])>>,
          value |-> SubSeq(subbody, blank + 3, Len(subbody))]
    ELSE [name |-> <<>>, value |-> <<>>]

\* The next part behind the first n tokens.  The search goes on Len(Boundary)
\* behind the "\r\n" in front of the boundary that ends a part.
NextSubbody(body, n) ==
    LET part == Find(body, <<"crlf">> \o Boundary, n) IN
    IF part = -1 THEN NoMatch
    ELSE [item |-> ParseSubbody(SubSeq(body, n + 1, part)), next |-> part + Len(Boundary)]

\* The body begins with the boundary and is long enough for the "\r\n" behind
\* it (for a shorter body the code throws).
StartsAtBoundary(body) ==
    Len(body) > Len(Boundary) /\ SubSeq(body, 1, Len(Boundary)) = Boundary

\* The parts found behind the first n tokens.
Subbodies(body) ==
    LET from[n \in 0..Len(body)] ==
            LET found == NextSubbody(body, n) IN
            IF found.next = 0 THEN <<>> ELSE <<found.item>> \o from[found.next]
    IN  from[Len(Boundary) + 1]

\* The form values after ParseMultipartFormData has succeeded.
ParseMultipartFormData(form, body) == Store(form, Subbodies(body))

-----------------------------------------------------------------------------
(* Pairs name=value in a text of single characters; the regular expressions *)
(* are searched for from left to right, each match begins behind the last   *)

\* "[?]?([^?=]*)=([^&]*)&?": a name goes back from its "=" to the last "?" or to
\* the end of the match before, a value on to the next "&".
NextFormPair(s, n) ==
    LET eq   == SelectInSubSeq(s, n + 1, Len(s), LAMBDA c : c = "=")
        mark == SelectLastInSubSeq(s, n + 1, eq - 1, LAMBDA c : c = "?")
        amp  == SelectInSubSeq(s, eq + 1, Len(s), LAMBDA c : c = "&")
        end  == IF amp = 0 THEN Len(s) + 1 ELSE amp
    IN  IF eq = 0 THEN NoMatch
        ELSE [item |-> [name  |-> SubSeq(s, 1 + (IF mark = 0 THEN n ELSE mark), eq - 1),
                        value |-> SubSeq(s, eq + 1, end - 1)],
              next |-> IF amp = 0 THEN Len(s) ELSE amp]

\* "\s*([^=]+)=([^;]+)(;|$)*": neither the name nor the value may be empty, and
\* blanks in front of the name are skipped.
NextCookiePair(s, n) ==
    LET eqs  == {i \in (n + 2)..(Len(s) - 1) :
                    s[i] = "=" /\ s[i - 1] # "=" /\ s[i + 1] # ";"}
        eq   == Min(eqs)
        last == SelectLastInSubSeq(s, n + 1, eq - 1, LAMBDA c : c = "=")
        name == SubSeq(s, 1 + (IF last = 0 THEN n ELSE last), eq - 1)
        semi == SelectInSubSeq(s, eq + 1, Len(s), LAMBDA c : c = ";")
        end  == IF semi = 0 THEN Len(s) + 1 ELSE semi
        next == SelectInSubSeq(s, end, Len(s), LAMBDA c : c # ";")
    IN  IF eqs = {} THEN NoMatch
        ELSE [item |-> [name  |-> IF name[1] = " " /\ Len(name) > 1 THEN Tail(name) ELSE name,
                        value |-> SubSeq(s, eq + 1, end - 1)],
              next |-> IF next = 0 THEN Len(s) ELSE next - 1]

FormPairs(s) ==
    LET from[n \in 0..Len(s)] ==
            LET found == NextFormPair(s, n) IN
            IF found.next = 0 THEN <<>> ELSE <<found.item>> \o from[found.next]
    IN  from[0]
CookiePairs(s) ==
    LET from[n \in 0..Len(s)] ==
            LET found == NextCookiePair(s, n) IN
            IF found.next = 0 THEN <<>> ELSE <<found.item>> \o from[found.next]
    IN  from[0]

GetFormDataFromString(form, s) == Store(form, FormPairs(s))
ParseCookieData(cookies, s) == Store(cookies, CookiePairs(s))

=============================================================================
