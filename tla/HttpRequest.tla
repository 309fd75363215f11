----------------------------- MODULE HttpRequest -----------------------------
(***************************************************************************)
(* How the bytes of a connection become requests: EHSConnection::AddBuffer *)
(* (src/ehs.cpp) and HttpRequest::ParseData (src/httprequest.cpp), for     *)
(* data that arrives in pieces of any size.                                *)
(*                                                                         *)
(* The data is a sequence of tokens, each standing for a run of bytes that *)
(* the parser never looks into: "crlf", the text of a request line or of a *)
(* header line, of the head of a chunk, and single bytes of a body.  What  *)
(* one Read returns may end after any token in the input's cuts, so lines, *)
(* bodies and chunks arrive in parts.  The input also says what the client *)
(* means: its requests, and whether all of it is valid.  One pass through  *)
(* the loop of ParseData is one step.  m_sParseContentType is empty, as by *)
(* default: every body that is not multipart is searched for form data.    *)
(***************************************************************************)
EXTENDS FormData

CONSTANTS
    Inputs,          \* what clients send: records [stream, cuts, requests, valid]
    MaxRequestSize   \* m_nMaxRequestSize, in tokens

ASSUME SizeAssumption == MaxRequestSize \in Nat

\* Texts of lines.  A request line carries a version and a URI.
RequestLines == {"GET 1.0", "GET 1.1", "GET /?u=y 1.0", "GET /?u=&v=y=?z 1.0"}
HeaderLines  == {"Host: h", "Content-Length: 0", "Content-Length: 1",
                 "Content-Length: 2", "Content-Length: 12", "Content-Length: 20",
                 "Content-Length: 3", "Content-Length: 7",
                 "Cookie: u=y", "Cookie: u=y;; v=z=y", "Transfer-Encoding: chunked",
                 "Connection: Upgrade", "Upgrade: websocket",
                 "Content-Type: multipart; boundary", "Content-Type: multipart"}
ChunkHeads   == {"0", "1", "2", "3", "12", "20"}
Continuation == " continued"
Junk         == "junk"    \* matches no regular expression of the parser
Bytes        == {"y", "z", "/", ";", " "} \cup FieldNames \cup {"=", "&", "?"}
Tokens == RequestLines \cup HeaderLines \cup ChunkHeads \cup Bytes
            \cup Dispositions \cup {"crlf", "--", "b", Continuation, Junk}

\* Each read ends after one of the tokens.
ASSUME InputAssumption ==
    \A i \in Inputs : i.stream \in Seq(Tokens) /\ i.cuts \subseteq 1..Len(i.stream)

Version(line) == IF line = "GET 1.1" THEN "1.1" ELSE "1.0"

\* The characters of a URI.
Uri(line) ==
    CASE line = "GET /?u=y 1.0" -> <<"/", "?", "u", "=", "y">>
      [] line = "GET /?u=&v=y=?z 1.0" ->
            <<"/", "?", "u", "=", "&", "v", "=", "y", "=", "?", "z">>
      [] OTHER -> <<"/">>

HeaderName(line) ==
    CASE line = "Host: h" -> "Host"
      [] line = "Transfer-Encoding: chunked" -> "Transfer-Encoding"
      [] line = "Connection: Upgrade" -> "Connection"
      [] line = "Upgrade: websocket" -> "Upgrade"
      [] line \in {"Content-Type: multipart; boundary",
                  "Content-Type: multipart"} -> "Content-Type"
      [] line \in {"Cookie: u=y", "Cookie: u=y;; v=z=y"} -> "Cookie"
      [] OTHER -> "Content-Length"
HeaderValue(line) ==
    CASE line = "Host: h" -> "h"
      [] line = "Transfer-Encoding: chunked" -> "chunked"
      [] line = "Connection: Upgrade" -> "upgrade"
      [] line = "Upgrade: websocket" -> "websocket"
      [] line = "Content-Length: 0" -> "0"
      [] line = "Content-Length: 1" -> "1"
      [] line = "Content-Length: 2" -> "2"
      [] line = "Content-Length: 3" -> "3"
      [] line = "Content-Length: 7" -> "7"
      [] line = "Cookie: u=y" -> "u=y"
      [] line = "Cookie: u=y;; v=z=y" -> "u=y;; v=z=y"
      [] line = "Content-Length: 12" -> "12"
      [] line = "Content-Length: 20" -> "20"
      [] line = "Content-Type: multipart; boundary" -> "multipart; boundary"
      [] line = "Content-Type: multipart" -> "multipart"
HeaderNames  == {HeaderName(line) : line \in HeaderLines}

\* An item of a header's value is the text of its line and of the lines that
\* continue it.
HeaderTexts == {HeaderValue(line) : line \in HeaderLines} \cup {Continuation}

\* The characters of the value of a Cookie header.
CookieText(value) ==
    (IF value[1] = "u=y" THEN <<"u", "=", "y">>
     ELSE <<"u", "=", "y", ";", ";", " ", "v", "=", "z", "=", "y">>) \o Tail(value)

Number(text) == CASE text = "0" -> 0 [] text = "1" -> 1 [] text = "2" -> 2
                  [] text = "3" -> 3 [] text = "7" -> 7
                  [] text = "12" -> 12 [] text = "20" -> 20

\* Names of headers that may come more than once.
IsMultivalHeader(name) == name \in {"Transfer-Encoding", "Connection", "Upgrade"}

States == {"REQUEST", "HEADERS", "BODY", "BODYCHUNK", "BODYTRAILER",
           "BODYTRAILER2", "COMPLETEREQUEST", "INVALIDREQUEST"}

VARIABLES
    input,      \* what this client sends
    received,   \* how many of its tokens have been read
    m_sBuffer,  \* received and not yet consumed
    request,    \* *m_poCurrentHttpRequest
    phase,      \* "wait" for data, in ParseData's loop ("parse"), or "return"
    requests,   \* the requests completed so far: body, form values and cookies
    result      \* AddBuffer's last result

vars == <<input, received, m_sBuffer, request, phase, requests, result>>

\* The constructor.  headers holds the items of each header's value; a header
\* that was not sent has none.
NewRequest == [state |-> "REQUEST", version |-> "",
               headers |-> [name \in HeaderNames |-> <<>>], lastHeader |-> "",
               chunked |-> FALSE, chunkLen |-> 0, body |-> <<>>,
               form |-> NoForm, cookies |-> NoForm]

Maps == [FieldNames -> Seq(Seq(Tokens))]

TypeOK ==
    /\ input \in Inputs
    /\ received \in 0..Len(input.stream)
    /\ m_sBuffer \in Seq(Tokens)
    /\ request.state \in States
    /\ request.version \in {"", "1.0", "1.1"}
    /\ request.headers \in [HeaderNames -> Seq(Seq(HeaderTexts))]
    /\ request.lastHeader \in HeaderNames \cup {""}
    /\ request.chunkLen \in 0..20
    /\ request.body \in Seq(Tokens)
    /\ request.form \in Maps /\ request.cookies \in Maps
    /\ phase \in {"wait", "parse", "return"}
    /\ requests \in Seq([body : Seq(Tokens), form : Maps, cookies : Maps])
    /\ result \in {"OK", "INVALIDREQUEST", "TOOBIG"}

Init ==
    /\ input \in Inputs
    /\ received = 0
    /\ m_sBuffer = <<>>
    /\ request = NewRequest
    /\ phase = "wait"
    /\ requests = <<>>
    /\ result = "OK"

-----------------------------------------------------------------------------
(* Helpers *)

Drop(s, n) == SubSeq(s, n + 1, Len(s))
Take(s, n) == SubSeq(s, 1, IF n < Len(s) THEN n ELSE Len(s))

\* GetNextLine: up to and including the first "\r\n".
LineEnd == SelectInSeq(m_sBuffer, LAMBDA token : token = "crlf")
HasLine == LineEnd # 0
Line == Take(m_sBuffer, LineEnd)
Rest == Drop(m_sBuffer, LineEnd)
BlankLine == <<"crlf">>
TextOf(line) == IF Len(line) = 2 THEN line[1] ELSE Junk

Parsing(state) == phase = "parse" /\ request.state = state

\* What one pass of the loop leaves: the buffer, the request, whether it is the
\* last one (bDone).
Pass(buffer, req, done) ==
    /\ m_sBuffer' = buffer
    /\ request' = req
    /\ phase' = IF done THEN "return" ELSE "parse"
    /\ UNCHANGED <<input, received, requests, result>>

Invalid == [request EXCEPT !.state = "INVALIDREQUEST"]
NotEnoughData == Pass(m_sBuffer, request, TRUE)

-----------------------------------------------------------------------------
(* AddBuffer *)

\* CheckClientSockets has read the input up to token n.
AddBuffer(n) ==
    /\ phase = "wait"
    /\ result = "OK"
    /\ n > received
    /\ received' = n
    /\ IF Len(m_sBuffer) + (n - received) > MaxRequestSize
       THEN /\ result' = "TOOBIG"
            /\ UNCHANGED <<m_sBuffer, phase>>
       ELSE /\ m_sBuffer' = m_sBuffer \o SubSeq(input.stream, received + 1, n)
            /\ phase' = "parse"
            /\ UNCHANGED result
    /\ UNCHANGED <<input, request, requests>>

\* ParseData returns: a complete request is queued and parsing goes on with a
\* new one; an invalid one ends the connection.
ParseDataReturns ==
    /\ \/ phase = "return"
       \/ phase = "parse" /\ request.state \in {"COMPLETEREQUEST", "INVALIDREQUEST"}
    /\ IF request.state = "COMPLETEREQUEST"
       THEN /\ requests' = Append(requests, [body |-> request.body,
                                             form |-> request.form,
                                             cookies |-> request.cookies])
            /\ request' = NewRequest
            /\ phase' = "parse"
            /\ UNCHANGED result
       ELSE /\ result' = IF request.state = "INVALIDREQUEST"
                         THEN "INVALIDREQUEST" ELSE "OK"
            /\ phase' = "wait"
            /\ UNCHANGED <<requests, request>>
    /\ UNCHANGED <<input, received, m_sBuffer>>

-----------------------------------------------------------------------------
(* ParseData, one pass of its loop *)

\* An empty line in front of the request line ends this call of ParseData.
ParseRequestLine ==
    /\ Parsing("REQUEST")
    /\ IF ~HasLine THEN NotEnoughData
       ELSE IF Line = BlankLine THEN Pass(Rest, request, TRUE)
       ELSE IF TextOf(Line) \in RequestLines
       THEN \E line \in RequestLines :
                /\ line = TextOf(Line)
                /\ Pass(Rest, [request EXCEPT !.state = "HEADERS", !.version = Version(line),
                                   !.form = GetFormDataFromString(@, Uri(line))], FALSE)
       ELSE Pass(Rest, Invalid, FALSE)

HasHeader(name) == request.headers[name] # <<>>

MultivalHeaderContains(name, value) == Contains(request.headers[name], <<value>>)

\* The blank line after the headers decides how the body is delimited; the
\* cookies are parsed.
AfterHeaders ==
    LET websocket == /\ MultivalHeaderContains("Connection", "upgrade")
                     /\ MultivalHeaderContains("Upgrade", "websocket")
        chunked   == MultivalHeaderContains("Transfer-Encoding", "chunked")
        req == [request EXCEPT !.cookies =
                    IF HasHeader("Cookie")
                    THEN ParseCookieData(@, CookieText(Last(request.headers["Cookie"])))
                    ELSE @]
    IN  IF request.version = "1.1" /\ ~HasHeader("Host") THEN Invalid
        ELSE IF ~websocket /\ (chunked \/ HasHeader("Content-Length"))
        THEN [req EXCEPT !.state = "BODY", !.chunked = chunked]
        ELSE [req EXCEPT !.state = "COMPLETEREQUEST"]

\* Only a header with a list for value may come again.
AddHeader(line) ==
    IF HasHeader(HeaderName(line)) /\ ~IsMultivalHeader(HeaderName(line))
    THEN Pass(Rest, Invalid, TRUE)
    ELSE Pass(Rest, [request EXCEPT
                !.headers[HeaderName(line)] = Append(@, <<HeaderValue(line)>>),
                !.lastHeader = HeaderName(line)], FALSE)

\* A continuation line is appended to the last item of the last header's value.
ContinueHeader ==
    IF request.lastHeader = "" THEN Pass(Rest, Invalid, TRUE)
    ELSE Pass(Rest, [request EXCEPT
                !.headers[request.lastHeader] = Append(Front(@), Append(Last(@), Continuation))],
              FALSE)

ParseHeaderLine ==
    /\ Parsing("HEADERS")
    /\ IF ~HasLine THEN NotEnoughData
       ELSE IF Line = BlankLine THEN Pass(Rest, AfterHeaders, FALSE)
       ELSE IF TextOf(Line) \in HeaderLines THEN AddHeader(TextOf(Line))
       ELSE IF TextOf(Line) = Continuation THEN ContinueHeader
       ELSE Pass(Rest, Invalid, TRUE)

\* The request with its whole body: a multipart body has to be well formed, and
\* its parts become form values, as do the pairs in another body.
Complete(body) ==
    LET type == request.headers["Content-Type"]
        req  == [request EXCEPT !.state = "COMPLETEREQUEST", !.body = body] IN
    IF ~HasHeader("Content-Type") THEN [req EXCEPT !.form = GetFormDataFromString(@, body)]
    ELSE IF Last(type) = <<"multipart; boundary">> /\ StartsAtBoundary(body)
    THEN [req EXCEPT !.form = ParseMultipartFormData(@, body)]
    ELSE [req EXCEPT !.state = "INVALIDREQUEST"]

\* Mutant: the body is copied out of the buffer and not erased from it.
ParseBody_BodyStays ==
    /\ Parsing("BODY")
    /\ ~request.chunked
    /\ LET text == Last(request.headers["Content-Length"])
           length == Number(text[1]) IN
       IF Len(text) > 1 THEN Pass(m_sBuffer, Invalid, FALSE)
       ELSE IF Len(m_sBuffer) < length THEN NotEnoughData
       ELSE Pass(m_sBuffer, Complete(Take(m_sBuffer, length)), TRUE)

\* A body of known length is taken in one piece, once all of it is there.
ParseBody ==
    /\ Parsing("BODY")
    /\ ~request.chunked
    /\ LET text == Last(request.headers["Content-Length"])
           length == Number(text[1]) IN
       IF Len(text) > 1 THEN Pass(m_sBuffer, Invalid, FALSE)
       ELSE IF Len(m_sBuffer) < length THEN NotEnoughData
       ELSE Pass(Drop(m_sBuffer, length), Complete(Take(m_sBuffer, length)), TRUE)

ParseChunkHead ==
    /\ Parsing("BODY")
    /\ request.chunked
    /\ IF ~HasLine THEN NotEnoughData
       ELSE IF TextOf(Line) \notin ChunkHeads THEN Pass(Rest, Invalid, TRUE)
       ELSE IF Number(TextOf(Line)) = 0
       THEN Pass(Rest, [request EXCEPT !.state = "BODYTRAILER"], FALSE)
       ELSE Pass(Rest, [request EXCEPT !.state = "BODYCHUNK",
                                       !.chunkLen = Number(TextOf(Line))], FALSE)

\* Mutant: the length of the buffer is subtracted even if it holds more than
\* the chunk.
ParseChunk_LengthBelowZero ==
    /\ Parsing("BODYCHUNK")
    /\ request.chunkLen > 0
    /\ Pass(Drop(m_sBuffer, request.chunkLen),
            [request EXCEPT !.body = @ \o Take(m_sBuffer, request.chunkLen),
                            !.chunkLen = @ - Len(m_sBuffer)], TRUE)

\* Bytes of a chunk.  If the buffer holds no more than the chunk, they are
\* appended to the body and counted, but stay in the buffer.
ParseChunk ==
    /\ Parsing("BODYCHUNK")
    /\ request.chunkLen > 0
    /\ LET body == request.body \o Take(m_sBuffer, request.chunkLen) IN
       IF Len(m_sBuffer) > request.chunkLen
       THEN Pass(Drop(m_sBuffer, request.chunkLen),
                 [request EXCEPT !.body = body, !.chunkLen = 0], FALSE)
       ELSE Pass(m_sBuffer,
                 [request EXCEPT !.body = body, !.chunkLen = @ - Len(m_sBuffer)], TRUE)

\* The line end after a chunk.
ParseChunkEnd ==
    /\ Parsing("BODYCHUNK")
    /\ request.chunkLen = 0
    /\ IF ~HasLine THEN NotEnoughData
       ELSE IF Line = BlankLine THEN Pass(Rest, [request EXCEPT !.state = "BODY"], FALSE)
       ELSE Pass(Rest, Invalid, FALSE)

\* Mutant: the blank line is put back and the state stays.
ParseTrailer_StateStays ==
    /\ Parsing("BODYTRAILER")
    /\ IF ~HasLine THEN NotEnoughData
       ELSE IF Line = BlankLine THEN Pass(m_sBuffer, request, FALSE)
       ELSE Pass(Rest, [request EXCEPT !.state = "BODYTRAILER2"], FALSE)

\* One trailer line may follow the last chunk; a blank line is put back.
ParseTrailer ==
    /\ Parsing("BODYTRAILER")
    /\ IF ~HasLine THEN NotEnoughData
       ELSE Pass(IF Line = BlankLine THEN m_sBuffer ELSE Rest,
                 [request EXCEPT !.state = "BODYTRAILER2"], FALSE)

ParseTrailerEnd ==
    /\ Parsing("BODYTRAILER2")
    /\ IF ~HasLine THEN NotEnoughData
       ELSE IF Line = BlankLine THEN Pass(Rest, Complete(request.body), TRUE)
       ELSE Pass(Rest, Invalid, TRUE)

ParseData ==
    \/ ParseRequestLine \/ ParseHeaderLine \/ ParseBody
    \/ ParseChunkHead \/ ParseChunk \/ ParseChunkEnd
    \/ ParseTrailer \/ ParseTrailerEnd

\* Everything is read, or the connection is not read from any more.
Quiescent ==
    /\ phase = "wait"
    /\ received = Len(input.stream) \/ result # "OK"

Next ==
    \/ \E n \in input.cuts : AddBuffer(n)
    \/ ParseData
    \/ ParseDataReturns
    \/ Quiescent /\ UNCHANGED vars

Spec == Init /\ [][Next]_vars

FairSpec == Spec /\ WF_vars(ParseData \/ ParseDataReturns)

-----------------------------------------------------------------------------
(* Properties *)

\* The requests found are the ones the client sent, with their bodies, form
\* values and cookies, wherever the inputs have the data cut into pieces (not
\* inside or right after the bytes of a chunk); an invalid request is refused,
\* after the ones before it.
ParsedAsSent ==
    Quiescent => /\ requests = input.requests
                 /\ result = IF input.valid THEN "OK" ELSE "INVALIDREQUEST"

\* AddBuffer always returns.
AddBufferReturns == phase # "wait" ~> phase = "wait"

\* ParseData loops "as many times as it can as long as it gets a full line each
\* time": no complete line is left behind where lines are expected.
NoLineLeft ==
    phase = "wait" /\ result = "OK"
        /\ request.state \in {"REQUEST", "HEADERS", "BODYTRAILER", "BODYTRAILER2"}
            => ~HasLine

\* maxrequestsize is "The maximum size of an incoming request", the body of a
\* request in several chunks included.
RequestWithinLimit == Len(request.body) <= MaxRequestSize

=============================================================================
