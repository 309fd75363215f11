--------------------------- MODULE MCHttpRequest ---------------------------
(***************************************************************************)
(* What clients send to the parser: messages built by an encoder, one or   *)
(* two of them on a connection.                                            *)
(***************************************************************************)
EXTENDS HttpRequest

\* A message: a request line, header lines, a blank line and a payload.
Message(requestLine, headers, payload, body, valid) ==
    [tokens |-> <<requestLine, "crlf">>
                  \o FlattenSeq([i \in DOMAIN headers |-> <<headers[i], "crlf">>])
                  \o <<"crlf">> \o payload,
     body |-> body, form |-> NoForm, cookies |-> NoForm, valid |-> valid]

Good(requestLine, headers, body) == Message(requestLine, headers, body, body, TRUE)
Bad(requestLine, headers) == Message(requestLine, headers, <<>>, <<>>, FALSE)

Chunk(bytes) == <<CASE Len(bytes) = 0 -> "0" [] Len(bytes) = 1 -> "1"
                    [] Len(bytes) = 2 -> "2", "crlf">> \o bytes
Chunked(chunks, trailer, body, valid) ==
    Message("GET 1.1", <<"Host: h", "Transfer-Encoding: chunked">>,
            FlattenSeq([i \in DOMAIN chunks |-> Chunk(chunks[i]) \o <<"crlf">>])
                \o Chunk(<<>>) \o trailer,
            body, valid)

\* A body may look like a request, or hold line ends.
GoodMessages ==
    { Good("GET 1.0", <<>>, <<>>),
      Good("GET 1.1", <<"Host: h">>, <<>>),
      Good("GET 1.1", <<"Host: h", " continued", "Content-Length: 1">>, <<"y">>),
      Good("GET 1.0", <<"Content-Length: 0">>, <<>>),
      Good("GET 1.0", <<"Content-Length: 2">>, <<"GET 1.0", "crlf">>),
      Good("GET 1.0", <<"Content-Length: 2">>, <<"crlf", "z">>),
      Good("GET 1.0", <<"Transfer-Encoding: chunked", " continued",
                        "Content-Length: 1">>, <<"z">>),
      Good("GET 1.1", <<"Connection: Upgrade", "Upgrade: websocket", "Host: h",
                        "Connection: Upgrade", "Content-Length: 2">>, <<>>) }

BadMessages ==
    { Bad("junk", <<>>),
      Bad("GET 1.1", <<>>),
      Bad("GET 1.0", <<"Host: h", "Host: h">>),
      Bad("GET 1.0", <<"Content-Length: 1", "Content-Length: 1">>),
      Bad("GET 1.0", <<"Content-Length: 1", " continued">>),
      Bad("GET 1.0", <<" continued">>),
      Bad("GET 1.0", <<"junk">>) }

ChunkedMessages ==
    { Chunked(<<<<"y", "z">>, <<"y">>>>, <<"crlf">>, <<"y", "z", "y">>, TRUE),
      Chunked(<<<<"z">>>>, <<"Host: h", "crlf", "crlf">>, <<"z">>, TRUE),
      Chunked(<<>>, <<"crlf">>, <<>>, TRUE),
      Chunked(<<>>, <<"Host: h", "crlf", "Host: h", "crlf", "crlf">>, <<>>, FALSE),
      Message("GET 1.0", <<"Transfer-Encoding: chunked">>, <<"junk", "crlf">>, <<>>, FALSE),
      Message("GET 1.0", <<"Transfer-Encoding: chunked">>,
              <<"1", "crlf", "z", "z", "crlf">>, <<>>, FALSE) }

\* A form with the given fields, <<name, value>>, as a client encodes it, of the
\* length that contentLength gives, either as a body or in one chunk.
MultipartBody(fields) ==
    Boundary
      \o FlattenSeq([i \in DOMAIN fields |->
            <<"crlf", IF fields[i][1] = "u" THEN "Content-Disposition: u"
                      ELSE "Content-Disposition: v", "crlf", "crlf">>
              \o fields[i][2] \o <<"crlf">> \o Boundary])
      \o <<"--", "crlf">>
FormOf(fields) ==
    [name \in FieldNames |->
        LET values == SelectSeq(fields, LAMBDA field : field[1] = name)
        IN  IF values = <<>> THEN <<>> ELSE <<Last(values)[2]>>]
Multipart(fields, contentLength) ==
    LET body == MultipartBody(fields) IN
    [Good("GET 1.0", <<contentLength, "Content-Type: multipart; boundary">>, body)
        EXCEPT !.form = FormOf(fields)]
ChunkedMultipart(fields, chunkHead) ==
    LET body == MultipartBody(fields) IN
    [Message("GET 1.0", <<"Transfer-Encoding: chunked",
                          "Content-Type: multipart; boundary">>,
             <<chunkHead, "crlf">> \o body \o <<"crlf", "0", "crlf", "crlf">>,
             body, TRUE) EXCEPT !.form = FormOf(fields)]

\* Forms with one field, and multipart bodies that are refused.
FormMessages ==
    { Multipart(<<<<"u", <<"y">>>>>>, "Content-Length: 12"),
      Multipart(<<<<"v", <<"crlf">>>>>>, "Content-Length: 12"),
      Message("GET 1.0", <<"Content-Length: 12", "Content-Type: multipart">>,
              MultipartBody(<<<<"u", <<"y">>>>>>), <<>>, FALSE),
      Message("GET 1.0", <<"Content-Length: 12", "Content-Type: multipart; boundary",
                           " continued">>,
              MultipartBody(<<<<"u", <<"y">>>>>>), <<>>, FALSE),
      Message("GET 1.0", <<"Content-Length: 1", "Content-Type: multipart; boundary">>,
              <<"y">>, <<>>, FALSE) }
ChunkedFormMessages == { ChunkedMultipart(<<<<"u", <<"z">>>>>>, "12") }

\* Form values in the URI and in the body, of which the later ones count, with an
\* empty value and one with the characters "=" and "?"; cookies.
With(u, v) == [name \in FieldNames |-> IF name = "u" THEN u ELSE v]
PairMessages ==
    { [Good("GET /?u=y 1.0", <<>>, <<>>) EXCEPT !.form = With(<<<<"y">>>>, <<>>)],
      [Good("GET /?u=&v=y=?z 1.0", <<"Content-Length: 3">>, <<"u", "=", "z">>)
        EXCEPT !.form = With(<<<<"z">>>>, <<<<"y", "=", "?", "z">>>>)],
      [Good("GET /?u=y 1.0", <<"Content-Length: 7", "Cookie: u=y">>,
            <<"u", "=", "&", "v", "=", "y", "=">>)
        EXCEPT !.form = With(<<<<>>>>, <<<<"y", "=">>>>), !.cookies = With(<<<<"y">>>>, <<>>)],
      [Good("GET 1.1", <<"Cookie: u=y;; v=z=y", "Host: h">>, <<>>)
        EXCEPT !.cookies = With(<<<<"y">>>>, <<<<"z", "=", "y">>>>)],
      Bad("GET 1.1", <<"Cookie: u=y">>), Bad("GET 1.0", <<"Cookie: u=y", "Cookie: u=y">>),
      [Message("GET 1.0", <<"Transfer-Encoding: chunked", "Cookie: u=y">>,
               <<"3", "crlf", "v", "=", "z", "crlf", "0", "crlf", "crlf">>,
               <<"v", "=", "z">>, TRUE)
        EXCEPT !.form = With(<<>>, <<<<"z">>>>), !.cookies = With(<<<<"y">>>>, <<>>)] }

\* One message, and a valid one followed by another.
Streams(messages) ==
    { <<m>> : m \in messages }
      \cup { <<m[1], m[2]>> : m \in {m \in messages \X messages : m[1].valid} }

\* The input for a sequence of messages, of which only the last may be invalid.
Input(messages, Cut(_)) ==
    LET stream == FlattenSeq([i \in DOMAIN messages |-> messages[i].tokens])
        sent   == SelectSeq(messages, LAMBDA m : m.valid)
    IN  [stream |-> stream,
         cuts   |-> {n \in DOMAIN stream : n = Len(stream) \/ Cut(stream[n])},
         requests |-> [i \in DOMAIN sent |->
                        [body |-> sent[i].body, form |-> sent[i].form,
                         cookies |-> sent[i].cookies]],
         valid  |-> Last(messages).valid]

Anywhere(token) == TRUE
NotAfterBytes(token) == token \notin Bytes
Never(token) == FALSE

IsChunked(m) == Contains(m.tokens, "Transfer-Encoding: chunked")

\* Cut anywhere, no chunks; bodies with pairs in them, one or two.
PlainInputs == {Input(s, Anywhere) : s \in Streams(GoodMessages \cup BadMessages)}
                 \cup {Input(s, Anywhere) : s \in Streams(FormMessages)}
                 \cup {Input(s, NotAfterBytes) : s \in Streams(PairMessages)}
                 \cup {Input(<<m>>, Anywhere) : m \in {m \in PairMessages : ~IsChunked(m)}}

\* Chunked messages, alone or after others, cut anywhere but inside a chunk or
\* between a chunk and the line end after it.
ChunkedInputs ==
    {Input(s, NotAfterBytes) :
        s \in Streams(ChunkedMessages \cup {Good("GET 1.0", <<>>, <<>>)})}
      \cup {Input(<<m>>, Never) : m \in ChunkedFormMessages}

AllInputs == PlainInputs \cup ChunkedInputs

\* Chunked messages cut anywhere.
SplitInputs == {Input(<<m>>, Anywhere) : m \in ChunkedMessages}

\* Forms with two fields, cut anywhere.
TwoFieldInputs ==
    {Input(<<Multipart(<<<<f, <<"y">>>>, <<"v", <<"z">>>>>>, "Content-Length: 20")>>,
           Anywhere) : f \in FieldNames}

\* A client that sends an empty line between two requests.
BlankLineInputs ==
    {Input(<<Message("GET 1.0", <<>>, <<"crlf">>, <<>>, TRUE), m>>, Anywhere) :
        m \in GoodMessages}

\* More bytes of body than MaxRequestSize, in chunks.
LongInputs ==
    {Input(<<Chunked([i \in 1..3 |-> <<"y", "z">>], <<"crlf">>, <<>>, TRUE)>>,
           NotAfterBytes)}
=============================================================================
