# EHS, the embedded HTTP server: a TLA+ verification project

EHS is a C++ library that puts an HTTP(S) server into an application. The
application derives from `EHS`, overrides `HandleRequest`, and calls
`StartServer`. The project models the library (`src/*.cpp`, `src/include/ehs`) and the
largest program built on it, the WebSocket gateway of `src/samples`, checks both on
small instances with TLC, and proves the safety of its concurrent parts (threads, connections,
single-threaded mode, routing, sockets, gateway) and of the WebSocket frame parser with TLAPS, for any number
of threads, connections, requests, objects and descriptors, and any cut of the bytes.

## 1. Inventory

| Component | State | Operations | Hard part | Module |
|---|---|---|---|---|
| `EHSServer`, threads | running status, accept thread id, `m_bAccepting`, `m_nThreads`, `m_oMutex`, `m_oDoneAccepting`, current requests | constructor, thread stub, `HandleData_Threaded`, `HandleData`, `EndServerThread` | one thread at a time accepts, guarded by a flag and not by the mutex; broadcasts without the mutex; exceptions; stopping | `EHSServer` |
| `EHSServer`, single-threaded mode | `m_nRequestsPending`, `m_bAccepting`, `m_bAcceptedNewConnection`, the connections | `EHS::HandleData` | a loop that ends when a counter says so; flags left by exceptions | `SingleThreaded` |
| `EHSConnection` | counters of requests, responses and active requests; request list and response queue; done-reading, disconnected and raw flags; last activity | `AddBuffer`, `GetNextRequest`, `AddResponse`, `SendResponse`, `DoneReading`, `CheckDone`, idle clearing | workers send while the acceptor reads, refuses and deletes | `EHSConnection` |
| Raw sockets | `m_bRawMode` | switch by a 101 response, `OnConnect`, `OnData`, `OnDisconnect`, `AddResponse(GenericResponse)` | the switch races the next read | `EHSConnection`, `WsGate` |
| Request parsing | receive buffer, parse state, headers, chunk length, body, form values, cookies | `AddBuffer`, `ParseData`, `ParseMultipartFormData`, `ParseSubbody`, `GetFormDataFromString`, `ParseCookieData` | data arrives in pieces of any size | `HttpRequest`, `FormData` |
| EHS objects and routing | parent, registered path, map of children, source object | `RegisterEHS`, `UnregisterEHS`, destructor, `SetSourceEHS`, `RouteRequest`, `HandleRequest` | raw pointers, no lock, destructor that unregisters | `EHS` |
| `Socket`, `SecureSocket` | descriptor, reference count, shared SSL objects, `s_mutex` | `Init`, `Accept`, `Close`, destructor | shared objects created by the first and freed by the last | `SecureSocket` |
| `HttpResponse`, `GenericResponse` | status, headers, body | `GetHeaders`, `Cookie` formatting | formatting only | a response's kind in `EHSConnection` |
| SSL lock callbacks, `SslError` | arrays of mutexes, error texts | called back by OpenSSL | OpenSSL's discipline, not EHS's | not modelled |
| `Datum`, `FormValue`, `ContentDisposition` | values | conversions | none | not modelled |
| Bind helper | external process | bind a privileged port | none | an outcome of `InitSocket` |
| WebSocket endpoint (sample) | frame parser, session state | `consume`, `AddRxData`, `send`, `pong`, `send_close`, `send_close_ack`, `shutdown` | frames cut anywhere, three forms of the size, exceptions of three kinds | `WsFrame`, `WsEndpoint`, `WsSession` |
| WebSocket handshake (sample) | SHA-1 object | `HandleRequest`, SHA-1, base64 | 32 bit arithmetic, padding | `WsHandshake` |
| WebSocket gateway (sample) | maps from connections to handlers and endpoints | `OnConnect`, `OnData`, `OnDisconnect` | two threads, no lock, addresses used again | `WsGate` |
| Other samples | | | small users of the library | not modelled |

How they interact. A server thread that finds nothing to do and nobody accepting
becomes the *acceptor*: without the mutex it selects, accepts connections, reads
from all clients (`EHSConnection::AddBuffer` parses with `HttpRequest::ParseData` and
queues complete requests), answers errors itself, then, with the mutex, closes idle
connections and deletes finished ones, and steps down. Other threads take requests
from the connections' lists, route them through the tree of `EHS` objects to the
application's `HandleRequest`, and send the response through
`EHSConnection::AddResponse`. Threads that find no request while someone accepts wait on
`m_oDoneAccepting`. In one-thread-per-request mode one thread only accepts and
creates a thread for each request. In single-threaded mode the program's own thread
does all this whenever it calls `EHS::HandleData`. A response with status 101 makes a connection raw:
from then on what is read goes to the application's `RawSocketHandler`, in the
gateway to the WebSocket endpoint of that connection.

What makes each part correct:

* server: one acceptor; the list of connections is not changed under a reader;
  no thread is forgotten when the server stops; requests are taken, and threads created for
  a request find one unless it was deleted; the server keeps accepting; `StopServer` returns;
* connection: the counters that decide over deletion agree with what is going on;
  no request is lost and no response goes to a deleted connection;
* parsing: what was sent is found, wherever it was cut; the loop ends;
* routing: no destroyed object is reached; a request goes where its path leads;
* sockets: whoever uses the shared SSL objects finds them; no descriptor stays open;
* single-threaded mode: `HandleData` returns, and then nothing is left to do;
* WebSockets: the client's frames are handled in order and once each, however the bytes
  arrive; a close ends the session, and the connection; the right key is
  computed; an endpoint never serves another connection than its own.

What is hard to test, line by line, is the list of hazards in `PROJECT.json`.

## 2. Modules

### EHSServer

One variable per member of the class, plus `pc` (where each thread is), `app` (where
the application's thread is in the constructor or in `StopServer`), `thread` and
`toStart` (locals of the constructor) and `queued`/`arrived` (the requests of all
connections as a number). An error response of the acceptor (400, 413, 503) is counted as the response to
a request, so that its connection may be deleted with requests in its list: `exposed` is the number of queued requests
on connections that got one, `lost` that of the requests deleted. A code section under `m_oMutex` that touches nothing another
thread touches without it is one step; where the code does something visible between
locking and unlocking (`check`, `idle`, `pushing`, `clearing`, `exiting`) the mutex
is held across steps. `m_oDoneAccepting` has no state: waiting threads are at `wait`, a
broadcast moves all of them to `wake`, and `SpuriousWakeup` moves one at any time, as
POSIX allows. The broadcasts of `AddBuffer` (`QueueRequest`) and of `EndServerThread`
(`WaitForThreads`) need no mutex, as in the code, so wakeups can be lost.

| Action | Code |
|---|---|
| `CreateThread`, `RecordAcceptThread`, `CreateFails` | constructor; the thread id is recorded after the thread has been created |
| `StubEnter`, `ThreadInit`, `StubExit`, `StubUnlock` | `PthreadHandleData_ThreadedStub`; `m_nThreads` is decremented before the mutex is unlocked |
| `LockHandleData`, `TakeRequest`, `NoRequest`, `Wait`, `Resume`, `BecomeAcceptor` | the locked part of `HandleData` |
| `Select`, `NoNewClient`, `AcceptClient`, `PushedConnection`, `QueueRequest`, `RefuseRequest`, `SpawnThread`, `SpawnFails`, `ClientsChecked`, `ClearIdleConnections`, `StopAccepting` | `HandleData` as the acceptor; `RefuseRequest` and `SpawnFails` send an error response (`SendError`), `ClearIdleConnections` deletes connections (`RemoveFinishedConnections`) |
| `HandlerReturns`, `FinishRequest` | `HandleData` with a request |
| `Throw`, `CatchWithResponse`, `CatchWithNull`, `CatchFinish`, `LoopCondition` | the loop of `HandleData_Threaded`; `Exceptions` says where exceptions occur and what the application's `HandleThreadException` answers |
| `EndServerThread`, `WaitForThreads`, `DeleteServer` | `StopServer` |

When the server has been deleted the model stops: what threads do with a deleted
server is undefined.

### EHSConnection

One connection from accept to deletion, its acceptor and its workers. Sections under
the connection's mutex are steps; the `Send` calls, `DoneReading` by the acceptor
and the unlocked reads of `RequestsPending` and `CheckDone` are steps of their own. A
request is its number. `ReadRequests(n)`, `ReadInvalid(n)`, `ReadTooBig`, `ReadNoResource(n)`,
`ReadEnd`, `ReadRaw` and `ReadRawEarly` are the outcomes of one read and `AddBuffer`;
`Refuse`/`Refused` the error response by the acceptor; `AddResponse` ... `EndSend`,
`SentResponse` a worker's (`SendStep` is shared with the acceptor); `CheckIdle`,
`CloseIdle`, `KeepConnection`, `RemoveConnection` the clearing of idle and finished
connections. `wire`, `quiet`, `errors`, `closed`, `generic` and `rawCalls` record what happened.
When the client has closed its end a `Send` of a header may still succeed or fail.

### HttpRequest and FormData

The data of a connection as a sequence of tokens ("\r\n" is one), which arrive in
pieces that end at the input's `cuts`. One pass through the loop of `ParseData` is one
step, `AddBuffer` the step in front of it and `ParseDataReturns` the one behind it.
Some request lines carry form data in their URI, some headers cookies. The inputs are produced by an encoder in `MCHttpRequest`, which also says what was meant,
so `ParsedAsSent` compares the parser with the encoder. `FormData` has the functions for
form data and cookies. Because the code for multipart bodies cuts them by counting bytes, a token
of such a body stands for two bytes. URIs, url-encoded bodies and cookies are sequences of
characters; `NextFormPair` and `NextCookiePair` say what the regular expressions match next,
`FormPairs` and `CookiePairs` collect the matches from left to right, and of several pairs with one name the last counts (`Store`).
The value of a header is a sequence of its lines, to which continuation lines are appended. An empty cookie value would swallow the name of the next cookie; the
inputs have none, and no Cookie header is continued on a second line.

### EHS

The tree of objects while the application changes it and a worker routes a request
through it, one object per step. `Careful` is whether the application keeps the rules
the code needs but does not check (`MayRegister`, `MayUnregister`, `MayDestroy`, `MaySetSource`):

* register, unregister, destroy and set sources only while no request is being routed;
* register an object at one place; a path that is taken may be tried, and is refused;
* destroy an object after its children and after those whose source it is, and not while another object is
  registered in the place it has asked for last (where it was refused, or unregistered before);
* do not chain sources.

The second half of the third rule is about the destructor, which unregisters whoever is in that place.

`ServedBy` is the reference for the routing: the object that a walk along the registrations (`Walk`) ends at.

### SecureSocket

The descriptors of sockets and the life of the SSL objects that all secure sockets
share, for servers that start, fail to start, accept and stop concurrently. Descriptors
are handed out lowest first, also to the rest of the application. `Accept` opens a descriptor and waits for the
handshake, which ends in a socket of its own (`ConstructAccepted`) or with the descriptor closed (`HandshakeFails`).
A socket may be closed by `CheckDone` (`Close`); the destructor of `SecureSocket` closes it (`Destroy`), counts and perhaps frees, and that of
`Socket` closes the same number again (`DestroyBase`). `Restart` is whether a
server may start after all secure sockets have been destroyed.

### SingleThreaded

`EHS::HandleData` and `EHSServer::HandleData` when the program's thread is the only
one, for several connections: a step is as much of the code as has one outcome. Read errors,
invalid and oversized requests, handlers that throw, failing `select` and `Accept`,
idle timeouts and the deletion of finished connections are all there. `Retried` is the set of
exceptions after which the program calls `HandleData` again (the samples end on every one),
`PipelinedInvalid` whether an invalid request may be read together with complete ones.
Where the code would wait on `m_oDoneAccepting`, which nobody signals in this mode,
no step is possible: TLC would report a deadlock.

### WsFrame, WsEndpoint and WsSession

`WsFrame` is the parser and encoder of `wsframe.h` over bytes: basic header, the three
forms of the size, masking, validation, recovery and what is thrown. The limits
(125, 65535, 100000000) and the lengths of the fields (2, 8 and 4 bytes) are constants, so
that TLC can be given smaller ones. `WsEndpoint` is `AddRxData` with the handler
`MyWsHandler`: `AddRxData(n)` takes the next `n` bytes, for any `n`, and one
pass of its loop is one of the actions of `Iterate`. `consume` throws a `wserror`,
which is caught, or (by `throw e`, which copies a `wserror` as a `std::exception`) an
exception, or a string, which are not. `Resumes` is whether `AddRxData` is called again
after that, by a raw socket handler that catches what `OnData` throws; that of the gateway
does not: `HandleData_Threaded` catches exceptions and strings alike (`catch (...)`, `ehs.cpp:648`),
and the server, not the process, ends; see `OnDataThrows` in `WsGate`.

`WsSession` is the abstract specification: a client's frames as records of a type and a payload,
which are handled in order and once each. It says what the code does, not what RFC 6455 asks for: fragments are delivered one by
one (`Fragment`), frames without a mask are accepted, and a frame that breaks the protocol leaves the session
recovering or stuck. What the comments of the code promise instead is stated in `WsEndpoint` and violated (`WsViolation.cfg`). `ImplementsSession` is the refinement. Its mapping
gives the frames that are not complete in the bytes taken so far as the inbox, `m_degraded`
as "recovering", and decodes each response as a client would by RFC 6455, so that the
abstract specification has no bytes at all. The client's encoder in `MCWsEndpoint` and `Decoded` are written
from the RFC and share nothing with `WsFrame`; the encoder masks with the exclusive or of `Bitwise`, `WsFrame`
unmasks with `XorByte`, which is written with divisions so that it can be reasoned about.

### WsHandshake

`WsGate::HandleRequest` of the gateway: pages, refusals, and the upgrade with the digest of
the key. The loops of `SHA1` over message and block are steps. A word of 32 bits is a pair of
16 bit halves, which keeps TLC's integers in range; additions are taken modulo
2^32. The digests in `MCWsHandshake` were computed independently. Which keys are expected to be accepted follows
the code's decoder, which stops at the first character that is not base64 and asks for no padding
(`base64.cpp:91`): most of the keys of the run are not base64 by the RFC, but move the message across the border of a block.

### WsGate

Composition of connections, workers, the accepting thread and the gateway's handler. An
`EHSConnection` is an address and the number of the object that lives there, so that an
address can be used again. The steps of `SendResponse` are apart: `SendNothing` for a client
that is known to be gone, `SendPlain` (with `forceClose`, as for most requests of HTTP/1.0, or without), and for a 101 the header (`SendSwitch`), `m_bRawMode`
(`SwitchToRaw`), the two maps (`OnConnectHandler`, `OnConnectEndpoint`) and, as after every response, the counters
(`EndSend`, with `DoneReading` for `forceClose` or if the header could not be sent). A handler that throws
anything but a traced exception ends the server and leaves its request active (`HandlerThrows`).
What happens inside an endpoint is its state; if its answer cannot be sent, reading ends (`OnDataUnsent`).
`Pipelined` is whether clients send a request before the one before is answered.
`EarlyData` is what may become of a frame that arrives before `m_bRawMode` is set: it stays in the buffer of
the parser, or is refused as a request.

### MC modules

`MCEHSServer`, `MCEHSConnection`, `MCHttpRequest`, `MCEHS`, `MCSecureSocket`, `MCWsEndpoint` and
`MCWsHandshake` name the values of the constants: sets of threads, of errors and
exceptions, inputs, URIs, frames. `SingleThreaded` and `WsGate` need none.
The modules whose names end in `Proofs` have the theorems about the module they extend
(section 4). Definitions with a `Mutant` comment are variants of the
one below them with a plausible mistake; no specification uses them. They show that
the properties are sensitive to the code.

## 3. Runs

| Run | Bounds | Result |
|---|---|---|
| `server` | both modes; 3 threads, of which a pool has 2, 2 requests, every failure, error responses, spurious wakeups; an exception in the acceptor ends the server | `SingleAcceptor`, `ConnectionListSafe`, `ThreadsCounted`, `SomeoneAwake`, `OnlyLostRequestsMissed` hold; under fairness `QueuedRequestsTaken`, `AcceptsAgain`, `StopReturns` |
| `conn_counters` | 2 workers, 2 requests, all kinds of responses and errors, raw data | `CountersAgree` |
| `conn_clean` | 2 workers, 2 requests, no read errors and so no error responses; sends may fail | `DeletedOnlyWhenAnswered`, `IdleCloseSparesPending`, `RequestsAnswered`, `ClosedIsDeleted`, `DoneIsDeleted` |
| `single_threaded` | 2 connections at a time, 3 in all, 3 requests on each; handlers may throw | `RequestsServed`, `HandleDataReturns` |
| `request_parse` | one or two messages on a connection, of all kinds, with forms and cookies, cut anywhere (chunks: not inside or right behind their bytes) | `ParsedAsSent`, `AddBufferReturns` |
| `routing` | 3 objects, 2 paths, careful application, refused registrations | `PointersAlive`, `RoutedByPath`, `RequestAnswered` |
| `sockets` | 2 servers, 2 clients, 4 descriptors, no restart | `StaticsUsable`, `StaticsFreedOnce`, `NoDescriptorLeaked` |
| `ws_endpoint` | two or three frames, of 27 different ones, cut anywhere; clients wait after a message whose answer is too long | `ImplementsSession` (refinement), `StuckOnlyBySize`; under fairness `CloseEndsSession`, `AddRxDataReturns` |
| `ws_handshake` | 20 requests; keys of five lengths | `HandshakeRight` |
| `ws_gate` | 2 addresses, 2 connections one after the other or together, 1 worker, 2 requests and 2 frames each, handlers that throw, failing sends, no pipelining | `EndpointsOwned`, `ClosedSessionsEnd` |
| `conn_error_delete` | 1 worker, 1 request | **violated**: an error response counts as the response to a pipelined request and the connection is deleted under that request |
| `server_lost_request` | one thread per request, 2 threads, 2 requests | **violated** (`AcceptThreadComesBack`): a thread whose request was deleted with its connection accepts in the accept thread's place and ends without waking it; the server sleeps for ever |

The last two contradict sentences of the repository, quoted in the findings of
`PROJECT.json`. `AcceptThreadComesBack` is what "it's ok to not recheck our condition here, as we'll come back in the
same way" (`ehs.cpp:701`) relies on; the flag is reset without a broadcast. Type invariants are among the properties of six of the runs.

### Further configurations

These state other sentences of the code or its documentation, or drop a hypothesis of
a run; all end in a counterexample. They are run by hand
(`tlc -continue -config <file> <module>`).

| Configuration | Property | What it shows |
|---|---|---|
| `ServerHazards` | `AllThreadsTerminated` | `EndServerThread` may return while a thread has not counted itself yet, or has not unlocked the mutex yet |
| `ServerAcceptThreadLost` | `AcceptThreadLoops` | the accept thread of one-thread-per-request mode may reach the loop condition before the constructor has recorded its id, and end |
| `ServerHazards` | `IdleThreadAccepts` | a thread goes on waiting for `m_oDoneAccepting` while the only other one handles a request and nobody accepts |
| `ServerAcceptorException` | `AcceptsAgain` | after an exception in the acceptor that the application answers with a response, `m_bAccepting` stays true and nobody accepts again |
| `ConnHazards` | `SendersFindConnection` | the connection may be deleted before `AddResponse` uses it for the last time, although `SendResponse` counts late "to avoid race conditions deleting the connection" |
| `ConnOrder` | `ResponsesInOrder` | two workers answer pipelined requests in the order in which they finish |
| `ConnHazards` | `DisconnectIsFinal` | a worker's `DoneReading(false)` overwrites `DoneReading(true)` |
| `ConnHazards` | `IdleMeansQuiet` | the idle timeout may close a connection just after a response went out and before it is noted |
| `ConnRawEarly` | `RawDataNotParsed` | data sent right after a 101 response may be parsed as a request |
| `ConnRawClosed` | `ClosedIsDeleted` | a raw connection whose client has closed its end is read from for ever |
| `SingleErrors` | `HandleDataReturns` | an invalid request read together with a complete one: the 400 lets the connection be deleted with the other request in its list, `m_nRequestsPending` stays 1 and `HandleData` loops for ever |
| `RequestChunkSplit` | `ParsedAsSent` | a chunk that does not arrive with what follows it is taken twice |
| `RequestFormFields` | `ParsedAsSent` | every field of a multipart form but the first is lost |
| `RequestBlankLine` | `NoLineLeft` | an empty line before a request ends `ParseData` with the request unparsed |
| `RequestChunkLimit` | `RequestWithinLimit` | the size limit is compared with the buffer, not with the body of a chunked request |
| `RoutingDuplicate` | `RegistrationsKept` | destroying an object whose registration was refused ends the other one's |
| `RoutingDuplicate` | `RoutedToLive` | an object may be destroyed while a worker routes a request through it |
| `SocketsRestart` | `StaticsUsable` | a secure server that starts after the last secure socket was destroyed finds freed objects |
| `SocketsDescriptor` | `ClosedByOwner` | `Close` leaves `m_fd` set and the destructor closes the descriptor again, which may be somebody else's by then |
| `WsViolation` | `ViolationEndsSession` | a frame that breaks the protocol throws a copy of a `wserror` that is no `wserror`: instead of ending the session it leaves `AddRxData` and reaches the accepting thread |
| `WsViolation` | `WaitsOrReady` | "one of the following must always be true even in the case of exceptions" (`wsframe.h:215-219`): after the string thrown for a size over the limit the parser neither waits for bytes nor has a frame |
| `WsViolation` | `MessagesAssembled` | `on_message` is called for a fragment although it is documented for a message that is "completely assembled" (`wsendpoint.h:161-163`) |
| `WsImpatient` | `ImplementsSession` | the `break` after a message whose answer is too long drops the rest of the read, and the frames in it |
| `GateData` | `DataAfterConnect` | raw data may find no endpoint, because `m_bRawMode` is set before `OnConnect` has run |
| `GateEarly` | `EndpointsOwned` | a frame that arrives before raw mode and gets a 400 lets the acceptor delete the connection while the worker is about to call `OnConnect` for it |

### Why the bounds are enough

* `server`: the safety properties are proved for any number of threads; for
  liveness two threads of a pool already have the roles that matter (acceptor and
  waiting thread, with identifiers reused when threads end). In the other mode there are an accept thread and two others, so that two requests are
  in the hands of two threads, a thread cannot be created, or a request is lost.
* Connection: two workers and two requests are the smallest instance in which
  responses overtake each other, one request is queued while one is in service, and
  an error follows both. `MaxRaw` bounds raw messages, which are alike.
* Requests: each branch of `ParseData` but that of the impossible state is taken;
  pairs of messages show that what one leaves behind does not disturb the next. The
  size limit is out of reach here; `RequestChunkLimit` has a small one.
* Routing: three objects make chains of two and two children of one; two paths
  make conflicts.
* Sockets: two servers, so that one starts while the other frees; four descriptors
  for two listeners, clients and a file of the application.
* Single-threaded mode: three connections at two addresses, so that one is deleted and
  its address used again while another is pending; three requests, so that a read completes
  several and leaves some.
* WebSocket frames: payloads below, at and above each border of the three size forms and of
  the limit, with limits of 3, 5 and 6 instead of 125, 65535 and 100000000, and fields of 2, 3 and 2 bytes
  for sizes and key; the code treats the numbers alike. Every kind of frame is followed by
  one of each of six kinds, and a third frame shows what is left after a failure.
* Handshake: messages of 58, 60, 64, 119 and 120 octets are on both sides of the padding's border
  (55 of 64 octets in the last block); no key makes a message shorter than one block.
* Gateway: the conflicts are between one connection and what lives, or lived, at its
  address. Two requests, so that an upgrade may follow a plain response whose worker has
  not counted it yet. A client that sends a second upgrade before the first is answered
  (`Pipelined = TRUE`) replaces the handler under the endpoint and `EndpointsOwned` fails; such a client
  breaks HTTP and is left out.

### Fairness

`EHSServer`: strong fairness of each thread's steps. A thread that is able to run
does run; a thread that waits for `m_oMutex` gets it when it is free
again and again. `select` returns because of its timeout (1000 ms in
`HandleData_Threaded`). Request handlers are assumed to return; one that does not occupies its
thread, in the code as well. The constructor is fair once it has begun, `EndServerThread` as well;
nothing makes the application stop the server. A thread at `wait` is not enabled:
being woken is not assumed but follows from broadcasts.
`EHSConnection`: weak fairness of the acceptor, strong fairness of workers (they
compete with the acceptor for the server's mutex). Nothing is assumed of the client
or of time. `HttpRequest`, `EHS` and `WsHandshake`: a thread in a function goes on.
`WsEndpoint`: the client's bytes arrive, in whatever pieces, and the thread in
`AddRxData` goes on. `SingleThreaded`: weak fairness of the program's thread inside
`HandleData`; `select` has a timeout, and the clients, bounded as they are, stop opening
connections at some point, without which `HandleData` need not return in the code either.
`WsGate`: weak fairness of the accepting thread's steps that need no client, strong
fairness of the workers, which wait for the server's mutex, and weak fairness of `main`,
which polls `ShouldTerminate` and then stops the server.

## 4. Proofs

Eight modules hold theorems. What they assume of the constants are the named `ASSUME`s of the modules
they extend (finite sets of threads, bounds that are numbers, distinct model values), which TLC
evaluates in the runs. A theorem that needs more says so in its own `ASSUME`; each such hypothesis
also holds in the corresponding run, and where it is a condition on the application, the clients or the number of
threads, a further configuration shows the property fail without it. A property that only a theorem states, and no run, is
defined in the module of its proof.

### EHSServerProofs

Every finite set of threads, both modes, any thread count, all combinations of failures.

* `SafeAlways`: `SafeInv` is an invariant. It has the conjuncts `TypeButCount`, `MutexHeld`
  (the thread in `m_oMutex` is exactly the one at a step that holds it), `AcceptorFlag` (an acceptor
  has set `m_bAccepting` and has no current request) and `SingleAcceptor`. None is inductive alone: a second
  thread becomes acceptor only if `m_bAccepting` is false, which excludes another
  acceptor by `AcceptorFlag`; the flag is reset by an acceptor, and by `SingleAcceptor`
  there is no other left.
* `AcceptorUnique` and `ListSafe` follow. `ListSafe` is not obvious in the code: the list
  is written under the mutex and walked without it; the writer and the unlocked
  reader are both acceptors, hence the same thread, and locked readers are excluded by
  the mutex.
* `CountCorrect`: `m_nThreads` is the cardinality of the set of threads between the
  two sections of the stub; every step adds one thread to this set, removes one or leaves it as it
  is. `TypeCorrect` needs this: that `m_nThreads` stays a natural number
  is a fact about that set and not about types.
* `PoolAwake`: in a running pool not all threads sleep on `m_oDoneAccepting`. The strengthening is
  `PoolInv`: `FlagHasOwner` (`m_bAccepting` is true only while there is an acceptor, or the
  server is ending) and `WaiterHasWaker`. It holds under
  `AcceptorExceptionsEndServer`: exceptions in the acceptor are not answered with a
  response. `ServerAcceptorException.cfg` shows that the hypothesis is necessary.
* `SpawnedFinds` (`OnlyLostRequestsMissed`): in one-thread-per-request mode no more threads find nothing to do than requests were
  deleted with their connections. The strengthening `PerRequestInv` keeps a `Balance`: the threads that are still `Owed` a request
  (born and not yet past the lists, or about to be created by the acceptor) and those that are `EmptyHanded` are together no more than the requests
  queued and lost. Every step that moves a thread from one set to the other, takes a request or deletes one keeps it. The accept thread must not take one of these
  requests, also not in the window in which its identifier has not been recorded (`StoredLate`): then nothing has been
  queued yet, or the accept thread has ended and its identifier belongs to a thread created for a request, which has one to spare.
  That no thread is empty-handed at all is false: `server_lost_request`.

### EHSConnectionProofs

Any number of workers, requests and raw messages, any kinds of responses and errors.

* `ConnAlways`: `ConnInv` is an invariant, with the parts `DataInv` (flags and history), `ThreadInv` (what each
  thread has in hand; the response queue is empty between sections, because each thread takes out what it
  put in), `ErrorInv` (after an error the connection is not read again, hence at most one
  error response) and `CountInv`. `CountersAgree` alone is not inductive: a second error would
  not break it but a second count for a request that `ReadNoResource` leaves both queued and current would, and
  `ErrorInv` excludes that.
* `TypeCorrect` and `CountersCorrect` follow; lemmas about the set of workers in service give the arithmetic.
* `IdleCloseCorrect`, an action property: by `IdleInv` no request comes into service between the two halves of
  the idle check, as taking one needs the server's mutex.
* `DeletedCorrect`: a connection is deleted only when all its requests are answered, under `ReadErrors = {}` and
  `"switch" \notin Kinds` (`CleanInv`: no error response is ever sent). `ConnErrorDelete.cfg` shows the
  violation with an error; data after a 101 that is parsed as a request leads to the same error response.
* `OneWorkerInOrder`: if only one thread takes requests, as in single-threaded mode or a pool of one thread (whose
  steps as acceptor the model even interleaves freely), the headers of responses go out in the order of the requests (`ResponsesInOrder`), although no code looks at the
  "response id". `OrderInv` is about four places a request number can be in: the list holds the numbers that follow the
  ones taken, consecutively; what went out is among the ones taken; a request in hand is younger than everything that went out;
  and an error response has no number. That the list stays consecutive over an error needs `ErrorInv` (the request left
  queued and current by `ReadNoResource` is the last). `ConnOrder.cfg` has the trace with two workers.

### SingleThreadedProofs

`ServedCorrect`: when the loop of `EHS::HandleData` looks at it, `m_nRequestsPending` is the number of requests in the lists
of all connections, for any number of connections and requests, whatever is thrown. A deleted connection takes its list with
it, so the proof has to show that no connection with a request left is `Finished`: `LoadInv` says that
responses plus what is left do not exceed the requests completed, `ReadInv` that sockets are read only when the lists of their
connections are empty. The sum over the connections is the cardinality of a set of pairs (`Lists`), which avoids
induction. Hypothesis: `~PipelinedInvalid`; `SingleErrors.cfg` shows the loop that never ends without it.

### EHSProofs

Any objects, paths and URIs, for an application that keeps the rules (`Careful`; `RoutingDuplicate.cfg` shows what happens
otherwise). `TreeInv` says that an entry of a live object's map is a live object that knows its place (`EntryInv`),
that parents and sources are alive, also a parent that an object was told when its registration was refused (`PlaceInv`, `SourceInv`),
and that a request being routed is at a live object. `PointersCorrect` follows.

`PathsCorrect` (`RoutedByPath`) is for URIs that begin with a slash and have no empty part (`WholeUris`, as all URIs of the run are).
`RouteInv` says that the worker is on its way: for some `k` it is at the object that `k` steps of the walk along the registrations
lead to, with the part of the URI that `k` calls of `GetNextPathPart` leave (`OnItsWay`), and that an
object that handles the request is the target or its source (`AtTarget`); `NoChains` is the rule about sources. `Walk` is a recursive function of the number of parts;
one unfolding of it at each step suffices, so no induction is needed, except that the function exists, which is shown by the least
counterexample. `RoutingEnds` is the safety half of `RequestAnswered`: each call of `RouteRequest` by itself has a shorter URI, and
delegation to a source happens once.

### HttpRequestProofs

Any stream of tokens, any cut of it (`InputAssumption`) and any size limit (`SizeAssumption`). `ParserCorrect` says that `ParserInv` is
an invariant: the request is `Sound` for the state it is in (a continuation line in `HEADERS` finds a last header with a value, a
body has a length or comes in chunks, a body not in chunks is within the limit), the buffer is within the limit, and the buffer is
the end of what was received (`BufferInv`). One lemma per state of `ParseData` shows that a pass takes a prefix of the buffer,
leaves a sound request and shrinks the measure; lemmas about `Find`, `NextFormPair` and the recursive functions that collect
form values and cookies say that they return values of the right form and come to an end.

* `TypeCorrect`: the types alone are not inductive; the last item of a header that is continued, and the Content-Length
  by which a body is cut, exist because of what was parsed in an earlier state, which `Sound` remembers.
* `BufferCorrect`: no byte is lost, repeated or moved between two reads.
* `SizeCorrect`: `maxrequestsize` bounds the buffer and every body with a Content-Length. The exception for chunks is
  real (`RequestChunkLimit.cfg`).
* `ParsingEnds`: each pass takes tokens or decreases `Work`, which is at most four; the safety half of `AddBufferReturns`.
  The case that needs care is `ParseTrailer`, which puts an empty line back.

### SecureSocketProofs

Any number of servers, clients and descriptors. `SocketInv` says that the reference count is the number of secure sockets
between constructor and destructor, that a socket's descriptor is closed before its destructor comes to
the count, and that a server listens while `Accept` waits for a handshake (`HandshakeInv`); `TypeCorrect` (the count never goes below zero) and `DescriptorsCorrect` follow. That a new descriptor is the least closed one is shown
with the least-element theorem of `WellFoundedInduction`. `StaticsInv` adds that one destructor frees, after all
other sockets have gone, and that the objects are created in order and stay until then; it gives `StaticsCorrect` and
`FreedOnceCorrect` under `~Restart` (`SocketsRestart.cfg`).

### WsGateProofs

Any number of addresses, connections, workers, requests and frames. `OwnersCorrect` rests on `SafeInv`: a connection
with a busy worker is alive, because the counters `CheckDone` looks at lack the worker's response (`CountInv`; a request whose handler has thrown is
never counted and only adds to what is missing); a client waits for one response, and
for none once it has a 101 (`WaitInv`), so that no two workers call `OnConnect` for one
connection; and what `OnConnect` has done so far (`MapInv`). Hypotheses: `~Pipelined`, and `"refused"` is not in `EarlyData`
(`GateEarly.cfg`: a 400 is counted as the response of the worker that is about to call `OnConnect`). `TypeCorrect`
includes that `m_nActiveRequests` never goes below zero.

### WsEndpointProofs

Any limits and lengths of the fields (`SizesAssumption`: the limits are in order, and a header's rest
is no longer than the largest payload, as in the code), any clients whose frames are bytes (`InputsAssumption`),
any cut. `StuckOnlyBySize` and the bound on `m_bytes_needed` are not inductive: whether the count reaches zero
exactly when the payload is complete depends on what was read before. `EndpointInv` adds `ParserInv`, for each state of the parser:
bytes of the basic header and bytes needed are two; bytes of the header and bytes needed are the length that its first two
bytes give; bytes of the payload and bytes needed are the announced size; a ready frame has exactly that size; in
recovery a whole basic header is needed. The lemmas `...Outcome` follow `consume` branch by branch and say what it returns and
throws: a parser that is good again, except after a `wserror`, where the session is closed and the parser
not used any more. A count is lost if `reset` is forgotten or a limit not checked, which are the mutants of the run.

`TypeCorrect` and `WaitingCorrect` (`StuckOnlyBySize`) follow: the invariant that the code states for the parser fails only after a
size over the limit. `WholeCorrect` is the action property `FramesWhole`: the frames handed to the handler,
control frames too, have complete headers and payloads of the announced size. It is stated in the proofs module and
is no property of a run; the runs have the stronger `ImplementsSession`, for small instances.
That `FromBytes` gives a number is shown for its recursive function with the least counterexample
(`LeastNat`); what number it is, is left to the run.

`LoopEnds` is the safety half of `AddRxDataReturns`: every turn that stays in the loop takes at least one byte, in recovery too. Between two turns the parser has no frame
ready and needs a byte, or it holds a size over the limit, and then the next turn leaves the loop by the same string
(`RefusesAgain`), or a close frame with a code that cannot be acknowledged, which leaves it too (`WaitingInv`). `SessionEndCorrect` (`SessionEndsOnce`): `on_close` is called once and last, the empty
response is sent once and last, and there is at most one close frame. It is not a matter of types: the endpoint's own
`send_close` and the acknowledgement are different code, and `m_state` is what keeps them apart.

### Only model-checked

* Liveness under fairness, everywhere: out of the prover's reach.
  For the loops of the parser, the router and the endpoint the decreasing measure is proved (`ParsingEnds`,
  `RoutingEnds`, `LoopEnds`); what is left to TLC is that an enabled step is taken.
* `ParsedAsSent` compares the parser with an encoder that exists in `MCHttpRequest` only, and `HandshakeRight` the
  digest with values computed elsewhere: facts about the inputs of the runs. `WsHandshake` also uses `Bitwise`, of which the prover knows nothing.
* `ImplementsSession`: its mapping flattens sequences of frames and decodes numbers, and that a number of any width is decoded
  to what was encoded needs induction over data. `FramesWhole` and `SessionEndsOnce` are the parts of it that are proved.

## 5. What is not modelled

* Several connections in one model of the thread pool (`queued` is their sum);
  `SingleThreaded` and `WsGate` have several.
* Data races below the steps: `m_nRequestsPending`, `m_oCurrentRequest`, `m_oEHSMap` and the
  gateway's maps are changed by several threads without a lock; the steps of the models are
  atomic. `MutexHelper` objects without a name in `wsendpoint.h` unlock at once; as
  only one thread calls `AddRxData`, this makes no difference.
* "\r\n" cut in two (the parser only looks for the pair); regular expressions beyond
  the inputs (a line matches or it does not). A multipart body that
  is no longer than its first boundary makes the code throw and is not an input.
  Names of form values and cookies that nobody sends are not recorded.
* Byte counts of `Read` and `Send`, in particular sends that are cut short; SSL
  retries; Windows branches.
* Formatting of responses, dates and cookies; the value classes; the locks OpenSSL calls
  back; certificates and passphrases; the bind helper; the small samples,
  the stack traces of `btexception.cpp`, and the UTF-8 validator, which nothing calls.

## 6. Plan

Done, in this order: `EHSServer` with its proofs, `EHSConnection`, `HttpRequest` and
`FormData`, `EHS`, `SecureSocket`; then the WebSocket endpoint with its abstract
specification, the handshake, the gateway, single-threaded mode, and url-encoded forms and cookies.

Then, proofs for every value of the constants: `WsGate`, `EHSConnection`, `SingleThreaded`, `EHS`, `SecureSocket`,
one thread per request in `EHSServer`, and the parser of `WsEndpoint`; then routing by path, `HttpRequest`, the order of
responses with one worker, and the end of a WebSocket session. Every safety property of the runs but the three named in
section 4 is a theorem.

Next:

1. More of the properties of the further configurations as theorems, under hypotheses that the samples meet.
2. `WsEndpoint`: `ImplementsSession` for fields of fixed widths, where decoding needs no induction.
