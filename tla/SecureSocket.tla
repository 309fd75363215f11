---------------------------- MODULE SecureSocket ----------------------------
(***************************************************************************)
(* The sockets of EHS servers (src/socket.cpp, src/securesocket.cpp): file *)
(* descriptors, and the objects all secure sockets share, which the first  *)
(* Init creates and the destructor of the last socket frees.               *)
(*                                                                         *)
(* Each server has one thread that works on its sockets at a time: the one *)
(* that constructs the server, then the accepting thread, then the one     *)
(* that deletes the server.  Servers run concurrently.  What is read and   *)
(* sent is left out; a plain Socket is a secure one without the statics.   *)
(***************************************************************************)
EXTENDS Integers, Sequences, FiniteSets, FiniteSetsExt

CONSTANTS
    Servers,      \* the listening sockets, one for each server
    Clients,      \* sockets that Accept may return
    None,         \* INVALID_SOCKET, and nobody
    Application,  \* whoever else in the process opens files
    Fds,          \* file descriptors
    Restart       \* whether a server may start when all secure sockets have
                  \* been destroyed before

Sockets == Servers \cup Clients

ASSUME FdsAssumption == Fds \subseteq Nat
ASSUME SocketsAssumption ==
    /\ IsFiniteSet(Servers) /\ IsFiniteSet(Clients) /\ Servers \cap Clients = {}
    /\ None \notin Sockets \cup Fds /\ Application \notin Sockets \cup {None}

\* In the order in which Init creates them; they are freed in the opposite one.
Statics == <<"s_pDynamicSslLocking", "s_pStaticSslLocking", "s_pSslError", "s_pSslCtx">>

VARIABLES
    life,        \* what each socket is, or which function it is in
    server,      \* the server of each client
    m_fd,
    open,        \* who has opened each descriptor, None if it is closed
    s_refcount,
    s_mutex,     \* who holds it
    statics,     \* each pointer: "null", "valid" or "freed"
    next,        \* the static that the Init or destructor in progress comes to
    released     \* the reference count has fallen to zero

vars == <<life, server, m_fd, open, s_refcount, s_mutex, statics, next, released>>

\* A client in "handshake" is a descriptor for which no object exists yet; "base"
\* is the destructor of the base class.
Lives == {"none", "new", "init", "listening", "handshake", "connected",
          "closed", "failed", "unref", "freeing", "base"}

TypeOK ==
    /\ life \in [Sockets -> Lives]
    /\ server \in [Clients -> Servers \cup {None}]
    /\ m_fd \in [Sockets -> Fds \cup {None}]
    /\ open \in [Fds -> Sockets \cup {Application, None}]
    /\ s_refcount \in 0..Cardinality(Sockets)
    /\ s_mutex \in Servers \cup {None}
    /\ statics \in [1..Len(Statics) -> {"null", "valid", "freed"}]
    /\ next \in [Sockets -> 0..(Len(Statics) + 1)]
    /\ released \in BOOLEAN

Init ==
    /\ life = [s \in Sockets |-> "none"]
    /\ server = [c \in Clients |-> None]
    /\ m_fd = [s \in Sockets |-> None]
    /\ open = [f \in Fds |-> None]
    /\ s_refcount = 0
    /\ s_mutex = None
    /\ statics = [i \in 1..Len(Statics) |-> "null"]
    /\ next = [s \in Sockets |-> 1]
    /\ released = FALSE

ServerOf(s) == IF s \in Servers THEN s ELSE server[s]
Stable == {"none", "listening", "connected"}

\* The server's thread is not inside a function of one of its sockets.
Free(v) == \A s \in Sockets : ServerOf(s) = v => life[s] \in Stable

\* socket() and accept() return the lowest descriptor that is closed.
ClosedFds == {f \in Fds : open[f] = None}
NewFd == Min(ClosedFds)

Become(s, what) == life' = [life EXCEPT ![s] = what]

-----------------------------------------------------------------------------
(* A server starts *)

\* new SecureSocket(certificate, handler).
Construct(v) ==
    /\ life[v] = "none"
    /\ \A c \in Clients : server[c] # v
    /\ released => Restart
    /\ s_mutex = None
    /\ s_refcount' = s_refcount + 1
    /\ Become(v, "new")
    /\ UNCHANGED <<server, m_fd, open, s_mutex, statics, next, released>>

\* Init locks s_mutex until it returns.
BeginInit(v) ==
    /\ life[v] = "new"
    /\ s_mutex = None
    /\ s_mutex' = v
    /\ next' = [next EXCEPT ![v] = 1]
    /\ Become(v, "init")
    /\ UNCHANGED <<server, m_fd, open, s_refcount, statics, released>>

\* One static is created if its pointer is NULL.
InitStatic(v) ==
    /\ life[v] = "init"
    /\ next[v] <= Len(Statics)
    /\ statics' = [statics EXCEPT ![next[v]] = IF @ = "null" THEN "valid" ELSE @]
    /\ next' = [next EXCEPT ![v] = @ + 1]
    /\ UNCHANGED <<life, server, m_fd, open, s_refcount, s_mutex, released>>

\* InitializeCertificates or socket() throws.
InitFails(v) ==
    /\ life[v] = "init"
    /\ next[v] \in {Len(Statics), Len(Statics) + 1}
    /\ next[v] = Len(Statics) => statics[Len(Statics)] = "null"
    /\ s_mutex' = None
    /\ Become(v, "failed")
    /\ UNCHANGED <<server, m_fd, open, s_refcount, statics, next, released>>

\* Socket::Init: the descriptor exists also if bind() or listen() fails.
InitSocket(v) ==
    /\ life[v] = "init"
    /\ next[v] > Len(Statics)
    /\ ClosedFds # {}
    /\ m_fd' = [m_fd EXCEPT ![v] = NewFd]
    /\ open' = [open EXCEPT ![NewFd] = v]
    /\ s_mutex' = None
    /\ \/ Become(v, "listening")
       \/ Become(v, "failed")
    /\ UNCHANGED <<server, s_refcount, statics, next, released>>

-----------------------------------------------------------------------------
(* Clients *)

\* Accept begins: accept() returns a descriptor, and SSL_new and SSL_accept use
\* the statics.
Accept(v, c) ==
    /\ life[v] = "listening"
    /\ Free(v)
    /\ life[c] = "none"
    /\ ClosedFds # {}
    /\ m_fd' = [m_fd EXCEPT ![c] = NewFd]
    /\ open' = [open EXCEPT ![NewFd] = c]
    /\ server' = [server EXCEPT ![c] = v]
    /\ Become(c, "handshake")
    /\ UNCHANGED <<s_refcount, s_mutex, statics, next, released>>

\* The memory of a deleted socket may be used for another one.
Gone(s) ==
    /\ Become(s, "none")
    /\ m_fd' = [m_fd EXCEPT ![s] = None]
    /\ server' = [c \in Clients |-> IF c = s THEN None ELSE server[c]]

\* Mutant: Accept throws and leaves the descriptor open.
HandshakeFails_KeepsFd(c) ==
    /\ life[c] = "handshake"
    /\ Gone(c)
    /\ UNCHANGED <<open, s_refcount, s_mutex, statics, next, released>>

\* SSL_new or SSL_accept fails: the descriptor is closed, and Accept throws.
HandshakeFails(c) ==
    /\ life[c] = "handshake"
    /\ open' = [open EXCEPT ![m_fd[c]] = None]
    /\ Gone(c)
    /\ UNCHANGED <<s_refcount, s_mutex, statics, next, released>>

\* Mutant: the constructor for accepted sockets does not count.
ConstructAccepted_Uncounted(c) ==
    /\ life[c] = "handshake"
    /\ s_mutex = None
    /\ Become(c, "connected")
    /\ UNCHANGED <<server, m_fd, open, s_refcount, s_mutex, statics, next, released>>

\* The handshake is done: new SecureSocket(ssl, fd, &m_peer).
ConstructAccepted(c) ==
    /\ life[c] = "handshake"
    /\ s_mutex = None
    /\ s_refcount' = s_refcount + 1
    /\ Become(c, "connected")
    /\ UNCHANGED <<server, m_fd, open, s_mutex, statics, next, released>>

\* CheckDone closes the socket of a connection whose client has not left.
\* Close does not reset m_fd.
Close(c) ==
    /\ life[c] = "connected"
    /\ life[server[c]] = "listening"
    /\ Free(server[c])
    /\ open' = [open EXCEPT ![m_fd[c]] = None]
    /\ Become(c, "closed")
    /\ UNCHANGED <<server, m_fd, s_refcount, s_mutex, statics, next, released>>

-----------------------------------------------------------------------------
(* Destructor *)

\* A socket is deleted: after Close, when the client left, when Init threw, or
\* with its server.
MayDelete(s) ==
    \/ life[s] \in {"closed", "failed"}
    \/ life[s] \in {"listening", "connected"} /\ Free(ServerOf(s))

\* Close in a destructor: whatever m_fd is now the descriptor of is closed.
CloseAgain(s) ==
    open' = IF m_fd[s] = None THEN open ELSE [open EXCEPT ![m_fd[s]] = None]

\* ~SecureSocket calls Close, possibly for the second time.
Destroy(s) ==
    /\ MayDelete(s)
    /\ CloseAgain(s)
    /\ Become(s, "unref")
    /\ UNCHANGED <<server, m_fd, s_refcount, s_mutex, statics, next, released>>

\* Mutant: every destructor frees the statics.
Unref_Always(s) ==
    /\ life[s] = "unref"
    /\ s_mutex = None
    /\ s_refcount' = s_refcount - 1
    /\ next' = [next EXCEPT ![s] = Len(Statics)]
    /\ released' = TRUE
    /\ Become(s, "freeing")
    /\ UNCHANGED <<server, m_fd, open, s_mutex, statics>>

\* --s_refcount under the mutex.
Unref(s) ==
    /\ life[s] = "unref"
    /\ s_mutex = None
    /\ s_refcount' = s_refcount - 1
    /\ IF s_refcount = 1
       THEN /\ Become(s, "freeing")
            /\ next' = [next EXCEPT ![s] = Len(Statics)]
            /\ released' = TRUE
       ELSE Become(s, "base") /\ UNCHANGED <<next, released>>
    /\ UNCHANGED <<server, m_fd, open, s_mutex, statics>>

\* The last destructor frees the statics, without the mutex, and leaves the
\* pointers as they are.
FreeStatic(s) ==
    /\ life[s] = "freeing"
    /\ next[s] > 0
    /\ statics' = [statics EXCEPT ![next[s]] = IF @ = "null" THEN @ ELSE "freed"]
    /\ next' = [next EXCEPT ![s] = @ - 1]
    /\ UNCHANGED <<life, server, m_fd, open, s_refcount, s_mutex, released>>

Freed(s) ==
    /\ life[s] = "freeing"
    /\ next[s] = 0
    /\ Become(s, "base")
    /\ UNCHANGED <<server, m_fd, open, s_refcount, s_mutex, statics, next, released>>

\* ~Socket calls Close once more.
DestroyBase(s) ==
    /\ life[s] = "base"
    /\ CloseAgain(s)
    /\ Gone(s)
    /\ UNCHANGED <<s_refcount, s_mutex, statics, next, released>>

-----------------------------------------------------------------------------

\* Something else in the process opens or closes a file.
OpenFile ==
    /\ ClosedFds # {}
    /\ \A f \in Fds : open[f] # Application
    /\ open' = [open EXCEPT ![NewFd] = Application]
    /\ UNCHANGED <<life, server, m_fd, s_refcount, s_mutex, statics, next, released>>

CloseFile ==
    /\ \E f \in Fds : open[f] = Application
    /\ open' = [f \in Fds |-> IF open[f] = Application THEN None ELSE open[f]]
    /\ UNCHANGED <<life, server, m_fd, s_refcount, s_mutex, statics, next, released>>

Next ==
    \/ \E v \in Servers :
        \/ Construct(v) \/ BeginInit(v) \/ InitStatic(v) \/ InitFails(v) \/ InitSocket(v)
        \/ \E c \in Clients : Accept(v, c)
    \/ \E c \in Clients : HandshakeFails(c) \/ ConstructAccepted(c) \/ Close(c)
    \/ \E s \in Sockets :
        Destroy(s) \/ Unref(s) \/ FreeStatic(s) \/ Freed(s) \/ DestroyBase(s)
    \/ OpenFile
    \/ CloseFile

Spec == Init /\ [][Next]_vars

-----------------------------------------------------------------------------
(* Properties *)

\* Whoever listens, shakes hands or is connected finds the SSL context, the error
\* table and the locks that OpenSSL calls back, while other servers start and stop.
StaticsUsable ==
    \A s \in Sockets : life[s] \in {"listening", "handshake", "connected", "closed"} =>
        \A i \in 1..Len(Statics) : statics[i] = "valid"

\* The statics are freed once: never by a destructor while another frees them,
\* and never when they are freed already.
StaticsFreedOnce ==
    \A s \in Sockets : life[s] = "freeing" /\ next[s] > 0 =>
        statics[next[s]] # "freed"

\* A descriptor that a socket has opened is closed when the socket is deleted or
\* its handshake fails.
NoDescriptorLeaked ==
    \A f \in Fds : open[f] \in Sockets => m_fd[open[f]] = f

\* Close closes "the underlying socket" and nobody else's descriptor.
ClosedByOwner ==
    [][\A f \in Fds : open[f] # None /\ open'[f] # open[f] =>
          \/ open[f] = Application /\ CloseFile
          \/ open[f] \in Sockets /\ life'[open[f]] # life[open[f]]]_vars

=============================================================================
