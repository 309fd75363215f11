-------------------------- MODULE SecureSocketProofs --------------------------
(***************************************************************************)
(* The reference count of the secure sockets, their descriptors and the    *)
(* objects they share, for any number of servers, clients and descriptors. *)
(* What is proved of the shared objects supposes that no server starts     *)
(* after the last socket has gone (SocketsRestart.cfg shows why).          *)
(***************************************************************************)
EXTENDS SecureSocket, FiniteSetTheorems, WellFoundedInduction, TLAPS

\* Sockets whose constructor has counted and whose destructor has not.
Uncounted == {"none", "handshake", "freeing", "base"}
Counted == {s \in Sockets : life[s] \notin Uncounted}
CountInv == s_refcount = Cardinality(Counted)

\* A socket has no descriptor before it opens one, and has closed it when its
\* destructor comes to the reference count.
FdInv ==
    /\ \A s \in Sockets : life[s] \in {"none", "new", "init"} => m_fd[s] = None
    /\ \A f \in Fds : open[f] \in Sockets => life[open[f]] \notin {"unref", "freeing", "base"}
    /\ NoDescriptorLeaked

\* A server listens while Accept waits for a handshake.
HandshakeInv ==
    \A s \in Sockets : life[s] = "handshake" =>
        /\ s \in Clients /\ server[s] \in Servers
        /\ life[server[s]] = "listening"

SocketInv == TypeOK /\ CountInv /\ FdInv /\ HandshakeInv

\* One destructor frees, after everybody else has gone; until then the statics are
\* created in their order and stay.
StaticsInv ==
    /\ released => \A s \in Sockets : life[s] \in {"none", "freeing", "base"}
    /\ ~released => /\ \A s \in Sockets : life[s] # "freeing"
                    /\ \A i \in 1..Len(Statics) : statics[i] # "freed"
    /\ \A s, t \in Sockets : life[s] = "freeing" /\ life[t] = "freeing" => s = t
    /\ \A s \in Sockets : life[s] = "freeing" =>
        /\ next[s] <= Len(Statics)
        /\ \A i \in 1..Len(Statics) : i <= next[s] => statics[i] # "freed"
    /\ \A s \in Sockets : life[s] = "init" =>
        /\ next[s] > 0
        /\ \A i \in 1..Len(Statics) : i < next[s] => statics[i] # "null"
    /\ StaticsUsable

-----------------------------------------------------------------------------
(* Descriptors and counting *)

\* The shared objects are four.
LEMMA FourStatics == Len(Statics) = 4
  BY DEF Statics

\* A descriptor that socket() returns was closed.
LEMMA NewFdClosed ==
    ASSUME ClosedFds # {}
    PROVE  NewFd \in Fds /\ open[NewFd] = None
  <1>1. ClosedFds \subseteq Nat /\ ClosedFds \subseteq Fds
    BY FdsAssumption DEF ClosedFds
  <1>2. OpToRel(<, Nat) = {q \in Nat \X Nat : q[1] < q[2]}
    BY Zenon DEF OpToRel
  <1>3. PICK R : IsWellFoundedOn(R, Nat) /\ R = {q \in Nat \X Nat : q[1] < q[2]}
    BY <1>2, NatLessThanWellFounded, Zenon
  <1>4. PICK x \in ClosedFds : \A y \in ClosedFds : ~(<<y, x>> \in R)
    BY <1>1, <1>3, WFMin
  <1>5. \A y \in ClosedFds : x <= y
    <2> SUFFICES ASSUME NEW y \in ClosedFds PROVE x <= y
      OBVIOUS
    <2>1. x \in Nat /\ y \in Nat
      BY <1>1
    <2>2. y < x => <<y, x>> \in R
      BY <1>3, <2>1
    <2> QED BY <1>4, <2>1, <2>2
  <1>6. NewFd \in ClosedFds
    BY <1>5 DEF NewFd, Min
  <1> QED BY <1>6 DEF ClosedFds

\* The sockets that the reference count counts, before and after a step.
LEMMA CountedFinite ==
    /\ IsFiniteSet(Sockets) /\ Cardinality(Sockets) \in Nat
    /\ IsFiniteSet(Counted) /\ Cardinality(Counted) \in 0..Cardinality(Sockets)
    /\ IsFiniteSet(Counted') /\ Cardinality(Counted') \in 0..Cardinality(Sockets)
  <1>1. IsFiniteSet(Sockets)
    BY SocketsAssumption, FS_Union DEF Sockets
  <1>2. Counted \in SUBSET Sockets /\ Counted' \in SUBSET Sockets
    BY DEF Counted
  <1>3. /\ IsFiniteSet(Counted) /\ Cardinality(Counted) <= Cardinality(Sockets)
        /\ IsFiniteSet(Counted') /\ Cardinality(Counted') <= Cardinality(Sockets)
    BY <1>1, <1>2, FS_Subset
  <1>4. /\ Cardinality(Sockets) \in Nat /\ Cardinality(Counted) \in Nat
        /\ Cardinality(Counted') \in Nat
    BY <1>1, <1>3, FS_CardinalityType
  <1> QED BY <1>1, <1>3, <1>4

\* The count follows what becomes of one socket.
LEMMA CountStep ==
    ASSUME TypeOK, CountInv, NEW s \in Sockets, NEW what, Become(s, what),
           \/ /\ life[s] \in Uncounted <=> what \in Uncounted
              /\ s_refcount' = s_refcount
           \/ /\ life[s] \in Uncounted /\ what \notin Uncounted
              /\ s_refcount' = s_refcount + 1
           \/ /\ life[s] \notin Uncounted /\ what \in Uncounted
              /\ s_refcount' = s_refcount - 1
    PROVE  CountInv' /\ s_refcount' \in 0..Cardinality(Sockets)
  <1>1. /\ life'[s] = what
        /\ \A t \in Sockets \ {s} : life'[t] = life[t]
    BY DEF TypeOK, Become
  <1>2. CASE life[s] \in Uncounted <=> what \in Uncounted
    <2>1. Counted' = Counted
      BY <1>1, <1>2 DEF Counted
    <2>2. s_refcount' = s_refcount
      BY <1>2
    <2> QED BY <2>1, <2>2, CountedFinite DEF CountInv
  <1>3. CASE life[s] \in Uncounted /\ what \notin Uncounted
    <2>1. Counted' = Counted \cup {s} /\ s \notin Counted
      BY <1>1, <1>3 DEF Counted
    <2>2. s_refcount' = s_refcount + 1
      BY <1>3
    <2>3. Cardinality(Counted') = Cardinality(Counted) + 1
      BY <2>1, CountedFinite, FS_AddElement
    <2> QED BY <2>2, <2>3, CountedFinite DEF CountInv
  <1>4. CASE life[s] \notin Uncounted /\ what \in Uncounted
    <2>1. Counted' = Counted \ {s} /\ s \in Counted
      BY <1>1, <1>4 DEF Counted
    <2>2. s_refcount' = s_refcount - 1
      BY <1>4
    <2>3. Cardinality(Counted') = Cardinality(Counted) - 1
      BY <2>1, CountedFinite, FS_RemoveElement
    <2> QED BY <2>2, <2>3, CountedFinite DEF CountInv
  <1> QED BY <1>2, <1>3, <1>4

\* Steps outside constructor and destructor leave the count alone.
LEMMA CountSame ==
    ASSUME CountInv, UNCHANGED <<life, s_refcount>>
    PROVE  CountInv'
  BY DEF CountInv, Counted

\* Before the first socket nothing is open, counted or created.
LEMMA InitSocketInv == Init => SocketInv /\ StaticsInv
  <1> SUFFICES ASSUME Init PROVE SocketInv /\ StaticsInv
    OBVIOUS
  <1>1. Counted = {}
    BY DEF Init, Counted, Uncounted
  <1>2. CountInv
    BY <1>1, FS_EmptySet DEF Init, CountInv
  <1>3. TypeOK
    <2>1. s_refcount \in 0..Cardinality(Sockets)
      BY CountedFinite DEF Init
    <2>2. /\ statics \in [1..Len(Statics) -> {"null", "valid", "freed"}]
          /\ next \in [Sockets -> 0..(Len(Statics) + 1)]
      BY FourStatics DEF Init
    <2> QED BY <2>1, <2>2 DEF Init, TypeOK, Lives
  <1>4. FdInv
    BY SocketsAssumption DEF Init, FdInv, NoDescriptorLeaked
  <1>5. StaticsInv
    BY DEF Init, StaticsInv, StaticsUsable
  <1> QED BY <1>2, <1>3, <1>4, <1>5 DEF SocketInv, HandshakeInv, Init, Sockets

-----------------------------------------------------------------------------
(* Each step keeps the count and the descriptors right *)

\* The types of what a step leaves to the rest of TypeOK.
LEMMA LifeType ==
    ASSUME TypeOK, NEW s \in Sockets, NEW what, Become(s, what),
           what \in Lives
    PROVE  /\ life' \in [Sockets -> Lives]
           /\ life'[s] = what
           /\ \A t \in Sockets \ {s} : life'[t] = life[t]
  BY DEF TypeOK, Become

\* A handshake goes on as long as nobody's step interferes: a listening socket
\* is destroyed only when its server is in no function of a socket.
LEMMA HandshakeStep ==
    ASSUME TypeOK, HandshakeInv, NEW s \in Sockets, NEW what, Become(s, what),
           \A c \in Clients \ {s} : server'[c] = server[c],
           \/ what # "handshake"
           \/ s \in Clients /\ server'[s] \in Servers /\ life[server'[s]] = "listening",
           life[s] # "listening" \/ what = "listening" \/ Free(ServerOf(s))
    PROVE  HandshakeInv'
  <1>1. life'[s] = what /\ \A t \in Sockets \ {s} : life'[t] = life[t]
    BY DEF TypeOK, Become
  <1> SUFFICES ASSUME NEW c \in Sockets, life'[c] = "handshake"
               PROVE  c \in Clients /\ server'[c] \in Servers /\ life'[server'[c]] = "listening"
    BY DEF HandshakeInv
  <1>2. c \in Clients /\ c \notin Servers
    BY <1>1, SocketsAssumption DEF Sockets, HandshakeInv
  <1>3. CASE c = s
    <2>1. server'[s] \in Servers /\ life[server'[s]] = "listening"
      BY <1>1, <1>3
    <2>2. server'[s] \in Sockets \ {s}
      BY <1>2, <1>3, <2>1 DEF Sockets
    <2> QED BY <1>1, <1>3, <2>1, <2>2
  <1>4. CASE c # s
    <2>1. life[c] = "handshake" /\ server'[c] = server[c]
      BY <1>1, <1>2, <1>4
    <2>2. server[c] \in Servers /\ life[server[c]] = "listening"
      BY <2>1 DEF HandshakeInv
    <2>3. CASE server[c] # s
      BY <1>1, <1>2, <2>1, <2>2, <2>3 DEF Sockets
    <2>4. CASE server[c] = s
      <3>1. ServerOf(s) = s /\ ServerOf(c) = s
        BY <1>2, <2>2, <2>4 DEF ServerOf
      <3>2. ~Free(s)
        BY <1>2, <2>1, <3>1 DEF Free, Stable
      <3> QED BY <1>1, <1>2, <2>1, <2>2, <2>4, <3>1, <3>2
    <2> QED BY <2>3, <2>4
  <1> QED BY <1>3, <1>4

\* A server's constructor, and the beginning and failure of Init.
LEMMA StartStep ==
    ASSUME SocketInv, NEW v \in Servers,
           Construct(v) \/ BeginInit(v) \/ InitFails(v)
    PROVE  SocketInv'
  <1> USE FourStatics DEF SocketInv
  <1>0. v \in Sockets /\ UNCHANGED <<server, m_fd, open, statics, released>>
    BY DEF Sockets, Construct, BeginInit, InitFails
  <1>1. PICK what \in {"new", "init", "failed"} :
            /\ Become(v, what)
            /\ what = "new" => life[v] = "none" /\ s_refcount' = s_refcount + 1
            /\ what = "init" => life[v] = "new" /\ s_refcount' = s_refcount
            /\ what = "failed" => life[v] = "init" /\ s_refcount' = s_refcount
    BY DEF Construct, BeginInit, InitFails
  <1>2. CountInv' /\ s_refcount' \in 0..Cardinality(Sockets)
    BY <1>0, <1>1, CountStep DEF Uncounted
  <1>3. /\ life' \in [Sockets -> Lives]
        /\ life'[v] = what
        /\ \A t \in Sockets \ {v} : life'[t] = life[t]
    BY <1>0, <1>1, LifeType DEF Lives
  <1>4. s_mutex' \in Servers \cup {None} /\ next' \in [Sockets -> 0..(Len(Statics) + 1)]
    <2>1. s_mutex' \in {s_mutex, None, v} /\ (next' = next \/ next' = [next EXCEPT ![v] = 1])
      BY DEF Construct, BeginInit, InitFails
    <2> QED BY <1>0, <2>1 DEF TypeOK
  <1>5. TypeOK'
    BY <1>0, <1>2, <1>3, <1>4 DEF TypeOK
  <1>6. FdInv'
    BY <1>0, <1>1, <1>3 DEF FdInv, NoDescriptorLeaked
  <1>7. HandshakeInv'
    BY <1>0, <1>1, HandshakeStep
  <1> QED BY <1>2, <1>5, <1>6, <1>7

\* A new descriptor is given to s, which had none.
LEMMA OpenStep ==
    ASSUME SocketInv, NEW s \in Sockets, m_fd[s] = None, ClosedFds # {},
           m_fd' = [m_fd EXCEPT ![s] = NewFd], open' = [open EXCEPT ![NewFd] = s],
           NEW what \in {"listening", "handshake", "failed"}, Become(s, what)
    PROVE  /\ m_fd' \in [Sockets -> Fds \cup {None}]
           /\ open' \in [Fds -> Sockets \cup {Application, None}]
           /\ FdInv'
  <1> USE DEF SocketInv
  <1>0. NewFd \in Fds /\ open[NewFd] = None
    BY NewFdClosed
  <1> DEFINE fd == NewFd
  <1> HIDE DEF fd
  <1>1. /\ m_fd' \in [Sockets -> Fds \cup {None}]
        /\ open' \in [Fds -> Sockets \cup {Application, None}]
        /\ m_fd'[s] = fd /\ \A t \in Sockets \ {s} : m_fd'[t] = m_fd[t]
        /\ open'[fd] = s /\ \A f \in Fds \ {fd} : open'[f] = open[f]
    BY <1>0 DEF TypeOK, fd
  <1>2. \A f \in Fds : open[f] # s
    BY SocketsAssumption DEF FdInv, NoDescriptorLeaked
  <1>3. life'[s] = what /\ \A t \in Sockets \ {s} : life'[t] = life[t]
    BY LifeType DEF Lives
  <1>4. FdInv'
    BY <1>0, <1>1, <1>2, <1>3, SocketsAssumption DEF FdInv, NoDescriptorLeaked, fd
  <1> QED BY <1>1, <1>4

\* Init and Accept take a descriptor that was closed.
LEMMA NewFdStep ==
    ASSUME SocketInv, NEW v \in Servers,
           InitSocket(v) \/ \E c \in Clients : Accept(v, c)
    PROVE  SocketInv'
  <1> USE DEF SocketInv
  <1>1. PICK s \in Sockets, what \in {"listening", "handshake", "failed"} :
            /\ Become(s, what) /\ ClosedFds # {} /\ s_refcount' = s_refcount
            /\ m_fd' = [m_fd EXCEPT ![s] = NewFd] /\ open' = [open EXCEPT ![NewFd] = s]
            /\ \/ /\ life[s] = "none" /\ what = "handshake"
                  /\ s \in Clients /\ life[v] = "listening"
                  /\ server' = [server EXCEPT ![s] = v]
               \/ life[s] = "init" /\ what # "handshake" /\ server' = server
    <2>1. CASE InitSocket(v)
      BY <2>1 DEF InitSocket, Sockets
    <2>2. CASE \E c \in Clients : Accept(v, c)
      BY <2>2 DEF Accept, Sockets
    <2> QED BY <2>1, <2>2
  <1>2. s_mutex' \in {s_mutex, None} /\ UNCHANGED <<statics, next, released>>
    BY DEF InitSocket, Accept
  <1>3. server' \in [Clients -> Servers \cup {None}]
    BY DEF InitSocket, Accept, TypeOK
  <1>4. m_fd[s] = None
    BY <1>1 DEF FdInv
  <1>5. /\ m_fd' \in [Sockets -> Fds \cup {None}]
        /\ open' \in [Fds -> Sockets \cup {Application, None}]
        /\ FdInv'
    BY <1>1, <1>4, OpenStep
  <1>6. CountInv' /\ s_refcount' \in 0..Cardinality(Sockets)
    BY <1>1, CountStep DEF Uncounted
  <1>7. life' \in [Sockets -> Lives]
    BY <1>1, LifeType DEF Lives
  <1>8. TypeOK'
    BY <1>2, <1>3, <1>5, <1>6, <1>7 DEF TypeOK
  <1>9. HandshakeInv'
    <2>1. \A c \in Clients \ {s} : server'[c] = server[c]
      BY <1>1 DEF TypeOK
    <2>2. what = "handshake" =>
            s \in Clients /\ server'[s] \in Servers /\ life[server'[s]] = "listening"
      BY <1>1 DEF TypeOK
    <2> QED BY <1>1, <2>1, <2>2, HandshakeStep
  <1> QED BY <1>5, <1>6, <1>8, <1>9

\* The handshake is done, and the constructor counts.
LEMMA AcceptedStep ==
    ASSUME SocketInv, NEW c \in Clients, ConstructAccepted(c)
    PROVE  SocketInv'
  <1> USE DEF SocketInv
  <1>1. /\ c \in Sockets /\ life[c] = "handshake" /\ Become(c, "connected")
        /\ s_refcount' = s_refcount + 1
        /\ UNCHANGED <<server, m_fd, open, s_mutex, statics, next, released>>
    BY DEF ConstructAccepted, Sockets
  <1>2. CountInv' /\ s_refcount' \in 0..Cardinality(Sockets)
    BY <1>1, CountStep DEF Uncounted
  <1>3. /\ life' \in [Sockets -> Lives] /\ life'[c] = "connected"
        /\ \A t \in Sockets \ {c} : life'[t] = life[t]
    BY <1>1, LifeType DEF Lives
  <1>4. TypeOK'
    BY <1>1, <1>2, <1>3 DEF TypeOK
  <1>5. FdInv'
    BY <1>1, <1>3 DEF FdInv, NoDescriptorLeaked
  <1>6. HandshakeInv'
    BY <1>1, HandshakeStep
  <1> QED BY <1>2, <1>4, <1>5, <1>6

\* A socket that no one counts is gone, with its descriptor: after a handshake that
\* failed, and at the end of the destructor.
LEMMA GoneStep ==
    ASSUME SocketInv, NEW s \in Sockets,
           (s \in Clients /\ HandshakeFails(s)) \/ DestroyBase(s)
    PROVE  SocketInv'
  <1> USE DEF SocketInv
  <1>1. /\ life[s] \in {"handshake", "base"} /\ Become(s, "none") /\ s_refcount' = s_refcount
        /\ m_fd' = [m_fd EXCEPT ![s] = None]
        /\ server' = [c \in Clients |-> IF c = s THEN None ELSE server[c]]
        /\ UNCHANGED <<s_mutex, statics, next, released>>
        /\ \/ open' = open /\ m_fd[s] = None
           \/ open' = [open EXCEPT ![m_fd[s]] = None]
    BY DEF HandshakeFails, DestroyBase, Gone, CloseAgain
  <1>2. CountInv' /\ s_refcount' \in 0..Cardinality(Sockets)
    BY <1>1, CountStep DEF Uncounted
  <1>3. /\ life' \in [Sockets -> Lives] /\ life'[s] = "none"
        /\ \A t \in Sockets \ {s} : life'[t] = life[t]
    BY <1>1, LifeType DEF Lives
  <1>4. /\ m_fd' \in [Sockets -> Fds \cup {None}]
        /\ m_fd'[s] = None /\ \A t \in Sockets \ {s} : m_fd'[t] = m_fd[t]
        /\ server' \in [Clients -> Servers \cup {None}]
    BY <1>1 DEF TypeOK
  <1>5. /\ open' \in [Fds -> Sockets \cup {Application, None}]
        /\ \A f \in Fds : open'[f] \in {open[f], None}
        /\ m_fd[s] \in Fds => open'[m_fd[s]] = None
    BY <1>1, SocketsAssumption DEF TypeOK
  <1>6. \A f \in Fds : open'[f] # s
    BY <1>5, SocketsAssumption DEF FdInv, NoDescriptorLeaked
  <1>7. TypeOK'
    BY <1>1, <1>2, <1>3, <1>4, <1>5 DEF TypeOK
  <1>8. FdInv'
    BY <1>3, <1>4, <1>5, <1>6, SocketsAssumption DEF FdInv, NoDescriptorLeaked
  <1>9. HandshakeInv'
    <2>1. \A c \in Clients \ {s} : server'[c] = server[c]
      BY <1>1
    <2> QED BY <1>1, <2>1, HandshakeStep
  <1> QED BY <1>2, <1>7, <1>8, <1>9

\* Close and the call of Close in the destructor.
LEMMA CloseStep ==
    ASSUME SocketInv, NEW s \in Sockets, Destroy(s) \/ (s \in Clients /\ Close(s))
    PROVE  SocketInv'
  <1> USE DEF SocketInv
  <1>1. /\ UNCHANGED <<server, m_fd, s_refcount, s_mutex, statics, next, released>>
        /\ \/ open' = open /\ m_fd[s] = None
           \/ open' = [open EXCEPT ![m_fd[s]] = None]
    BY DEF Destroy, Close, CloseAgain
  <1>2. PICK what \in {"closed", "unref"} : Become(s, what)
    BY DEF Destroy, Close
  <1>3. life[s] \in {"connected", "listening", "closed", "failed"}
    BY DEF Destroy, Close, MayDelete
  <1>4. CountInv' /\ s_refcount' \in 0..Cardinality(Sockets)
    BY <1>1, <1>2, <1>3, CountStep DEF Uncounted
  <1>5. /\ life' \in [Sockets -> Lives]
        /\ life'[s] = what
        /\ \A t \in Sockets \ {s} : life'[t] = life[t]
    BY <1>2, LifeType DEF Lives
  <1>6. /\ open' \in [Fds -> Sockets \cup {Application, None}]
        /\ \A f \in Fds : open'[f] \in {open[f], None}
        /\ m_fd[s] \in Fds => open'[m_fd[s]] = None
    BY <1>1, SocketsAssumption DEF TypeOK
  <1>7. \A f \in Fds : open'[f] # s
    BY <1>6, SocketsAssumption DEF FdInv, NoDescriptorLeaked
  <1>8. TypeOK'
    BY <1>1, <1>4, <1>5, <1>6 DEF TypeOK
  <1>9. FdInv'
    BY <1>1, <1>2, <1>5, <1>6, <1>7, SocketsAssumption DEF FdInv, NoDescriptorLeaked
  <1>10. HandshakeInv'
    <2>1. life[s] # "listening" \/ Free(ServerOf(s))
      BY SocketsAssumption DEF Destroy, Close, MayDelete
    <2> QED BY <1>1, <1>2, <2>1, HandshakeStep
  <1> QED BY <1>4, <1>8, <1>9, <1>10

\* The destructor gives up its count, and what is freed then.
LEMMA UnrefStep ==
    ASSUME SocketInv, NEW s \in Sockets, Unref(s) \/ Freed(s)
    PROVE  SocketInv'
  <1> USE FourStatics DEF SocketInv
  <1>1. UNCHANGED <<server, m_fd, open, s_mutex, statics>>
    BY DEF Unref, Freed
  <1>2. PICK what \in {"freeing", "base"} :
            /\ Become(s, what)
            /\ \/ life[s] = "unref" /\ s_refcount' = s_refcount - 1
               \/ life[s] = "freeing" /\ s_refcount' = s_refcount
    BY DEF Unref, Freed
  <1>3. CountInv' /\ s_refcount' \in 0..Cardinality(Sockets)
    BY <1>2, CountStep DEF Uncounted
  <1>4. /\ life' \in [Sockets -> Lives]
        /\ life'[s] = what
        /\ \A t \in Sockets \ {s} : life'[t] = life[t]
    BY <1>2, LifeType DEF Lives
  <1>7. next' \in [Sockets -> 0..(Len(Statics) + 1)] /\ released' \in BOOLEAN
    <2>1. \/ UNCHANGED <<next, released>>
          \/ next' = [next EXCEPT ![s] = Len(Statics)] /\ released' = TRUE
      BY DEF Unref, Freed
    <2>2. next' \in [Sockets -> 0..(Len(Statics) + 1)]
      BY <2>1 DEF TypeOK
    <2>3. released' \in BOOLEAN
      BY <2>1, Zenon DEF TypeOK
    <2> QED BY <2>2, <2>3
  <1>8. \A f \in Fds : open[f] # s
    BY <1>2 DEF FdInv
  <1>9. TypeOK'
    BY <1>1, <1>3, <1>4, <1>7 DEF TypeOK
  <1>10. FdInv'
    BY <1>1, <1>2, <1>4, <1>8, SocketsAssumption DEF FdInv, NoDescriptorLeaked
  <1>11. HandshakeInv'
    BY <1>1, <1>2, HandshakeStep
  <1> QED BY <1>3, <1>9, <1>10, <1>11

\* Creating and freeing a shared object.
LEMMA StaticStep ==
    ASSUME SocketInv, NEW s \in Sockets, InitStatic(s) \/ FreeStatic(s)
    PROVE  SocketInv'
  <1> USE FourStatics DEF SocketInv
  <1>1. UNCHANGED <<life, server, m_fd, open, s_refcount, s_mutex, released>>
    BY DEF InitStatic, FreeStatic
  <1>2. next' \in [Sockets -> 0..(Len(Statics) + 1)]
    BY DEF InitStatic, FreeStatic, TypeOK
  <1>3. statics' \in [1..Len(Statics) -> {"null", "valid", "freed"}]
    BY DEF InitStatic, FreeStatic, TypeOK
  <1>4. TypeOK'
    BY <1>1, <1>2, <1>3 DEF TypeOK
  <1> QED BY <1>1, <1>4, CountSame DEF FdInv, NoDescriptorLeaked, HandshakeInv

\* The application's own files.
LEMMA FileStep ==
    ASSUME SocketInv, OpenFile \/ CloseFile
    PROVE  SocketInv'
  <1> USE DEF SocketInv
  <1>1. UNCHANGED <<life, server, m_fd, s_refcount, s_mutex, statics, next, released>>
    BY DEF OpenFile, CloseFile
  <1>2. /\ open' \in [Fds -> Sockets \cup {Application, None}]
        /\ \A f \in Fds : open'[f] \in {open[f], Application, None}
    <2>1. CASE OpenFile
      <3>1. NewFd \in Fds
        BY <2>1, NewFdClosed DEF OpenFile
      <3> DEFINE fd == NewFd
      <3>2. open' = [open EXCEPT ![fd] = Application] /\ fd \in Fds
        BY <2>1, <3>1 DEF OpenFile
      <3> HIDE DEF fd
      <3> QED BY <3>2 DEF TypeOK
    <2>2. CASE CloseFile
      BY <2>2 DEF CloseFile, TypeOK
    <2> QED BY <2>1, <2>2
  <1>3. TypeOK'
    BY <1>1, <1>2 DEF TypeOK
  <1>4. FdInv'
    BY <1>1, <1>2, SocketsAssumption DEF FdInv, NoDescriptorLeaked
  <1> QED BY <1>1, <1>3, <1>4, CountSame DEF HandshakeInv

\* Every step preserves SocketInv.
LEMMA SocketStep ==
    ASSUME SocketInv, [Next]_vars
    PROVE  SocketInv'
  <1>1. CASE UNCHANGED vars
    <2>1. UNCHANGED <<life, server, m_fd, open, s_refcount, s_mutex, statics, next, released>>
      BY <1>1 DEF vars
    <2> QED BY <2>1, CountSame DEF SocketInv, TypeOK, FdInv, NoDescriptorLeaked, HandshakeInv
  <1>2. CASE \E v \in Servers :
                \/ Construct(v) \/ BeginInit(v) \/ InitStatic(v) \/ InitFails(v)
                \/ InitSocket(v) \/ \E c \in Clients : Accept(v, c)
    BY <1>2, StartStep, StaticStep, NewFdStep DEF Sockets
  <1>3. CASE \E c \in Clients : HandshakeFails(c) \/ ConstructAccepted(c) \/ Close(c)
    BY <1>3, GoneStep, AcceptedStep, CloseStep DEF Sockets
  <1>4. CASE \E s \in Sockets :
                Destroy(s) \/ Unref(s) \/ FreeStatic(s) \/ Freed(s) \/ DestroyBase(s)
    BY <1>4, CloseStep, UnrefStep, StaticStep, GoneStep
  <1>5. CASE OpenFile \/ CloseFile
    BY <1>5, FileStep
  <1> QED BY <1>1, <1>2, <1>3, <1>4, <1>5 DEF Next

-----------------------------------------------------------------------------
(* Each step keeps the shared objects right *)

\* The types of what StaticsInv talks about.
LEMMA StaticsTypes ==
    ASSUME TypeOK
    PROVE  /\ \A s \in Sockets : next[s] \in 0..5
           /\ \A i \in 1..4 : statics[i] \in {"null", "valid", "freed"}
           /\ statics \in [1..4 -> {"null", "valid", "freed"}]
           /\ next \in [Sockets -> 0..5]
           /\ released \in BOOLEAN
  BY FourStatics DEF TypeOK

\* While somebody is counted the objects have not been released.
LEMMA CountedKeeps ==
    ASSUME StaticsInv, NEW s \in Sockets, life[s] \notin {"none", "freeing", "base"}
    PROVE  /\ ~released
           /\ \A t \in Sockets : life[t] # "freeing"
           /\ \A i \in 1..4 : statics[i] # "freed"
  BY FourStatics DEF StaticsInv

\* Steps that change neither the statics nor who is counted, except that a socket
\* is added before the release.
LEMMA KeepStatics ==
    ASSUME TypeOK, StaticsInv, ~released, UNCHANGED <<statics, released>>,
           NEW s \in Sockets, NEW what, Become(s, what), what # "freeing",
           what = "init" => next'[s] = 1, \A t \in Sockets \ {s} : next'[t] = next[t],
           what \in {"listening", "handshake", "connected", "closed"} =>
                \A i \in 1..4 : statics[i] = "valid"
    PROVE  StaticsInv'
  <1> USE FourStatics DEF StaticsInv
  <1>1. life'[s] = what /\ \A t \in Sockets \ {s} : life'[t] = life[t]
    BY DEF TypeOK, Become
  <1>2. \A t \in Sockets : life'[t] # "freeing"
    BY <1>1
  <1>3. \A i \in 1..4 : statics'[i] # "freed"
    OBVIOUS
  <1>4. ASSUME NEW t \in Sockets, life'[t] = "init"
        PROVE  next'[t] > 0 /\ \A i \in 1..4 : i < next'[t] => statics'[i] # "null"
    <2>1. CASE t = s
      BY <1>1, <1>4, <2>1
    <2>2. CASE t # s
      BY <1>1, <1>4, <2>2
    <2> QED BY <2>1, <2>2
  <1>5. StaticsUsable'
    BY <1>1 DEF StaticsUsable
  <1> QED BY <1>2, <1>3, <1>4, <1>5

\* Every step preserves StaticsInv, if no server starts after the last socket.
LEMMA StaticsStep ==
    ASSUME ~Restart, SocketInv, StaticsInv, [Next]_vars
    PROVE  StaticsInv'
  <1> USE FourStatics
  <1>0. TypeOK
    BY DEF SocketInv
  <1>1. CASE \E v \in Servers : Construct(v)
    <2>1. PICK v \in Servers : Construct(v)
      BY <1>1
    <2>2. v \in Sockets /\ ~released /\ Become(v, "new") /\ UNCHANGED <<statics, next, released>>
      BY <2>1 DEF Construct, Sockets
    <2> QED BY <1>0, <2>2, KeepStatics
  <1>2. CASE \E v \in Servers : BeginInit(v)
    <2>1. PICK v \in Servers : BeginInit(v)
      BY <1>2
    <2>2. /\ v \in Sockets /\ Become(v, "init") /\ UNCHANGED <<statics, released>>
          /\ life[v] = "new" /\ next' = [next EXCEPT ![v] = 1]
      BY <2>1 DEF BeginInit, Sockets
    <2>3. next'[v] = 1 /\ \A t \in Sockets \ {v} : next'[t] = next[t]
      BY <1>0, <2>2 DEF TypeOK
    <2>4. ~released
      BY <2>2, CountedKeeps
    <2> QED BY <1>0, <2>2, <2>3, <2>4, KeepStatics
  <1>3. CASE \E v \in Servers : InitFails(v)
    <2>1. PICK v \in Servers : InitFails(v)
      BY <1>3
    <2>2. /\ v \in Sockets /\ Become(v, "failed") /\ UNCHANGED <<statics, next, released>>
          /\ life[v] = "init"
      BY <2>1 DEF InitFails, Sockets
    <2>3. ~released
      BY <2>2, CountedKeeps
    <2> QED BY <1>0, <2>2, <2>3, KeepStatics
  <1>4. CASE \E v \in Servers : InitSocket(v)
    <2>1. PICK v \in Servers : InitSocket(v)
      BY <1>4
    <2>2. PICK what \in {"listening", "failed"} :
             /\ v \in Sockets /\ Become(v, what) /\ UNCHANGED <<statics, next, released>>
             /\ life[v] = "init" /\ next[v] > 4
      BY <2>1 DEF InitSocket, Sockets
    <2>3. ~released /\ \A i \in 1..4 : statics[i] # "freed"
      BY <2>2, CountedKeeps
    <2>4. \A i \in 1..4 : statics[i] = "valid"
      <3> SUFFICES ASSUME NEW i \in 1..4 PROVE statics[i] = "valid"
        OBVIOUS
      <3>1. next[v] \in 0..5 /\ statics[i] \in {"null", "valid", "freed"}
        BY <1>0, <2>2, StaticsTypes
      <3>2. i < next[v]
        BY <2>2, <3>1
      <3> QED BY <2>2, <2>3, <3>1, <3>2 DEF StaticsInv
    <2> QED BY <1>0, <2>2, <2>3, <2>4, KeepStatics
  <1>5. CASE \E v \in Servers, c \in Clients : Accept(v, c)
    <2>1. PICK v \in Servers, c \in Clients : Accept(v, c)
      BY <1>5
    <2>2. /\ v \in Sockets /\ c \in Sockets /\ Become(c, "handshake")
          /\ UNCHANGED <<statics, next, released>> /\ life[v] = "listening"
      BY <2>1 DEF Accept, Sockets
    <2>3. ~released /\ \A i \in 1..4 : statics[i] = "valid"
      BY <2>2, CountedKeeps DEF StaticsInv, StaticsUsable
    <2> QED BY <1>0, <2>2, <2>3, KeepStatics
  <1>12. CASE \E c \in Clients : ConstructAccepted(c) \/ HandshakeFails(c)
    <2>1. PICK c \in Clients : ConstructAccepted(c) \/ HandshakeFails(c)
      BY <1>12
    <2>2. PICK what \in {"connected", "none"} :
             /\ c \in Sockets /\ Become(c, what)
             /\ UNCHANGED <<statics, next, released>> /\ life[c] = "handshake"
      BY <2>1 DEF ConstructAccepted, HandshakeFails, Gone, Sockets
    <2>3. ~released /\ \A i \in 1..4 : statics[i] = "valid"
      BY <2>2, CountedKeeps DEF StaticsInv, StaticsUsable
    <2> QED BY <1>0, <2>2, <2>3, KeepStatics
  <1>6. CASE (\E c \in Clients : Close(c)) \/ \E s \in Sockets : Destroy(s)
    <2>1. PICK s \in Sockets : (s \in Clients /\ Close(s)) \/ Destroy(s)
      BY <1>6 DEF Sockets
    <2>2. PICK what \in {"closed", "unref"} :
             /\ Become(s, what) /\ UNCHANGED <<statics, next, released>>
             /\ what = "closed" => life[s] = "connected"
             /\ life[s] \in {"connected", "listening", "closed", "failed"}
      BY <2>1 DEF Close, Destroy, MayDelete
    <2>3. ~released
      BY <2>2, CountedKeeps
    <2>4. what = "closed" => \A i \in 1..4 : statics[i] = "valid"
      BY <2>2 DEF StaticsInv, StaticsUsable
    <2> QED BY <1>0, <2>2, <2>3, <2>4, KeepStatics
  <1>7. CASE OpenFile \/ CloseFile \/ UNCHANGED vars
    <2>1. UNCHANGED <<life, statics, next, released>>
      BY <1>7 DEF OpenFile, CloseFile, vars
    <2> QED BY <2>1 DEF StaticsInv, StaticsUsable
  <1>8. CASE \E v \in Servers : InitStatic(v)
    <2>1. PICK v \in Servers : InitStatic(v)
      BY <1>8
    <2>2. /\ v \in Sockets /\ life[v] = "init" /\ next[v] <= 4 /\ UNCHANGED <<life, released>>
          /\ statics' = [statics EXCEPT ![next[v]] = IF @ = "null" THEN "valid" ELSE @]
          /\ next' = [next EXCEPT ![v] = @ + 1]
      BY <2>1 DEF InitStatic, Sockets
    <2>3. /\ ~released /\ (\A i \in 1..4 : statics[i] # "freed")
          /\ \A t \in Sockets : life[t] # "freeing"
      BY <2>2, CountedKeeps
    <2>4. next[v] \in 1..4
      BY <1>0, <2>2, StaticsTypes DEF StaticsInv
    <2>5. \A i \in 1..4 : /\ statics'[i] # "freed"
                          /\ statics[i] # "null" => statics'[i] = statics[i]
                          /\ i = next[v] => statics'[i] # "null"
      BY <1>0, <2>2, <2>3, <2>4, StaticsTypes
    <2>6. next'[v] = next[v] + 1 /\ \A t \in Sockets \ {v} : next'[t] = next[t]
      BY <1>0, <2>2, StaticsTypes
    <2>7. StaticsUsable'
      BY <2>2, <2>5 DEF StaticsInv, StaticsUsable
    <2>8. ASSUME NEW t \in Sockets, life[t] = "init"
          PROVE  next'[t] > 0 /\ \A i \in 1..4 : i < next'[t] => statics'[i] # "null"
      <3>1. CASE t = v
        BY <2>4, <2>5, <2>6, <2>8, <3>1 DEF StaticsInv
      <3>2. CASE t # v
        BY <2>5, <2>6, <2>8, <3>2 DEF StaticsInv
      <3> QED BY <3>1, <3>2
    <2> QED BY <2>2, <2>3, <2>5, <2>7, <2>8 DEF StaticsInv
  <1>9. CASE \E s \in Sockets : Unref(s)
    <2>1. PICK s \in Sockets : Unref(s)
      BY <1>9
    <2>2. life[s] = "unref" /\ UNCHANGED statics
      BY <2>1 DEF Unref
    <2>3. /\ ~released /\ (\A i \in 1..4 : statics[i] # "freed")
          /\ \A t \in Sockets : life[t] # "freeing"
      BY <2>2, CountedKeeps
    <2>4. CASE s_refcount = 1
      <3>1. /\ Become(s, "freeing") /\ released' = TRUE
            /\ next' = [next EXCEPT ![s] = 4]
        BY <2>1, <2>4 DEF Unref
      <3>2. Counted = {s}
        <4>1. s \in Counted
          BY <2>2 DEF Counted, Uncounted
        <4>2. Cardinality(Counted) = 1
          BY <2>4 DEF SocketInv, CountInv
        <4>3. Cardinality({s}) = 1 /\ {s} \in SUBSET Counted
          BY <4>1, FS_Singleton
        <4> QED BY <4>2, <4>3, CountedFinite, FS_Subset
      <3>6. \A t \in Sockets : life[t] # "handshake"
        <4> SUFFICES ASSUME NEW t \in Sockets, life[t] = "handshake" PROVE FALSE
          OBVIOUS
        <4>1. server[t] \in Sockets /\ life[server[t]] = "listening"
          BY DEF SocketInv, HandshakeInv, Sockets
        <4>2. server[t] \in Counted
          BY <4>1 DEF Counted, Uncounted
        <4> QED BY <2>2, <3>2, <4>1, <4>2
      <3>3. \A t \in Sockets \ {s} : life[t] \in {"none", "base"}
        BY <2>3, <3>2, <3>6 DEF Counted, Uncounted
      <3>4. life'[s] = "freeing" /\ \A t \in Sockets \ {s} : life'[t] \in {"none", "base"}
        BY <1>0, <3>1, <3>3 DEF TypeOK, Become
      <3>5. next'[s] = 4
        BY <1>0, <3>1 DEF TypeOK
      <3> QED BY <2>2, <2>3, <3>1, <3>4, <3>5 DEF StaticsInv, StaticsUsable
    <2>5. CASE s_refcount # 1
      <3>1. Become(s, "base") /\ UNCHANGED <<next, released>>
        BY <2>1, <2>5 DEF Unref
      <3> QED BY <1>0, <2>2, <2>3, <3>1, KeepStatics
    <2> QED BY <2>4, <2>5
  <1>10. CASE \E s \in Sockets : FreeStatic(s)
    <2>1. PICK s \in Sockets : FreeStatic(s)
      BY <1>10
    <2>2. /\ life[s] = "freeing" /\ next[s] > 0 /\ UNCHANGED <<life, released>>
          /\ statics' = [statics EXCEPT ![next[s]] = IF @ = "null" THEN @ ELSE "freed"]
          /\ next' = [next EXCEPT ![s] = @ - 1]
      BY <2>1 DEF FreeStatic
    <2>3. /\ released /\ (\A t \in Sockets : life[t] \in {"none", "freeing", "base"})
          /\ \A t \in Sockets : life[t] = "freeing" => t = s
      BY <1>0, <2>2, StaticsTypes DEF StaticsInv
    <2>4. next[s] \in 1..4 /\ next'[s] = next[s] - 1
      BY <1>0, <2>2, StaticsTypes DEF StaticsInv
    <2>5. \A i \in 1..4 : i # next[s] => statics'[i] = statics[i]
      BY <1>0, <2>2, StaticsTypes
    <2>6. \A i \in 1..4 : i <= next'[s] => statics'[i] # "freed"
      BY <2>2, <2>4, <2>5 DEF StaticsInv
    <2> QED BY <2>2, <2>3, <2>4, <2>6 DEF StaticsInv, StaticsUsable
  <1>11. CASE \E s \in Sockets : Freed(s) \/ DestroyBase(s)
    <2>1. PICK s \in Sockets : Freed(s) \/ DestroyBase(s)
      BY <1>11
    <2>2. PICK what \in {"base", "none"} :
             /\ life[s] \in {"freeing", "base"} /\ Become(s, what)
             /\ UNCHANGED <<statics, next, released>>
      BY <2>1 DEF Freed, DestroyBase, Gone
    <2>3. life'[s] = what /\ \A t \in Sockets \ {s} : life'[t] = life[t]
      BY <1>0, <2>2 DEF TypeOK, Become
    <2>4. \A t \in Sockets : life'[t] = life[t] \/ life'[t] \in {"base", "none"}
      BY <2>3
    <2>5. StaticsUsable'
      BY <2>2, <2>4 DEF StaticsInv, StaticsUsable
    <2> QED BY <2>2, <2>4, <2>5 DEF StaticsInv
  <1> QED BY <1>1, <1>2, <1>3, <1>4, <1>5, <1>6, <1>7, <1>8, <1>9, <1>10, <1>11, <1>12 DEF Next

-----------------------------------------------------------------------------
(* Theorems *)

\* The reference count is the number of sockets that have been constructed and not
\* destroyed, and no deleted socket keeps a descriptor.
THEOREM SocketsAlways == Spec => []SocketInv
  <1>1. Init => SocketInv
    BY InitSocketInv
  <1>2. SocketInv /\ [Next]_vars => SocketInv'
    BY SocketStep
  <1> QED BY <1>1, <1>2, PTL DEF Spec

\* Types, with the reference count between zero and the number of sockets.
THEOREM TypeCorrect == Spec => []TypeOK
  <1>1. SocketInv => TypeOK
    BY DEF SocketInv
  <1> QED BY <1>1, SocketsAlways, PTL

\* A descriptor that a socket opened is closed when the socket is deleted, however
\* Init and Close went (socket.cpp, Init and Close).
THEOREM DescriptorsCorrect == Spec => []NoDescriptorLeaked
  <1>1. SocketInv => NoDescriptorLeaked
    BY DEF SocketInv, FdInv
  <1> QED BY <1>1, SocketsAlways, PTL

\* One life of the shared objects: created in their order, used, released once.
THEOREM StaticsAlways ==
    ASSUME ~Restart
    PROVE  Spec => []StaticsInv
  <1>1. Init => StaticsInv
    BY InitSocketInv
  <1>2. SocketInv /\ StaticsInv /\ [Next]_vars => StaticsInv'
    BY StaticsStep
  <1> QED BY <1>1, <1>2, SocketsAlways, PTL DEF Spec

\* Listening and connected sockets find the objects all secure sockets share, while
\* other servers start and stop (securesocket.cpp, Init and the destructor).
THEOREM StaticsCorrect ==
    ASSUME ~Restart
    PROVE  Spec => []StaticsUsable
  <1>1. StaticsInv => StaticsUsable
    BY DEF StaticsInv
  <1> QED BY <1>1, StaticsAlways, PTL

\* No shared object is freed twice.
THEOREM FreedOnceCorrect ==
    ASSUME ~Restart
    PROVE  Spec => []StaticsFreedOnce
  <1>1. SocketInv /\ StaticsInv => StaticsFreedOnce
    <2> SUFFICES ASSUME SocketInv, StaticsInv, NEW s \in Sockets, life[s] = "freeing",
                        next[s] > 0
                 PROVE  statics[next[s]] # "freed"
      BY DEF StaticsFreedOnce
    <2>1. next[s] \in 0..5 /\ next[s] <= 4
      BY FourStatics, StaticsTypes DEF SocketInv, StaticsInv
    <2>2. next[s] \in 1..4
      BY <2>1
    <2> QED BY <2>2, FourStatics DEF StaticsInv
  <1> QED BY <1>1, SocketsAlways, StaticsAlways, PTL
=============================================================================
