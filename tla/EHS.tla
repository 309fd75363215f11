-------------------------------- MODULE EHS --------------------------------
(***************************************************************************)
(* The tree of EHS objects and how a request is routed in it (class EHS,   *)
(* src/ehs.cpp): RegisterEHS, UnregisterEHS, the destructor, SetSourceEHS, *)
(* RouteRequest and HandleRequest.                                         *)
(*                                                                         *)
(* The application may change the tree while a worker routes a request,    *)
(* one object after the other; nothing locks the tree.  A URI is the       *)
(* sequence of its parts between slashes: "/b/c" is <<"", "b", "c">>, "b/" *)
(* is <<"b", "">>.                                                         *)
(***************************************************************************)
EXTENDS Integers, SequencesExt

CONSTANTS
    Objects,    \* EHS objects
    Root,       \* the one StartServer is called on
    None,       \* NULL
    Paths,      \* names to register objects with
    Uris,       \* what clients ask for
    Careful     \* whether the application keeps the rules of MayRegister,
                \* MayUnregister, MayDestroy and MaySetSource

ASSUME RootAssumption == Root \in Objects /\ None \notin Objects
ASSUME PathAssumption == "" \notin Paths

VARIABLES
    alive,            \* objects not yet destroyed
    m_poParent,
    m_sRegisteredAs,
    m_oEHSMap,        \* for each object, path -> object or None
    m_poSourceEHS,
    m_bNoRouting,     \* of the root ("norouterequest"); elsewhere it is false
    request           \* the request a worker is routing

tree == <<alive, m_poParent, m_sRegisteredAs, m_oEHSMap, m_poSourceEHS>>
vars == <<tree, m_bNoRouting, request>>

\* A request asks for a URI; m_sUri is what is left of it at the object "at".
\* "target" is the object whose HandleRequest RouteRequest calls.
NoRequest == [phase |-> "none", asked |-> <<"">>, m_sUri |-> <<"">>,
              at |-> Root, target |-> None]

Init ==
    /\ alive = Objects
    /\ m_poParent = [o \in Objects |-> None]
    /\ m_sRegisteredAs = [o \in Objects |-> ""]
    /\ m_oEHSMap = [o \in Objects |-> [p \in Paths |-> None]]
    /\ m_poSourceEHS = [o \in Objects |-> None]
    /\ m_bNoRouting \in BOOLEAN
    /\ request = NoRequest

Routing == request.phase \in {"route", "handle"}

-----------------------------------------------------------------------------
(* Rules for the application.  The code checks none of them. *)

\* Objects are registered between requests, each in one place.  A path that is taken
\* may be tried: RegisterEHS refuses it.
MayRegister(child) ==
    /\ ~Routing
    /\ child # Root
    /\ \A o \in alive, p \in Paths : m_oEHSMap[o][p] # child

MayUnregister == ~Routing

\* Objects are destroyed between requests, after all that point to them, and not while
\* another object is registered in the place an object has last asked for: where it was
\* refused, or was unregistered before.
MayDestroy(o) ==
    /\ ~Routing
    /\ \A p \in Paths : m_oEHSMap[o][p] = None
    /\ m_poParent[o] # None => m_oEHSMap[m_poParent[o]][m_sRegisteredAs[o]] \in {o, None}
    /\ \A other \in alive : m_poParent[other] # o /\ m_poSourceEHS[other] # o

\* Sources do not form chains.
MaySetSource(o, source) ==
    /\ ~Routing
    /\ source # o
    /\ m_poSourceEHS[source] = None
    /\ \A other \in alive : m_poSourceEHS[other] # o

-----------------------------------------------------------------------------
(* The application *)

\* The child is told its parent and path before the path is checked.
RegisterEHS(parent, child, path) ==
    /\ {parent, child} \subseteq alive
    /\ Careful => MayRegister(child)
    /\ m_poParent' = [m_poParent EXCEPT ![child] = parent]
    /\ m_sRegisteredAs' = [m_sRegisteredAs EXCEPT ![child] = path]
    /\ m_oEHSMap' = IF m_oEHSMap[parent][path] # None THEN m_oEHSMap
                    ELSE [m_oEHSMap EXCEPT ![parent][path] = child]
    /\ UNCHANGED <<alive, m_poSourceEHS, m_bNoRouting, request>>

\* The map without the entry for path (unchanged if UnregisterEHS throws).
Unregistered(parent, path) == [m_oEHSMap EXCEPT ![parent][path] = None]

UnregisterEHS(parent, path) ==
    /\ parent \in alive
    /\ Careful => MayUnregister
    /\ m_oEHSMap' = Unregistered(parent, path)
    /\ UNCHANGED <<alive, m_poParent, m_sRegisteredAs, m_poSourceEHS, m_bNoRouting, request>>

\* Mutant: the destructor leaves the registration in place.
DestroyEHS_StaysRegistered(o) ==
    /\ o \in alive \ {Root}
    /\ Careful => MayDestroy(o)
    /\ alive' = alive \ {o}
    /\ UNCHANGED <<m_oEHSMap, m_poParent, m_sRegisteredAs, m_poSourceEHS,
                   m_bNoRouting, request>>

\* The destructor unregisters its path at its parent, whoever is registered
\* there now.
DestroyEHS(o) ==
    /\ o \in alive \ {Root}
    /\ Careful => MayDestroy(o)
    /\ alive' = alive \ {o}
    /\ m_oEHSMap' = IF m_poParent[o] = None THEN m_oEHSMap
                    ELSE Unregistered(m_poParent[o], m_sRegisteredAs[o])
    /\ UNCHANGED <<m_poParent, m_sRegisteredAs, m_poSourceEHS, m_bNoRouting, request>>

SetSourceEHS(o, source) ==
    /\ {o, source} \subseteq alive
    /\ Careful => MaySetSource(o, source)
    /\ m_poSourceEHS' = [m_poSourceEHS EXCEPT ![o] = source]
    /\ UNCHANGED <<alive, m_poParent, m_sRegisteredAs, m_oEHSMap, m_bNoRouting, request>>

-----------------------------------------------------------------------------
(* A worker routes a request *)

\* HandleData calls RouteRequest of the top-level object.
BeginRequest(uri) ==
    /\ ~Routing
    /\ request' = [phase |-> "route", asked |-> uri, m_sUri |-> uri,
                   at |-> Root, target |-> None]
    /\ UNCHANGED <<tree, m_bNoRouting>>

\* Where GetNextPathPart's expression, "one slash or none, a part, a slash",
\* finds the part: 0 if it does not match.
NextPathPart(uri) ==
    LET i == IF uri[1] = "" THEN 2 ELSE 1
    IN  IF Len(uri) > i /\ uri[i] # "" THEN i ELSE 0

Child(o, part) == IF part \in Paths THEN m_oEHSMap[o][part] ELSE None

\* Mutant: the URI is passed on as it is.
RouteRequest_UriKept ==
    /\ request.phase = "route"
    /\ LET i == NextPathPart(request.m_sUri)
           child == Child(request.at, request.m_sUri[i])
       IN  request' =
             IF (request.at = Root /\ m_bNoRouting) \/ i = 0
             THEN [request EXCEPT !.phase = "handle", !.target = request.at]
             ELSE IF child # None THEN [request EXCEPT !.at = child]
             ELSE [request EXCEPT !.phase = "404"]
    /\ UNCHANGED <<tree, m_bNoRouting>>

\* RouteRequest of one object: handle the request here, pass it on to the child
\* registered for the next part of the path, or answer 404.
RouteRequest ==
    /\ request.phase = "route"
    /\ LET i     == NextPathPart(request.m_sUri)
           child == Child(request.at, request.m_sUri[i])
           rest  == SubSeq(request.m_sUri, i + 1, Len(request.m_sUri))
       IN  request' =
             IF (request.at = Root /\ m_bNoRouting) \/ i = 0
             THEN [request EXCEPT !.phase = "handle", !.target = request.at]
             ELSE IF child # None THEN [request EXCEPT !.at = child, !.m_sUri = rest]
             ELSE [request EXCEPT !.phase = "404", !.m_sUri = rest]
    /\ UNCHANGED <<tree, m_bNoRouting>>

\* Mutant: the source's own source is this object.
HandleRequest_Back ==
    /\ request.phase = "handle"
    /\ request' = IF m_poSourceEHS[request.target] # None
                  THEN [request EXCEPT
                          !.at = IF @ = request.target THEN m_poSourceEHS[@]
                                 ELSE request.target]
                  ELSE [request EXCEPT !.phase = "200"]
    /\ UNCHANGED <<tree, m_bNoRouting>>

\* HandleRequest delegates to the source object, if there is one.
HandleRequest ==
    /\ request.phase = "handle"
    /\ request' = IF m_poSourceEHS[request.at] # None
                  THEN [request EXCEPT !.at = m_poSourceEHS[@]]
                  ELSE [request EXCEPT !.phase = "200"]
    /\ UNCHANGED <<tree, m_bNoRouting>>

Next ==
    \/ \E o \in Objects, c \in Objects, p \in Paths : RegisterEHS(o, c, p)
    \/ \E o \in Objects, p \in Paths : UnregisterEHS(o, p)
    \/ \E o \in Objects : DestroyEHS(o)
    \/ \E o \in Objects, s \in Objects : SetSourceEHS(o, s)
    \/ \E u \in Uris : BeginRequest(u)
    \/ RouteRequest
    \/ HandleRequest

Spec == Init /\ [][Next]_vars

\* A worker that has taken a request goes on with it.
FairSpec == Spec /\ WF_vars(RouteRequest \/ HandleRequest)

-----------------------------------------------------------------------------
(* Properties *)

\* Whatever a map of a live object holds, and whatever a destructor or a
\* delegated request will call, is alive.
PointersAlive ==
    \A o \in alive :
        /\ \A p \in Paths : m_oEHSMap[o][p] \in alive \cup {None}
        /\ m_poParent[o] \in alive \cup {None}
        /\ m_poSourceEHS[o] \in alive \cup {None}

\* A worker never works on a destroyed object.  (By the rules, nothing is destroyed
\* while it works; without them, nothing keeps the object.)
RoutedToLive == Routing => request.at \in alive

\* A registration ends only when it is unregistered or one of its two objects
\* is destroyed; no other registration and no other destructor takes it away.  (The
\* destructor of an object that was refused the path does: see MayDestroy.)
RegistrationsKept ==
    [][\A o \in alive', p \in Paths :
           m_oEHSMap[o][p] \in alive' /\ m_oEHSMap'[o][p] # m_oEHSMap[o][p]
               => UnregisterEHS(o, p)]_vars

\* The object a path leads to: "a URL similar to http://myserver.com/childb/childc/"
\* goes to the object registered as childc at the one registered as childb, and
\* the part after the last slash does not count.
Directories(uri) == SubSeq(uri, 2, Len(uri) - 1)
Walk(dirs) ==
    LET at[n \in 0..Len(dirs)] ==
            IF n = 0 THEN Root
            ELSE IF at[n - 1] = None THEN None ELSE Child(at[n - 1], dirs[n])
    IN  at
ServedBy(uri) ==
    IF m_bNoRouting THEN Root ELSE Walk(Directories(uri))[Len(Directories(uri))]

\* A request is handled by the object its path leads to, or by the source of
\* that object, and is answered 404 only if there is no such object.
RoutedByPath ==
    [][/\ request.phase = "route" /\ request'.phase = "404"
            => ServedBy(request.asked) = None
       /\ request.phase = "handle" /\ request'.phase = "200"
            => LET target == ServedBy(request.asked) IN
               request.at = IF m_poSourceEHS[target] = None THEN target
                            ELSE m_poSourceEHS[target]]_vars

\* Every request is answered: routing ends, and so does delegation.
RequestAnswered == Routing ~> request.phase \in {"200", "404"}

=============================================================================
