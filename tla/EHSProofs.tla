------------------------------- MODULE EHSProofs -------------------------------
(***************************************************************************)
(* An application that keeps the rules of module EHS never makes a worker, *)
(* a map or a destructor use a destroyed object, though registrations may  *)
(* be refused: for any objects, paths and URIs.  A request with whole URIs *)
(* is handled where its path leads, and routing ends.                      *)
(***************************************************************************)
EXTENDS EHS, SequenceTheorems, WellFoundedInduction, TLAPS

TreeType ==
    /\ alive \subseteq Objects
    /\ Root \in alive
    /\ m_poParent \in [Objects -> Objects \cup {None}]
    /\ m_sRegisteredAs \in [Objects -> Paths \cup {""}]
    /\ m_oEHSMap \in [Objects -> [Paths -> Objects \cup {None}]]
    /\ m_poSourceEHS \in [Objects -> Objects \cup {None}]

\* What an object keeps of the last RegisterEHS for it, refused or not.
Claims(o, parent, path) == m_poParent[o] = parent /\ m_sRegisteredAs[o] = path

\* An entry of a live object's map is a live object that knows where it is
\* registered.
EntryInv ==
    \A o \in alive, p \in Paths :
        LET entry == m_oEHSMap[o][p] IN
        entry # None => entry \in alive /\ Claims(entry, o, p)

\* A destructor finds the object it calls UnregisterEHS of alive.
PlaceInv ==
    \A o \in alive : m_poParent[o] # None =>
        m_poParent[o] \in alive /\ m_sRegisteredAs[o] \in Paths

SourceInv == \A o \in alive : m_poSourceEHS[o] \in alive \cup {None}

RequestInv ==
    /\ request = [phase |-> request.phase, asked |-> request.asked, m_sUri |-> request.m_sUri,
                  at |-> request.at, target |-> request.target]
    /\ RoutedToLive

TreeInv == TreeType /\ EntryInv /\ PlaceInv /\ SourceInv /\ RequestInv

-----------------------------------------------------------------------------
(* Operations of the application *)

\* Before anything is registered the tree is in order.
LEMMA InitTree == Init => TreeInv
  <1> SUFFICES ASSUME Init PROVE TreeInv
    OBVIOUS
  <1>1. TreeType
    BY RootAssumption DEF Init, TreeType
  <1>2. EntryInv
    BY DEF Init, EntryInv
  <1>3. PlaceInv /\ SourceInv
    BY DEF Init, PlaceInv, SourceInv
  <1>4. RequestInv
    BY DEF Init, RequestInv, RoutedToLive, Routing, NoRequest
  <1> QED BY <1>1, <1>2, <1>3, <1>4 DEF TreeInv

\* RegisterEHS of a live child, which is registered nowhere, at a path that is free or
\* taken.
LEMMA RegisterTree ==
    ASSUME Careful, TreeInv, NEW parent \in Objects, NEW child \in Objects, NEW path \in Paths,
           RegisterEHS(parent, child, path)
    PROVE  TreeInv'
  <1> USE RootAssumption DEF TreeInv
  <1>0. /\ parent \in alive /\ child \in alive /\ ~Routing
        /\ \A o \in alive, p \in Paths : m_oEHSMap[o][p] # child
        /\ m_poParent' = [m_poParent EXCEPT ![child] = parent]
        /\ m_sRegisteredAs' = [m_sRegisteredAs EXCEPT ![child] = path]
        /\ UNCHANGED <<alive, m_poSourceEHS, request>>
    BY DEF RegisterEHS, MayRegister
  <1>3. /\ m_poParent'[child] = parent /\ m_sRegisteredAs'[child] = path
        /\ \A o \in Objects \ {child} : /\ m_poParent'[o] = m_poParent[o]
                                        /\ m_sRegisteredAs'[o] = m_sRegisteredAs[o]
    BY <1>0 DEF TreeType
  <1>4. /\ m_oEHSMap'[parent][path] = child \/ m_oEHSMap'[parent][path] = m_oEHSMap[parent][path]
        /\ \A o \in Objects, p \in Paths :
            o # parent \/ p # path => m_oEHSMap'[o][p] = m_oEHSMap[o][p]
    BY DEF RegisterEHS, TreeType
  <1>5. TreeType'
    <2>1. m_oEHSMap' \in [Objects -> [Paths -> Objects \cup {None}]]
      BY DEF RegisterEHS, TreeType
    <2>2. m_poParent' \in [Objects -> Objects \cup {None}]
      BY <1>0 DEF TreeType
    <2>3. m_sRegisteredAs' \in [Objects -> Paths \cup {""}]
      BY <1>0 DEF TreeType
    <2> QED BY <1>0, <2>1, <2>2, <2>3 DEF TreeType
  <1>6. EntryInv'
    <2> SUFFICES ASSUME NEW b \in alive', NEW p \in Paths, m_oEHSMap'[b][p] # None
                 PROVE  /\ m_oEHSMap'[b][p] \in alive'
                        /\ m_poParent'[m_oEHSMap'[b][p]] = b
                        /\ m_sRegisteredAs'[m_oEHSMap'[b][p]] = p
      BY DEF EntryInv, Claims
    <2>1. b \in Objects /\ child \in Objects /\ b \in alive
      BY <1>0 DEF TreeType
    <2>2. CASE b = parent /\ p = path /\ m_oEHSMap'[b][p] = child
      BY <1>0, <1>3, <2>2
    <2>3. CASE m_oEHSMap'[b][p] = m_oEHSMap[b][p]
      <3>1. /\ m_oEHSMap[b][p] \in alive /\ m_oEHSMap[b][p] # child
            /\ m_poParent[m_oEHSMap[b][p]] = b /\ m_sRegisteredAs[m_oEHSMap[b][p]] = p
        BY <1>0, <2>1, <2>3 DEF EntryInv, Claims
      <3>2. m_oEHSMap[b][p] \in Objects \ {child}
        BY <3>1 DEF TreeType
      <3> QED BY <1>0, <1>3, <2>3, <3>1, <3>2
    <2> QED BY <1>4, <2>1, <2>2, <2>3
  <1>7. PlaceInv'
    <2> SUFFICES ASSUME NEW b \in alive, m_poParent'[b] # None
                 PROVE  m_poParent'[b] \in alive /\ m_sRegisteredAs'[b] \in Paths
      BY <1>0 DEF PlaceInv
    <2>1. alive \subseteq Objects
      BY DEF TreeType
    <2>2. CASE b = child
      BY <1>0, <1>3, <2>2
    <2>3. CASE b # child
      BY <1>3, <2>1, <2>3 DEF PlaceInv
    <2> QED BY <2>2, <2>3
  <1>8. SourceInv' /\ RequestInv'
    BY <1>0 DEF SourceInv, RequestInv, RoutedToLive, Routing
  <1> QED BY <1>5, <1>6, <1>7, <1>8

\* The entry for path is gone and all others are as they were.
LEMMA UnregisteredMap ==
    ASSUME TreeType, NEW parent \in Objects, NEW path \in Paths,
           m_oEHSMap' = Unregistered(parent, path)
    PROVE  /\ m_oEHSMap' \in [Objects -> [Paths -> Objects \cup {None}]]
           /\ m_oEHSMap'[parent][path] = None
           /\ \A o \in Objects, p \in Paths :
                o # parent \/ p # path => m_oEHSMap'[o][p] = m_oEHSMap[o][p]
  BY DEF TreeType, Unregistered

\* UnregisterEHS removes an entry and what the child knows of it.
LEMMA UnregisterTree ==
    ASSUME Careful, TreeInv, NEW parent \in Objects, NEW path \in Paths,
           UnregisterEHS(parent, path)
    PROVE  TreeInv'
  <1> USE RootAssumption DEF TreeInv
  <1>0. /\ parent \in alive
        /\ UNCHANGED <<alive, m_poParent, m_sRegisteredAs, m_poSourceEHS, request>>
    BY DEF UnregisterEHS
  <1>1. /\ m_oEHSMap' \in [Objects -> [Paths -> Objects \cup {None}]]
        /\ m_oEHSMap'[parent][path] = None
        /\ \A o \in Objects, p \in Paths :
                o # parent \/ p # path => m_oEHSMap'[o][p] = m_oEHSMap[o][p]
    BY UnregisteredMap DEF UnregisterEHS
  <1>2. TreeType'
    BY <1>0, <1>1 DEF TreeType
  <1>3. EntryInv'
    <2> SUFFICES ASSUME NEW b \in alive', NEW p \in Paths, m_oEHSMap'[b][p] # None
                 PROVE  /\ m_oEHSMap'[b][p] \in alive'
                        /\ m_poParent'[m_oEHSMap'[b][p]] = b
                        /\ m_sRegisteredAs'[m_oEHSMap'[b][p]] = p
      BY DEF EntryInv, Claims
    <2>1. b \in alive /\ b \in Objects
      BY <1>0 DEF TreeType
    <2>2. m_oEHSMap'[b][p] = m_oEHSMap[b][p]
      BY <1>1, <2>1
    <2> QED BY <1>0, <2>1, <2>2 DEF EntryInv, Claims
  <1>4. PlaceInv' /\ SourceInv' /\ RequestInv'
    BY <1>0 DEF PlaceInv, Claims, SourceInv, RequestInv, RoutedToLive, Routing
  <1> QED BY <1>2, <1>3, <1>4

\* The destructor of o leaves no entry for o, and only its own entry goes.
LEMMA DestroyMap ==
    ASSUME Careful, TreeInv, NEW o \in Objects, DestroyEHS(o)
    PROVE  /\ o \in alive /\ o # Root /\ ~Routing /\ alive' = alive \ {o}
           /\ m_oEHSMap' \in [Objects -> [Paths -> Objects \cup {None}]]
           /\ \A other \in alive', p \in Paths :
                /\ m_oEHSMap'[other][p] # o
                /\ m_oEHSMap'[other][p] \in {m_oEHSMap[other][p], None}
                /\ m_oEHSMap[other][p] # o => m_oEHSMap'[other][p] = m_oEHSMap[other][p]
  <1> USE RootAssumption DEF TreeInv
  <1>0. o \in alive /\ o # Root /\ ~Routing /\ alive' = alive \ {o} /\ alive \subseteq Objects
    BY DEF DestroyEHS, MayDestroy, TreeType
  <1>1. CASE m_poParent[o] = None
    <2>1. m_oEHSMap' = m_oEHSMap
      BY <1>1 DEF DestroyEHS
    <2>2. \A other \in alive, p \in Paths : m_oEHSMap[other][p] # o
      <3> SUFFICES ASSUME NEW other \in alive, NEW p \in Paths, m_oEHSMap[other][p] = o
                   PROVE  FALSE
        OBVIOUS
      <3>1. m_poParent[o] = other
        BY <1>0 DEF EntryInv, Claims
      <3> QED BY <1>0, <1>1, <3>1
    <2> QED BY <1>0, <2>1, <2>2 DEF TreeType
  <1>2. CASE m_poParent[o] # None
    <2> DEFINE parent == m_poParent[o]
               path == m_sRegisteredAs[o]
    <2>1. parent \in Objects /\ path \in Paths /\ parent \in alive
      BY <1>0, <1>2 DEF PlaceInv, TreeType
    <2>2. m_oEHSMap' = Unregistered(parent, path)
      BY <1>2 DEF DestroyEHS
    <2>a. \A other \in alive, p \in Paths :
            m_oEHSMap[other][p] = o => other = parent /\ p = path
      BY <1>0 DEF EntryInv, Claims
    <2>b. m_oEHSMap[parent][path] \in {o, None}
      BY <1>2 DEF DestroyEHS, MayDestroy
    <2> HIDE DEF parent, path
    <2>3. /\ m_oEHSMap' \in [Objects -> [Paths -> Objects \cup {None}]]
          /\ m_oEHSMap'[parent][path] = None
          /\ \A b \in Objects, p \in Paths :
                b # parent \/ p # path => m_oEHSMap'[b][p] = m_oEHSMap[b][p]
      BY <2>1, <2>2, UnregisteredMap
    <2>4. ASSUME NEW other \in alive', NEW p \in Paths
          PROVE  /\ m_oEHSMap'[other][p] # o
                 /\ m_oEHSMap'[other][p] \in {m_oEHSMap[other][p], None}
                 /\ m_oEHSMap[other][p] # o => m_oEHSMap'[other][p] = m_oEHSMap[other][p]
      <3>1. other \in alive /\ other \in Objects
        BY <1>0
      <3>2. CASE other = parent /\ p = path
        BY <1>0, <2>3, <2>b, <3>2
      <3>3. CASE other # parent \/ p # path
        BY <2>3, <2>a, <3>1, <3>3
      <3> QED BY <3>2, <3>3
    <2> QED BY <1>0, <2>3, <2>4
  <1> QED BY <1>1, <1>2

\* The destructor tells parent and children before the object goes.
LEMMA DestroyTree ==
    ASSUME Careful, TreeInv, NEW o \in Objects, DestroyEHS(o)
    PROVE  TreeInv'
  <1> USE RootAssumption DEF TreeInv
  <1>0. /\ o \in alive /\ o # Root /\ ~Routing /\ alive' = alive \ {o}
        /\ m_oEHSMap' \in [Objects -> [Paths -> Objects \cup {None}]]
        /\ \A other \in alive', p \in Paths :
                /\ m_oEHSMap'[other][p] # o
                /\ m_oEHSMap'[other][p] \in {m_oEHSMap[other][p], None}
    BY DestroyMap
  <1>1. /\ \A other \in alive : m_poParent[other] # o /\ m_poSourceEHS[other] # o
        /\ UNCHANGED <<m_poParent, m_sRegisteredAs, m_poSourceEHS, request>>
    BY DEF DestroyEHS, MayDestroy
  <1>2. TreeType'
    BY <1>0, <1>1 DEF TreeType
  <1>3. EntryInv'
    <2> SUFFICES ASSUME NEW b \in alive', NEW p \in Paths, m_oEHSMap'[b][p] # None
                 PROVE  /\ m_oEHSMap'[b][p] \in alive'
                        /\ m_poParent'[m_oEHSMap'[b][p]] = b
                        /\ m_sRegisteredAs'[m_oEHSMap'[b][p]] = p
      BY DEF EntryInv, Claims
    <2>1. b \in alive /\ m_oEHSMap'[b][p] = m_oEHSMap[b][p] /\ m_oEHSMap[b][p] # o
      BY <1>0
    <2>2. /\ m_oEHSMap[b][p] \in alive
          /\ m_poParent[m_oEHSMap[b][p]] = b /\ m_sRegisteredAs[m_oEHSMap[b][p]] = p
      BY <2>1 DEF EntryInv, Claims
    <2> QED BY <1>0, <1>1, <2>1, <2>2
  <1>4. PlaceInv'
    BY <1>0, <1>1 DEF PlaceInv, Claims
  <1>5. SourceInv'
    BY <1>0, <1>1 DEF SourceInv
  <1>6. RequestInv'
    BY <1>0, <1>1 DEF RequestInv, RoutedToLive, Routing
  <1> QED BY <1>2, <1>3, <1>4, <1>5, <1>6

\* SetSourceEHS of a live object.
LEMMA SourceTree ==
    ASSUME Careful, TreeInv, NEW o \in Objects, NEW source \in Objects, SetSourceEHS(o, source)
    PROVE  TreeInv'
  <1> USE DEF TreeInv
  <1>0. /\ o \in alive /\ source \in alive
        /\ m_poSourceEHS' = [m_poSourceEHS EXCEPT ![o] = source]
        /\ UNCHANGED <<alive, m_poParent, m_sRegisteredAs, m_oEHSMap, request>>
    BY DEF SetSourceEHS
  <1>1. TreeType'
    BY <1>0 DEF TreeType
  <1>2. SourceInv'
    BY <1>0 DEF SourceInv, TreeType
  <1>3. EntryInv' /\ PlaceInv' /\ RequestInv'
    BY <1>0 DEF EntryInv, PlaceInv, Claims, RequestInv, RoutedToLive, Routing
  <1> QED BY <1>1, <1>2, <1>3

-----------------------------------------------------------------------------
(* A worker's steps *)

\* Requests do not change the tree.
LEMMA WorkerTree ==
    ASSUME TreeInv,
           (\E u \in Uris : BeginRequest(u)) \/ RouteRequest \/ HandleRequest
    PROVE  TreeInv'
  <1> USE DEF TreeInv
  <1>0. UNCHANGED <<alive, m_poParent, m_sRegisteredAs, m_oEHSMap, m_poSourceEHS>>
    BY DEF BeginRequest, RouteRequest, HandleRequest, tree
  <1>1. TreeType' /\ EntryInv' /\ PlaceInv' /\ SourceInv'
    BY <1>0, ZenonT(60) DEF TreeType, EntryInv, PlaceInv, SourceInv, Claims
  <1>2. ASSUME NEW phase, NEW asked, NEW m_sUri, NEW at, NEW target,
               request' = [phase |-> phase, asked |-> asked, m_sUri |-> m_sUri,
                           at |-> at, target |-> target],
               phase \in {"route", "handle"} => at \in alive
        PROVE  RequestInv'
    BY <1>0, <1>2 DEF RequestInv, RoutedToLive, Routing
  <1>3. CASE \E u \in Uris : BeginRequest(u)
    <2>1. PICK u \in Uris : BeginRequest(u)
      BY <1>3
    <2>2. request' = [phase |-> "route", asked |-> u, m_sUri |-> u,
                      at |-> Root, target |-> None]
      BY <2>1 DEF BeginRequest
    <2> QED BY <1>1, <1>2, <2>2 DEF TreeType
  <1>4. CASE RouteRequest
    <2> DEFINE i     == NextPathPart(request.m_sUri)
               child == Child(request.at, request.m_sUri[i])
               rest  == SubSeq(request.m_sUri, i + 1, Len(request.m_sUri))
    <2>1. request.at \in alive
      BY <1>4 DEF RouteRequest, RequestInv, RoutedToLive, Routing
    <2>2. child # None => child \in alive
      BY <2>1 DEF Child, EntryInv
    <2> HIDE DEF child, i, rest
    <2>3. \/ request' = [request EXCEPT !.phase = "handle", !.target = request.at]
          \/ child # None /\ request' = [request EXCEPT !.at = child, !.m_sUri = rest]
          \/ request' = [request EXCEPT !.phase = "404", !.m_sUri = rest]
      BY <1>4 DEF RouteRequest, child, i, rest
    <2>4. CASE request' = [request EXCEPT !.phase = "handle", !.target = request.at]
      BY <1>1, <1>2, <2>1, <2>4 DEF RequestInv
    <2>5. CASE child # None /\ request' = [request EXCEPT !.at = child, !.m_sUri = rest]
      BY <1>1, <1>2, <2>2, <2>5 DEF RequestInv
    <2>6. CASE request' = [request EXCEPT !.phase = "404", !.m_sUri = rest]
      <3>1. request' = [phase |-> "404", asked |-> request.asked, m_sUri |-> rest,
                        at |-> request.at, target |-> request.target]
        BY <2>6 DEF RequestInv
      <3>2. ~("404" \in {"route", "handle"})
        OBVIOUS
      <3> QED BY <1>1, <1>2, <3>1, <3>2
    <2> QED BY <2>3, <2>4, <2>5, <2>6
  <1>5. CASE HandleRequest
    <2>1. request.at \in alive
      BY <1>5 DEF HandleRequest, RequestInv, RoutedToLive, Routing
    <2>2. CASE m_poSourceEHS[request.at] # None
      <3>1. request' = [request EXCEPT !.at = m_poSourceEHS[request.at]]
        BY <1>5, <2>2 DEF HandleRequest
      <3>2. m_poSourceEHS[request.at] \in alive
        BY <2>1, <2>2 DEF SourceInv
      <3> QED BY <1>1, <1>2, <3>1, <3>2 DEF RequestInv
    <2>3. CASE m_poSourceEHS[request.at] = None
      <3>1. request' = [request EXCEPT !.phase = "200"]
        BY <1>5, <2>3 DEF HandleRequest
      <3> QED BY <1>1, <1>2, <3>1 DEF RequestInv
    <2> QED BY <2>2, <2>3
  <1> QED BY <1>3, <1>4, <1>5

-----------------------------------------------------------------------------
(* Theorems *)

\* Every step preserves the tree.
LEMMA NextTree ==
    ASSUME Careful, TreeInv, [Next]_vars
    PROVE  TreeInv'
  <1>1. CASE UNCHANGED vars
    BY <1>1, ZenonT(60) DEF TreeInv, TreeType, EntryInv, PlaceInv, SourceInv, RequestInv, RoutedToLive,
                Routing, Claims, vars, tree
  <1>2. CASE Next
    BY <1>2, RegisterTree, UnregisterTree, DestroyTree, SourceTree, WorkerTree DEF Next
  <1> QED BY <1>1, <1>2

\* In every state that a careful application can reach, entries, parents and paths
\* of the live objects agree, and the request in work is at a live object.
THEOREM TreeAlways ==
    ASSUME Careful
    PROVE  Spec => []TreeInv
  <1>1. Init => TreeInv
    BY InitTree
  <1>2. TreeInv /\ [Next]_vars => TreeInv'
    BY NextTree
  <1> QED BY <1>1, <1>2, PTL DEF Spec

\* No map, destructor or delegated request of a live object uses a destroyed one
\* (ehs.cpp, RegisterEHS, ~EHS and SetSourceEHS).
THEOREM PointersCorrect ==
    ASSUME Careful
    PROVE  Spec => []PointersAlive
  <1>1. TreeInv => PointersAlive
    BY DEF TreeInv, EntryInv, PlaceInv, SourceInv, PointersAlive
  <1> QED BY <1>1, TreeAlways, PTL

-----------------------------------------------------------------------------
(* Where a path leads *)

\* URIs that begin with a slash and have no empty part between two slashes.
WholeUris ==
    \A u \in Uris :
        /\ u \in Seq(STRING)
        /\ Len(u) >= 2 /\ u[1] = ""
        /\ \A i \in 2..(Len(u) - 1) : u[i] # ""

\* A set of natural numbers that is not empty has a least element.
LEMMA LeastNat ==
    ASSUME NEW S \in SUBSET Nat, S # {}
    PROVE  \E x \in S : \A y \in S : x <= y
  <1>1. OpToRel(<, Nat) = {q \in Nat \X Nat : q[1] < q[2]}
    BY Zenon DEF OpToRel
  <1>2. PICK R : IsWellFoundedOn(R, Nat) /\ R = {q \in Nat \X Nat : q[1] < q[2]}
    BY <1>1, NatLessThanWellFounded, Zenon
  <1>3. PICK x \in S : \A y \in S : ~(<<y, x>> \in R)
    BY <1>2, WFMin
  <1>4. \A y \in S : x <= y
    <2> SUFFICES ASSUME NEW y \in S PROVE x <= y
      OBVIOUS
    <2>1. x \in Nat /\ y \in Nat
      OBVIOUS
    <2>2. <<y, x>> \in Nat \X Nat
      BY <2>1
    <2>3. ~(y < x)
      BY <1>2, <1>3, <2>2
    <2> QED BY <2>1, <2>3
  <1> QED BY <1>4

\* One more part of the path.
Onward(o, part) == IF o = None THEN None ELSE Child(o, part)

\* f says where the first n directories lead.
Walks(dirs, n, f) == f = [i \in 0..n |-> IF i = 0 THEN Root ELSE Onward(f[i - 1], dirs[i])]

\* There is such a function, or there would be a shortest path without one.
LEMMA WalksExist ==
    ASSUME NEW dirs, NEW len \in Nat
    PROVE  \E f : Walks(dirs, len, f)
  <1> DEFINE Bad == {n \in 0..len : ~\E f : Walks(dirs, n, f)}
  <1>0. len \in 0..len
    OBVIOUS
  <1>1. SUFFICES ASSUME Bad # {} PROVE FALSE
    <2>1. Bad = {} => len \notin Bad
      OBVIOUS
    <2> QED BY <1>0, <2>1
  <1>2. PICK n \in Bad : \A m \in Bad : n <= m
    <2>1. Bad \in SUBSET Nat
      OBVIOUS
    <2> HIDE DEF Bad
    <2> QED BY <1>1, <2>1, LeastNat
  <1>3. n \in 0..len /\ ~\E f : Walks(dirs, n, f)
    BY <1>2
  <1>4. n # 0
    <2>1. Walks(dirs, 0, [i \in 0..0 |-> Root])
      BY DEF Walks
    <2> QED BY <1>3, <2>1
  <1>5. n - 1 \in 0..len /\ n - 1 \notin Bad
    BY <1>2, <1>3, <1>4
  <1>6. PICK f : Walks(dirs, n - 1, f)
    BY <1>5
  <1> DEFINE g == [i \in 0..n |-> IF i = n THEN Onward(f[n - 1], dirs[n]) ELSE f[i]]
  <1>7. Walks(dirs, n, g)
    <2>1. \A i \in 0..n : g[i] = IF i = 0 THEN Root ELSE Onward(g[i - 1], dirs[i])
      <3> SUFFICES ASSUME NEW i \in 0..n
                   PROVE  g[i] = IF i = 0 THEN Root ELSE Onward(g[i - 1], dirs[i])
        OBVIOUS
      <3>1. CASE i = n
        BY <1>3, <1>4, <3>1
      <3>2. CASE i # n
        <4>1. i \in 0..(n - 1)
          BY <1>3, <3>2
        <4>2. f[i] = IF i = 0 THEN Root ELSE Onward(f[i - 1], dirs[i])
          BY <1>6, <4>1 DEF Walks
        <4>3. i # 0 => g[i - 1] = f[i - 1]
          BY <1>3, <4>1
        <4> QED BY <3>2, <4>2, <4>3
      <3> QED BY <3>1, <3>2
    <2> QED BY <2>1 DEF Walks
  <1> QED BY <1>3, <1>7

\* The walk starts at the root and follows the maps, part by part.
LEMMA WalkSteps ==
    ASSUME NEW dirs \in Seq(STRING)
    PROVE  /\ Walk(dirs)[0] = Root
           /\ \A n \in 1..Len(dirs) : Walk(dirs)[n] = Onward(Walk(dirs)[n - 1], dirs[n])
  <1>0. Len(dirs) \in Nat
    OBVIOUS
  <1> DEFINE at == CHOOSE f : Walks(dirs, Len(dirs), f)
  <1>1. Walks(dirs, Len(dirs), at)
    BY <1>0, WalksExist
  <1>2. Walk(dirs) = at
    BY Zenon DEF Walk, Walks, Onward
  <1> HIDE DEF at
  <1>3. /\ at[0] = Root
        /\ \A n \in 1..Len(dirs) : at[n] = Onward(at[n - 1], dirs[n])
    BY <1>0, <1>1 DEF Walks
  <1> QED BY <1>2, <1>3

\* Where a part is not registered, the path leads nowhere.
LEMMA WalkEnds ==
    ASSUME NEW dirs \in Seq(STRING), NEW k \in 0..Len(dirs), Walk(dirs)[k] = None
    PROVE  Walk(dirs)[Len(dirs)] = None
  <1> DEFINE Bad == {n \in k..Len(dirs) : Walk(dirs)[n] # None}
  <1>1. SUFFICES ASSUME Bad # {} PROVE FALSE
    OBVIOUS
  <1>2. PICK n \in Bad : \A m \in Bad : n <= m
    <2>1. Bad \in SUBSET Nat
      OBVIOUS
    <2> HIDE DEF Bad
    <2> QED BY <1>1, <2>1, LeastNat
  <1>3. n \in 1..Len(dirs) /\ n - 1 \in k..Len(dirs) /\ n - 1 \notin Bad
    BY <1>2
  <1>4. Walk(dirs)[n - 1] = None
    BY <1>3
  <1>5. Walk(dirs)[n] = None
    BY <1>3, <1>4, WalkSteps DEF Onward
  <1> QED BY <1>2, <1>5

\* A slice of a sequence.
LEMMA Slice ==
    ASSUME NEW S, NEW s \in Seq(S), NEW m \in 1..(Len(s) + 1), NEW n \in (m - 1)..Len(s)
    PROVE  /\ SubSeq(s, m, n) \in Seq(S)
           /\ Len(SubSeq(s, m, n)) = n - m + 1
           /\ \A i \in 1..(n - m + 1) : SubSeq(s, m, n)[i] = s[m + i - 1]
  <1>1. Len(s) \in Nat /\ \A i \in 1..Len(s) : s[i] \in S
    BY ElementOfSeq, LenProperties
  <1>2. m \in Int /\ n \in Int /\ \A i \in m..n : s[i] \in S
    BY <1>1
  <1>3. /\ SubSeq(s, m, n) \in Seq(S)
        /\ Len(SubSeq(s, m, n)) = IF m <= n THEN n - m + 1 ELSE 0
        /\ \A i \in 1..(n - m + 1) : SubSeq(s, m, n)[i] = s[m + i - 1]
    BY <1>2, SubSeqProperties
  <1>4. m <= n \/ n - m + 1 = 0
    BY <1>1
  <1>5. Len(SubSeq(s, m, n)) = n - m + 1
    BY <1>2, <1>3, <1>4
  <1> QED BY <1>3, <1>5

\* Taking a part leaves less.
LEMMA Shorter ==
    ASSUME NEW s \in Seq(STRING), NEW i \in 1..Len(s)
    PROVE  Len(SubSeq(s, i + 1, Len(s))) < Len(s)
  <1>1. Len(s) \in Nat
    BY LenProperties
  <1>2. i + 1 \in 1..(Len(s) + 1) /\ Len(s) \in (i + 1 - 1)..Len(s)
    BY <1>1
  <1>3. Len(SubSeq(s, i + 1, Len(s))) = Len(s) - (i + 1) + 1
    BY <1>2, Slice
  <1> QED BY <1>1, <1>3

\* What is left of a URI after k directories.
LeftOf(uri, k) == IF k = 0 THEN uri ELSE SubSeq(uri, k + 2, Len(uri))

\* The part at place i of what is left is the next directory; 0 says that there is none.
Found(uri, k, left, i) ==
    /\ Directories(uri) \in Seq(STRING)
    /\ i = 0 <=> k = Len(Directories(uri))
    /\ i # 0 => /\ left[i] = Directories(uri)[k + 1]
                /\ SubSeq(left, i + 1, Len(left)) = LeftOf(uri, k + 1)
                /\ Len(SubSeq(left, i + 1, Len(left))) < Len(left)

\* GetNextPathPart finds the next directory, and none after the last.
LEMMA PartFound ==
    ASSUME WholeUris, NEW uri \in Uris, NEW k \in 0..Len(Directories(uri))
    PROVE  Found(uri, k, LeftOf(uri, k), NextPathPart(LeftOf(uri, k)))
  <1> SUFFICES ASSUME NEW left, left = LeftOf(uri, k), NEW i, i = NextPathPart(left)
               PROVE  Found(uri, k, left, i)
    OBVIOUS
  <1> DEFINE dirs == Directories(uri)
             len == Len(uri)
  <1>1. /\ uri \in Seq(STRING) /\ len >= 2 /\ uri[1] = ""
        /\ \A j \in 2..(len - 1) : uri[j] # ""
    BY DEF WholeUris
  <1>2. len \in Nat /\ len >= 2
    BY <1>1, LenProperties
  <1>3. /\ dirs \in Seq(STRING) /\ Len(dirs) = len - 2
        /\ \A j \in 1..(len - 2) : dirs[j] = uri[j + 1]
    <2>1. 2 \in 1..(len + 1) /\ len - 1 \in (2 - 1)..len
      <3> HIDE DEF len
      <3> QED BY <1>2
    <2>2. /\ dirs \in Seq(STRING) /\ Len(dirs) = len - 1 - 2 + 1
          /\ \A j \in 1..(len - 1 - 2 + 1) : dirs[j] = uri[2 + j - 1]
      BY <1>1, <2>1, Slice DEF Directories
    <2> QED BY <1>2, <2>2
  <1>4. k \in 0..(len - 2)
    BY <1>3
  <1> HIDE DEF dirs, len
  <1>5. CASE k = 0
    <2>1. left = uri /\ Len(left) = len
      BY <1>5 DEF LeftOf, len
    <2>2. i = IF len > 2 /\ uri[2] # "" THEN 2 ELSE 0
      BY <1>1, <2>1 DEF NextPathPart
    <2>3. len > 2 => uri[2] # ""
      <3>1. len > 2 => 2 \in 2..(len - 1)
        BY <1>2
      <3> QED BY <1>1, <3>1
    <2>4. i = IF len > 2 THEN 2 ELSE 0
      BY <2>2, <2>3
    <2>5. i # 0 => left[i] = dirs[k + 1]
      BY <1>2, <1>3, <1>5, <2>1, <2>4
    <2>6. i # 0 => SubSeq(left, i + 1, Len(left)) = LeftOf(uri, k + 1)
      BY <1>5, <2>1, <2>4 DEF LeftOf, len
    <2>7. i = 0 <=> k = Len(dirs)
      BY <1>2, <1>3, <1>5, <2>4
    <2>8. left \in Seq(STRING) /\ (i # 0 => i \in 1..Len(left))
      <3>1. left \in Seq(STRING)
        BY <1>1, <2>1
      <3>2. i # 0 => i \in 1..Len(left)
        BY <1>2, <2>1, <2>4
      <3> QED BY <3>1, <3>2
    <2>9. i # 0 => Len(SubSeq(left, i + 1, Len(left))) < Len(left)
      BY <2>8, Shorter
    <2> QED BY <1>3, <2>5, <2>6, <2>7, <2>9 DEF dirs, Found
  <1>6. CASE k # 0
    <2>1. left = SubSeq(uri, k + 2, len)
      BY <1>6 DEF LeftOf, len
    <2>2. /\ left \in Seq(STRING) /\ Len(left) = len - k - 1
          /\ \A j \in 1..(len - k - 1) : left[j] = uri[j + k + 1]
      <3>1. k + 2 \in 1..(Len(uri) + 1) /\ len \in (k + 2 - 1)..Len(uri)
        BY <1>2, <1>4 DEF len
      <3>2. /\ left \in Seq(STRING) /\ Len(left) = len - (k + 2) + 1
            /\ \A j \in 1..(len - (k + 2) + 1) : left[j] = uri[(k + 2) + j - 1]
        <4> HIDE DEF len
        <4>1. uri \in Seq(STRING)
          BY <1>1
        <4> QED BY <2>1, <3>1, <4>1, Slice
      <3> QED BY <1>2, <1>4, <3>2
    <2>3. CASE k = len - 2
      <3>1. Len(left) = 1
        BY <1>2, <2>2, <2>3
      <3>2. i = 0
        BY <3>1 DEF NextPathPart
      <3> QED BY <1>3, <2>3, <3>2 DEF dirs, Found
    <2>4. CASE k # len - 2
      <3>1. k + 2 \in 2..(len - 1) /\ len - k - 1 > 1 /\ 1 \in 1..(len - k - 1)
            /\ k + 1 \in 1..(len - 2)
        BY <1>2, <1>4, <2>4
      <3>2. left[1] = uri[k + 2] /\ left[1] # ""
        <4>1. left[1] = uri[1 + k + 1] /\ 1 + k + 1 = k + 2
          BY <1>4, <2>2, <3>1
        <4> QED BY <1>1, <3>1, <4>1
      <3>3. i = 1
        BY <2>2, <3>1, <3>2 DEF NextPathPart
      <3>4. left[1] = dirs[k + 1]
        <4>1. dirs[k + 1] = uri[k + 1 + 1] /\ k + 1 + 1 = k + 2
          BY <1>3, <1>4, <3>1
        <4> QED BY <3>2, <4>1
      <3>5. SubSeq(left, 2, Len(left)) = SubSeq(uri, k + 3, len)
        <4>1. k + 2 \in 1..Len(uri) /\ len \in (k + 2)..Len(uri) /\ k + 2 + 1 = k + 3
          BY <1>2, <1>4, <3>1 DEF len
        <4>2. uri \in Seq(STRING) /\ left # <<>>
          <5>1. Len(left) # 0
            BY <1>2, <1>4, <2>2, <3>1
          <5> QED BY <1>1, <5>1, EmptySeq
        <4>3. Tail(left) = SubSeq(uri, k + 2 + 1, len)
          BY <2>1, <4>1, <4>2, HeadTailOfSubSeq
        <4>4. Tail(left) = SubSeq(left, 2, Len(left))
          BY <2>2, <4>2, TailIsSubSeq
        <4> QED BY <4>1, <4>3, <4>4
      <3>6. LeftOf(uri, k + 1) = SubSeq(uri, k + 3, len)
        <4>1. k + 1 # 0 /\ k + 1 + 2 = k + 3
          BY <1>4
        <4> QED BY <4>1 DEF LeftOf, len
      <3>7. i = 0 <=> k = Len(dirs)
        BY <1>3, <2>4, <3>3
      <3>8. SubSeq(left, i + 1, Len(left)) = LeftOf(uri, k + 1)
        <4>1. i + 1 = 2
          BY <3>3
        <4> QED BY <3>5, <3>6, <4>1
      <3>9. i \in 1..Len(left)
        BY <2>2, <3>1, <3>3
      <3> QED BY <1>3, <2>2, <3>3, <3>4, <3>7, <3>8, <3>9, Shorter DEF dirs, Found
    <2> QED BY <2>3, <2>4
  <1> QED BY <1>5, <1>6

-----------------------------------------------------------------------------
(* Requests reach the object of their path *)

\* The source of a source is NULL.
NoChains ==
    \A o \in alive : m_poSourceEHS[o] # None => m_poSourceEHS[m_poSourceEHS[o]] = None

\* While RouteRequest calls itself, the request is at the object that the
\* directories taken so far lead to, and m_sUri is the rest of the URI.
OnItsWay ==
    request.phase = "route" =>
        /\ request.asked \in Uris
        /\ m_bNoRouting => request.at = Root
        /\ ~m_bNoRouting =>
             \E k \in 0..Len(Directories(request.asked)) :
                /\ request.at = Walk(Directories(request.asked))[k]
                /\ request.m_sUri = LeftOf(request.asked, k)

\* HandleRequest is called for the object of the path, or for its source.
AtTarget ==
    request.phase = "handle" =>
        /\ request.target = ServedBy(request.asked)
        /\ request.target \in alive
        /\ \/ request.at = request.target
           \/ /\ request.at = m_poSourceEHS[request.target]
              /\ m_poSourceEHS[request.target] # None

RouteInv == NoChains /\ OnItsWay /\ AtTarget

\* Walk, with the maps as a parameter.
WalkIn(map, dirs) ==
    LET at[n \in 0..Len(dirs)] ==
            IF n = 0 THEN Root
            ELSE IF at[n - 1] = None THEN None
            ELSE IF dirs[n] \in Paths THEN map[at[n - 1]][dirs[n]] ELSE None
    IN  at

\* What a path leads to depends on the maps and on the root's option only.
LEMMA PathKept ==
    ASSUME UNCHANGED <<m_oEHSMap, m_bNoRouting>>, NEW uri
    PROVE  Walk(Directories(uri))' = Walk(Directories(uri)) /\ ServedBy(uri)' = ServedBy(uri)
  <1>1. Walk(Directories(uri)) = WalkIn(m_oEHSMap, Directories(uri))
    BY Zenon DEF Walk, WalkIn, Child
  <1>2. Walk(Directories(uri))' = WalkIn(m_oEHSMap', Directories(uri))
    BY Zenon DEF Walk, WalkIn, Child, Directories
  <1>3. Walk(Directories(uri))' = Walk(Directories(uri))
    BY <1>1, <1>2
  <1>4. ServedBy(uri)' = IF m_bNoRouting' THEN Root
                         ELSE Walk(Directories(uri))'[Len(Directories(uri))]
    BY Zenon DEF ServedBy, Directories
  <1> QED BY <1>3, <1>4 DEF ServedBy

\* The application changes the tree between requests only.
LEMMA BetweenRequests ==
    ASSUME Careful, ~Routing, request' = request, NoChains'
    PROVE  RouteInv'
  BY DEF RouteInv, OnItsWay, AtTarget, Routing

\* BeginRequest starts at the root with the whole URI.
LEMMA BeginRoute ==
    ASSUME RouteInv, WholeUris, NEW u \in Uris, BeginRequest(u)
    PROVE  RouteInv'
  <1>0. /\ request' = [phase |-> "route", asked |-> u, m_sUri |-> u, at |-> Root, target |-> None]
        /\ UNCHANGED <<alive, m_oEHSMap, m_poSourceEHS, m_bNoRouting>>
    BY DEF BeginRequest, tree
  <1>1. NoChains'
    BY <1>0 DEF RouteInv, NoChains
  <1>2. /\ request'.phase = "route" /\ request'.asked = u /\ request'.m_sUri = u
        /\ request'.at = Root
    BY <1>0
  <1>3. Directories(u) \in Seq(STRING) /\ 0 \in 0..Len(Directories(u))
    <2>1. u \in Seq(STRING) /\ Len(u) >= 2
      BY DEF WholeUris
    <2>2. Directories(u) \in Seq(STRING)
      <3>1. Len(u) \in Nat
        BY <2>1, LenProperties
      <3>2. 2 \in 1..(Len(u) + 1) /\ Len(u) - 1 \in (2 - 1)..Len(u)
        BY <2>1, <3>1
      <3> QED BY <2>1, <3>2, Slice DEF Directories
    <2>3. Len(Directories(u)) \in Nat
      BY <2>2, LenProperties
    <2> QED BY <2>2, <2>3
  <1>4. Walk(Directories(u))[0] = Root /\ LeftOf(u, 0) = u
    BY <1>3, WalkSteps DEF LeftOf
  <1>5. Walk(Directories(u))' = Walk(Directories(u))
    BY <1>0, PathKept
  <1>6. OnItsWay'
    <2>1. Walk(Directories(u))'[0] = Root
      BY <1>4, <1>5
    <2> QED BY <1>2, <1>3, <1>4, <2>1 DEF OnItsWay
  <1>7. AtTarget'
    BY <1>2 DEF AtTarget
  <1> QED BY <1>1, <1>6, <1>7 DEF RouteInv

\* RouteRequest takes one directory, hands the request to HandleRequest after the
\* last one, or finds that the path leads nowhere.
LEMMA RouteStep ==
    ASSUME TreeInv, RouteInv, WholeUris, RouteRequest
    PROVE  /\ RouteInv'
           /\ request'.phase = "404" => ServedBy(request.asked) = None
           /\ request'.phase = "route" => Len(request'.m_sUri) < Len(request.m_sUri)
  <1> DEFINE uri == request.asked
             dirs == Directories(uri)
             i     == NextPathPart(request.m_sUri)
             child == Child(request.at, request.m_sUri[i])
             rest  == SubSeq(request.m_sUri, i + 1, Len(request.m_sUri))
  <1>0. /\ request.phase = "route" /\ request.at \in alive /\ request.at \in Objects
        /\ UNCHANGED <<alive, m_oEHSMap, m_poSourceEHS, m_bNoRouting>>
        /\ uri \in Uris
        /\ request = [phase |-> request.phase, asked |-> request.asked,
                      m_sUri |-> request.m_sUri, at |-> request.at, target |-> request.target]
    BY DEF RouteRequest, tree, RouteInv, OnItsWay, TreeInv, TreeType, RequestInv, RoutedToLive,
           Routing
  <1>1. NoChains'
    BY <1>0 DEF RouteInv, NoChains
  <1>3. \A u : Walk(Directories(u))' = Walk(Directories(u)) /\ ServedBy(u)' = ServedBy(u)
    BY <1>0, PathKept
  <1>4. ASSUME NEW at, at = request.at, at = ServedBy(uri),
               request' = [request EXCEPT !.phase = "handle", !.target = at]
        PROVE  /\ RouteInv'
               /\ request'.phase = "404" => ServedBy(uri) = None
               /\ request'.phase = "route" => Len(request'.m_sUri) < Len(request.m_sUri)
    <2>1. /\ request'.phase = "handle" /\ request'.target = at /\ request'.at = at
          /\ request'.asked = uri
      BY <1>0, <1>4
    <2>2. ServedBy(request.asked)' = at
      <3>1. PICK u : u = request.asked
        OBVIOUS
      <3>2. ServedBy(u)' = at /\ request'.asked = u
        BY <1>3, <1>4, <2>1, <3>1
      <3> QED BY <3>2 DEF ServedBy
    <2>3. AtTarget'
      BY <1>0, <1>4, <2>1, <2>2 DEF AtTarget
    <2>4. OnItsWay'
      BY <2>1 DEF OnItsWay
    <2> QED BY <1>1, <2>1, <2>3, <2>4 DEF RouteInv
  <1>5. CASE m_bNoRouting
    <2>1. request.at = Root /\ ServedBy(uri) = Root
      BY <1>0, <1>5 DEF RouteInv, OnItsWay, ServedBy
    <2>2. request' = [request EXCEPT !.phase = "handle", !.target = request.at]
      BY <1>5, <2>1 DEF RouteRequest
    <2> QED BY <1>4, <2>1, <2>2
  <1>6. CASE ~m_bNoRouting
    <2>1. PICK k \in 0..Len(dirs) : request.at = Walk(dirs)[k] /\ request.m_sUri = LeftOf(uri, k)
      BY <1>0, <1>6 DEF RouteInv, OnItsWay
    <2>2. /\ dirs \in Seq(STRING)
          /\ i = 0 <=> k = Len(dirs)
          /\ i # 0 => /\ request.m_sUri[i] = dirs[k + 1] /\ rest = LeftOf(uri, k + 1)
                      /\ Len(rest) < Len(request.m_sUri)
      <3>1. Found(uri, k, request.m_sUri, i)
        BY <1>0, <2>1, PartFound
      <3> QED BY <3>1 DEF Found
    <2>3. Len(dirs) \in Nat
      BY <2>2, LenProperties
    <2>4. request' = IF i = 0 THEN [request EXCEPT !.phase = "handle", !.target = request.at]
                     ELSE IF child # None THEN [request EXCEPT !.at = child, !.m_sUri = rest]
                     ELSE [request EXCEPT !.phase = "404", !.m_sUri = rest]
      BY <1>6 DEF RouteRequest
    <2> HIDE DEF i, child, rest
    <2>5. CASE i = 0
      <3>1. request.at = ServedBy(uri)
        BY <1>6, <2>1, <2>2, <2>5 DEF ServedBy
      <3> QED BY <1>4, <2>4, <2>5, <3>1
    <2>6. CASE i # 0
      <3>1. k + 1 \in 1..Len(dirs) /\ k + 1 \in 0..Len(dirs) /\ k + 1 - 1 = k
        BY <2>1, <2>2, <2>3, <2>6
      <3>2. Walk(dirs)[k + 1] = child
        <4>1. Walk(dirs)[k + 1] = Onward(Walk(dirs)[k], dirs[k + 1])
          BY <2>2, <3>1, WalkSteps
        <4>2. request.at # None
          BY <1>0, RootAssumption
        <4> QED BY <2>1, <2>2, <2>6, <4>1, <4>2 DEF Onward, child
      <3>3. CASE child # None
        <4>1. request' = [request EXCEPT !.at = child, !.m_sUri = rest]
          BY <2>4, <2>6, <3>3
        <4>2. /\ request'.phase = "route" /\ request'.asked = uri /\ request'.at = child
              /\ request'.m_sUri = rest /\ rest = LeftOf(uri, k + 1)
          BY <1>0, <2>2, <2>6, <4>1
        <4>3. PICK u : u = uri
          OBVIOUS
        <4>4. Walk(Directories(u))' = Walk(dirs) /\ request'.asked = u
          BY <1>3, <4>2, <4>3
        <4>5. OnItsWay'
          BY <1>0, <1>6, <3>1, <3>2, <4>2, <4>3, <4>4 DEF OnItsWay
        <4>6. AtTarget'
          BY <4>2 DEF AtTarget
        <4> QED BY <1>1, <2>2, <2>6, <4>2, <4>5, <4>6 DEF RouteInv
      <3>4. CASE child = None
        <4>1. request' = [request EXCEPT !.phase = "404", !.m_sUri = rest]
          BY <2>4, <2>6, <3>4
        <4>2. request'.phase = "404"
          BY <1>0, <4>1
        <4>3. ServedBy(uri) = None
          BY <1>6, <2>2, <3>1, <3>2, <3>4, WalkEnds DEF ServedBy
        <4> QED BY <1>1, <4>2, <4>3 DEF RouteInv, OnItsWay, AtTarget
      <3> QED BY <3>3, <3>4
    <2> QED BY <2>5, <2>6
  <1> QED BY <1>5, <1>6

\* HandleRequest asks the source once at most; the source answers itself.
LEMMA HandleStep ==
    ASSUME TreeInv, RouteInv, HandleRequest
    PROVE  /\ RouteInv'
           /\ request'.phase = "200" =>
                LET target == ServedBy(request.asked) IN
                request.at = IF m_poSourceEHS[target] = None THEN target
                             ELSE m_poSourceEHS[target]
           /\ request'.phase = "handle" =>
                m_poSourceEHS[request.at] # None /\ m_poSourceEHS'[request'.at] = None
  <1>0. /\ request.phase = "handle"
        /\ UNCHANGED <<alive, m_oEHSMap, m_poSourceEHS, m_bNoRouting>>
        /\ request = [phase |-> request.phase, asked |-> request.asked,
                      m_sUri |-> request.m_sUri, at |-> request.at, target |-> request.target]
    BY DEF HandleRequest, tree, TreeInv, RequestInv
  <1>1. NoChains'
    BY <1>0 DEF RouteInv, NoChains
  <1>2. /\ request.target = ServedBy(request.asked) /\ request.target \in alive
        /\ \/ request.at = request.target
           \/ request.at = m_poSourceEHS[request.target] /\ m_poSourceEHS[request.target] # None
    BY <1>0 DEF RouteInv, AtTarget
  <1>3. CASE m_poSourceEHS[request.at] # None
    <2>1. request' = [request EXCEPT !.at = m_poSourceEHS[request.at]]
      BY <1>3 DEF HandleRequest
    <2>2. request.at = request.target
      BY <1>2, <1>3 DEF RouteInv, NoChains
    <2>3. /\ request'.phase = "handle" /\ request'.asked = request.asked
          /\ request'.target = request.target
          /\ request'.at = m_poSourceEHS[request.target]
      BY <1>0, <2>1, <2>2
    <2>4. ServedBy(request.asked)' = request.target
      <3>1. PICK u : u = request.asked
        OBVIOUS
      <3>2. ServedBy(u)' = request.target /\ request'.asked = u
        BY <1>0, <1>2, <2>3, <3>1, PathKept
      <3> QED BY <3>2 DEF ServedBy
    <2>5. AtTarget'
      BY <1>0, <1>2, <1>3, <2>2, <2>3, <2>4 DEF AtTarget
    <2>6. OnItsWay'
      BY <2>3 DEF OnItsWay
    <2>7. m_poSourceEHS'[request'.at] = None
      BY <1>0, <1>2, <1>3, <2>2, <2>3 DEF RouteInv, NoChains
    <2> QED BY <1>1, <1>3, <2>3, <2>5, <2>6, <2>7 DEF RouteInv
  <1>4. CASE m_poSourceEHS[request.at] = None
    <2>1. request' = [request EXCEPT !.phase = "200"]
      BY <1>4 DEF HandleRequest
    <2>2. request'.phase = "200"
      BY <1>0, <2>1
    <2>3. OnItsWay' /\ AtTarget'
      BY <2>2 DEF OnItsWay, AtTarget
    <2>4. request.at = IF m_poSourceEHS[request.target] = None THEN request.target
                       ELSE m_poSourceEHS[request.target]
      BY <1>2, <1>4
    <2> QED BY <1>1, <1>2, <2>2, <2>3, <2>4 DEF RouteInv
  <1> QED BY <1>3, <1>4

\* SetSourceEHS of a careful application makes no chain.
LEMMA SourceChain ==
    ASSUME Careful, TreeInv, NoChains, NEW o \in Objects, NEW source \in Objects,
           SetSourceEHS(o, source)
    PROVE  NoChains'
  <1>1. /\ o \in alive /\ source \in alive /\ source # o /\ m_poSourceEHS[source] = None
        /\ \A other \in alive : m_poSourceEHS[other] # o
        /\ m_poSourceEHS' = [m_poSourceEHS EXCEPT ![o] = source]
        /\ alive' = alive
    BY DEF SetSourceEHS, MaySetSource
  <1>2. /\ m_poSourceEHS'[o] = source /\ m_poSourceEHS'[source] = None
        /\ \A b \in Objects \ {o} : m_poSourceEHS'[b] = m_poSourceEHS[b]
    BY <1>1 DEF TreeInv, TreeType
  <1> SUFFICES ASSUME NEW b \in alive, m_poSourceEHS'[b] # None
               PROVE  m_poSourceEHS'[m_poSourceEHS'[b]] = None
    BY <1>1 DEF NoChains
  <1>3. CASE b = o
    BY <1>2, <1>3
  <1>4. CASE b # o
    <2>1. m_poSourceEHS'[b] = m_poSourceEHS[b] /\ m_poSourceEHS[b] # o
          /\ m_poSourceEHS[b] \in Objects
      BY <1>1, <1>2, <1>4 DEF TreeInv, TreeType, SourceInv
    <2> QED BY <1>2, <2>1 DEF NoChains
  <1> QED BY <1>3, <1>4

\* Every step keeps requests on the way of their path.
LEMMA NextRoute ==
    ASSUME Careful, WholeUris, TreeInv, RouteInv, [Next]_vars
    PROVE  RouteInv'
  <1>1. CASE UNCHANGED vars
    <2>1. UNCHANGED <<alive, m_oEHSMap, m_poSourceEHS, m_bNoRouting, request>>
      BY <1>1 DEF vars, tree
    <2>2. PICK u : u = request.asked
      OBVIOUS
    <2>3. Walk(Directories(u))' = Walk(Directories(u)) /\ ServedBy(u)' = ServedBy(u)
          /\ request'.asked = u
      BY <2>1, <2>2, PathKept
    <2>4. NoChains'
      BY <2>1 DEF RouteInv, NoChains
    <2>5. OnItsWay'
      BY <2>1, <2>2, <2>3 DEF RouteInv, OnItsWay
    <2>6. AtTarget'
      BY <2>1, <2>2, <2>3 DEF RouteInv, AtTarget
    <2> QED BY <2>4, <2>5, <2>6 DEF RouteInv
  <1>2. CASE \E o \in Objects, c \in Objects, p \in Paths : RegisterEHS(o, c, p)
    <2>1. ~Routing /\ UNCHANGED <<alive, m_poSourceEHS, request>>
      BY <1>2 DEF RegisterEHS, MayRegister
    <2>2. NoChains'
      BY <2>1 DEF RouteInv, NoChains
    <2> QED BY <2>1, <2>2, BetweenRequests
  <1>3. CASE \E o \in Objects, p \in Paths : UnregisterEHS(o, p)
    <2>1. ~Routing /\ UNCHANGED <<alive, m_poSourceEHS, request>>
      BY <1>3 DEF UnregisterEHS, MayUnregister
    <2>2. NoChains'
      BY <2>1 DEF RouteInv, NoChains
    <2> QED BY <2>1, <2>2, BetweenRequests
  <1>4. CASE \E o \in Objects : DestroyEHS(o)
    <2>1. ~Routing /\ UNCHANGED <<m_poSourceEHS, request>> /\ alive' \subseteq alive
      BY <1>4 DEF DestroyEHS, MayDestroy
    <2>2. NoChains'
      BY <2>1 DEF RouteInv, NoChains
    <2> QED BY <2>1, <2>2, BetweenRequests
  <1>5. CASE \E o \in Objects, s \in Objects : SetSourceEHS(o, s)
    <2>1. NoChains'
      BY <1>5, SourceChain DEF RouteInv
    <2>2. ~Routing /\ request' = request
      BY <1>5 DEF SetSourceEHS, MaySetSource
    <2> QED BY <2>1, <2>2, BetweenRequests
  <1>6. CASE \E u \in Uris : BeginRequest(u)
    BY <1>6, BeginRoute
  <1>7. CASE RouteRequest
    BY <1>7, RouteStep
  <1>8. CASE HandleRequest
    BY <1>8, HandleStep
  <1> QED BY <1>1, <1>2, <1>3, <1>4, <1>5, <1>6, <1>7, <1>8 DEF Next

\* The first state has no request.
LEMMA InitRoute == Init => RouteInv
  <1> SUFFICES ASSUME Init PROVE RouteInv
    OBVIOUS
  <1>1. request.phase = "none"
    BY DEF Init, NoRequest
  <1>2. \A o \in alive : m_poSourceEHS[o] = None
    BY DEF Init
  <1> QED BY <1>1, <1>2 DEF RouteInv, NoChains, OnItsWay, AtTarget

\* A request is handled by the object that its path leads to, or by the source of
\* that object, and is answered 404 only if the path leads nowhere (ehs.cpp,
\* GetNextPathPart, RouteRequest and HandleRequest): in any tree, for any URIs that
\* begin with a slash and have no empty part.
THEOREM PathsCorrect ==
    ASSUME Careful, WholeUris
    PROVE  Spec => RoutedByPath
  <1> DEFINE Right ==
        /\ request.phase = "route" /\ request'.phase = "404" => ServedBy(request.asked) = None
        /\ request.phase = "handle" /\ request'.phase = "200" =>
             LET target == ServedBy(request.asked) IN
             request.at = IF m_poSourceEHS[target] = None THEN target
                          ELSE m_poSourceEHS[target]
  <1>1. Init => RouteInv
    BY InitRoute
  <1>2. TreeInv /\ RouteInv /\ [Next]_vars => RouteInv'
    BY NextRoute
  <1>3. ASSUME TreeInv, RouteInv, [Next]_vars
        PROVE  [Right]_vars
    <2>1. CASE request' = request
      <3>1. ~(request.phase = "route" /\ request'.phase = "404")
            /\ ~(request.phase = "handle" /\ request'.phase = "200")
        BY <2>1
      <3> QED BY <3>1
    <2>2. CASE \E u \in Uris : BeginRequest(u)
      <3>1. ~(request.phase = "route") /\ ~(request.phase = "handle")
        BY <2>2 DEF BeginRequest, Routing
      <3> QED BY <3>1
    <2>3. CASE RouteRequest
      <3>1. request.phase = "route"
        BY <2>3 DEF RouteRequest
      <3> QED BY <1>3, <2>3, <3>1, RouteStep
    <2>4. CASE HandleRequest
      <3>1. request.phase = "handle"
        BY <2>4 DEF HandleRequest
      <3> QED BY <1>3, <2>4, <3>1, HandleStep
    <2>5. \/ request' = request
          \/ \E u \in Uris : BeginRequest(u)
          \/ RouteRequest
          \/ HandleRequest
      BY <1>3 DEF Next, vars, RegisterEHS, UnregisterEHS, DestroyEHS, SetSourceEHS
    <2> QED BY <2>1, <2>2, <2>3, <2>4, <2>5
  <1>4. TreeInv /\ RouteInv /\ [Next]_vars => [Right]_vars
    BY <1>3
  <1> QED BY <1>1, <1>2, <1>4, TreeAlways, PTL DEF Spec, RoutedByPath

\* What RequestAnswered rests on: RouteRequest calls itself with a shorter URI only,
\* and HandleRequest delegates to an object that does not delegate.
RoutingShrinks ==
    [][/\ request.phase = "route" /\ request'.phase = "route" /\ request' # request
            => Len(request'.m_sUri) < Len(request.m_sUri)
       /\ request.phase = "handle" /\ request'.phase = "handle" /\ request' # request
            => m_poSourceEHS[request.at] # None /\ m_poSourceEHS'[request'.at] = None]_vars

\* No tree and no URI can make RouteRequest or HandleRequest recurse without end
\* (ehs.cpp, RouteRequest and HandleRequest), if the sources form no chain.
THEOREM RoutingEnds ==
    ASSUME Careful, WholeUris
    PROVE  Spec => RoutingShrinks
  <1> DEFINE Shrinks ==
        /\ request.phase = "route" /\ request'.phase = "route" /\ request' # request
            => Len(request'.m_sUri) < Len(request.m_sUri)
        /\ request.phase = "handle" /\ request'.phase = "handle" /\ request' # request
            => m_poSourceEHS[request.at] # None /\ m_poSourceEHS'[request'.at] = None
  <1>1. Init => RouteInv
    BY InitRoute
  <1>2. TreeInv /\ RouteInv /\ [Next]_vars => RouteInv'
    BY NextRoute
  <1>3. ASSUME TreeInv, RouteInv, [Next]_vars
        PROVE  [Shrinks]_vars
    <2>1. CASE request' = request
      BY <2>1
    <2>2. CASE \E u \in Uris : BeginRequest(u)
      <3>1. ~(request.phase = "route") /\ ~(request.phase = "handle")
        BY <2>2 DEF BeginRequest, Routing
      <3> QED BY <3>1
    <2>3. CASE RouteRequest
      <3>1. request.phase = "route"
        BY <2>3 DEF RouteRequest
      <3> QED BY <1>3, <2>3, <3>1, RouteStep
    <2>4. CASE HandleRequest
      <3>1. request.phase = "handle"
        BY <2>4 DEF HandleRequest
      <3> QED BY <1>3, <2>4, <3>1, HandleStep
    <2>5. \/ request' = request
          \/ \E u \in Uris : BeginRequest(u)
          \/ RouteRequest
          \/ HandleRequest
      BY <1>3 DEF Next, vars, RegisterEHS, UnregisterEHS, DestroyEHS, SetSourceEHS
    <2> QED BY <2>1, <2>2, <2>3, <2>4, <2>5
  <1>4. TreeInv /\ RouteInv /\ [Next]_vars => [Shrinks]_vars
    BY <1>3
  <1> QED BY <1>1, <1>2, <1>4, TreeAlways, PTL DEF Spec, RoutingShrinks
=============================================================================
