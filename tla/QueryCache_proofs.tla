-------------------------- MODULE QueryCache_proofs ---------------------------
(***************************************************************************)
(* Theorems about the cached queries, for any bound on the mutations and   *)
(* for whatever screens keep the promises of QueryScreens: the cached data *)
(* suit every screen, marked data are fetched again, and a page shows its  *)
(* own writes.                                                             *)
(***************************************************************************)
EXTENDS QueryScreens, FiniteSetTheorems, TLAPS

USE CacheAssumption

-----------------------------------------------------------------------------
(* Types.  A mutation finds a free id because there are no more of them    *)
(* than writes are allowed: those that wait for the server, and those that *)
(* it has applied, one for each write.                                     *)

Sent == {x \in saves : x.at = 0}

SavesCounted ==
    /\ IsFiniteSet(saves)
    /\ \A x, y \in saves : x.id = y.id \/ (x.at = y.at /\ x.at # 0) => x = y
    /\ \A x \in saves : x.at <= written
    /\ written + Cardinality(Sent) <= MaxWrites

Placed ==
    /\ key \in Keys
    /\ \E u \in Users[key]: u.screen = page /\ u.over = {}
    /\ part # None => \E u \in Users[key]: u.screen = part /\ page \in u.over

CacheTyped ==
    /\ data \in [has: BOOLEAN, at: Versions, shape: Shapes, marked: BOOLEAN,
                 stale: BOOLEAN, failed: BOOLEAN]
    /\ fetch \in [on: BOOLEAN, read: BOOLEAN, at: Versions, shape: Shapes]
    /\ written \in Versions /\ holds \in Shapes
    /\ crossed \subseteq Versions /\ unmarked \subseteq Versions \X STRING
    /\ saves \subseteq Save

TypeInv == Placed /\ CacheTyped /\ SavesCounted

\* Who reads and writes the key is among its users, and well formed.
LEMMA MountedAreUsers ==
    ASSUME Placed
    PROVE  /\ key \in AllKeys /\ Mounted \subseteq Users[key]
           /\ \A u \in Users[key] :
                 /\ u.screen \in STRING /\ u.screen # None
                 /\ \A r \in u.reads : r.fills \in Shapes
                 /\ \A w \in u.writes : w.how \in {"mark", "refetch"} /\ w.reaches \in BOOLEAN
           /\ \A r \in Readers : r.fills \in Shapes
<1>1. key \in AllKeys
  BY DEF Placed, CacheAssumption
<1>2. \A u \in Users[key] :
         /\ u.screen \in STRING /\ u.screen # None
         /\ \A r \in u.reads : r.fills \in Shapes
         /\ \A w \in u.writes : w.how \in {"mark", "refetch"} /\ w.reaches \in BOOLEAN
  BY <1>1, ScreensAreTyped DEF ScreensAreTyped
<1>3. Mounted \subseteq Users[key]
  BY DEF Mounted
<1> QED BY <1>1, <1>2, <1>3 DEF Readers

\* As long as a write is left, an id is free.
LEMMA IdIsFree ==
    ASSUME CacheTyped, SavesCounted, written + Cardinality(Sent) < MaxWrites
    PROVE  \E id \in 1..MaxWrites : \A x \in saves : x.id # id
<1> DEFINE Applied == saves \ Sent
           to == [x \in Applied |-> x.at]
<1>0. written \in Nat /\ MaxWrites \in Nat /\ \A x \in saves : x.at \in Nat
  BY DEF CacheTyped, Versions, Save
<1>1. IsFiniteSet(Sent) /\ IsFiniteSet(Applied) /\ Sent \cap Applied = {} /\ saves = Sent \cup Applied
  BY FS_Subset, Sent \in SUBSET saves, Applied \in SUBSET saves DEF SavesCounted, Sent
<1>2. Cardinality(Applied) <= written
  <2>1. to \in Injection(Applied, 1..written)
    <3>1. \A x \in Applied : x.at \in 1..written
      BY <1>0 DEF SavesCounted, Sent
    <3>2. \A x, y \in Applied : x.at = y.at => x = y
      BY <1>0 DEF SavesCounted, Sent
    <3> QED BY <3>1, <3>2 DEF Injection, IsInjective
  <2>2. IsFiniteSet(1..written) /\ Cardinality(1..written) <= written
    <3>1. Cardinality(1..written) = IF 1 > written THEN 0 ELSE written - 1 + 1
      BY <1>0, 1 \in Int, written \in Int, FS_Interval
    <3> QED BY <3>1, <1>0, FS_Interval
  <2>3. Cardinality(Applied) <= Cardinality(1..written)
    BY <2>1, <2>2, FS_Injection
  <2> QED BY <2>2, <2>3, <1>1, <1>0, FS_CardinalityType
<1>3. Cardinality(saves) <= Cardinality(Sent) + Cardinality(Applied)
  <2> HIDE DEF Applied
  <2>1. Cardinality(saves) = Cardinality(Sent) + Cardinality(Applied) - Cardinality(Sent \cap Applied)
    BY <1>1, FS_Union
  <2>2. Cardinality(Sent \cap Applied) = 0
    BY <1>1, FS_EmptySet
  <2>3. Cardinality(Sent) \in Nat /\ Cardinality(Applied) \in Nat
    BY <1>1, FS_CardinalityType
  <2> QED BY <2>1, <2>2, <2>3
<1>4. Cardinality(saves) < MaxWrites
  BY <1>0, <1>1, <1>2, <1>3, FS_CardinalityType DEF SavesCounted
<1>5. ASSUME \A id \in 1..MaxWrites : \E x \in saves : x.id = id
      PROVE  FALSE
  <2> DEFINE of == [id \in 1..MaxWrites |-> CHOOSE x \in saves : x.id = id]
  <2>1. \A id \in 1..MaxWrites : of[id] \in saves /\ of[id].id = id
    BY <1>5
  <2>2. of \in Injection(1..MaxWrites, saves)
    BY <2>1 DEF Injection, IsInjective
  <2>3. Cardinality(1..MaxWrites) <= Cardinality(saves)
    BY <2>2, FS_Injection DEF SavesCounted
  <2>4. Cardinality(1..MaxWrites) = MaxWrites
    BY <1>0, FS_Interval
  <2> QED BY <2>3, <2>4, <1>4, <1>0, FS_CardinalityType DEF SavesCounted
<1> QED BY <1>5

\* Whoever appears, the cache and the fetch stay well formed.
LEMMA AppearTyped ==
    ASSUME TypeInv, NEW u \in Users[key], NEW enabling, Appear(u.reads, enabling)
    PROVE  /\ data' \in [has: BOOLEAN, at: Versions, shape: Shapes, marked: BOOLEAN,
                         stale: BOOLEAN, failed: BOOLEAN]
           /\ fetch' \in [on: BOOLEAN, read: BOOLEAN, at: Versions, shape: Shapes]
<1> DEFINE wanting == {r \in u.reads : Wanted(r, enabling)}
<1>1. CASE fetch.on \/ wanting = {}
  BY <1>1 DEF Appear, TypeInv, CacheTyped
<1>2. CASE ~(fetch.on \/ wanting = {})
  <2>1. PICK r \in u.reads : fetch' = Start(r)
    BY <1>2 DEF Appear
  <2>2. data' = [data EXCEPT !.failed = FALSE]
    BY <1>2 DEF Appear
  <2>3. r.fills \in Shapes /\ 0 \in Versions
    BY MountedAreUsers DEF TypeInv, Versions, CacheAssumption
  <2> QED BY <2>1, <2>2, <2>3 DEF Start, TypeInv, CacheTyped
<1> QED BY <1>1, <1>2

LEMMA LeaveTyped ==
    ASSUME TypeInv, Leave
    PROVE  holds' \in Shapes
  BY MountedAreUsers DEF Leave, TypeInv, CacheTyped

LEMMA InitTyped == Init => TypeInv
<1> SUFFICES ASSUME Init PROVE TypeInv
  OBVIOUS
<1>1. Placed
  <2>1. key \in AllKeys
    BY DEF Init, CacheAssumption
  <2> QED BY <2>1, ScreensAreTyped DEF Init, Placed, ScreensAreTyped
<1>2. 0 \in Versions /\ MaxWrites \in Nat
  BY DEF Versions, CacheAssumption
<1>3. CacheTyped
  BY <1>2 DEF Init, CacheTyped, NoData, NoFetch, Shapes
<1>4. SavesCounted
  <2>1. Sent = {} /\ saves = {} /\ written = 0
    BY DEF Init, Sent
  <2> QED BY <2>1, <1>2, FS_EmptySet DEF SavesCounted
<1> QED BY <1>1, <1>3, <1>4 DEF TypeInv

LEMMA CountKept ==
    ASSUME SavesCounted, UNCHANGED <<saves, written>>
    PROVE  SavesCounted'
  BY DEF SavesCounted, Sent

LEMMA PlaceKept ==
    ASSUME Placed, UNCHANGED <<key, page, part>>
    PROVE  Placed'
  BY DEF Placed

\* A mutation more, with an id of its own.
LEMMA SubmitTyped ==
    ASSUME TypeInv, NEW u \in Mounted, NEW w \in u.writes, Submit(u, w)
    PROVE  TypeInv'
<1> USE DEF TypeInv
<1> DEFINE free == CHOOSE id \in 1..MaxWrites: \A x \in saves: x.id # id
           new == [id |-> free, from |-> u.screen, at |-> 0, how |-> w.how, reaches |-> w.reaches]
<1>1. /\ written + Cardinality(Sent) < MaxWrites
      /\ saves' = saves \cup {new}
      /\ UNCHANGED <<key, page, part, data, fetch, written, holds, history>>
  BY DEF Submit, Sent
<1>2. free \in 1..MaxWrites /\ \A x \in saves : x.id # free
  BY <1>1, IdIsFree
<1>3. new \in Save
  <2>1. u.screen \in STRING /\ w.how \in {"mark", "refetch"} /\ w.reaches \in BOOLEAN
    BY MountedAreUsers
  <2>2. 0 \in Versions
    BY DEF Versions, CacheAssumption
  <2> QED BY <2>1, <2>2, <1>2 DEF Save
<1> HIDE DEF free
<1>4. CacheTyped'
  BY <1>1, <1>3 DEF CacheTyped, history
<1>5. SavesCounted'
  <2>1. IsFiniteSet(saves')
    BY <1>1, FS_AddElement DEF SavesCounted
  <2>2. \A x, y \in saves' : x.id = y.id \/ (x.at = y.at /\ x.at # 0) => x = y
    BY <1>1, <1>2 DEF SavesCounted
  <2>3. \A x \in saves' : x.at <= written'
    BY <1>1, written \in Nat DEF SavesCounted, CacheTyped, Versions
  <2>4. Sent' = Sent \cup {new} /\ IsFiniteSet(Sent)
    BY <1>1, FS_Subset, Sent \in SUBSET saves DEF Sent, SavesCounted
  <2>5. written' + Cardinality(Sent') <= MaxWrites
    <3> HIDE DEF new
    <3>0. IsFiniteSet(Sent \cup {new}) /\ Cardinality(Sent \cup {new}) \in {Cardinality(Sent), Cardinality(Sent) + 1}
      BY <2>4, FS_AddElement
    <3>1. Cardinality(Sent') <= Cardinality(Sent) + 1 /\ Cardinality(Sent) \in Nat /\ Cardinality(Sent') \in Nat
      BY <3>0, <2>4, FS_CardinalityType
    <3>2. written \in Nat /\ MaxWrites \in Nat
      BY DEF CacheTyped, Versions, CacheAssumption
    <3> QED BY <3>1, <3>2, <1>1
  <2> QED BY <2>1, <2>2, <2>3, <2>5 DEF SavesCounted
<1> QED BY <1>1, <1>4, <1>5, PlaceKept

\* The server applies one write of those that wait.
LEMMA ServerWritesTyped ==
    ASSUME TypeInv, NEW x \in saves, ServerWrites(x)
    PROVE  TypeInv'
<1> USE DEF TypeInv
<1> DEFINE applied == [x EXCEPT !.at = written + 1]
<1>0. /\ written \in Nat /\ MaxWrites \in Nat /\ x \in Save /\ x.at = 0 /\ x \in Sent
      /\ \A y \in saves : y.at \in Nat /\ y \in Save
  BY DEF CacheTyped, Versions, CacheAssumption, ServerWrites, Save, Sent
<1>1. /\ written' = written + 1
      /\ saves' = (saves \ {x}) \cup {applied}
      /\ UNCHANGED <<key, page, part, data, fetch, holds, history>>
  BY DEF ServerWrites
<1>2. Sent' = Sent \ {x} /\ IsFiniteSet(Sent)
  BY <1>0, <1>1, FS_Subset, Sent \in SUBSET saves DEF Sent, SavesCounted, Save
<1>3. /\ Cardinality(Sent') = Cardinality(Sent) - 1 /\ Cardinality(Sent) \in Nat
      /\ Cardinality(Sent') \in Nat
  BY <1>0, <1>2, FS_RemoveElement, FS_CardinalityType
<1>4. written + 1 <= MaxWrites /\ written' + Cardinality(Sent') <= MaxWrites
  BY <1>0, <1>1, <1>3 DEF SavesCounted
<1>5. applied \in Save /\ applied.id = x.id /\ applied.at = written + 1
  BY <1>0, <1>4 DEF Save, Versions
<1>6. CacheTyped'
  BY <1>0, <1>1, <1>4, <1>5 DEF CacheTyped, history, Versions
<1>7. SavesCounted'
  <2>1. IsFiniteSet(saves')
    BY <1>1, FS_AddElement, FS_RemoveElement DEF SavesCounted
  <2> HIDE DEF applied
  <2>2. \A y \in saves' : y = applied \/ (y \in saves /\ y # x /\ y.id # x.id /\ y.at <= written)
    BY <1>1 DEF SavesCounted
  <2>3. \A y, z \in saves' : y.id = z.id \/ (y.at = z.at /\ y.at # 0) => y = z
    BY <1>0, <1>5, <2>2 DEF SavesCounted
  <2>4. \A y \in saves' : y.at <= written'
    BY <1>0, <1>1, <1>5, <2>2
  <2> QED BY <2>1, <2>3, <2>4, <1>4 DEF SavesCounted
<1> QED BY <1>1, <1>6, <1>7, PlaceKept

\* A mutation less.
LEMMA FewerCounted ==
    ASSUME TypeInv, NEW x \in saves, saves' = saves \ {x}, written' = written
    PROVE  SavesCounted'
<1> USE DEF TypeInv
<1>1. IsFiniteSet(Sent) /\ Sent' \in SUBSET Sent
  BY FS_Subset, Sent \in SUBSET saves DEF Sent, SavesCounted
<1>2. /\ Cardinality(Sent') <= Cardinality(Sent) /\ Cardinality(Sent) \in Nat
      /\ Cardinality(Sent') \in Nat
  BY <1>1, FS_Subset, FS_CardinalityType
<1>3. written \in Nat /\ MaxWrites \in Nat
  BY DEF CacheTyped, Versions, CacheAssumption
<1>4. IsFiniteSet(saves')
  BY FS_RemoveElement DEF SavesCounted
<1> QED BY <1>2, <1>3, <1>4 DEF SavesCounted

LEMMA SaveDoneTyped ==
    ASSUME TypeInv, NEW x \in saves, SaveDone(x)
    PROVE  TypeInv'
<1> USE DEF TypeInv
<1>1. /\ saves' = saves \ {x}
      /\ UNCHANGED <<key, page, part, written, holds>>
      /\ x \in Save
  BY DEF SaveDone, CacheTyped
<1>2. CacheTyped'
  <2>1. CASE x.reaches
    <3>1. Invalidate(x)
      BY <2>1 DEF SaveDone
    <3>2. data.marked \/ Marks(x) \in BOOLEAN
      BY DEF CacheTyped, Marks
    <3>3. CASE Restarts(x)
      <4>1. PICK shape \in Fillers : fetch' = [on |-> TRUE, read |-> FALSE, at |-> 0, shape |-> shape]
        BY <3>1, <3>3 DEF Invalidate
      <4>2. shape \in Shapes
        BY MountedAreUsers DEF Fillers, CacheTyped
      <4>3. 0 \in Versions
        BY DEF Versions, CacheAssumption
      <4>4. /\ data' = [data EXCEPT !.failed = FALSE, !.marked = @ \/ Marks(x)]
            /\ UNCHANGED <<crossed, unmarked>>
        BY <3>1, <3>3 DEF Invalidate
      <4> QED BY <4>1, <4>2, <4>3, <4>4, <1>1, <3>2 DEF CacheTyped
    <3>4. CASE ~Restarts(x)
      <4>1. /\ data' = [data EXCEPT !.marked = @ \/ Marks(x)]
            /\ UNCHANGED <<fetch, unmarked>>
            /\ crossed' \subseteq crossed \cup {x.at}
        BY <3>1, <3>4 DEF Invalidate
      <4>2. x.at \in Versions
        BY <1>1 DEF Save
      <4> QED BY <4>1, <4>2, <1>1, <3>2 DEF CacheTyped
    <3> QED BY <3>3, <3>4
  <2>2. CASE ~x.reaches
    <3>1. UNCHANGED <<data, fetch, crossed>> /\ unmarked' = unmarked \cup {<<x.at, x.from>>}
      BY <2>2 DEF SaveDone
    <3> QED BY <3>1, <1>1 DEF CacheTyped, Save
  <2> QED BY <2>1, <2>2
<1> QED BY <1>1, <1>2, FewerCounted, PlaceKept

\* Every step keeps the types, one action at a time.
LEMMA NextTyped == TypeInv /\ [Next]_vars => TypeInv'
<1> SUFFICES ASSUME TypeInv, [Next]_vars PROVE TypeInv'
  OBVIOUS
<1> USE DEF TypeInv
<1>0. 0 \in Versions /\ written \in Versions
  BY DEF Versions, CacheTyped, CacheAssumption
<1>1. ASSUME NEW u \in Users[key], Visit(u) PROVE TypeInv'
  <2>1. CacheTyped'
    BY <1>1, AppearTyped, LeaveTyped DEF Visit, CacheTyped, history
  <2>2. Placed'
    BY <1>1 DEF Visit, Placed
  <2> QED BY <2>1, <2>2, <1>1, CountKept DEF Visit
<1>2. ASSUME NEW u \in Users[key], Open(u) PROVE TypeInv'
  <2>1. CacheTyped'
    BY <1>2, AppearTyped DEF Open, CacheTyped, history
  <2>2. Placed'
    BY <1>2 DEF Open, Placed
  <2> QED BY <2>1, <2>2, <1>2, CountKept DEF Open
<1>3. CASE Close
  <2>1. CacheTyped'
    BY <1>3, LeaveTyped DEF Close, CacheTyped, history
  <2>2. Placed'
    BY <1>3 DEF Close, Placed
  <2> QED BY <2>1, <2>2, <1>3, CountKept DEF Close
<1>4. CASE ServerReads
  BY <1>4, <1>0, PlaceKept, CountKept DEF ServerReads, CacheTyped, history
<1>5. CASE FetchDone
  BY <1>5, <1>0, PlaceKept, CountKept DEF FetchDone, CacheTyped, NoFetch, Shapes, history
<1>6. CASE FetchFails
  <2>1. PICK mark \in BOOLEAN : data' = [data EXCEPT !.failed = TRUE, !.marked = mark]
    BY <1>6 DEF FetchFails, CacheTyped
  <2> QED BY <2>1, <1>6, <1>0, PlaceKept, CountKept DEF FetchFails, CacheTyped, NoFetch, Shapes, history
<1>7. CASE GrowStale
  BY <1>7, PlaceKept, CountKept DEF GrowStale, CacheTyped, history
<1>8. CASE Collect
  BY <1>8, <1>0, PlaceKept, CountKept DEF Collect, CacheTyped, NoData, Shapes, history
<1>9. ASSUME NEW x \in saves, SaveFails(x) PROVE TypeInv'
  BY <1>9, PlaceKept, FewerCounted DEF SaveFails, CacheTyped, history
<1>10. CASE UNCHANGED vars
  BY <1>10, PlaceKept, CountKept DEF vars, CacheTyped, history
<1> QED
  BY <1>1, <1>2, <1>3, <1>4, <1>5, <1>6, <1>7, <1>8, <1>9, <1>10,
     SubmitTyped, ServerWritesTyped, SaveDoneTyped DEF Next

LEMMA TypeInvHolds == Spec => []TypeInv
  BY InitTyped, NextTyped, PTL DEF Spec

\* Whatever the user does and whatever is on its way, the cache, the fetch and
\* the mutations are well formed: the page is one that exists, its modal one it
\* opens, and each mutation has a number of its own.
THEOREM QueryTypeCorrect == Spec => []TypeOK
<1>1. TypeInv => TypeOK
  <2>1. Keys \subseteq DOMAIN Users
    BY ScreensAreTyped DEF ScreensAreTyped, CacheAssumption
  <2> QED BY <2>1 DEF TypeInv, Placed, CacheTyped, TypeOK
<1> QED BY <1>1, TypeInvHolds, PTL

-----------------------------------------------------------------------------
(* Who is on screen after the user has moved.                              *)

LEMMA Visited ==
    ASSUME TypeInv, NEW u \in Users[key], Visit(u)
    PROVE  Mounted' = {u} /\ Readers' = u.reads /\ key' = key
<1>1. /\ page' = u.screen /\ part' = None /\ key' = key
  BY DEF Visit
<1>2. \A v \in Users[key] : v.screen # None /\ (v.screen = u.screen => v = u)
  BY MountedAreUsers, ScreensAreDistinct DEF TypeInv, ScreensAreDistinct
<1>3. Mounted' = {u}
  BY <1>1, <1>2 DEF Mounted
<1> QED BY <1>1, <1>3 DEF Readers

LEMMA Opened ==
    ASSUME TypeInv, NEW u \in Users[key], Open(u)
    PROVE  Mounted' = Mounted \cup {u} /\ Readers' = Readers \cup u.reads /\ key' = key
<1>1. /\ part = None /\ part' = u.screen /\ page' = page /\ key' = key
  BY DEF Open
<1>2. \A v \in Users[key] : v.screen # None /\ (v.screen = u.screen => v = u)
  BY MountedAreUsers, ScreensAreDistinct DEF TypeInv, ScreensAreDistinct
<1>3. Mounted' = Mounted \cup {u}
  BY <1>1, <1>2 DEF Mounted
<1> QED BY <1>1, <1>3 DEF Readers

LEMMA Closed ==
    ASSUME TypeInv, Close
    PROVE  Mounted' \subseteq Mounted /\ Readers' \subseteq Readers /\ key' = key
<1>1. part' = None /\ page' = page /\ key' = key
  BY DEF Close
<1>2. \A v \in Users[key] : v.screen # None
  BY MountedAreUsers DEF TypeInv
<1>3. Mounted' \subseteq Mounted
  BY <1>1, <1>2 DEF Mounted
<1> QED BY <1>1, <1>3 DEF Readers

LEMMA Stayed ==
    ASSUME UNCHANGED <<key, page, part>>
    PROVE  Mounted' = Mounted /\ Readers' = Readers /\ Active' = Active
  BY DEF Mounted, Readers, Active

\* A step is a move of the user, or leaves everybody where they are.
MoveOnScreen == (\E u \in Users[key] : Visit(u) \/ Open(u)) \/ Close

LEMMA OthersStay ==
    ASSUME [Next]_vars, ~MoveOnScreen
    PROVE  UNCHANGED <<key, page, part>>
  BY DEF Next, vars, MoveOnScreen, ServerReads, FetchDone, FetchFails, GrowStale, Collect,
         Submit, ServerWrites, SaveFails, SaveDone

LEMMA KeyStays == [Next]_vars => key' = key
  BY OthersStay DEF MoveOnScreen, Visit, Open, Close

-----------------------------------------------------------------------------
(* Marked data are fetched again.                                          *)

\* Whoever wants the data when they appear starts a fetch or joins one.
LEMMA AppearFetches ==
    ASSUME TypeInv, NEW u \in Users[key], NEW enabling \in BOOLEAN, Appear(u.reads, enabling),
           ~fetch'.on
    PROVE  /\ UNCHANGED <<data, fetch>>
           /\ data.marked => \A r \in u.reads : r.mount = "never" /\ ~enabling
<1> DEFINE wanting == {r \in u.reads : Wanted(r, enabling)}
<1>1. ~fetch.on /\ wanting = {} /\ UNCHANGED <<data, fetch>>
  <2>1. CASE fetch.on \/ wanting = {}
    BY <2>1 DEF Appear
  <2>2. CASE ~(fetch.on \/ wanting = {})
    BY <2>2 DEF Appear, Start
  <2> QED BY <2>1, <2>2
<1>2. ASSUME data.marked, NEW r \in u.reads PROVE r.mount = "never" /\ ~enabling
  BY <1>1, <1>2 DEF Wanted
<1> QED BY <1>1, <1>2

LEMMA StepFetchesMarked ==
    ASSUME TypeInv, MarkedAreFetched, [Next]_vars
    PROVE  MarkedAreFetched'
<1> SUFFICES ASSUME Active', data'.marked, ~fetch'.on, ~data'.failed
             PROVE  \A r \in Readers' : r.mount = "never"
  BY DEF MarkedAreFetched
<1>1. ASSUME NEW u \in Users[key], Visit(u) PROVE \A r \in Readers' : r.mount = "never"
  <2>1. Appear(u.reads, FALSE)
    BY <1>1 DEF Visit
  <2>2. UNCHANGED <<data, fetch>> /\ (data.marked => \A r \in u.reads : r.mount = "never")
    BY <2>1, AppearFetches
  <2> QED BY <2>2, <1>1, Visited
<1>2. ASSUME NEW u \in Users[key], Open(u) PROVE \A r \in Readers' : r.mount = "never"
  <2>1. Appear(u.reads, TRUE)
    BY <1>2 DEF Open
  <2>2. UNCHANGED <<data, fetch>> /\ (data.marked => u.reads = {})
    BY <2>1, AppearFetches
  <2>3. Readers' = Readers
    BY <2>2, <1>2, Opened
  <2> QED BY <2>2, <2>3 DEF MarkedAreFetched, Active
<1>3. CASE Close
  <2>1. UNCHANGED <<data, fetch>>
    BY <1>3 DEF Close
  <2> QED BY <2>1, <1>3, Closed DEF MarkedAreFetched, Active
<1>4. CASE ~MoveOnScreen
  <2>0. Readers' = Readers /\ Active
    BY <1>4, OthersStay, Stayed
  <2>1. CASE ServerReads
    BY <2>1 DEF ServerReads, TypeInv, CacheTyped
  <2>2. CASE FetchDone
    BY <2>2 DEF FetchDone
  <2>3. CASE FetchFails
    BY <2>3 DEF FetchFails, TypeInv, CacheTyped
  <2>4. CASE GrowStale
    BY <2>4, <2>0 DEF GrowStale, MarkedAreFetched, TypeInv, CacheTyped
  <2>5. CASE Collect
    BY <2>5, <2>0 DEF Collect
  <2>6. ASSUME NEW x \in saves, SaveDone(x) PROVE \A r \in Readers' : r.mount = "never"
    <3>1. CASE x.reaches /\ Restarts(x)
      BY <3>1, <2>6 DEF SaveDone, Invalidate
    <3>2. CASE x.reaches /\ ~Restarts(x)
      BY <3>2, <2>6, <2>0 DEF SaveDone, Invalidate, Restarts
    <3>3. CASE ~x.reaches
      BY <3>3, <2>6, <2>0 DEF SaveDone, MarkedAreFetched
    <3> QED BY <3>1, <3>2, <3>3
  <2>7. CASE UNCHANGED <<data, fetch>>
    BY <2>7, <2>0 DEF MarkedAreFetched
  <2> QED BY <1>4, <2>1, <2>2, <2>3, <2>4, <2>5, <2>6, <2>7
          DEF Next, vars, MoveOnScreen, Submit, ServerWrites, SaveFails
<1> QED BY <1>1, <1>2, <1>3, <1>4 DEF MoveOnScreen

\* Marked data that somebody looks at are on their way again, unless the last
\* fetch failed or the page asked never to refetch: whatever page marks them,
\* however often the user leaves and returns meanwhile.
THEOREM MarkedAreFetchedHolds == Spec => []MarkedAreFetched
<1>1. Init => MarkedAreFetched
  BY DEF Init, MarkedAreFetched, NoData
<1> QED BY <1>1, StepFetchesMarked, TypeInvHolds, PTL DEF Spec

-----------------------------------------------------------------------------
(* The cached data suit every screen.                                      *)

\* The shapes in which somebody stores the data of this key.
Stored == {r.fills : r \in UNION {u.reads : u \in Users[key]}}

\* A query that nobody has read has neither data nor a fetch: what refetches
\* it without a reader finds the queryFn of the last one.
ShapesStored ==
    /\ data.has => data.shape \in Stored
    /\ fetch.on => fetch.shape \in Stored
    /\ holds \in Stored \cup {"none"}
    /\ holds = "none" /\ ~Active => data = NoData /\ ~fetch.on

LEMMA ReadersStore ==
    ASSUME Placed
    PROVE  /\ \A u \in Users[key] : \A r \in u.reads : r.fills \in Stored
           /\ \A r \in Readers : r.fills \in Stored
           /\ "none" \notin Stored
<1>1. \A u \in Users[key] : \A r \in u.reads : r.fills \in Stored
  BY DEF Stored
<1>2. \A r \in Readers : r.fills \in Stored
  BY <1>1, MountedAreUsers DEF Readers
<1>3. "none" \notin Stored
  <2>1. \A u \in Users[key] : \A r \in u.reads : r.fills # "none"
    BY ScreensAreTyped DEF ScreensAreTyped, Placed, CacheAssumption
  <2> QED BY <2>1 DEF Stored
<1> QED BY <1>1, <1>2, <1>3

\* A fetch that starts when somebody appears stores what they store, and
\* somebody is on screen as long as a fetch starts.
LEMMA AppearStores ==
    ASSUME TypeInv, ShapesStored, NEW u \in Users[key], NEW enabling, Appear(u.reads, enabling)
    PROVE  /\ data'.has => data'.shape \in Stored
           /\ fetch'.on => fetch'.shape \in Stored
           /\ u.reads = {} => UNCHANGED <<data, fetch>>
<1> DEFINE wanting == {r \in u.reads : Wanted(r, enabling)}
<1>1. CASE fetch.on \/ wanting = {}
  BY <1>1 DEF Appear, ShapesStored
<1>2. CASE ~(fetch.on \/ wanting = {})
  <2>1. PICK r \in u.reads : fetch' = Start(r)
    BY <1>2 DEF Appear
  <2>2. data' = [data EXCEPT !.failed = FALSE]
    BY <1>2 DEF Appear
  <2>3. data'.has = data.has /\ data'.shape = data.shape
    BY <2>2 DEF TypeInv, CacheTyped
  <2> QED BY <2>1, <2>3, <1>2, ReadersStore DEF Start, TypeInv, ShapesStored
<1> QED BY <1>1, <1>2

\* The last reader leaves its queryFn behind.
LEMMA LeaveStores ==
    ASSUME TypeInv, ShapesStored, Leave
    PROVE  /\ holds' \in Stored \cup {"none"}
           /\ holds' = "none" => ~Active /\ data = NoData /\ ~fetch.on
<1>1. CASE Active
  <2>1. PICK r \in Readers : holds' = r.fills
    BY <1>1 DEF Leave
  <2> QED BY <2>1, ReadersStore DEF TypeInv
<1>2. CASE ~Active
  BY <1>2 DEF Leave, ShapesStored
<1> QED BY <1>1, <1>2

LEMMA StepStores ==
    ASSUME TypeInv, ShapesStored, [Next]_vars
    PROVE  ShapesStored'
<1>0. Stored' = Stored
  BY KeyStays DEF Stored
<1>1. ASSUME NEW u \in Users[key], Visit(u) PROVE ShapesStored'
  <2>1. Appear(u.reads, FALSE) /\ Leave
    BY <1>1 DEF Visit
  <2>2. Active' <=> u.reads # {}
    BY <1>1, Visited DEF Active
  <2> QED BY <2>1, <2>2, <1>0, AppearStores, LeaveStores DEF ShapesStored
<1>2. ASSUME NEW u \in Users[key], Open(u) PROVE ShapesStored'
  <2>1. Appear(u.reads, TRUE) /\ holds' = holds
    BY <1>2 DEF Open
  <2>2. Active' <=> Active \/ u.reads # {}
    BY <1>2, Opened DEF Active
  <2> QED BY <2>1, <2>2, <1>0, AppearStores DEF ShapesStored
<1>3. CASE Close
  <2>1. Leave /\ UNCHANGED <<data, fetch>>
    BY <1>3 DEF Close
  <2> QED BY <2>1, <1>0, LeaveStores DEF ShapesStored
<1>4. CASE ~MoveOnScreen
  <2>0. Active' = Active
    BY <1>4, OthersStay, Stayed
  <2>1. CASE ServerReads
    BY <2>1, <2>0, <1>0 DEF ServerReads, TypeInv, CacheTyped, ShapesStored
  <2>2. CASE FetchDone
    BY <2>2, <2>0, <1>0 DEF FetchDone, ShapesStored, NoFetch
  <2>3. CASE FetchFails
    BY <2>3, <2>0, <1>0 DEF FetchFails, TypeInv, CacheTyped, ShapesStored, NoFetch
  <2>4. CASE GrowStale
    <3>1. data.has /\ data # NoData
      BY <2>4 DEF GrowStale, NoData
    <3> QED BY <3>1, <2>4, <2>0, <1>0 DEF GrowStale, TypeInv, CacheTyped, ShapesStored
  <2>5. CASE Collect
    BY <2>5, <2>0, <1>0 DEF Collect, ShapesStored, NoData
  <2>6. ASSUME NEW x \in saves, SaveDone(x) PROVE ShapesStored'
    <3>0. holds' = holds
      BY <2>6 DEF SaveDone
    <3>1. CASE x.reaches /\ Restarts(x)
      <4>1. PICK shape \in Fillers : fetch' = [on |-> TRUE, read |-> FALSE, at |-> 0, shape |-> shape]
        BY <3>1, <2>6 DEF SaveDone, Invalidate
      <4>2. data' = [data EXCEPT !.failed = FALSE, !.marked = @ \/ Marks(x)]
        BY <3>1, <2>6 DEF SaveDone, Invalidate
      <4>3. data'.has = data.has /\ data'.shape = data.shape
        BY <4>2 DEF TypeInv, CacheTyped
      <4>4. ~Active => holds \in Stored
        BY <3>1 DEF Restarts, ShapesStored
      <4>5. shape \in Stored
        BY <4>4, ReadersStore DEF Fillers, TypeInv
      <4>6. holds = "none" => Active
        BY <3>1 DEF Restarts, ShapesStored
      <4> QED BY <4>1, <4>3, <4>5, <4>6, <3>0, <2>0, <1>0 DEF ShapesStored
    <3>2. CASE x.reaches /\ ~Restarts(x)
      <4>1. data' = [data EXCEPT !.marked = @ \/ Marks(x)] /\ fetch' = fetch
        BY <3>2, <2>6 DEF SaveDone, Invalidate
      <4>2. data'.has = data.has /\ data'.shape = data.shape
        BY <4>1 DEF TypeInv, CacheTyped
      <4>3. data = NoData => data' = NoData
        <5>1. data = NoData => Marks(x) = FALSE
          BY DEF NoData, Marks
        <5>2. data = NoData => (data.marked \/ Marks(x)) = FALSE
          BY <5>1 DEF NoData
        <5>3. data' = [data EXCEPT !.marked = (data.marked \/ Marks(x))]
          BY <4>1
        <5>4. [NoData EXCEPT !.marked = FALSE] = NoData
          <6>1. NoData \in [has: BOOLEAN, at: {0}, shape: {"none"}, marked: BOOLEAN,
                            stale: BOOLEAN, failed: BOOLEAN] /\ NoData.marked = FALSE
            BY DEF NoData
          <6> QED BY <6>1
        <5> QED BY <5>2, <5>3, <5>4
      <4> QED BY <4>1, <4>2, <4>3, <3>0, <2>0, <1>0 DEF ShapesStored
    <3>3. CASE ~x.reaches
      BY <3>3, <2>6, <3>0, <2>0, <1>0 DEF SaveDone, ShapesStored
    <3> QED BY <3>1, <3>2, <3>3
  <2>7. CASE UNCHANGED <<data, fetch, holds>>
    BY <2>7, <2>0, <1>0 DEF ShapesStored
  <2> QED BY <1>4, <2>1, <2>2, <2>3, <2>4, <2>5, <2>6, <2>7
          DEF Next, vars, MoveOnScreen, Submit, ServerWrites, SaveFails
<1> QED BY <1>1, <1>2, <1>3, <1>4 DEF MoveOnScreen

\* Whichever screen filled the cache, and even when a mutation refetched for
\* readers that are gone, what is on screen can show the data: it takes no more
\* than that any two screens of a key agree, the exceptions listed apart.
THEOREM CachedDataShowHolds == Spec => []CachedDataShow
<1>1. Init => ShapesStored
  BY DEF Init, ShapesStored, NoData, NoFetch
<1>2. TypeInv /\ ShapesStored => CachedDataShow
  <2> SUFFICES ASSUME TypeInv, ShapesStored, NEW u \in Mounted, NEW r \in u.reads, data.has
               PROVE  data.shape \in r.shows \/ <<u.screen, key>> \in Unreadable
    BY DEF CachedDataShow
  <2>1. PICK v \in Users[key] : \E s \in v.reads : data.shape = s.fills
    BY DEF ShapesStored, Stored
  <2>2. u \in Users[key] /\ key \in AllKeys
    BY MountedAreUsers DEF TypeInv
  <2> QED BY <2>1, <2>2, ScreensShareShapes DEF ScreensShareShapes
<1> QED BY <1>1, <1>2, StepStores, TypeInvHolds, PTL DEF Spec

-----------------------------------------------------------------------------
(* A page shows its own writes.                                            *)

\* Write v is not lost to the cache: its onSuccess is to come or does not reach
\* the key; or it met a fetch it leaves alone; or no fetch has read before it,
\* and the data have it, or will have.
Followed(v) ==
    \/ \E x \in saves : x.at = v
    \/ \E x \in unmarked : x[1] = v
    \/ v \in crossed
    \/ /\ fetch.on /\ fetch.read => fetch.at >= v
       /\ ~data.has \/ data.at >= v \/ data.marked \/ data.failed \/ fetch.on

\* The write of screen s is one that need not reach the key.
Excused(s) == HostReads(key, s) => <<s, key>> \in Unreached

WritesFollowed ==
    /\ \A v \in 1..written : Followed(v)
    /\ \A x \in saves : x.reaches \/ Excused(x.from)
    /\ \A x \in unmarked : Excused(x[2])

\* What happens to the data and the fetch alone.
LEMMA StillFollowed ==
    ASSUME TypeInv, [Next]_vars, NEW v \in 1..written, Followed(v),
           UNCHANGED <<saves, unmarked, crossed>>
    PROVE  Followed(v)'
<1>1. SUFFICES ASSUME fetch.on /\ fetch.read => fetch.at >= v,
                      ~data.has \/ data.at >= v \/ data.marked \/ data.failed \/ fetch.on
               PROVE  /\ fetch'.on /\ fetch'.read => fetch'.at >= v
                      /\ ~data'.has \/ data'.at >= v \/ data'.marked \/ data'.failed \/ fetch'.on
  BY DEF Followed
<1>2. ASSUME NEW u \in Users[key], Visit(u) \/ Open(u)
      PROVE  UNCHANGED <<data, fetch>> \/ (fetch'.on /\ ~fetch'.read)
  <2>1. PICK enabling \in BOOLEAN : Appear(u.reads, enabling)
    BY <1>2 DEF Visit, Open
  <2>2. UNCHANGED <<data, fetch>> \/ \E r \in u.reads : fetch' = Start(r)
    BY <2>1 DEF Appear
  <2> QED BY <2>2 DEF Start
<1>3. CASE Close
  BY <1>1, <1>3 DEF Close
<1>4. CASE ServerReads
  <2>1. fetch.on /\ fetch'.on /\ fetch'.at = written /\ written >= v
    BY <1>4 DEF ServerReads, TypeInv, CacheTyped, Versions
  <2> QED BY <2>1
<1>5. CASE FetchDone
  BY <1>1, <1>5 DEF FetchDone, NoFetch
<1>6. CASE FetchFails
  BY <1>6 DEF FetchFails, NoFetch, TypeInv, CacheTyped
<1>7. CASE GrowStale
  BY <1>1, <1>7 DEF GrowStale, TypeInv, CacheTyped
<1>8. CASE Collect
  BY <1>8 DEF Collect, NoData
<1>9. CASE UNCHANGED <<data, fetch>>
  BY <1>1, <1>9
<1>10. ASSUME NEW x \in saves, SaveDone(x) PROVE FALSE
  BY <1>10 DEF SaveDone
<1> QED
  BY <1>1, <1>2, <1>3, <1>4, <1>5, <1>6, <1>7, <1>8, <1>9, <1>10
     DEF Next, vars, Submit, ServerWrites, SaveFails

\* The mutations under way change, and the cache does not.
LEMMA FollowedThen ==
    ASSUME NEW v, Followed(v), UNCHANGED <<data, fetch, unmarked, crossed>>,
           \A x \in saves : x.at = v => \E y \in saves' : y.at = v
    PROVE  Followed(v)'
  BY DEF Followed

\* onSuccess: the query is restarted, or marked, or its own fetch is left alone.
LEMMA DoneFollowed ==
    ASSUME TypeInv, WritesFollowed, NEW x \in saves, SaveDone(x)
    PROVE  WritesFollowed'
<1>1. /\ saves' = saves \ {x} /\ x \in Save /\ x.at # 0
      /\ UNCHANGED <<key, written>>
      /\ \A y \in saves : y.at # 0 /\ y.at = x.at => y = x
  BY DEF SaveDone, TypeInv, CacheTyped, SavesCounted
<1>2. \A s : Excused(s)' <=> Excused(s)
  BY <1>1 DEF Excused, HostReads
<1>3. CASE ~x.reaches
  <2>1. UNCHANGED <<data, fetch, crossed>> /\ unmarked' = unmarked \cup {<<x.at, x.from>>}
    BY <1>3 DEF SaveDone
  <2>2. ASSUME NEW v \in 1..written PROVE Followed(v)'
    <3>1. CASE v = x.at
      <4>1. <<x.at, x.from>> \in unmarked' /\ <<x.at, x.from>>[1] = v
        BY <3>1, <2>1
      <4> QED BY <4>1 DEF Followed
    <3>2. CASE v # x.at
      <4>1. Followed(v)
        BY DEF WritesFollowed
      <4>2. \A y \in saves : y.at = v => y \in saves'
        BY <3>2, <1>1
      <4> QED BY <4>1, <4>2, <2>1 DEF Followed
    <3> QED BY <3>1, <3>2
  <2>3. Excused(x.from)
    BY <1>3 DEF WritesFollowed
  <2> QED BY <1>1, <1>2, <2>1, <2>2, <2>3 DEF WritesFollowed
<1>4. CASE x.reaches
  <2>1. Invalidate(x) /\ unmarked' = unmarked
    BY <1>4 DEF SaveDone, Invalidate
  <2>2. CASE Restarts(x)
    <3>1. fetch'.on /\ ~fetch'.read
      BY <2>1, <2>2 DEF Invalidate
    <3>2. \A v \in 1..written : Followed(v)'
      BY <3>1 DEF Followed
    <3> QED BY <3>2, <1>1, <1>2, <2>1 DEF WritesFollowed
  <2>3. CASE ~Restarts(x)
    <3>1. /\ fetch' = fetch
          /\ data' = [data EXCEPT !.marked = @ \/ Marks(x)]
          /\ crossed' = IF fetch.on /\ fetch.read /\ fetch.at < x.at
                        THEN crossed \cup {x.at} ELSE crossed
      BY <2>1, <2>3 DEF Invalidate
    <3>2. /\ data'.has = data.has /\ data'.at = data.at /\ data'.failed = data.failed
          /\ data'.marked <=> data.marked \/ Marks(x)
      BY <3>1 DEF TypeInv, CacheTyped, Marks
    <3>3. ASSUME NEW v \in 1..written PROVE Followed(v)'
      <4>1. CASE v # x.at
        <5>1. Followed(v)
          BY DEF WritesFollowed
        <5>2. \A y \in saves : y.at = v => y \in saves'
          BY <4>1, <1>1
        <5> QED BY <5>1, <5>2, <3>1, <3>2, <2>1 DEF Followed
      <4>2. CASE v = x.at
        <5>1. CASE fetch.on /\ fetch.read /\ fetch.at < x.at
          BY <5>1, <4>2, <3>1 DEF Followed
        <5>2. CASE ~(fetch.on /\ fetch.read /\ fetch.at < x.at)
          <6>1. fetch'.on /\ fetch'.read => fetch'.at >= v
            BY <5>2, <4>2, <3>1 DEF TypeInv, CacheTyped, Versions
          <6>2. ~data'.has \/ data'.marked \/ fetch'.on
            BY <2>3, <3>1, <3>2, <1>1 DEF Restarts, Marks, Save, NoData
          <6> QED BY <6>1, <6>2 DEF Followed
        <5> QED BY <5>1, <5>2
      <4> QED BY <4>1, <4>2
    <3> QED BY <3>3, <1>1, <1>2, <2>1 DEF WritesFollowed
  <2> QED BY <2>2, <2>3
<1> QED BY <1>3, <1>4

LEMMA StepFollowed ==
    ASSUME TypeInv, WritesFollowed, [Next]_vars
    PROVE  WritesFollowed'
<1>1. \A s : Excused(s)' <=> Excused(s)
  BY KeyStays DEF Excused, HostReads
<1>2. CASE UNCHANGED <<written, saves, unmarked, crossed>>
  BY <1>1, <1>2, StillFollowed DEF WritesFollowed
<1>3. ASSUME NEW u \in Mounted, NEW w \in u.writes, Submit(u, w) PROVE WritesFollowed'
  <2>1. PICK id : saves' = saves \cup {[id |-> id, from |-> u.screen, at |-> 0,
                                        how |-> w.how, reaches |-> w.reaches]}
    BY <1>3 DEF Submit
  <2>2. UNCHANGED <<data, fetch, written, unmarked, crossed>>
    BY <1>3 DEF Submit, history
  <2>3. w.reaches \/ Excused(u.screen)
    BY MountedAreUsers, WritesReachOwnPage DEF WritesReachOwnPage, Excused, TypeInv
  <2>4. \A v \in 1..written : Followed(v)'
    BY <2>1, <2>2, FollowedThen DEF WritesFollowed
  <2> QED BY <2>1, <2>2, <2>3, <2>4, <1>1 DEF WritesFollowed
<1>4. ASSUME NEW x \in saves, ServerWrites(x) PROVE WritesFollowed'
  <2> DEFINE applied == [x EXCEPT !.at = written + 1]
  <2>1. /\ x \in Save /\ x.at = 0 /\ written \in Nat /\ written' = written + 1
        /\ saves' = (saves \ {x}) \cup {applied}
        /\ UNCHANGED <<data, fetch, unmarked, crossed>>
    BY <1>4 DEF ServerWrites, TypeInv, CacheTyped, Versions, history
  <2>2. applied.at = written + 1 /\ applied.from = x.from /\ applied.reaches = x.reaches
    BY <2>1 DEF Save
  <2> HIDE DEF applied
  <2>3. ASSUME NEW v \in 1..written' PROVE Followed(v)'
    <3>1. CASE v \in 1..written
      BY <3>1, <2>1, FollowedThen DEF WritesFollowed
    <3>2. CASE v = written + 1
      BY <3>2, <2>1, <2>2 DEF Followed
    <3> QED BY <3>1, <3>2, <2>1
  <2> QED BY <2>1, <2>2, <2>3, <1>1 DEF WritesFollowed
<1>5. ASSUME NEW x \in saves, SaveFails(x) PROVE WritesFollowed'
  <2>1. /\ x.at = 0 /\ saves' = saves \ {x} /\ written \in Nat
        /\ UNCHANGED <<data, fetch, written, unmarked, crossed>>
    BY <1>5 DEF SaveFails, TypeInv, CacheTyped, Versions, history
  <2>2. \A v \in 1..written : Followed(v)'
    BY <2>1, FollowedThen DEF WritesFollowed
  <2> QED BY <2>1, <2>2, <1>1 DEF WritesFollowed
<1> QED
  BY <1>2, <1>3, <1>4, <1>5, DoneFollowed
     DEF Next, vars, Visit, Open, Close, ServerReads, FetchDone, FetchFails, GrowStale, Collect, history

\* A write of the user is in the data, marks them or is on its way into them,
\* whatever fetches it overtakes or is overtaken by and however many mutations
\* are under way: unless its onSuccess does not reach the key, which happens
\* only where no page shows what its screens write, or where Unreached says so.
THEOREM OwnWritesShowHolds == Spec => []OwnWritesShow
<1>1. Init => WritesFollowed
  BY DEF Init, WritesFollowed
<1>2. TypeInv /\ WritesFollowed => OwnWritesShow
  <2> SUFFICES ASSUME TypeInv, WritesFollowed, NEW v \in 1..written, ~Shown(v)
               PROVE  \E x \in unmarked :
                         x[1] = v /\ (HostReads(key, x[2]) => <<x[2], key>> \in Unreached)
    BY DEF OwnWritesShow
  <2>1. Followed(v)
    BY DEF WritesFollowed
  <2>2. PICK x \in unmarked : x[1] = v
    BY <2>1 DEF Followed, Shown
  <2>3. Excused(x[2])
    BY DEF WritesFollowed
  <2> QED BY <2>2, <2>3 DEF Excused
<1> QED BY <1>1, <1>2, StepFollowed, TypeInvHolds, PTL DEF Spec
=============================================================================
