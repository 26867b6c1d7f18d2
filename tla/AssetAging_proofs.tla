-------------------------- MODULE AssetAging_proofs --------------------------
(***************************************************************************)
(* Proofs about ageing assets, for any number of assets, requests, months  *)
(* and any page size: types, the movement log, deadlines and deletions.    *)
(***************************************************************************)
EXTENDS AssetAging, FiniteSetTheorems, TLAPS

-----------------------------------------------------------------------------
(* A page of the clean-up holds assets that were to be deleted.            *)

\* The number of smaller elements of T tells its elements apart.
LEMMA RanksDiffer ==
    ASSUME NEW T \in SUBSET Assets, NEW a \in T, NEW b \in T, a # b
    PROVE  /\ Cardinality({c \in T : c < a}) \in 0..(Cardinality(T) - 1)
           /\ Cardinality({c \in T : c < a}) # Cardinality({c \in T : c < b})
<1> DEFINE below(x) == {c \in T : c < x}
<1>0. T \subseteq Nat /\ IsFiniteSet(T)
  BY AssetsAreIds, FS_Subset
<1>1. \A x \in T : IsFiniteSet(below(x)) /\ Cardinality(below(x)) \in Nat
  BY <1>0, FS_Subset, FS_CardinalityType
<1>2. ASSUME NEW x \in T, NEW y \in T, x < y
      PROVE  Cardinality(below(x)) < Cardinality(below(y))
  <2>1. below(x) \in SUBSET below(y) /\ below(x) # below(y)
    <3>1. \A c \in below(x) : c < y
      BY <1>0, <1>2
    <3>2. x \in below(y) /\ x \notin below(x)
      BY <1>0, <1>2
    <3> QED BY <3>1, <3>2
  <2> HIDE DEF below
  <2> QED BY <2>1, <1>1, FS_Subset
<1>3. Cardinality(below(a)) < Cardinality(T)
  <2>1. below(a) \in SUBSET T /\ below(a) # T
    BY <1>0
  <2> HIDE DEF below
  <2> QED BY <2>1, <1>0, <1>1, FS_Subset, FS_CardinalityType
<1>4. a < b \/ b < a
  BY <1>0
<1> QED
  <2> HIDE DEF below
  <2>1. Cardinality(below(a)) # Cardinality(below(b))
    BY <1>1, <1>2, <1>4
  <2>2. Cardinality(below(a)) \in 0..(Cardinality(T) - 1)
    BY <1>0, <1>1, <1>3, FS_CardinalityType
  <2> QED BY <2>1, <2>2 DEF below

\* Every rank below the cardinality occurs: ranks are as many as elements.
LEMMA RankOccurs ==
    ASSUME NEW T \in SUBSET Assets, NEW n \in 1..Cardinality(T)
    PROVE  \E a \in T : Cardinality({c \in T : c < a}) = n - 1
<1> DEFINE rank == [a \in T |-> Cardinality({c \in T : c < a})]
<1>1. IsFiniteSet(T) /\ Cardinality(T) \in Nat
  BY AssetsAreIds, FS_Subset, FS_CardinalityType
<1> DEFINE R == 0..(Cardinality(T) - 1)
<1>2. IsFiniteSet(R) /\ Cardinality(R) = Cardinality(T)
  <2>1. ASSUME NEW m \in Int PROVE IsFiniteSet(0..m) /\ (m >= 0 => Cardinality(0..m) = m + 1)
    BY FS_Interval
  <2>2. Cardinality(T) - 1 \in Int /\ Cardinality(T) - 1 >= 0
    BY <1>1
  <2> QED BY <1>1, <2>1, <2>2
<1>3. \A a \in T : rank[a] \in R
  <2> SUFFICES ASSUME NEW a \in T PROVE Cardinality({c \in T : c < a}) \in R
    OBVIOUS
  <2>1. CASE T = {a}
    <3>1. {c \in T : c < a} = {}
      BY <2>1, AssetsAreIds
    <3>2. Cardinality(T) = 1
      BY <2>1, FS_Singleton
    <3> QED BY <3>1, <3>2, FS_EmptySet
  <2>2. CASE T # {a}
    <3>1. PICK b \in T : b # a
      BY <2>2
    <3> QED BY <3>1, RanksDiffer
  <2> QED BY <2>1, <2>2
<1>4. \A a, b \in T : a # b => rank[a] # rank[b]
  BY RanksDiffer
<1>5. rank \in Injection(T, R)
  <2> HIDE DEF R
  <2>1. rank \in [T -> R]
    BY <1>3
  <2> QED BY <2>1, <1>4 DEF Injection, IsInjective
<1>6. rank \in Surjection(T, R)
  <2> HIDE DEF R, rank
  <2> QED BY <1>2, <1>5, FS_Injection
<1>7. n - 1 \in R
  BY <1>1
<1>8. PICK a \in T : rank[a] = n - 1
  <2> HIDE DEF R, rank
  <2> QED BY <1>6, <1>7 DEF Surjection
<1> QED BY <1>8

LEMMA PageElements ==
    ASSUME NEW S \in SUBSET Assets, NEW p \in Nat
    PROVE  Page(S, p) \in Seq(S)
<1> DEFINE rank(a) == Cardinality({b \in S : b < a})
           T == {a \in S : rank(a) \div ChunkSize = p - 1}
           at(i) == CHOOSE a \in T : Cardinality({b \in T : b < a}) = i - 1
<1>1. T \in SUBSET Assets
  OBVIOUS
<1>2. Page(S, p) = [i \in 1..Cardinality(T) |-> at(i)]
  BY DEF Page
<1> HIDE DEF T
<1>3. Cardinality(T) \in Nat
  BY <1>1, AssetsAreIds, FS_Subset, FS_CardinalityType
<1>4. \A i \in 1..Cardinality(T) : at(i) \in T
  BY <1>1, RankOccurs
<1>5. T \subseteq S
  BY DEF T
<1> HIDE DEF at
<1> QED BY <1>2, <1>3, <1>4, <1>5

-----------------------------------------------------------------------------
(* Types.                                                                  *)

LEMMA Constants ==
    /\ NULL \notin Statuses /\ NULL \notin Assets /\ NULL \notin Nat
    /\ "New" \in Statuses /\ "Functional" \in Statuses /\ "Defective" \in Statuses
    /\ MaxNow \in Nat
BY AssetsAreIds, StatusNames, NullIsNoName, Bounds

\* Row and model records are not NULL once they are records with a status.
LEMMA DeadlineType ==
    ASSUME now \in 0..MaxNow, NEW s
    PROVE  Deadline(s) \in Nat \cup {NULL} /\ (Deadline(s) # NULL <=> s = "Defective")
BY Constants DEF Deadline

LEMMA UpdatedType ==
    ASSUME now \in 0..MaxNow, NEW stored \in Row, NEW read, NEW s \in Statuses
    PROVE  Updated(stored, read, s) \in Row
BY DeadlineType DEF Updated, Row

\* What a request holds: one disjunct for those at work, one for the others.
RequestTyped(r) ==
    IF pc[r] \in {"idle", "done"}
    THEN asset[r] = NULL /\ copy[r] = NULL /\ target[r] = NULL
    ELSE /\ asset[r] \in Assets /\ copy[r] \in Model
         /\ target[r] \in Statuses \/ (target[r] = NULL /\ pc[r] \in {"age", "age_save"})

Labels == {"idle", "age", "age_save", "save", "log", "transaction", "done"}

\* The variables of a request are functions on the requests.
TypeInv ==
    /\ TypeOK
    /\ asset \in [Requests -> Assets \cup {NULL}]
    /\ copy \in [Requests -> Model \cup {NULL}]
    /\ target \in [Requests -> Statuses \cup {NULL}]

LEMMA EndTypes ==
    ASSUME TypeInv, NEW r \in Requests, End(r)
    PROVE  /\ pc' \in [Requests -> Labels]
           /\ asset' \in [Requests -> Assets \cup {NULL}]
           /\ copy' \in [Requests -> Model \cup {NULL}]
           /\ target' \in [Requests -> Statuses \cup {NULL}]
           /\ \A q \in Requests : RequestTyped(q)'
BY DEF TypeInv, TypeOK, End, RequestTyped, Labels

LEMMA GotoTypes ==
    ASSUME TypeInv, NEW r \in Requests, NEW label \in Labels \ {"idle", "done"}, Goto(r, label),
           ~At(r, "idle"), ~At(r, "done"),
           target[r] # NULL \/ label \in {"age", "age_save"}
    PROVE  /\ pc' \in [Requests -> Labels]
           /\ asset' \in [Requests -> Assets \cup {NULL}]
           /\ copy' \in [Requests -> Model \cup {NULL}]
           /\ target' \in [Requests -> Statuses \cup {NULL}]
           /\ \A q \in Requests : RequestTyped(q)'
BY DEF TypeInv, TypeOK, Goto, At, RequestTyped, Labels

\* Ageing keeps a row a row and a model a model.
LEMMA AgedType ==
    /\ \A m \in Row : [m EXCEPT !.status = "Functional"] \in Row
    /\ \A m \in Model : [m EXCEPT !.status = "Functional"] \in Model
BY Constants DEF Row, Model

LEMMA TypeStep == TypeInv /\ [Next]_vars => TypeInv'
<1> SUFFICES ASSUME TypeInv, [Next]_vars PROVE TypeInv'
  OBVIOUS
<1> USE DEF TypeInv
<1>1. ASSUME NEW r \in Requests, NEW a \in Assets, NEW s \in Statuses \cup {NULL},
             NEW transaction \in BOOLEAN, Retrieve(r, a, s, transaction)
      PROVE  TypeInv'
  <2>1. row[a] \in Row /\ row[a] # NULL
    BY <1>1 DEF TypeOK, Retrieve, Visible
  <2>2. copy'[r] \in Model
    BY <1>1, <2>1, ShouldAge(a) \in BOOLEAN DEF Retrieve, TypeOK, Row, Model, ShouldAge
  <2>3. copy' = [copy EXCEPT ![r] = copy'[r]]
    BY <1>1 DEF Retrieve
  <2>4. /\ copy' \in [Requests -> Model \cup {NULL}]
        /\ asset' \in [Requests -> Assets \cup {NULL}]
        /\ target' \in [Requests -> Statuses \cup {NULL}]
        /\ pc' \in [Requests -> Labels]
    BY <1>1, <2>2, <2>3 DEF Retrieve, TypeOK, Labels
  <2>5. \A q \in Requests : RequestTyped(q)'
    <3> SUFFICES ASSUME NEW q \in Requests PROVE RequestTyped(q)'
      OBVIOUS
    <3>1. CASE q = r
      <4>1. pc'[q] \in {"age", "save", "transaction"} /\ (s = NULL => pc'[q] = "age")
        BY <1>1, <3>1 DEF Retrieve, TypeOK
      <4>2. asset'[q] = a /\ target'[q] = s
        BY <1>1, <3>1 DEF Retrieve
      <4> QED BY <2>2, <3>1, <4>1, <4>2 DEF RequestTyped
    <3>2. CASE q # r
      BY <1>1, <3>2 DEF Retrieve, TypeOK, RequestTyped
    <3> QED BY <3>1, <3>2
  <2>6. overlapped' \in [Assets -> BOOLEAN]
    BY <1>1 DEF Retrieve, TypeOK
  <2> QED BY <1>1, <2>4, <2>5, <2>6 DEF Retrieve, TypeOK, table, RequestTyped, Labels
<1>2. ASSUME NEW r \in Requests, LogAge(r) PROVE TypeInv'
  <2>1. asset[r] \in Assets
    BY <1>2 DEF LogAge, At, TypeOK
  <2>2. logged' \in [Assets -> SUBSET Statuses]
        /\ \A a \in Assets : row'[a] = NULL => logged'[a] = {}
    BY <1>2, <2>1, Constants DEF LogAge, TypeOK, AgeMovement
  <2>3. CASE End(r)
    BY <1>2, <2>2, <2>3, EndTypes DEF LogAge, TypeOK, RequestTyped, Labels
  <2>4. CASE Goto(r, "age_save")
    <3>1. ~At(r, "idle") /\ ~At(r, "done")
      BY <1>2 DEF LogAge, At
    <3> QED BY <1>2, <2>2, <2>4, <3>1, GotoTypes DEF LogAge, TypeOK, RequestTyped, Labels
  <2>5. CASE target[r] # NULL /\ Goto(r, "save")
    <3>1. ~At(r, "idle") /\ ~At(r, "done")
      BY <1>2 DEF LogAge, At
    <3> QED BY <1>2, <2>2, <2>5, <3>1, GotoTypes DEF LogAge, TypeOK, RequestTyped, Labels
  <2> QED BY <1>2, <2>3, <2>4, <2>5 DEF LogAge
<1>3. ASSUME NEW r \in Requests, SaveAge(r) PROVE TypeInv'
  <2>1. asset[r] \in Assets /\ copy[r] \in Model
    BY <1>3 DEF SaveAge, At, TypeOK
  <2>2. row' \in [Assets -> Row \cup {NULL}]
        /\ \A a \in Assets : row'[a] = NULL => logged'[a] = {}
    <3>1. row[asset[r]] # NULL => row[asset[r]] \in Row
      BY <2>1 DEF TypeOK
    <3> QED BY <1>3, <2>1, <3>1, AgedType, NullIsNoRow DEF SaveAge, TypeOK
  <2>3. CASE End(r)
    BY <1>3, <2>2, <2>3, EndTypes DEF SaveAge, TypeOK, RequestTyped, Labels
  <2>4. CASE AfterAge(r) # "done" /\ ~End(r)
    <3>1. target[r] # NULL /\ AfterAge(r) = "save"
      BY <2>4 DEF AfterAge
    <3>2. /\ pc' = [pc EXCEPT ![r] = "save"]
          /\ copy' = [copy EXCEPT ![r].status = "Functional"]
          /\ UNCHANGED <<asset, target>>
      BY <1>3, <2>4, <3>1 DEF SaveAge
    <3>3. copy' \in [Requests -> Model \cup {NULL}] /\ copy'[r] \in Model
      BY <2>1, <3>2, AgedType
    <3>4. \A q \in Requests : RequestTyped(q)'
      BY <2>1, <3>1, <3>2, <3>3 DEF TypeOK, RequestTyped
    <3> QED BY <1>3, <2>2, <3>2, <3>3, <3>4 DEF SaveAge, TypeOK, RequestTyped
  <2> QED BY <1>3, <2>3, <2>4 DEF SaveAge
<1>4. ASSUME NEW r \in Requests, Save(r) PROVE TypeInv'
  <2>1. asset[r] \in Assets /\ copy[r] \in Model /\ target[r] \in Statuses
    BY <1>4 DEF Save, At, TypeOK
  <2>2. row' \in [Assets -> Row \cup {NULL}]
        /\ \A a \in Assets : row'[a] = NULL => logged'[a] = {}
    <3>1. row[asset[r]] # NULL => Updated(row[asset[r]], copy[r], target[r]) \in Row
      BY <2>1, UpdatedType DEF TypeOK
    <3> QED BY <1>4, <2>1, <3>1, NullIsNoRow DEF Save, TypeOK
  <2>3. CASE End(r)
    BY <1>4, <2>2, <2>3, EndTypes DEF Save, TypeOK, RequestTyped, Labels
  <2>4. CASE Goto(r, "log")
    <3>1. ~At(r, "idle") /\ ~At(r, "done") /\ target[r] # NULL
      BY <1>4, <2>1, Constants DEF Save, At
    <3> QED BY <1>4, <2>2, <2>4, <3>1, GotoTypes DEF Save, TypeOK, RequestTyped, Labels
  <2> QED BY <1>4, <2>3, <2>4 DEF Save
<1>5. ASSUME NEW r \in Requests, LogStatus(r) PROVE TypeInv'
  <2>1. asset[r] \in Assets /\ target[r] \in Statuses
    BY <1>5 DEF LogStatus, At, TypeOK
  <2>2. logged' \in [Assets -> SUBSET Statuses]
        /\ \A a \in Assets : row'[a] = NULL => logged'[a] = {}
    BY <1>5, <2>1 DEF LogStatus, TypeOK
  <2> QED BY <1>5, <2>2, EndTypes DEF LogStatus, TypeOK, RequestTyped, Labels
<1>6. ASSUME NEW r \in Requests, CommitStatus(r) PROVE TypeInv'
  <2>1. asset[r] \in Assets /\ copy[r] \in Model /\ target[r] \in Statuses
    BY <1>6 DEF CommitStatus, At, TypeOK
  <2>2. /\ row' \in [Assets -> Row \cup {NULL}]
        /\ logged' \in [Assets -> SUBSET Statuses]
        /\ \A a \in Assets : row'[a] = NULL => logged'[a] = {}
    <3>1. CASE row[asset[r]] = NULL
      BY <1>6, <3>1 DEF CommitStatus, TypeOK, table
    <3>2. CASE row[asset[r]] # NULL
      <4> DEFINE a     == asset[r]
                 model == IF copy[r].auto THEN [copy[r] EXCEPT !.status = "Functional"] ELSE copy[r]
                 dirty == target[r] # model.status
                 aged  == IF copy[r].auto THEN [row[a] EXCEPT !.status = "Functional"] ELSE row[a]
                 new   == IF dirty THEN Updated(aged, model, target[r]) ELSE aged
                 added == (IF copy[r].auto THEN AgeMovement(a) ELSE {})
                          \cup (IF dirty THEN {target[r]} ELSE {})
      <4>1. row' = [row EXCEPT ![a] = new]
            /\ logged' = [logged EXCEPT ![a] = @ \cup added]
        BY <1>6, <3>2 DEF CommitStatus
      <4>2. aged \in Row
        BY <2>1, <3>2, AgedType DEF TypeOK
      <4>3. new \in Row
        <5> HIDE DEF aged, model
        <5> QED BY <2>1, <4>2, UpdatedType DEF TypeOK
      <4>4. added \in SUBSET Statuses
        BY <2>1, Constants DEF AgeMovement
      <4> HIDE DEF new, added
      <4> QED BY <2>1, <4>1, <4>3, <4>4, NullIsNoRow DEF TypeOK
    <3> QED BY <3>1, <3>2
  <2> QED BY <1>6, <2>2, EndTypes DEF CommitStatus, TypeOK, RequestTyped, Labels
<1>7. ASSUME FetchPage PROVE TypeInv'
  <2> DEFINE found == Page(ToDelete, page)
             aged  == {a \in Assets : (\E i \in DOMAIN found : found[i] = a) /\ ShouldAge(a)}
  <2>1. found \in Seq(ToDelete)
    BY PageElements DEF TypeOK, ToDelete
  <2>2. found \in Seq(Assets) /\ Len(found) \in Nat
    BY <2>1 DEF ToDelete
  <2>3. \A a \in aged : row[a] # NULL /\ row[a] \in Row
    BY <2>1 DEF TypeOK, ToDelete
  <2>4. /\ todo' = found
        /\ page' \in Nat \ {0}
        /\ row' = [a \in Assets |->
                      IF a \in aged THEN [row[a] EXCEPT !.status = "Functional"] ELSE row[a]]
        /\ logged' = [a \in Assets |->
                      logged[a] \cup (IF a \in aged THEN AgeMovement(a) ELSE {})]
        /\ UNCHANGED <<now, due, request, overlapped>>
    <3>1. page \in Nat \ {0}
      BY DEF TypeOK
    <3> QED BY <1>7, <3>1 DEF FetchPage
  <2> HIDE DEF found, aged
  <2>5. row' \in [Assets -> Row \cup {NULL}]
        /\ \A a \in Assets : row'[a] = NULL => logged'[a] = {}
    BY <2>3, <2>4, AgedType, NullIsNoRow DEF TypeOK
  <2>6. logged' \in [Assets -> SUBSET Statuses]
    BY <2>4, Constants DEF TypeOK, AgeMovement
  <2> QED BY <2>2, <2>4, <2>5, <2>6 DEF TypeOK, request
<1>8. ASSUME DeleteFetched PROVE TypeInv'
  <2>1. Head(todo) \in Assets /\ Tail(todo) \in Seq(Assets)
    BY <1>8 DEF DeleteFetched, TypeOK
  <2> QED BY <1>8, <2>1 DEF DeleteFetched, TypeOK, request
<1>9. ASSUME Tick PROVE TypeInv'
  <2>1. now' \in 0..MaxNow
    BY <1>9, Constants DEF Tick, TypeOK
  <2> QED BY <1>9, <2>1 DEF Tick, TypeOK, table, request
<1>10. CASE UNCHANGED vars
  BY <1>10 DEF vars, TypeOK, table, request
<1> QED
  BY <1>1, <1>2, <1>3, <1>4, <1>5, <1>6, <1>7, <1>8, <1>9, <1>10 DEF Next, Step, CleanUp

LEMMA TypesInitially == Init => TypeInv
<1> SUFFICES ASSUME Init PROVE TypeInv
  OBVIOUS
<1>1. \A a \in Assets : row[a] \in Row
  BY Constants DEF Init, Row
<1>2. row \in [Assets -> Row \cup {NULL}] /\ logged \in [Assets -> SUBSET Statuses]
      /\ \A a \in Assets : row[a] # NULL
  BY <1>1, NullIsNoRow DEF Init, Row
<1> QED BY <1>2, Constants DEF Init, TypeInv, TypeOK

\* Rows, models, movements and the clean-up's page keep their types, whatever the
\* requests overlap: nothing is saved without a status, and nothing refers to a
\* deleted asset's movements.
THEOREM AgingTypeCorrect == Spec => []TypeOK
<1>1. Init => TypeInv
  BY TypesInitially
<1>2. TypeInv /\ [Next]_vars => TypeInv'
  BY TypeStep
<1>3. TypeInv => TypeOK
  BY DEF TypeInv
<1> QED BY <1>1, <1>2, <1>3, PTL DEF Spec

-----------------------------------------------------------------------------
(* The movement log.  Between its two writes an ageing has already logged  *)
(* the status it is about to save.                                         *)

AgeingIsLogged ==
    \A r \in Requests :
        At(r, "age_save") /\ row[asset[r]] # NULL => "Functional" \in logged[asset[r]]

LogInv == TypeInv /\ AgeingIsLogged /\ StatusIsLogged

\* What the fetch of a page does to an asset: at most an ageing with its movement.
LEMMA FetchEffect ==
    ASSUME TypeInv, FetchPage, NEW a \in Assets
    PROVE  /\ \/ row'[a] = row[a] /\ logged'[a] = logged[a]
              \/ /\ row[a] # NULL /\ Expired(a) /\ row[a].status = "New"
                 /\ row'[a] = [row[a] EXCEPT !.status = "Functional"]
                 /\ logged'[a] = logged[a] \cup {"Functional"}
           /\ UNCHANGED request
<1> DEFINE found == Page(ToDelete, page)
           aged  == {b \in Assets : (\E i \in DOMAIN found : found[i] = b) /\ ShouldAge(b)}
<1>1. found \in Seq(ToDelete)
  BY PageElements DEF TypeInv, TypeOK, ToDelete
<1>2. a \in aged => row[a] # NULL /\ Expired(a) /\ row[a].status = "New"
  BY <1>1 DEF ToDelete, ShouldAge
<1>3. /\ row'[a] = IF a \in aged THEN [row[a] EXCEPT !.status = "Functional"] ELSE row[a]
      /\ logged'[a] = logged[a] \cup (IF a \in aged THEN {"Functional"} ELSE {})
      /\ UNCHANGED request
  BY DEF FetchPage, AgeMovement
<1> HIDE DEF found, aged
<1> QED BY <1>2, <1>3

\* What the other steps do to an asset's row and movements.
LEMMA StatusAfterCommit ==
    ASSUME TypeInv, NEW r \in Requests, CommitStatus(r), row[asset[r]] # NULL
    PROVE  LET a == asset[r] IN
           /\ logged[a] \subseteq logged'[a]
           /\ row'[a] # NULL
           /\ row'[a].status \in logged'[a] \/ row'[a].status = row[a].status
           /\ logged' = [logged EXCEPT ![a] = logged'[a]]
           /\ row' = [row EXCEPT ![a] = row'[a]]
<1> DEFINE a     == asset[r]
           model == IF copy[r].auto THEN [copy[r] EXCEPT !.status = "Functional"] ELSE copy[r]
           dirty == target[r] # model.status
           aged  == IF copy[r].auto THEN [row[a] EXCEPT !.status = "Functional"] ELSE row[a]
           new   == IF dirty THEN Updated(aged, model, target[r]) ELSE aged
           added == (IF copy[r].auto THEN {"Functional"} ELSE {})
                    \cup (IF dirty THEN {target[r]} ELSE {})
<1>1. row' = [row EXCEPT ![a] = new] /\ logged' = [logged EXCEPT ![a] = @ \cup added]
  BY DEF CommitStatus, AgeMovement
<1>2. a \in Assets /\ row[a] \in Row /\ target[r] \in Statuses
  BY DEF CommitStatus, At, TypeInv, TypeOK
<1>3. aged \in Row /\ (copy[r].auto => aged.status = "Functional")
      /\ (~copy[r].auto => aged = row[a])
  BY <1>2, AgedType DEF Row
<1>4. new \in Row /\ (dirty => new.status = target[r]) /\ (~dirty => new = aged)
  <2> HIDE DEF aged, model
  <2> QED BY <1>2, <1>3, UpdatedType DEF TypeInv, TypeOK, Updated
<1>5. new.status \in added \/ new.status = row[a].status
  <2>1. CASE dirty
    BY <1>4, <2>1
  <2>2. CASE ~dirty /\ copy[r].auto
    BY <1>3, <1>4, <2>2
  <2>3. CASE ~dirty /\ ~copy[r].auto
    BY <1>3, <1>4, <2>3
  <2> QED BY <2>1, <2>2, <2>3
<1> HIDE DEF new, added
<1>6. row'[a] = new /\ logged'[a] = logged[a] \cup added
  BY <1>1, <1>2 DEF TypeInv, TypeOK
<1> QED BY <1>1, <1>4, <1>5, <1>6, NullIsNoRow

LEMMA LogStep == LogInv /\ [Next]_vars => LogInv'
<1> SUFFICES ASSUME LogInv, [Next]_vars PROVE AgeingIsLogged' /\ StatusIsLogged'
  BY TypeStep DEF LogInv
<1> USE DEF LogInv
<1>1. ASSUME NEW r \in Requests, NEW a \in Assets, NEW s \in Statuses \cup {NULL},
             NEW transaction \in BOOLEAN, Retrieve(r, a, s, transaction)
      PROVE  AgeingIsLogged' /\ StatusIsLogged'
  <2>1. pc'[r] \notin {"age_save", "log"} /\ pc[r] # "log"
    BY <1>1 DEF Retrieve, At, TypeInv, TypeOK
  <2>2. \A q \in Requests \ {r} : pc'[q] = pc[q] /\ asset'[q] = asset[q] /\ target'[q] = target[q]
    BY <1>1 DEF Retrieve, TypeInv, TypeOK
  <2>3. row' = row /\ logged' = logged
    BY <1>1 DEF Retrieve, table
  <2>4. AgeingIsLogged'
    BY <2>1, <2>2, <2>3 DEF AgeingIsLogged, At
  <2>5. StatusIsLogged'
    BY <2>1, <2>2, <2>3 DEF StatusIsLogged, AboutToLog, At
  <2> QED BY <2>4, <2>5
<1>2. ASSUME NEW r \in Requests, LogAge(r) PROVE AgeingIsLogged' /\ StatusIsLogged'
  <2>1. asset[r] \in Assets /\ row' = row /\ pc[r] = "age"
    BY <1>2 DEF LogAge, At, TypeInv, TypeOK
  <2>2. \A a \in Assets : logged[a] \subseteq logged'[a]
    BY <1>2, <2>1 DEF LogAge, TypeInv, TypeOK
  <2>3. \A q \in Requests \ {r} : pc'[q] = pc[q] /\ asset'[q] = asset[q] /\ target'[q] = target[q]
    BY <1>2 DEF LogAge, End, Goto, TypeInv, TypeOK
  <2>4. pc'[r] # "log"
    BY <1>2 DEF LogAge, End, Goto, TypeInv, TypeOK
  <2>5. pc'[r] = "age_save" => asset'[r] = asset[r] /\ "Functional" \in logged'[asset[r]]
    BY <1>2, <2>1 DEF LogAge, End, Goto, AgeMovement, TypeInv, TypeOK
  <2>6. AgeingIsLogged'
    <3> SUFFICES ASSUME NEW q \in Requests, At(q, "age_save")', row'[asset'[q]] # NULL
                 PROVE  "Functional" \in logged'[asset'[q]]
      BY DEF AgeingIsLogged
    <3>1. CASE q = r
      BY <2>5, <3>1 DEF At
    <3>2. CASE q # r
      <4>1. At(q, "age_save") /\ asset[q] \in Assets
        BY <2>3, <3>2 DEF At, TypeInv, TypeOK
      <4> QED BY <2>1, <2>2, <2>3, <3>2, <4>1 DEF AgeingIsLogged
    <3> QED BY <3>1, <3>2
  <2>7. StatusIsLogged'
    BY <2>1, <2>2, <2>3, <2>4 DEF StatusIsLogged, AboutToLog, At
  <2> QED BY <2>6, <2>7
<1>3. ASSUME NEW r \in Requests, SaveAge(r) PROVE AgeingIsLogged' /\ StatusIsLogged'
  <2>1. asset[r] \in Assets /\ logged' = logged /\ pc[r] = "age_save"
    BY <1>3 DEF SaveAge, At, TypeInv, TypeOK
  <2>2. \A q \in Requests \ {r} : pc'[q] = pc[q] /\ asset'[q] = asset[q] /\ target'[q] = target[q]
    BY <1>3 DEF SaveAge, End, TypeInv, TypeOK
  <2>3. pc'[r] \in {"save", "done"}
    BY <1>3 DEF SaveAge, AfterAge, End, TypeInv, TypeOK
  <2>4. \A a \in Assets : /\ row'[a] = NULL <=> row[a] = NULL
                          /\ row[a] # NULL => \/ row'[a].status = row[a].status
                                              \/ a = asset[r] /\ row'[a].status = "Functional"
    BY <1>3, <2>1, NullIsNoRow, AgedType DEF SaveAge, TypeInv, TypeOK, Row
  <2>5. AgeingIsLogged'
    <3> SUFFICES ASSUME NEW q \in Requests, At(q, "age_save")', row'[asset'[q]] # NULL
                 PROVE  "Functional" \in logged'[asset'[q]]
      BY DEF AgeingIsLogged
    <3>1. q # r
      BY <2>3 DEF At
    <3>2. At(q, "age_save") /\ asset[q] \in Assets /\ asset'[q] = asset[q]
      BY <2>2, <3>1 DEF At, TypeInv, TypeOK
    <3> QED BY <2>1, <2>4, <3>2 DEF AgeingIsLogged
  <2>6. StatusIsLogged'
    <3> SUFFICES ASSUME NEW a \in Assets, row'[a] # NULL
                 PROVE  row'[a].status \in logged'[a] \/ AboutToLog(a, row[a].status)'
      BY DEF StatusIsLogged
    <3>1. CASE row'[a].status = row[a].status
      BY <2>1, <2>2, <2>4, <3>1 DEF StatusIsLogged, AboutToLog, At
    <3>2. CASE a = asset[r] /\ row'[a].status = "Functional"
      BY <2>1, <2>4, <3>2 DEF AgeingIsLogged, At
    <3> QED BY <2>4, <3>1, <3>2
  <2> QED BY <2>5, <2>6
<1>4. ASSUME NEW r \in Requests, Save(r) PROVE AgeingIsLogged' /\ StatusIsLogged'
  <2>1. asset[r] \in Assets /\ target[r] \in Statuses /\ logged' = logged /\ pc[r] = "save"
    BY <1>4 DEF Save, At, TypeInv, TypeOK
  <2>2. \A q \in Requests \ {r} : pc'[q] = pc[q] /\ asset'[q] = asset[q] /\ target'[q] = target[q]
    BY <1>4 DEF Save, End, Goto, TypeInv, TypeOK
  <2>3. pc'[r] \in {"log", "done"}
    BY <1>4 DEF Save, End, Goto, TypeInv, TypeOK
  <2>4. \A a \in Assets :
           /\ row'[a] = NULL <=> row[a] = NULL
           /\ row[a] # NULL =>
                 \/ row'[a] = row[a]
                 \/ /\ a = asset[r] /\ row'[a].status = target[r]
                    /\ pc'[r] = "log" /\ asset'[r] = asset[r] /\ target'[r] = target[r]
    <3>1. CASE row' = row
      BY <3>1
    <3>2. CASE row' # row
      <4>1. row[asset[r]] # NULL /\ row[asset[r]] \in Row
            /\ row' = [row EXCEPT ![asset[r]] = Updated(row[asset[r]], copy[r], target[r])]
            /\ Goto(r, "log")
        BY <1>4, <2>1, <3>2 DEF Save, TypeInv, TypeOK
      <4>2. Updated(row[asset[r]], copy[r], target[r]) \in Row
            /\ Updated(row[asset[r]], copy[r], target[r]).status = target[r]
        BY <2>1, <4>1, UpdatedType DEF TypeInv, TypeOK, Updated
      <4>3. pc'[r] = "log" /\ asset' = asset /\ target' = target
        BY <4>1 DEF Goto, TypeInv, TypeOK
      <4> QED BY <2>1, <4>1, <4>2, <4>3, NullIsNoRow DEF TypeInv, TypeOK
    <3> QED BY <3>1, <3>2
  <2>5. AgeingIsLogged'
    <3> SUFFICES ASSUME NEW q \in Requests, At(q, "age_save")', row'[asset'[q]] # NULL
                 PROVE  "Functional" \in logged'[asset'[q]]
      BY DEF AgeingIsLogged
    <3>1. At(q, "age_save") /\ asset[q] \in Assets /\ asset'[q] = asset[q]
      BY <2>2, <2>3 DEF At, TypeInv, TypeOK
    <3> QED BY <2>1, <2>4, <3>1 DEF AgeingIsLogged
  <2>6. StatusIsLogged'
    BY <2>1, <2>2, <2>4 DEF StatusIsLogged, AboutToLog, At
  <2> QED BY <2>5, <2>6
<1>5. ASSUME NEW r \in Requests, LogStatus(r) PROVE AgeingIsLogged' /\ StatusIsLogged'
  <2>1. asset[r] \in Assets /\ row' = row /\ pc[r] = "log" /\ pc'[r] = "done"
    BY <1>5 DEF LogStatus, End, At, TypeInv, TypeOK
  <2>2. \A q \in Requests \ {r} : pc'[q] = pc[q] /\ asset'[q] = asset[q] /\ target'[q] = target[q]
    BY <1>5 DEF LogStatus, End, TypeInv, TypeOK
  <2>3. \A a \in Assets : /\ logged[a] \subseteq logged'[a]
                          /\ a = asset[r] /\ row[a] # NULL => target[r] \in logged'[a]
    BY <1>5, <2>1 DEF LogStatus, TypeInv, TypeOK
  <2>4. AgeingIsLogged'
    <3> SUFFICES ASSUME NEW q \in Requests, At(q, "age_save")', row'[asset'[q]] # NULL
                 PROVE  "Functional" \in logged'[asset'[q]]
      BY DEF AgeingIsLogged
    <3>1. At(q, "age_save") /\ asset[q] \in Assets /\ asset'[q] = asset[q]
      BY <2>1, <2>2 DEF At, TypeInv, TypeOK
    <3> QED BY <2>1, <2>3, <3>1 DEF AgeingIsLogged
  <2>5. StatusIsLogged'
    <3> SUFFICES ASSUME NEW a \in Assets, row[a] # NULL
                 PROVE  row[a].status \in logged'[a] \/ AboutToLog(a, row[a].status)'
      BY <2>1 DEF StatusIsLogged
    <3>1. CASE row[a].status \in logged[a]
      BY <2>3, <3>1
    <3>2. ASSUME NEW q \in Requests, At(q, "log"), asset[q] = a, target[q] = row[a].status
          PROVE  row[a].status \in logged'[a] \/ AboutToLog(a, row[a].status)'
      <4>1. CASE q = r
        BY <2>3, <3>2, <4>1
      <4>2. CASE q # r
        BY <2>1, <2>2, <3>2, <4>2 DEF AboutToLog, At
      <4> QED BY <4>1, <4>2
    <3> QED BY <3>1, <3>2 DEF StatusIsLogged, AboutToLog
  <2> QED BY <2>4, <2>5
<1>6. ASSUME NEW r \in Requests, CommitStatus(r) PROVE AgeingIsLogged' /\ StatusIsLogged'
  <2>1. asset[r] \in Assets /\ pc[r] = "transaction" /\ pc'[r] = "done"
    BY <1>6 DEF CommitStatus, End, At, TypeInv, TypeOK
  <2>2. \A q \in Requests \ {r} : pc'[q] = pc[q] /\ asset'[q] = asset[q] /\ target'[q] = target[q]
    BY <1>6 DEF CommitStatus, End, TypeInv, TypeOK
  <2>3. \A a \in Assets :
           /\ row'[a] = NULL <=> row[a] = NULL
           /\ logged[a] \subseteq logged'[a]
           /\ row[a] # NULL => row'[a].status \in logged'[a] \/ row'[a].status = row[a].status
    <3>1. CASE row[asset[r]] = NULL
      BY <1>6, <3>1 DEF CommitStatus, table
    <3>2. CASE row[asset[r]] # NULL
      BY <1>6, <2>1, <3>2, StatusAfterCommit DEF TypeInv, TypeOK
    <3> QED BY <3>1, <3>2
  <2>4. AgeingIsLogged'
    <3> SUFFICES ASSUME NEW q \in Requests, At(q, "age_save")', row'[asset'[q]] # NULL
                 PROVE  "Functional" \in logged'[asset'[q]]
      BY DEF AgeingIsLogged
    <3>1. At(q, "age_save") /\ asset[q] \in Assets /\ asset'[q] = asset[q]
      BY <2>1, <2>2 DEF At, TypeInv, TypeOK
    <3> QED BY <2>3, <3>1 DEF AgeingIsLogged
  <2>5. StatusIsLogged'
    BY <2>1, <2>2, <2>3 DEF StatusIsLogged, AboutToLog, At
  <2> QED BY <2>4, <2>5
<1>7. ASSUME FetchPage PROVE AgeingIsLogged' /\ StatusIsLogged'
  <2>1. UNCHANGED request
    BY <1>7 DEF FetchPage
  <2>2. \A a \in Assets :
           /\ row'[a] = NULL <=> row[a] = NULL
           /\ logged[a] \subseteq logged'[a]
           /\ row[a] # NULL => row'[a].status \in logged'[a] \/ row'[a].status = row[a].status
    <3> SUFFICES ASSUME NEW a \in Assets
                 PROVE  /\ row'[a] = NULL <=> row[a] = NULL
                        /\ logged[a] \subseteq logged'[a]
                        /\ row[a] # NULL => \/ row'[a].status \in logged'[a]
                                            \/ row'[a].status = row[a].status
      OBVIOUS
    <3>1. CASE row'[a] = row[a] /\ logged'[a] = logged[a]
      BY <3>1
    <3>2. CASE /\ row[a] # NULL
               /\ row'[a] = [row[a] EXCEPT !.status = "Functional"]
               /\ logged'[a] = logged[a] \cup {"Functional"}
      <4>1. row[a] \in Row
        BY <3>2 DEF TypeInv, TypeOK
      <4>2. row'[a] \in Row /\ row'[a].status = "Functional"
        BY <3>2, <4>1, AgedType DEF Row
      <4> QED BY <3>2, <4>2, NullIsNoRow
    <3> QED BY <1>7, <3>1, <3>2, FetchEffect
  <2>3. AgeingIsLogged'
    <3> SUFFICES ASSUME NEW q \in Requests, At(q, "age_save"), row'[asset[q]] # NULL
                 PROVE  "Functional" \in logged'[asset[q]]
      BY <2>1 DEF AgeingIsLogged, At, request
    <3>1. asset[q] \in Assets
      BY DEF At, TypeInv, TypeOK
    <3> QED BY <2>2, <3>1 DEF AgeingIsLogged
  <2>4. StatusIsLogged'
    BY <2>1, <2>2 DEF StatusIsLogged, AboutToLog, At, request
  <2> QED BY <2>3, <2>4
<1>8. ASSUME DeleteFetched PROVE AgeingIsLogged' /\ StatusIsLogged'
  <2>1. \A a \in Assets : row'[a] = NULL \/ (row'[a] = row[a] /\ logged'[a] = logged[a])
    BY <1>8 DEF DeleteFetched, TypeInv, TypeOK
  <2>2. \A r \in Requests : At(r, "age_save") => asset[r] \in Assets
    BY DEF At, TypeInv, TypeOK
  <2>3. UNCHANGED request
    BY <1>8 DEF DeleteFetched
  <2> QED BY <2>1, <2>2, <2>3 DEF AgeingIsLogged, StatusIsLogged, AboutToLog, At, request
<1>9. CASE Tick \/ UNCHANGED vars
  <2>1. UNCHANGED <<row, logged, pc, asset, target>>
    BY <1>9 DEF Tick, table, request, vars
  <2> QED BY <2>1 DEF AgeingIsLogged, StatusIsLogged, AboutToLog, At
<1> QED
  BY <1>1, <1>2, <1>3, <1>4, <1>5, <1>6, <1>7, <1>8, <1>9 DEF Next, Step, CleanUp

\* The movement log explains the status of every asset, however the statements of
\* the requests and of the clean-up interleave.
THEOREM StatusIsLoggedHolds == Spec => []StatusIsLogged
<1>1. Init => LogInv
  BY TypesInitially DEF Init, LogInv, AgeingIsLogged, StatusIsLogged, At
<1>2. LogInv /\ [Next]_vars => LogInv'
  BY LogStep
<1>3. LogInv => StatusIsLogged
  BY DEF LogInv
<1> QED BY <1>1, <1>2, <1>3, PTL DEF Spec

-----------------------------------------------------------------------------
(* Deadlines.  Of an asset that no two requests were at work on at once,   *)
(* the one at work has read what the row still holds.                      *)

AloneOnAsset ==
    \A q, r \in Requests :
        asset[q] \in Assets /\ asset[q] = asset[r] /\ ~overlapped[asset[q]] => q = r

CopyIsFresh ==
    \A r \in Requests :
        (/\ asset[r] \in Assets /\ ~overlapped[asset[r]] /\ row[asset[r]] # NULL
         /\ ~At(r, "log"))
        => /\ copy[r].status = row[asset[r]].status
           /\ copy[r].delete_after_at = row[asset[r]].delete_after_at

\* What is to be aged was New when it was read.
ToBeAgedIsNew ==
    \A r \in Requests :
        /\ At(r, "age") \/ At(r, "age_save") => copy[r].status = "New"
        /\ At(r, "transaction") /\ copy[r].auto => copy[r].status = "New"

DeadlineInv ==
    TypeInv /\ AloneOnAsset /\ CopyIsFresh /\ ToBeAgedIsNew /\ DeadlineOnlyWhileDefective

\* A request that goes on, or ends, while the row of its asset stays.
LEMMA OthersStay ==
    ASSUME TypeInv, NEW r \in Requests,
           \/ LogAge(r) \/ SaveAge(r) \/ Save(r) \/ LogStatus(r) \/ CommitStatus(r)
    PROVE  /\ asset[r] \in Assets
           /\ asset'[r] \in {asset[r], NULL}
           /\ overlapped' = overlapped
           /\ \A q \in Requests \ {r} : /\ pc'[q] = pc[q] /\ asset'[q] = asset[q]
                                        /\ copy'[q] = copy[q]
BY DEF LogAge, SaveAge, Save, LogStatus, CommitStatus, End, Goto, At, TypeInv, TypeOK

\* Of the request that steps it is enough to know its own asset.
LEMMA StepOfOne ==
    ASSUME DeadlineInv, NEW r \in Requests,
           \/ LogAge(r) \/ SaveAge(r) \/ Save(r) \/ LogStatus(r) \/ CommitStatus(r),
           \A a \in Assets \ {asset[r]} : row'[a] = row[a],
           (/\ asset'[r] = asset[r] /\ ~overlapped[asset[r]] /\ row'[asset[r]] # NULL
            /\ ~At(r, "log")')
             => /\ copy'[r].status = row'[asset[r]].status
                /\ copy'[r].delete_after_at = row'[asset[r]].delete_after_at,
           At(r, "age")' \/ At(r, "age_save")' => copy'[r].status = "New",
           At(r, "transaction")' => FALSE,
           (row'[asset[r]] # NULL /\ row'[asset[r]].delete_after_at # NULL /\ ~overlapped[asset[r]])
             => row'[asset[r]].status = "Defective"
    PROVE  AloneOnAsset' /\ CopyIsFresh' /\ ToBeAgedIsNew' /\ DeadlineOnlyWhileDefective'
<1> USE DEF DeadlineInv
<1>1. /\ asset[r] \in Assets /\ asset'[r] \in {asset[r], NULL} /\ overlapped' = overlapped
      /\ \A q \in Requests \ {r} : pc'[q] = pc[q] /\ asset'[q] = asset[q] /\ copy'[q] = copy[q]
  BY OthersStay
<1>2. NULL \notin Assets
  BY Constants
<1>3. AloneOnAsset'
  BY <1>1, <1>2 DEF AloneOnAsset
<1>4. CopyIsFresh'
  <2> SUFFICES ASSUME NEW q \in Requests, asset'[q] \in Assets, ~overlapped[asset'[q]],
                      row'[asset'[q]] # NULL, ~At(q, "log")'
               PROVE  /\ copy'[q].status = row'[asset'[q]].status
                      /\ copy'[q].delete_after_at = row'[asset'[q]].delete_after_at
    BY <1>1 DEF CopyIsFresh
  <2>1. CASE q = r
    BY <1>1, <1>2, <2>1
  <2>2. CASE q # r
    <3>1. asset'[q] = asset[q] /\ copy'[q] = copy[q] /\ ~At(q, "log")
      BY <1>1, <2>2 DEF At
    <3>2. asset[q] # asset[r]
      BY <1>1, <2>2, <3>1 DEF AloneOnAsset
    <3> QED BY <3>1, <3>2 DEF CopyIsFresh
  <2> QED BY <2>1, <2>2
<1>5. ToBeAgedIsNew'
  <2> SUFFICES ASSUME NEW q \in Requests
               PROVE  /\ At(q, "age")' \/ At(q, "age_save")' => copy'[q].status = "New"
                      /\ At(q, "transaction")' /\ copy'[q].auto => copy'[q].status = "New"
    BY DEF ToBeAgedIsNew
  <2>1. CASE q = r
    BY <2>1
  <2>2. CASE q # r
    BY <1>1, <2>2 DEF ToBeAgedIsNew, At
  <2> QED BY <2>1, <2>2
<1>6. DeadlineOnlyWhileDefective'
  BY <1>1 DEF DeadlineOnlyWhileDefective
<1> QED BY <1>3, <1>4, <1>5, <1>6

\* A save of a fresh model stores the deadline of its status.
LEMMA FreshSave ==
    ASSUME now \in 0..MaxNow, NEW stored \in Row, NEW read, NEW s \in Statuses,
           read.delete_after_at = stored.delete_after_at
    PROVE  /\ Updated(stored, read, s).status = s
           /\ Updated(stored, read, s).delete_after_at # NULL => s = "Defective"
BY DeadlineType DEF Updated

LEMMA DeadlineStep == DeadlineInv /\ [Next]_vars => DeadlineInv'
<1> SUFFICES ASSUME DeadlineInv, [Next]_vars
             PROVE  AloneOnAsset' /\ CopyIsFresh' /\ ToBeAgedIsNew' /\ DeadlineOnlyWhileDefective'
  BY TypeStep DEF DeadlineInv
<1> DEFINE Goal == AloneOnAsset' /\ CopyIsFresh' /\ ToBeAgedIsNew' /\ DeadlineOnlyWhileDefective'
           Held(r) == asset[r] \in Assets /\ (row[asset[r]] # NULL => row[asset[r]] \in Row)
                      /\ copy[r] \in Model
<1>0. \A r \in Requests : ~At(r, "idle") /\ ~At(r, "done") => Held(r)
  BY DEF DeadlineInv, TypeInv, TypeOK, At
<1>1. ASSUME NEW r \in Requests, NEW a \in Assets, NEW s \in Statuses \cup {NULL},
             NEW transaction \in BOOLEAN, Retrieve(r, a, s, transaction)
      PROVE  Goal
  <2>1. /\ row' = row /\ asset'[r] = a
        /\ copy'[r] = [status |-> row[a].status, delete_after_at |-> row[a].delete_after_at,
                       auto |-> ShouldAge(a)]
        /\ pc'[r] = IF transaction THEN "transaction" ELSE IF ShouldAge(a) THEN "age" ELSE "save"
        /\ \A q \in Requests \ {r} : pc'[q] = pc[q] /\ asset'[q] = asset[q] /\ copy'[q] = copy[q]
    BY <1>1 DEF Retrieve, DeadlineInv, TypeInv, TypeOK, table
  <2>2. \A b \in Assets : ~overlapped'[b] =>
           /\ ~overlapped[b]
           /\ b = a => \A q \in Requests \ {r} : asset[q] # a
    BY <1>1 DEF Retrieve, DeadlineInv, TypeInv, TypeOK
  <2>3. AloneOnAsset'
    <3> SUFFICES ASSUME NEW q \in Requests, NEW p \in Requests, asset'[q] \in Assets,
                        asset'[q] = asset'[p], ~overlapped'[asset'[q]]
                 PROVE  q = p
      BY DEF AloneOnAsset
    <3>1. CASE q # r /\ p # r
      BY <2>1, <2>2, <3>1 DEF AloneOnAsset, DeadlineInv
    <3>2. CASE q = r \/ p = r
      BY <2>1, <2>2, <3>2
    <3> QED BY <3>1, <3>2
  <2>4. CopyIsFresh'
    <3> SUFFICES ASSUME NEW q \in Requests, asset'[q] \in Assets, ~overlapped'[asset'[q]],
                        row'[asset'[q]] # NULL, ~At(q, "log")'
                 PROVE  /\ copy'[q].status = row'[asset'[q]].status
                        /\ copy'[q].delete_after_at = row'[asset'[q]].delete_after_at
      BY DEF CopyIsFresh
    <3>1. CASE q = r
      BY <2>1, <3>1
    <3>2. CASE q # r
      BY <2>1, <2>2, <3>2 DEF CopyIsFresh, DeadlineInv, At
    <3> QED BY <3>1, <3>2
  <2>5. ToBeAgedIsNew'
    <3> SUFFICES ASSUME NEW q \in Requests
                 PROVE  /\ At(q, "age")' \/ At(q, "age_save")' => copy'[q].status = "New"
                        /\ At(q, "transaction")' /\ copy'[q].auto => copy'[q].status = "New"
      BY DEF ToBeAgedIsNew
    <3>1. CASE q = r
      <4>1. copy'[r].auto = ShouldAge(a) /\ copy'[r].status = row[a].status
        BY <2>1
      <4>2. copy'[r].auto => row[a].status = "New"
        BY <4>1, Zenon DEF ShouldAge
      <4>3. pc'[r] \in {"age", "age_save"} => ShouldAge(a)
        BY <2>1
      <4> QED BY <3>1, <4>1, <4>2, <4>3 DEF At, ShouldAge
    <3>2. CASE q # r
      BY <2>1, <3>2 DEF ToBeAgedIsNew, DeadlineInv, At
    <3> QED BY <3>1, <3>2
  <2>6. DeadlineOnlyWhileDefective'
    BY <2>1, <2>2 DEF DeadlineOnlyWhileDefective, DeadlineInv
  <2> QED BY <2>3, <2>4, <2>5, <2>6
<1>2. ASSUME NEW r \in Requests, LogAge(r) PROVE Goal
  <2>1. Held(r) /\ row' = row /\ At(r, "age") /\ ~At(r, "log") /\ copy[r].status = "New"
    BY <1>2, <1>0 DEF LogAge, At, ToBeAgedIsNew, DeadlineInv
  <2>2. /\ pc'[r] \in {"age_save", "save", "done"}
        /\ asset'[r] = NULL \/ (asset'[r] = asset[r] /\ copy'[r] = copy[r])
        /\ pc'[r] = "age_save" => copy'[r] = copy[r]
    BY <1>2 DEF LogAge, End, Goto, DeadlineInv, TypeInv, TypeOK
  <2>3. /\ CopyIsFresh /\ DeadlineOnlyWhileDefective /\ asset[r] \in Assets
        /\ asset[r] # NULL
    BY <2>1, Constants DEF DeadlineInv
  <2> QED BY <1>2, <2>1, <2>2, <2>3, StepOfOne DEF At, CopyIsFresh, DeadlineOnlyWhileDefective
<1>3. ASSUME NEW r \in Requests, SaveAge(r) PROVE Goal
  <2>1. Held(r) /\ At(r, "age_save") /\ copy[r].status = "New" /\ asset[r] # NULL
        /\ pc[r] = "age_save"
    BY <1>3, <1>0, Constants DEF SaveAge, At, ToBeAgedIsNew, DeadlineInv
  <2>2. /\ \A b \in Assets \ {asset[r]} : row'[b] = row[b]
        /\ row'[asset[r]] # NULL => row[asset[r]] # NULL
        /\ row[asset[r]] # NULL => row'[asset[r]] = [row[asset[r]] EXCEPT !.status = "Functional"]
    BY <1>3, <2>1 DEF SaveAge, DeadlineInv, TypeInv, TypeOK
  <2>3. row[asset[r]] # NULL => /\ row'[asset[r]].status = "Functional"
                                /\ row'[asset[r]].delete_after_at = row[asset[r]].delete_after_at
    BY <2>1, <2>2 DEF Row
  <2>4. ~overlapped[asset[r]] /\ row[asset[r]] # NULL
          => /\ row[asset[r]].delete_after_at = NULL
             /\ copy[r].delete_after_at = row[asset[r]].delete_after_at
    BY <2>1 DEF CopyIsFresh, DeadlineOnlyWhileDefective, DeadlineInv, At
  <2>5. /\ pc'[r] \in {"save", "done"}
        /\ asset'[r] = NULL \/ copy'[r] = [copy[r] EXCEPT !.status = "Functional"]
    BY <1>3, <2>1 DEF SaveAge, AfterAge, End, DeadlineInv, TypeInv, TypeOK
  <2>6. asset'[r] = asset[r] => /\ copy'[r].status = "Functional"
                                /\ copy'[r].delete_after_at = copy[r].delete_after_at
    BY <2>1, <2>5 DEF Model
  <2> QED BY <1>3, <2>2, <2>3, <2>4, <2>5, <2>6, StepOfOne DEF At
<1>4. ASSUME NEW r \in Requests, Save(r) PROVE Goal
  <2>1. Held(r) /\ At(r, "save") /\ asset[r] # NULL /\ target[r] \in Statuses /\ pc[r] = "save"
    BY <1>4, <1>0, Constants DEF Save, At, DeadlineInv, TypeInv, TypeOK
  <2>2. CASE row' = row
    <3>1. pc'[r] \in {"log", "done"} /\ (pc'[r] = "log" \/ asset'[r] = NULL)
      BY <1>4, <2>1 DEF Save, End, Goto, DeadlineInv, TypeInv, TypeOK
    <3> QED
      BY <1>4, <2>1, <2>2, <3>1, StepOfOne DEF At, DeadlineOnlyWhileDefective, DeadlineInv
  <2>3. CASE row' # row
    <3>1. /\ row' = [row EXCEPT ![asset[r]] = Updated(row[asset[r]], copy[r], target[r])]
          /\ pc'[r] = "log" /\ row[asset[r]] # NULL
      BY <1>4, <2>1, <2>3 DEF Save, Goto, DeadlineInv, TypeInv, TypeOK
    <3>2. /\ row'[asset[r]] = Updated(row[asset[r]], copy[r], target[r])
          /\ \A b \in Assets \ {asset[r]} : row'[b] = row[b]
      BY <2>1, <3>1 DEF DeadlineInv, TypeInv, TypeOK
    <3>3. ~overlapped[asset[r]] => copy[r].delete_after_at = row[asset[r]].delete_after_at
      BY <2>1, <3>1 DEF CopyIsFresh, DeadlineInv, At
    <3>4. row'[asset[r]].delete_after_at # NULL /\ ~overlapped[asset[r]]
            => row'[asset[r]].status = "Defective"
      BY <2>1, <3>1, <3>2, <3>3, FreshSave DEF DeadlineInv, TypeInv, TypeOK
    <3> QED BY <1>4, <3>1, <3>2, <3>4, StepOfOne DEF At
  <2> QED BY <2>2, <2>3
<1>5. ASSUME NEW r \in Requests, LogStatus(r) PROVE Goal
  <2>1. Held(r) /\ row' = row /\ asset[r] # NULL
    BY <1>5, <1>0, Constants DEF LogStatus, At
  <2>2. pc'[r] = "done" /\ asset'[r] = NULL
    BY <1>5 DEF LogStatus, End, DeadlineInv, TypeInv, TypeOK
  <2> QED
    BY <1>5, <2>1, <2>2, StepOfOne DEF At, DeadlineOnlyWhileDefective, DeadlineInv
<1>6. ASSUME NEW r \in Requests, CommitStatus(r) PROVE Goal
  <2>1. Held(r) /\ At(r, "transaction") /\ asset[r] # NULL /\ target[r] \in Statuses
        /\ ~At(r, "log")
    BY <1>6, <1>0, Constants DEF CommitStatus, At, DeadlineInv, TypeInv, TypeOK
  <2>2. pc'[r] = "done" /\ asset'[r] = NULL
    BY <1>6 DEF CommitStatus, End, DeadlineInv, TypeInv, TypeOK
  <2>3. CASE row[asset[r]] = NULL
    <3>1. row' = row
      BY <1>6, <2>3 DEF CommitStatus, table
    <3> QED
      BY <1>6, <2>1, <2>2, <3>1, StepOfOne DEF At, DeadlineOnlyWhileDefective, DeadlineInv
  <2>4. CASE row[asset[r]] # NULL
    <3> DEFINE a     == asset[r]
               model == IF copy[r].auto THEN [copy[r] EXCEPT !.status = "Functional"] ELSE copy[r]
               dirty == target[r] # model.status
               aged  == IF copy[r].auto THEN [row[a] EXCEPT !.status = "Functional"] ELSE row[a]
               new   == IF dirty THEN Updated(aged, model, target[r]) ELSE aged
    <3>1. /\ row' = [row EXCEPT ![a] = new]
      BY <1>6, <2>4 DEF CommitStatus
    <3>2. row'[a] = new /\ \A b \in Assets \ {a} : row'[b] = row[b]
      BY <2>1, <3>1 DEF DeadlineInv, TypeInv, TypeOK
    <3>3. aged \in Row /\ aged.delete_after_at = row[a].delete_after_at
      BY <2>1, <2>4, AgedType DEF Row
    <3>4. model.delete_after_at = copy[r].delete_after_at
      BY <2>1 DEF Model
    <3>5. ASSUME ~overlapped[a] PROVE new.delete_after_at # NULL => new.status = "Defective"
      <4>1. copy[r].status = row[a].status /\ copy[r].delete_after_at = row[a].delete_after_at
        BY <2>1, <2>4, <3>5 DEF CopyIsFresh, DeadlineInv
      <4>2. CASE dirty
        <5> HIDE DEF aged, model
        <5>1. new = Updated(aged, model, target[r])
          BY <4>2
        <5> QED
          BY <2>1, <3>3, <3>4, <4>1, <5>1, FreshSave DEF DeadlineInv, TypeInv, TypeOK
      <4>3. CASE ~dirty
        <5>1. copy[r].auto => row[a].delete_after_at = NULL
          BY <2>1, <2>4, <3>5, <4>1
             DEF ToBeAgedIsNew, DeadlineOnlyWhileDefective, DeadlineInv
        <5>2. ~copy[r].auto => new = row[a]
          BY <4>3
        <5>3. row[a].delete_after_at # NULL => row[a].status = "Defective"
          BY <2>1, <2>4, <3>5 DEF DeadlineOnlyWhileDefective, DeadlineInv
        <5>4. copy[r].auto => new.delete_after_at = NULL
          BY <3>3, <4>3, <5>1
        <5> QED BY <5>2, <5>3, <5>4
      <4> QED BY <4>2, <4>3
    <3> HIDE DEF new
    <3> QED BY <1>6, <2>1, <2>2, <3>2, <3>5, StepOfOne DEF At
  <2> QED BY <2>3, <2>4
<1>7. ASSUME FetchPage PROVE Goal
  <2>1. UNCHANGED request /\ overlapped' = overlapped
    BY <1>7 DEF FetchPage
  <2>2. ASSUME NEW a \in Assets, ~overlapped[a], row'[a] # NULL
        PROVE  row'[a] = row[a]
    <3>1. CASE row[a] # NULL /\ Expired(a) /\ row[a].status = "New"
      BY <2>2, <3>1 DEF Expired, DeadlineOnlyWhileDefective, DeadlineInv
    <3> QED BY <1>7, <3>1, FetchEffect DEF DeadlineInv
  <2>3. AloneOnAsset' /\ ToBeAgedIsNew'
    BY <2>1 DEF AloneOnAsset, ToBeAgedIsNew, At, request, DeadlineInv
  <2>4. CopyIsFresh'
    BY <2>1, <2>2 DEF CopyIsFresh, At, request, DeadlineInv
  <2>5. DeadlineOnlyWhileDefective'
    BY <2>1, <2>2 DEF DeadlineOnlyWhileDefective, DeadlineInv
  <2> QED BY <2>3, <2>4, <2>5
<1>8. ASSUME DeleteFetched PROVE Goal
  <2>1. \A a \in Assets : row'[a] = NULL \/ row'[a] = row[a]
    BY <1>8 DEF DeleteFetched, DeadlineInv, TypeInv, TypeOK
  <2>2. UNCHANGED <<request, overlapped>>
    BY <1>8 DEF DeleteFetched
  <2> QED
    BY <2>1, <2>2
       DEF AloneOnAsset, CopyIsFresh, ToBeAgedIsNew, DeadlineOnlyWhileDefective, At, request, DeadlineInv
<1>9. CASE Tick \/ UNCHANGED vars
  <2>1. UNCHANGED <<row, request, overlapped>>
    BY <1>9 DEF Tick, table, vars, request
  <2> QED
    BY <2>1
       DEF AloneOnAsset, CopyIsFresh, ToBeAgedIsNew, DeadlineOnlyWhileDefective, At, request, DeadlineInv
<1> QED
  BY <1>1, <1>2, <1>3, <1>4, <1>5, <1>6, <1>7, <1>8, <1>9 DEF Next, Step, CleanUp

\* A deadline stays behind on an asset that is not Defective only if two requests
\* were at work on the asset at the same time.
THEOREM DeadlineOnlyWhileDefectiveHolds == Spec => []DeadlineOnlyWhileDefective
<1>1. Init => DeadlineInv
  <2> SUFFICES ASSUME Init PROVE DeadlineInv
    OBVIOUS
  <2>1. \A r \in Requests : asset[r] \notin Assets /\ pc[r] = "idle"
    BY Constants DEF Init
  <2>2. DeadlineOnlyWhileDefective
    BY DEF Init, DeadlineOnlyWhileDefective
  <2> QED
    BY <2>1, <2>2, TypesInitially DEF DeadlineInv, AloneOnAsset, CopyIsFresh, ToBeAgedIsNew, At
<1>2. DeadlineInv /\ [Next]_vars => DeadlineInv'
  BY DeadlineStep
<1>3. DeadlineInv => DeadlineOnlyWhileDefective
  BY DEF DeadlineInv
<1> QED BY <1>1, <1>2, <1>3, PTL DEF Spec

-----------------------------------------------------------------------------
(* Deletions.  A deadline, or a place on the page being deleted, is a mark *)
(* in the movement log, or will be with the observer's next statement.     *)

Marked(a) == "Defective" \in logged[a] \/ AboutToLog(a, "Defective")

MarkInv ==
    /\ TypeInv
    /\ \A a \in Assets : row[a] # NULL /\ row[a].delete_after_at # NULL => Marked(a)
    /\ \A i \in DOMAIN todo : row[todo[i]] # NULL => Marked(todo[i])

\* No step takes a mark away, and none sets a deadline without one.
MarkEffect(a) ==
    row'[a] # NULL =>
        /\ row[a] # NULL
        /\ Marked(a) => Marked(a)'
        /\ row'[a].delete_after_at # NULL => row[a].delete_after_at # NULL \/ Marked(a)'

\* Steps that add movements, and move no request away from logging.
LEMMA MarksGrow ==
    ASSUME NEW a \in Assets, logged[a] \subseteq logged'[a],
           \A r \in Requests : At(r, "log") => /\ At(r, "log")' /\ asset'[r] = asset[r]
                                               /\ target'[r] = target[r]
    PROVE  Marked(a) => Marked(a)'
BY DEF Marked, AboutToLog

LEMMA MarkStep ==
    ASSUME TypeInv, [Next]_vars, NEW a \in Assets
    PROVE  MarkEffect(a)
<1>1. ASSUME NEW r \in Requests, NEW b \in Assets, NEW s \in Statuses \cup {NULL},
             NEW transaction \in BOOLEAN, Retrieve(r, b, s, transaction)
      PROVE  MarkEffect(a)
  <2>1. row' = row /\ logged' = logged
        /\ \A q \in Requests : At(q, "log") => /\ At(q, "log")' /\ asset'[q] = asset[q]
                                               /\ target'[q] = target[q]
    BY <1>1 DEF Retrieve, At, table, TypeInv, TypeOK
  <2> QED BY <2>1, MarksGrow DEF MarkEffect
<1>2. ASSUME NEW r \in Requests, LogAge(r) PROVE MarkEffect(a)
  <2>1. /\ row' = row /\ logged[a] \subseteq logged'[a]
        /\ \A q \in Requests : At(q, "log") => /\ At(q, "log")' /\ asset'[q] = asset[q]
                                               /\ target'[q] = target[q]
    BY <1>2 DEF LogAge, End, Goto, At, TypeInv, TypeOK
  <2> QED BY <2>1, MarksGrow DEF MarkEffect
<1>3. ASSUME NEW r \in Requests, SaveAge(r) PROVE MarkEffect(a)
  <2>1. /\ logged' = logged
        /\ \A q \in Requests : At(q, "log") => /\ At(q, "log")' /\ asset'[q] = asset[q]
                                               /\ target'[q] = target[q]
    BY <1>3 DEF SaveAge, End, At, TypeInv, TypeOK
  <2>2. \/ row'[a] = row[a]
        \/ row[a] # NULL /\ row'[a] = [row[a] EXCEPT !.status = "Functional"]
    BY <1>3 DEF SaveAge, TypeInv, TypeOK
  <2>3. row'[a] # NULL => row[a] # NULL /\ row'[a].delete_after_at = row[a].delete_after_at
    BY <2>2 DEF TypeInv, TypeOK, Row
  <2> QED BY <2>1, <2>3, MarksGrow DEF MarkEffect
<1>4. ASSUME NEW r \in Requests, Save(r) PROVE MarkEffect(a)
  <2>1. /\ logged' = logged
        /\ \A q \in Requests : At(q, "log") => /\ At(q, "log")' /\ asset'[q] = asset[q]
                                               /\ target'[q] = target[q]
    BY <1>4 DEF Save, End, Goto, At, TypeInv, TypeOK
  <2>2. CASE row'[a] = row[a]
    BY <2>1, <2>2, MarksGrow DEF MarkEffect
  <2>3. CASE row'[a] # row[a]
    <3>1. /\ a = asset[r] /\ row[a] # NULL
          /\ row'[a] = Updated(row[a], copy[r], target[r])
          /\ Goto(r, "log")
      BY <1>4, <2>3 DEF Save, TypeInv, TypeOK
    <3>2. At(r, "log")' /\ asset'[r] = a /\ target'[r] = target[r]
      BY <3>1 DEF Goto, At, TypeInv, TypeOK
    <3>3. row'[a].delete_after_at # NULL
            => row[a].delete_after_at # NULL \/ target[r] = "Defective"
      BY <3>1, DeadlineType DEF Updated, TypeInv, TypeOK
    <3>4. target[r] = "Defective" => Marked(a)'
      BY <3>2 DEF Marked, AboutToLog
    <3> QED BY <2>1, <3>1, <3>3, <3>4, MarksGrow DEF MarkEffect
  <2> QED BY <2>2, <2>3
<1>5. ASSUME NEW r \in Requests, LogStatus(r) PROVE MarkEffect(a)
  <2>1. /\ row' = row /\ asset[r] \in Assets
        /\ \A q \in Requests \ {r} : /\ pc'[q] = pc[q] /\ asset'[q] = asset[q]
                                     /\ target'[q] = target[q]
    BY <1>5 DEF LogStatus, End, At, TypeInv, TypeOK
  <2>2. row[a] # NULL => /\ logged[a] \subseteq logged'[a]
                         /\ a = asset[r] => target[r] \in logged'[a]
    BY <1>5, <2>1 DEF LogStatus, TypeInv, TypeOK
  <2>3. row[a] # NULL /\ Marked(a) => Marked(a)'
    <3> SUFFICES ASSUME row[a] # NULL, NEW q \in Requests, At(q, "log"), asset[q] = a,
                        target[q] = "Defective"
                 PROVE  Marked(a)'
      BY <2>2 DEF Marked, AboutToLog
    <3>1. CASE q = r
      BY <2>2, <3>1 DEF Marked
    <3>2. CASE q # r
      BY <2>1, <3>2 DEF Marked, AboutToLog, At
    <3> QED BY <3>1, <3>2
  <2> QED BY <2>1, <2>3 DEF MarkEffect
<1>6. ASSUME NEW r \in Requests, CommitStatus(r) PROVE MarkEffect(a)
  <2>1. /\ asset[r] \in Assets /\ copy[r] \in Model /\ target[r] \in Statuses
        /\ \A q \in Requests : At(q, "log") => /\ At(q, "log")' /\ asset'[q] = asset[q]
                                               /\ target'[q] = target[q]
    BY <1>6 DEF CommitStatus, End, At, TypeInv, TypeOK
  <2>2. CASE row[asset[r]] = NULL \/ a # asset[r]
    <3>1. row'[a] = row[a] /\ logged'[a] = logged[a]
      BY <1>6, <2>1, <2>2 DEF CommitStatus, table, TypeInv, TypeOK
    <3> QED BY <2>1, <3>1, MarksGrow DEF MarkEffect
  <2>3. CASE row[asset[r]] # NULL /\ a = asset[r]
    <3> DEFINE model == IF copy[r].auto THEN [copy[r] EXCEPT !.status = "Functional"] ELSE copy[r]
               dirty == target[r] # model.status
               aged  == IF copy[r].auto THEN [row[a] EXCEPT !.status = "Functional"] ELSE row[a]
               new   == IF dirty THEN Updated(aged, model, target[r]) ELSE aged
    <3>1. /\ row'[a] = new
          /\ logged'[a] = logged[a] \cup (IF copy[r].auto THEN AgeMovement(a) ELSE {})
                                    \cup (IF dirty THEN {target[r]} ELSE {})
      BY <1>6, <2>1, <2>3 DEF CommitStatus, TypeInv, TypeOK
    <3>2. aged.delete_after_at = row[a].delete_after_at
      BY <2>3 DEF TypeInv, TypeOK, Row
    <3>3. new.delete_after_at # NULL
            => row[a].delete_after_at # NULL \/ (dirty /\ target[r] = "Defective")
      <4> HIDE DEF aged, model
      <4> QED BY <3>2, DeadlineType DEF Updated, TypeInv, TypeOK
    <3> HIDE DEF new, dirty
    <3>4. dirty /\ target[r] = "Defective" => Marked(a)'
      BY <3>1 DEF Marked
    <3>5. logged[a] \subseteq logged'[a]
      BY <3>1
    <3> QED BY <2>1, <2>3, <3>1, <3>3, <3>4, <3>5, MarksGrow DEF MarkEffect
  <2> QED BY <2>2, <2>3
<1>7. ASSUME FetchPage PROVE MarkEffect(a)
  <2>1. \A q \in Requests : At(q, "log") => /\ At(q, "log")' /\ asset'[q] = asset[q]
                                            /\ target'[q] = target[q]
    BY <1>7 DEF FetchPage, request, At
  <2>2. logged[a] \subseteq logged'[a]
    BY <1>7, FetchEffect
  <2>3. row'[a] # NULL => row[a] # NULL /\ row'[a].delete_after_at = row[a].delete_after_at
    <3>1. row[a] # NULL => row[a] \in Row
      BY DEF TypeInv, TypeOK
    <3>2. row[a] \in Row => [row[a] EXCEPT !.status = "Functional"].delete_after_at
                                = row[a].delete_after_at
      BY DEF Row
    <3> QED BY <1>7, <3>1, <3>2, FetchEffect
  <2> QED BY <2>1, <2>2, <2>3, MarksGrow DEF MarkEffect
<1>8. ASSUME DeleteFetched PROVE MarkEffect(a)
  <2>1. row'[a] # NULL => row'[a] = row[a] /\ logged'[a] = logged[a]
    BY <1>8 DEF DeleteFetched, TypeInv, TypeOK
  <2>2. \A q \in Requests : At(q, "log") => /\ At(q, "log")' /\ asset'[q] = asset[q]
                                            /\ target'[q] = target[q]
    BY <1>8 DEF DeleteFetched, request, At
  <2> QED BY <2>1, <2>2, MarksGrow DEF MarkEffect
<1>9. CASE Tick \/ UNCHANGED vars
  <2>1. UNCHANGED <<row, logged, pc, asset, target>>
    BY <1>9 DEF Tick, table, request, vars
  <2> QED BY <2>1 DEF MarkEffect, Marked, AboutToLog, At
<1> QED
  BY <1>1, <1>2, <1>3, <1>4, <1>5, <1>6, <1>7, <1>8, <1>9 DEF Next, Step, CleanUp

LEMMA MarkInvStep == MarkInv /\ [Next]_vars => MarkInv'
<1> SUFFICES ASSUME MarkInv, [Next]_vars PROVE MarkInv'
  OBVIOUS
<1>1. TypeInv /\ TypeInv'
  BY TypeStep DEF MarkInv
<1>2. \A a \in Assets : MarkEffect(a)
  BY <1>1, MarkStep
<1>3. \A a \in Assets : row'[a] # NULL /\ row'[a].delete_after_at # NULL => Marked(a)'
  BY <1>2 DEF MarkEffect, MarkInv
<1>4. \A b \in Assets : (\E i \in DOMAIN todo' : todo'[i] = b) /\ row'[b] # NULL => Marked(b)'
  <2>1. \A b \in Assets : (\E j \in DOMAIN todo : todo[j] = b) /\ row'[b] # NULL => Marked(b)'
    BY <1>2 DEF MarkEffect, MarkInv
  <2>2. CASE FetchPage
    <3>1. todo' \in Seq(ToDelete)
      BY <1>1, <2>2, PageElements DEF FetchPage, ToDelete, TypeInv, TypeOK
    <3>2. \A i \in DOMAIN todo' : todo'[i] \in ToDelete
      BY <3>1
    <3> QED BY <1>2, <3>2 DEF MarkEffect, MarkInv, ToDelete, Expired
  <2>3. CASE DeleteFetched
    <3>1. todo # <<>> /\ todo' = Tail(todo) /\ todo \in Seq(Assets)
      BY <1>1, <2>3 DEF DeleteFetched, TypeInv, TypeOK
    <3>2. \A i \in DOMAIN todo' : i + 1 \in DOMAIN todo /\ todo'[i] = todo[i + 1]
      BY <3>1
    <3> QED BY <2>1, <3>2
  <2>4. CASE todo' = todo
    BY <2>1, <2>4
  <2>5. FetchPage \/ DeleteFetched \/ todo' = todo
    BY DEF Next, Step, CleanUp, Tick, Retrieve, LogAge, SaveAge, Save, LogStatus,
           CommitStatus, vars
  <2> QED BY <2>2, <2>3, <2>4, <2>5
<1>5. \A i \in DOMAIN todo' : todo'[i] \in Assets
  BY <1>1 DEF TypeInv, TypeOK
<1>6. (\A i \in DOMAIN todo : row[todo[i]] # NULL => Marked(todo[i]))'
  BY <1>4, <1>5, Zenon DEF Marked, AboutToLog, At
<1> QED BY <1>1, <1>3, <1>6 DEF MarkInv

\* The clean-up deletes nothing that was never marked Defective, also when it
\* works through a page that was read long before.
THEOREM OnlyMarkedAreDeletedHolds == Spec => OnlyMarkedAreDeleted
<1>1. Init => MarkInv
  <2> SUFFICES ASSUME Init PROVE MarkInv
    OBVIOUS
  <2>1. \A a \in Assets : row[a].delete_after_at = NULL
    BY DEF Init
  <2> QED BY <2>1, TypesInitially DEF Init, MarkInv
<1>2. MarkInv /\ [Next]_vars => MarkInv'
  BY MarkInvStep
<1>3. MarkInv /\ [Next]_vars =>
        [\A a \in Assets : (row[a] # NULL /\ row'[a] = NULL) =>
            "Defective" \in logged[a] \/ AboutToLog(a, "Defective")]_vars
  <2> SUFFICES ASSUME MarkInv, Next, NEW a \in Assets, row[a] # NULL, row'[a] = NULL
               PROVE  Marked(a)
    BY DEF Marked
  <2>1. CASE DeleteFetched
    <3>1. todo # <<>> /\ todo \in Seq(Assets) /\ a = Head(todo)
      BY <2>1 DEF DeleteFetched, MarkInv, TypeInv, TypeOK
    <3>2. 1 \in DOMAIN todo /\ todo[1] = a
      BY <3>1
    <3> QED BY <3>2 DEF MarkInv
  <2>2. CASE FetchPage
    <3>1. row[a] \in Row /\ TypeInv
      BY DEF MarkInv, TypeInv, TypeOK
    <3>2. [row[a] EXCEPT !.status = "Functional"] # NULL
      BY <3>1, AgedType, NullIsNoRow
    <3> QED BY <2>2, <3>1, <3>2, FetchEffect
  <2>3. ASSUME NEW r \in Requests, CommitStatus(r) PROVE FALSE
    <3>1. asset[r] \in Assets
      BY <2>3 DEF CommitStatus, At, MarkInv, TypeInv, TypeOK
    <3>2. CASE row[asset[r]] = NULL
      BY <2>3, <3>2 DEF CommitStatus, table
    <3>3. CASE row[asset[r]] # NULL
      BY <2>3, <3>1, <3>3, StatusAfterCommit DEF MarkInv, TypeInv, TypeOK
    <3> QED BY <3>2, <3>3
  <2>4. ASSUME NEW r \in Requests, SaveAge(r) PROVE FALSE
    BY <2>4, AgedType, NullIsNoRow DEF SaveAge, MarkInv, TypeInv, TypeOK
  <2>5. ASSUME NEW r \in Requests, Save(r) PROVE FALSE
    <3>1. asset[r] \in Assets /\ target[r] \in Statuses
      BY <2>5 DEF Save, At, MarkInv, TypeInv, TypeOK
    <3>2. row[a] \in Row
      BY DEF MarkInv, TypeInv, TypeOK
    <3>3. Updated(row[a], copy[r], target[r]) # NULL
      BY <3>1, <3>2, UpdatedType, NullIsNoRow DEF MarkInv, TypeInv, TypeOK
    <3> QED BY <2>5, <3>1, <3>3 DEF Save, MarkInv, TypeInv, TypeOK
  <2>6. CASE row' = row
    BY <2>6
  <2>7. \/ DeleteFetched \/ FetchPage \/ row' = row
        \/ \E r \in Requests : CommitStatus(r) \/ SaveAge(r) \/ Save(r)
    BY DEF Next, Step, CleanUp, Tick, Retrieve, LogAge, LogStatus, table
  <2> QED BY <2>1, <2>2, <2>3, <2>4, <2>5, <2>6, <2>7
<1> QED BY <1>1, <1>2, <1>3, PTL DEF Spec, OnlyMarkedAreDeleted

=============================================================================
