------------------------ MODULE DashboardCache_proofs ------------------------
(***************************************************************************)
(* Proofs about the server's caches, for any number of requests at once,   *)
(* any number of changes, of saves in a transaction, and any times.        *)
(***************************************************************************)
EXTENDS DashboardCache, TLAPS

\* The place of a key among those that the observers of its table forget.
Place(key) == IF key = "initial_data" THEN 2 ELSE 1

LEMMA KeyFacts ==
    /\ Keys = {"statistics", "initial_data", "branches_all", "statistics_response"}
    /\ \A key \in Keys : Ttl[key] \in Nat \ {0} /\ Table(key) \in Tables
    /\ RequestTime \in Nat \ {0} /\ MaxSaves \in Nat \ {0}
    /\ NULL \notin Writers /\ NULL \notin Nat
  BY NullIsNoValue, TtlsArePositive DEF Keys, Ttl, Table, Tables

LEMMA RouteFacts ==
    /\ Routes = {"initial", "statistics", "branches"}
    /\ DOMAIN Outer = {"initial", "statistics"}
    /\ \A route \in Routes : Inner[route] \in Keys
    /\ \A route \in DOMAIN Outer : Outer[route] \in Keys
  BY KeyFacts DEF Routes, Inner, Outer

LEMMA OrderFacts ==
    /\ Len(ForgetOrder["assets"]) = 2 /\ Len(ForgetOrder["branches"]) = 1
    /\ Forgotten("assets") = {"statistics", "initial_data"}
    /\ Forgotten("branches") = {"branches_all"}
    /\ \A t \in Tables : \A i \in 1..Len(ForgetOrder[t]) :
          /\ ForgetOrder[t][i] \in Forgotten(t)
          /\ \A key \in Forgotten(t) : ForgetOrder[t][i] = key <=> i = Place(key)
    /\ \A t \in Tables : \A key \in Forgotten(t) :
          key \in Keys /\ Table(key) = t /\ Place(key) \in 1..Len(ForgetOrder[t])
<1>1. ForgetOrder["assets"] = <<"statistics", "initial_data">> /\ ForgetOrder["branches"] = <<"branches_all">>
  BY DEF ForgetOrder
<1>2. DOMAIN ForgetOrder["assets"] = 1..2 /\ DOMAIN ForgetOrder["branches"] = 1..1
  BY <1>1
<1>3. Forgotten("assets") = {"statistics", "initial_data"} /\ Forgotten("branches") = {"branches_all"}
  BY <1>1, <1>2 DEF Forgotten
<1>4. Len(ForgetOrder["assets"]) = 2 /\ Len(ForgetOrder["branches"]) = 1
  BY <1>1
<1>5. ASSUME NEW t \in Tables, NEW i \in 1..Len(ForgetOrder[t])
      PROVE  /\ ForgetOrder[t][i] \in Forgotten(t)
             /\ \A key \in Forgotten(t) : ForgetOrder[t][i] = key <=> i = Place(key)
  <2>1. CASE t = "assets"
    <3>1. i \in {1, 2}
      BY <2>1, <1>4
    <3> QED BY <2>1, <3>1, <1>1, <1>3 DEF Place
  <2>2. CASE t = "branches"
    <3>1. i = 1
      BY <2>2, <1>4
    <3> QED BY <2>2, <3>1, <1>1, <1>3 DEF Place
  <2> QED BY <2>1, <2>2 DEF Tables
<1>6. ASSUME NEW t \in Tables, NEW key \in Forgotten(t)
      PROVE  key \in Keys /\ Table(key) = t /\ Place(key) \in 1..Len(ForgetOrder[t])
  <2>1. CASE t = "assets"
    BY <2>1, <1>3, <1>4, KeyFacts DEF Place, Table
  <2>2. CASE t = "branches"
    BY <2>2, <1>3, <1>4, KeyFacts DEF Place, Table
  <2> QED BY <2>1, <2>2 DEF Tables
<1> QED
  BY <1>3, <1>4, <1>5, <1>6

-----------------------------------------------------------------------------
(* Types, with what each step of a request and of a change relies on.      *)

RequestTypes ==
    request \in [Readers -> [pc: Steps, asks: SUBSET Routes, route: Routes, spent: 0..RequestTime,
                             raced: SUBSET Keys, value: Values]]

ChangeTypes ==
    change \in [Writers ->
            [pc: {"idle", "forgetting", "open", "committed", "done", "crashed"},
             kind: {"plain", "transaction", "catalogue", "unobserved"},
             table: Tables, at: 1..3, saves: 0..MaxSaves]]

VersionTypes ==
    /\ data \in [Tables -> Nat] /\ announced \in [Tables -> Nat]
    /\ \A t \in Tables : announced[t] <= data[t]

\* A transaction holds rows that are there.
HeldTypes ==
    /\ held \in [Keys -> Writers \cup {NULL}]
    /\ \A key \in Keys : held[key] # NULL => Stored(key) /\ InTransaction(held[key])

\* Who is at an outer row has one.
OuterSteps ==
    \A r \in Readers : request[r].pc \in {"outer", "take", "put_outer"} => request[r].route \in DOMAIN Outer

\* Where a change is among its forgets.
ChangeSteps ==
    \A w \in Writers :
        LET c == change[w] IN
        /\ c.kind = "transaction" => c.table = "assets"
        /\ c.kind = "catalogue" => c.table = "branches"
        /\ c.pc = "idle" => c.at = 1 /\ c.saves = 0
        /\ c.pc = "forgetting" => c.at \in 1..Len(ForgetOrder[c.table]) /\ c.kind # "unobserved"
        /\ c.pc = "open" => c.at = Len(ForgetOrder[c.table]) + 1 /\ c.kind \in {"transaction", "catalogue"}
        /\ c.pc = "committed" => c.table = "branches"

Types ==
    /\ VersionTypes /\ cache \in [Keys -> Values] /\ HeldTypes
    /\ RequestTypes /\ ChangeTypes /\ OuterSteps /\ ChangeSteps

LEMMA TypesImply == Types => TypeOK
  BY DEF Types, VersionTypes, HeldTypes, RequestTypes, ChangeTypes, TypeOK

LEMMA TypesInit == Init => Types
<1> SUFFICES ASSUME NEW asks \in [Readers -> SUBSET Routes], NEW plans \in [Writers -> Plans],
                    InitWith(asks, plans)
             PROVE  Types
  BY DEF Init
<1>1. NoRow \in Values
  BY DEF NoRow, Values
<1>2. \A w \in Writers : /\ plans[w].kind \in {"plain", "transaction", "catalogue", "unobserved"}
                         /\ plans[w].table \in Tables
                         /\ plans[w].kind = "transaction" => plans[w].table = "assets"
                         /\ plans[w].kind = "catalogue" => plans[w].table = "branches"
  BY DEF Plans, Tables
<1>3. VersionTypes /\ cache \in [Keys -> Values] /\ HeldTypes
  BY <1>1 DEF InitWith, VersionTypes, HeldTypes
<1>4. RequestTypes /\ OuterSteps
  BY <1>1, KeyFacts, RouteFacts DEF InitWith, RequestTypes, OuterSteps, Steps
<1>5. ChangeTypes /\ ChangeSteps
  BY <1>2, KeyFacts DEF InitWith, ChangeTypes, ChangeSteps
<1> QED BY <1>3, <1>4, <1>5 DEF Types

\* What a get that misses does to the table.
LEMMA MissTypes ==
    ASSUME Types, NEW key \in Keys, Miss(key), UNCHANGED <<held, change>>
    PROVE  cache' \in [Keys -> Values] /\ HeldTypes'
<1>1. NoRow \in Values
  BY DEF NoRow, Values
<1>2. \A k \in Keys : cache'[k] = IF k = key THEN NoRow ELSE cache[k]
  BY DEF Miss, Types
<1>3. held[key] = NULL
  BY KeyFacts DEF Miss, Types, HeldTypes, Free
<1> QED
  BY <1>1, <1>2, <1>3 DEF Miss, Types, HeldTypes, Stored, InTransaction

LEMMA PutTypes ==
    ASSUME Types, NEW key \in Keys, NEW value \in Values, NEW raced \in BOOLEAN, Put(key, value, raced),
           UNCHANGED <<held, change>>
    PROVE  cache' \in [Keys -> Values] /\ HeldTypes'
<1> DEFINE row == [value EXCEPT !.left = Ttl[key], !.raced = @ \/ raced]
<1>1. row \in Values /\ row.left # NULL
  BY KeyFacts DEF Values
<1>2. cache' \in [Keys -> Values] /\ \A k \in Keys : cache'[k] = IF k = key THEN row ELSE cache[k]
  BY <1>1 DEF Put, Types
<1> QED
  BY <1>1, <1>2 DEF Types, HeldTypes, Stored, InTransaction

LEMMA ServeTypes ==
    ASSUME Types, NEW r \in Readers, Serve(r)
    PROVE  Types'
<1>0. /\ In(r) \in Keys /\ (HasOuter(r) => Out(r) \in Keys)
      /\ (request[r].pc \in {"outer", "take", "put_outer"} => HasOuter(r))
  BY RouteFacts DEF Types, RequestTypes, OuterSteps, In, Out, HasOuter
<1>1. VersionTypes' /\ ChangeTypes' /\ ChangeSteps' /\ UNCHANGED <<held, change>>
  BY DEF Serve, LookOuter, Take, LookInner, Query, QueryFails, PutInner, PutOuter, Types, VersionTypes,
         ChangeTypes, ChangeSteps
<1>2. UNCHANGED cache => cache' \in [Keys -> Values] /\ HeldTypes'
  BY <1>1 DEF Types, HeldTypes, Stored, InTransaction
<1>3. ASSUME NEW step \in Steps, step \in {"outer", "take", "put_outer"} => HasOuter(r), Go(r, step)
      PROVE  RequestTypes' /\ OuterSteps'
  BY <1>3 DEF Go, Types, RequestTypes, OuterSteps, HasOuter
<1>4. ASSUME NEW step \in Steps, step \in {"outer", "take", "put_outer"} => HasOuter(r),
             NEW value \in Values, Carry(r, step, value)
      PROVE  RequestTypes' /\ OuterSteps'
  BY <1>4 DEF Carry, Types, RequestTypes, OuterSteps, HasOuter
<1>5. AfterInner(r) \in Steps /\ (AfterInner(r) \in {"outer", "take", "put_outer"} => HasOuter(r))
  BY DEF AfterInner, Steps
<1>6. \A key \in Keys : cache[key] \in Values
  BY DEF Types
<1>7. request[r].value \in Values
  BY DEF Types, RequestTypes
<1>8. CASE LookOuter(r)
  <2>1. Out(r) \in Keys /\ HasOuter(r)
    BY <1>8, <1>0 DEF LookOuter, At
  <2>2. CASE Miss(Out(r)) /\ Go(r, "inner")
    BY <2>1, <2>2, <1>1, <1>3, MissTypes DEF Types, Steps
  <2>3. CASE UNCHANGED cache /\ Go(r, "take")
    BY <2>1, <2>3, <1>1, <1>2, <1>3 DEF Types, Steps
  <2>4. CASE UNCHANGED cache /\ Carry(r, "answered", cache[Out(r)])
    BY <2>1, <2>4, <1>1, <1>2, <1>4, <1>6 DEF Types, Steps
  <2> QED BY <1>8, <2>2, <2>3, <2>4 DEF LookOuter
<1>9. CASE Take(r)
  <2>1. Out(r) \in Keys
    BY <1>9, <1>0 DEF Take, At
  <2>2. CASE Miss(Out(r)) /\ Go(r, "failed")
    BY <2>1, <2>2, <1>1, <1>3, MissTypes DEF Types, Steps
  <2>3. CASE UNCHANGED cache /\ Carry(r, "answered", cache[Out(r)])
    BY <2>1, <2>3, <1>1, <1>2, <1>4, <1>6 DEF Types, Steps
  <2> QED BY <1>9, <2>2, <2>3 DEF Take
<1>10. CASE LookInner(r)
  <2>1. CASE Miss(In(r)) /\ Go(r, "query")
    BY <2>1, <1>0, <1>1, <1>3, MissTypes DEF Types, Steps
  <2>2. CASE UNCHANGED cache /\ Carry(r, AfterInner(r), cache[In(r)])
    BY <2>2, <1>0, <1>1, <1>2, <1>4, <1>5, <1>6 DEF Types
  <2> QED BY <1>10, <2>1, <2>2 DEF LookInner
<1>11. CASE Query(r)
  <2>1. [NoRow EXCEPT !.version = data[Table(In(r))]] \in Values
    BY <1>0, KeyFacts DEF NoRow, Values, Types, VersionTypes
  <2> QED BY <2>1, <1>11, <1>1, <1>2, <1>4 DEF Query, Types, Steps
<1>12. CASE QueryFails(r)
  BY <1>12, <1>1, <1>2, <1>3 DEF QueryFails, Types, Steps
<1>13. CASE PutInner(r)
  <2>1. Raced(r, In(r)) \in BOOLEAN
    BY DEF Raced, Exposed
  <2>2. [request[r].value EXCEPT !.raced = @ \/ Raced(r, In(r))] \in Values
    BY <1>7, <2>1 DEF Values
  <2> QED BY <2>1, <2>2, <1>0, <1>1, <1>4, <1>5, <1>7, <1>13, PutTypes DEF PutInner, Types
<1>14. CASE PutOuter(r)
  <2>1. Raced(r, Out(r)) \in BOOLEAN /\ Out(r) \in Keys
    BY <1>14, <1>0 DEF Raced, Exposed, PutOuter, At
  <2> QED BY <2>1, <1>1, <1>3, <1>7, <1>14, PutTypes DEF PutOuter, Types, Steps
<1> QED
  BY <1>8, <1>9, <1>10, <1>11, <1>12, <1>13, <1>14 DEF Serve

LEMMA AskTypes ==
    ASSUME Types, NEW r \in Readers, NEW route \in Routes, Ask(r, route)
    PROVE  Types'
<1>1. NoRow \in Values
  BY DEF NoRow, Values
<1>2. RequestTypes' /\ OuterSteps'
  BY <1>1, KeyFacts DEF Ask, Types, RequestTypes, OuterSteps, Steps
<1>3. VersionTypes' /\ cache' \in [Keys -> Values] /\ HeldTypes' /\ ChangeTypes' /\ ChangeSteps'
  BY DEF Ask, Types, VersionTypes, HeldTypes, ChangeTypes, ChangeSteps, Stored, InTransaction
<1> QED BY <1>2, <1>3 DEF Types

LEMMA OvertakeTypes ==
    ASSUME Types, NEW keys, Overtake(keys)
    PROVE  RequestTypes' /\ OuterSteps'
<1>1. \A r \in Readers : Filling(r) \subseteq Keys
  BY RouteFacts DEF Filling, OutRows, In, Out, HasOuter, Types, RequestTypes
<1> QED BY <1>1 DEF Overtake, Types, RequestTypes, OuterSteps

\* A DELETE that is shown at once.
LEMMA DropTypes ==
    ASSUME Types, NEW key \in Keys, Drop(key)
    PROVE  /\ RequestTypes' /\ OuterSteps' /\ cache' \in [Keys -> Values]
           /\ held' = held /\ held[key] = NULL
           /\ \A k \in Keys : cache'[k] = IF k = key THEN NoRow ELSE cache[k]
<1>1. NoRow \in Values
  BY DEF NoRow, Values
<1>2. held[key] = NULL
  BY KeyFacts DEF Drop, Types, HeldTypes, Free
<1> QED
  BY <1>1, <1>2, OvertakeTypes DEF Drop, Types

LEMMA NewVersionTypes ==
    ASSUME Types, NEW t \in Tables, NEW told \in BOOLEAN, NewVersion(t, told)
    PROVE  VersionTypes'
  BY DEF NewVersion, Types, VersionTypes

LEMMA SaveTypes ==
    ASSUME Types, NEW w \in Writers, Save(w)
    PROVE  Types'
<1>1. RequestTypes' /\ OuterSteps' /\ cache' \in [Keys -> Values]
  BY DEF Save, Types, RequestTypes, OuterSteps
<1>2. ChangeTypes' /\ ChangeSteps'
  BY KeyFacts, OrderFacts DEF Save, Doing, Types, ChangeTypes, ChangeSteps, Tables
<1>3. VersionTypes'
  <2>1. CASE change[w].kind \in {"plain", "unobserved"}
    BY <2>1, NewVersionTypes DEF Save, Types, ChangeTypes
  <2>2. CASE change[w].kind \notin {"plain", "unobserved"}
    BY <2>2 DEF Save, Types, VersionTypes
  <2> QED BY <2>1, <2>2
<1>4. \A x \in Writers : InTransaction(x) => InTransaction(x)'
  BY DEF Save, Doing, InTransaction, Types, ChangeTypes
<1>5. HeldTypes'
  BY <1>4, KeyFacts DEF Save, Types, HeldTypes, Stored
<1> QED BY <1>1, <1>2, <1>3, <1>5 DEF Types

\* What is next to be forgotten.
LEMMA NextKey ==
    ASSUME Types, NEW w \in Writers, Doing(w, "forgetting")
    PROVE  LET t == change[w].table IN
           /\ t \in Tables /\ change[w].at \in 1..Len(ForgetOrder[t])
           /\ ForgetOrder[t][change[w].at] \in Forgotten(t)
           /\ ForgetOrder[t][change[w].at] \in Keys
  BY OrderFacts DEF Doing, Types, ChangeTypes, ChangeSteps

LEMMA ForgetTypes ==
    ASSUME Types, NEW w \in Writers, Forget(w)
    PROVE  Types'
<1> DEFINE t   == change[w].table
           key == ForgetOrder[t][change[w].at]
<1>0. Doing(w, "forgetting") /\ t \in Tables /\ key \in Keys /\ change[w].at \in 1..Len(ForgetOrder[t])
  BY NextKey DEF Forget
<1>1. VersionTypes'
  <2>1. UNCHANGED <<data, announced>>
    BY DEF Forget
  <2> QED BY <2>1 DEF Types, VersionTypes
<1>2. change[w].at \in Nat /\ Len(ForgetOrder[t]) \in {1, 2} /\ change[w].kind # "unobserved"
      /\ (InTransaction(w) => change[w].kind \in {"transaction", "catalogue"})
  BY <1>0, OrderFacts DEF Tables, Types, ChangeSteps, InTransaction, Doing
<1>3. ChangeTypes' /\ ChangeSteps'
  <2>1. change' = [change EXCEPT
            ![w].at = @ + 1,
            ![w].pc = IF change[w].at < Len(ForgetOrder[t]) THEN "forgetting"
                      ELSE IF InTransaction(w) THEN "open" ELSE AfterChange(w)]
    BY DEF Forget
  <2>2. CASE change[w].at < Len(ForgetOrder[t])
    <3>1. change' = [change EXCEPT ![w].at = @ + 1, ![w].pc = "forgetting"]
      BY <2>1, <2>2
    <3>2. change[w].at + 1 \in 1..Len(ForgetOrder[t]) /\ change[w].at + 1 \in 1..3
      BY <2>2, <1>0, <1>2
    <3>3. ChangeTypes'
      BY <3>1, <3>2 DEF Types, ChangeTypes
    <3>4. change[w].pc = "forgetting" /\ \A x \in Writers \ {w} : change'[x] = change[x]
      BY <3>1, <1>0 DEF Doing, Types, ChangeTypes
    <3>5. /\ change'[w].pc = "forgetting" /\ change'[w].at = change[w].at + 1
          /\ change'[w].kind = change[w].kind /\ change'[w].table = change[w].table
      BY <3>1 DEF Types, ChangeTypes
    <3> QED BY <3>2, <3>3, <3>4, <3>5, <1>2 DEF Types, ChangeSteps
  <2>3. CASE ~(change[w].at < Len(ForgetOrder[t])) /\ InTransaction(w)
    <3>1. change' = [change EXCEPT ![w].at = @ + 1, ![w].pc = "open"]
      BY <2>1, <2>3
    <3> QED BY <3>1, <2>3, <1>0, <1>2 DEF Types, ChangeTypes, ChangeSteps, Doing
  <2>4. CASE ~(change[w].at < Len(ForgetOrder[t])) /\ ~InTransaction(w)
    <3>1. change' = [change EXCEPT ![w].at = @ + 1, ![w].pc = AfterChange(w)]
      BY <2>1, <2>4
    <3> QED BY <3>1, <2>4, <1>0, <1>2 DEF Types, ChangeTypes, ChangeSteps, Doing, AfterChange
  <2> QED BY <2>2, <2>3, <2>4
<1>4. \A x \in Writers : InTransaction(x) => InTransaction(x)'
  BY <1>0 DEF Forget, InTransaction, Types, ChangeTypes, Doing
<1>5. CASE InTransaction(w)
  <2>1. DropAtCommit(w, key)
    BY <1>5 DEF Forget
  <2>2. RequestTypes' /\ OuterSteps' /\ UNCHANGED cache
    BY <2>1, OvertakeTypes DEF DropAtCommit
  <2>3. HeldTypes'
    BY <2>1, <2>2, <1>0, <1>4, <1>5, KeyFacts DEF DropAtCommit, Types, HeldTypes, Stored
  <2> QED BY <2>2, <2>3, <1>1, <1>3 DEF Types
<1>6. CASE ~InTransaction(w)
  <2>1. Drop(key)
    BY <1>6 DEF Forget
  <2>2. HeldTypes'
    BY <2>1, <1>0, <1>4, DropTypes DEF Types, HeldTypes, Stored
  <2> QED BY <2>1, <2>2, <1>0, <1>1, <1>3, DropTypes DEF Types
<1> QED BY <1>5, <1>6

LEMMA ReleaseTypes ==
    ASSUME Types, NEW w \in Writers, Release(w), ChangeTypes',
           \A x \in Writers \ {w} : change'[x] = change[x],
           \A key \in Keys : held[key] # w => cache'[key] = cache[key]
    PROVE  HeldTypes'
<1>1. \A key \in Keys : held'[key] = IF held[key] = w THEN NULL ELSE held[key]
  BY DEF Release
<1>2. held' \in [Keys -> Writers \cup {NULL}]
  BY DEF Release, Types, HeldTypes
<1>3. ASSUME NEW key \in Keys, held'[key] # NULL
      PROVE  Stored(key)' /\ InTransaction(held[key])' /\ held'[key] = held[key]
  BY <1>1, <1>3 DEF Types, HeldTypes, Stored, InTransaction
<1>4. ASSUME NEW key \in Keys, held'[key] # NULL
      PROVE  Stored(key)' /\ InTransaction(held[key])'
  BY <1>3, <1>4
<1> QED BY <1>2, <1>3, <1>4 DEF HeldTypes, InTransaction

LEMMA CommitTypes ==
    ASSUME Types, NEW w \in Writers, Commit(w)
    PROVE  Types'
<1>0. /\ change[w].pc = "open" /\ change[w].table \in Tables
      /\ change[w].kind \in {"transaction", "catalogue"} /\ NoRow \in Values
  BY DEF Commit, Doing, Types, ChangeTypes, ChangeSteps, NoRow, Values
<1>1. VersionTypes'
  BY <1>0 DEF Commit, NewVersion, Types, VersionTypes
<1>2. cache' \in [Keys -> Values] /\ \A key \in Keys : held[key] # w => cache'[key] = cache[key]
  BY <1>0 DEF Commit, Types
<1>3. ChangeTypes' /\ ChangeSteps' /\ \A x \in Writers \ {w} : change'[x] = change[x]
  BY <1>0 DEF Commit, Step, AfterChange, Types, ChangeTypes, ChangeSteps
<1>4. HeldTypes'
  BY <1>2, <1>3, ReleaseTypes DEF Commit
<1>5. RequestTypes' /\ OuterSteps'
  BY OvertakeTypes DEF Commit
<1> QED BY <1>1, <1>2, <1>3, <1>4, <1>5 DEF Types

LEMMA RollbackTypes ==
    ASSUME Types, NEW w \in Writers, Rollback(w)
    PROVE  Types'
<1>1. ChangeTypes' /\ ChangeSteps' /\ \A x \in Writers \ {w} : change'[x] = change[x]
  BY DEF Rollback, Step, Types, ChangeTypes, ChangeSteps
<1>2. HeldTypes'
  BY <1>1, ReleaseTypes DEF Rollback
<1>3. VersionTypes' /\ cache' \in [Keys -> Values] /\ RequestTypes' /\ OuterSteps'
  BY DEF Rollback, Types, VersionTypes, RequestTypes, OuterSteps
<1> QED BY <1>1, <1>2, <1>3 DEF Types

LEMMA ClearCacheTypes ==
    ASSUME Types, NEW w \in Writers, ClearCache(w)
    PROVE  Types'
<1>0. "branches_all" \in Keys /\ Drop("branches_all") /\ change[w].pc = "committed"
  BY KeyFacts DEF ClearCache, Doing
<1>1. ChangeTypes' /\ ChangeSteps'
  BY DEF ClearCache, Step, Types, ChangeTypes, ChangeSteps
<1>2. VersionTypes'
  BY DEF ClearCache, Types, VersionTypes
<1>3. \A x \in Writers : InTransaction(x) => InTransaction(x)'
  BY <1>0 DEF ClearCache, Step, InTransaction, Types, ChangeTypes
<1>4. HeldTypes'
  BY <1>0, <1>3, DropTypes DEF Types, HeldTypes, Stored
<1> QED BY <1>0, <1>1, <1>2, <1>4, DropTypes DEF Types

LEMMA SaveAgainTypes ==
    ASSUME Types, NEW w \in Writers, SaveAgain(w)
    PROVE  Types'
<1>1. ChangeTypes' /\ ChangeSteps'
  BY KeyFacts, OrderFacts DEF SaveAgain, Doing, Types, ChangeTypes, ChangeSteps, Tables
<1>2. \A x \in Writers : InTransaction(x) => InTransaction(x)'
  BY DEF SaveAgain, Doing, InTransaction, Types, ChangeTypes
<1>3. HeldTypes'
  BY <1>2 DEF SaveAgain, Types, HeldTypes, Stored
<1>4. VersionTypes' /\ cache' \in [Keys -> Values] /\ RequestTypes' /\ OuterSteps'
  BY DEF SaveAgain, Types, VersionTypes, RequestTypes, OuterSteps
<1> QED BY <1>1, <1>3, <1>4 DEF Types

LEMMA CrashTypes ==
    ASSUME Types, NEW w \in Writers, Crash(w)
    PROVE  Types'
<1>1. ChangeTypes' /\ ChangeSteps'
  BY DEF Crash, Step, Types, ChangeTypes, ChangeSteps
<1>2. \A x \in Writers : InTransaction(x) => InTransaction(x)'
  BY DEF Crash, Step, Doing, InTransaction, Types, ChangeTypes
<1>3. HeldTypes'
  BY <1>2 DEF Crash, Types, HeldTypes, Stored
<1>4. VersionTypes' /\ cache' \in [Keys -> Values] /\ RequestTypes' /\ OuterSteps'
  BY DEF Crash, Types, VersionTypes, RequestTypes, OuterSteps
<1> QED BY <1>1, <1>3, <1>4 DEF Types

\* What time makes of a value and of a row.
LEMMA OlderTypes ==
    ASSUME Types
    PROVE  /\ \A value \in Values, t \in Tables : Older(value, t) \in Values
           /\ \A key \in Keys : OlderRow(key) \in Values /\ (Stored(key) => OlderRow(key).left # NULL)
<1>1. ASSUME NEW value \in Values, NEW t \in Tables
      PROVE  Older(value, t) \in Values /\ Older(value, t).left = value.left
  BY DEF Older, Values
<1>2. ASSUME NEW key \in Keys
      PROVE  OlderRow(key) \in Values /\ (Stored(key) => OlderRow(key).left # NULL)
  <2>0. cache[key] \in Values /\ Table(key) \in Tables
    BY KeyFacts DEF Types
  <2>1. CASE ~Alive(key)
    <3>1. ~(cache[key].left = 1)
      BY <2>1, KeyFacts DEF Alive, Stored
    <3>2. OlderRow(key) = cache[key]
      BY <2>1, <3>1 DEF OlderRow
    <3> QED BY <3>2, <2>0 DEF Stored
  <2>2. CASE Alive(key) /\ cache[key].left = 1
    <3>1. OlderRow(key) = [NoRow EXCEPT !.left = 0]
      BY <2>2 DEF OlderRow
    <3>2. NoRow \in Values
      BY DEF NoRow, Values
    <3>3. [NoRow EXCEPT !.left = 0] \in Values /\ [NoRow EXCEPT !.left = 0].left = 0
      BY <3>2 DEF Values
    <3> QED BY <3>1, <3>3, KeyFacts
  <2>3. CASE Alive(key) /\ cache[key].left # 1
    <3>1. cache[key].left \in Nat /\ cache[key].left - 1 \in Nat
      BY <2>0, <2>3 DEF Alive, Stored, Values
    <3>2. OlderRow(key) = [Older(cache[key], Table(key)) EXCEPT !.left = @ - 1]
      BY <2>3 DEF OlderRow
    <3>3. Older(cache[key], Table(key)) \in Values /\ Older(cache[key], Table(key)).left = cache[key].left
      BY <2>0, <1>1
    <3>4. OlderRow(key) \in Values
      BY <3>1, <3>2, <3>3 DEF Values
    <3>5. OlderRow(key).left = cache[key].left - 1
      BY <3>2, <3>3 DEF Values
    <3> QED BY <3>1, <3>4, <3>5, KeyFacts
  <2> QED BY <2>1, <2>2, <2>3
<1> QED BY <1>1, <1>2

LEMMA TickTypes ==
    ASSUME Types, Tick
    PROVE  Types'
<1>1. VersionTypes' /\ ChangeTypes' /\ ChangeSteps' /\ UNCHANGED <<held, change>>
  BY DEF Tick, Types, VersionTypes, ChangeTypes, ChangeSteps
<1>2. cache' \in [Keys -> Values] /\ HeldTypes'
  BY <1>1, OlderTypes DEF Tick, Types, HeldTypes, Stored, InTransaction
<1>3. RequestTypes' /\ OuterSteps'
  <2>1. ASSUME NEW r \in Readers
        PROVE  /\ request'[r] \in [pc: Steps, asks: SUBSET Routes, route: Routes, spent: 0..RequestTime,
                                   raced: SUBSET Keys, value: Values]
               /\ request'[r].pc = request[r].pc /\ request'[r].route = request[r].route
    <3>0. /\ request[r].value \in Values /\ Table(In(r)) \in Tables
          /\ Older(request[r].value, Table(In(r))) \in Values
      BY OlderTypes, KeyFacts, RouteFacts DEF Types, RequestTypes, In
    <3>r. request'[r] = OlderRequest(r)
      BY DEF Tick
    <3>1. CASE Idle(r)
      <4>1. request'[r] = request[r]
        BY <3>1, <3>r DEF OlderRequest, At, Idle
      <4> QED BY <4>1 DEF Types, RequestTypes
    <3>2. CASE At(r, "put_inner") \/ At(r, "put_outer")
      <4>1. request'[r] = [request[r] EXCEPT !.spent = @ + 1, !.value = Older(@, Table(In(r)))]
        BY <3>2, <3>r DEF OlderRequest, At, Idle
      <4>2. request[r].spent + 1 \in 0..RequestTime
        <5>1. request[r].spent \in Nat /\ request[r].spent < RequestTime
          BY <3>2, KeyFacts DEF Tick, At, Idle, Types, RequestTypes
        <5> QED BY <5>1, KeyFacts
      <4> QED BY <4>1, <4>2, <3>0 DEF Types, RequestTypes
    <3>3. CASE ~Idle(r) /\ ~At(r, "put_inner") /\ ~At(r, "put_outer")
      <4>1. request'[r] = [request[r] EXCEPT !.spent = @ + 1]
        BY <3>3, <3>r DEF OlderRequest
      <4>2. request[r].spent + 1 \in 0..RequestTime
        <5>1. request[r].spent \in Nat /\ request[r].spent < RequestTime
          BY <3>3, KeyFacts DEF Tick, Types, RequestTypes
        <5> QED BY <5>1, KeyFacts
      <4> QED BY <4>1, <4>2 DEF Types, RequestTypes
    <3> QED BY <3>1, <3>2, <3>3
  <2>2. request' = [r \in Readers |-> OlderRequest(r)] /\ \A r \in Readers : request'[r] = OlderRequest(r)
    BY DEF Tick
  <2> QED BY <2>1, <2>2 DEF Types, RequestTypes, OuterSteps
<1> QED BY <1>1, <1>2, <1>3 DEF Types

LEMMA TypesStep == Types /\ [Next]_vars => Types'
<1> SUFFICES ASSUME Types, [Next]_vars PROVE Types'
  OBVIOUS
<1>1. CASE UNCHANGED vars
  BY <1>1 DEF vars, Types, VersionTypes, HeldTypes, RequestTypes, ChangeTypes, OuterSteps, ChangeSteps,
              Stored, InTransaction
<1>2. ASSUME NEW w \in Writers, BreakDeadlock(w) PROVE Types'
  BY <1>2, RollbackTypes DEF BreakDeadlock
<1> QED
  BY <1>1, <1>2, AskTypes, ServeTypes, SaveTypes, ForgetTypes, CommitTypes, ClearCacheTypes, SaveAgainTypes,
     RollbackTypes, CrashTypes, TickTypes DEF Next, Proceed

\* However requests, changes and time interleave, the rows, the transactions that
\* hold them and the requests that carry values are what the code expects of them.
THEOREM CacheTypeCorrect == Spec => []TypeOK
<1>1. Spec => []Types
  BY TypesInit, TypesStep, PTL DEF Spec
<1> QED BY <1>1, TypesImply, PTL

-----------------------------------------------------------------------------
(* Old rows.  A change owes the forgets it has not made yet.  An old row,  *)
(* and an old value on its way into a row, is overtaken or owed; and what  *)
(* a transaction has forgotten is held by it or was filled behind it.      *)

Owes(w, key) ==
    /\ key \in Forgotten(change[w].table)
    /\ ~InTransaction(w)
    /\ \/ change[w].pc \in {"committed", "crashed"}
       \/ change[w].pc = "forgetting" /\ change[w].at <= Place(key)

Owed(key) == \E w \in Writers : Owes(w, key)

Watched == Forgotten("assets") \cup Forgotten("branches")

Old(key, value) == value.version < announced[Table(key)]

RowsAreOwed ==
    \A key \in Watched : Alive(key) /\ Old(key, cache[key]) => cache[key].raced \/ Owed(key)

ValuesAreOwed ==
    \A r \in Readers : \A key \in Watched \cap Filling(r) :
        request[r].pc \in {"put_inner", "put_outer"} /\ Old(key, request[r].value)
        => request[r].value.raced \/ key \in request[r].raced \/ Owed(key)

GoneAreHeld ==
    \A w \in Writers : \A key \in Gone(w) :
        InTransaction(w) /\ change[w].kind = "transaction" /\ Alive(key)
        => held[key] = w \/ cache[key].raced

Owing == RowsAreOwed /\ ValuesAreOwed /\ GoneAreHeld

LEMMA WatchedFacts ==
    /\ Watched = {"statistics", "initial_data", "branches_all"} /\ Watched \subseteq Keys
    /\ \A t \in Tables : Forgotten(t) \subseteq Watched
    /\ \A key \in Watched : key \in Forgotten(Table(key))
    /\ \A t \in Tables, key \in Watched : key \in Forgotten(t) <=> Table(key) = t
  BY OrderFacts, KeyFacts DEF Watched, Tables, Table

\* Gone of a change as a value, so that it can be asked of the next state too.
GoneOf(c) ==
    {key \in Forgotten(c.table) :
        c.saves > 1 \/ \E i \in 1..(c.at - 1) : ForgetOrder[c.table][i] = key}

LEMMA GoneOfFacts ==
    ASSUME NEW c, c.table \in Tables, c.at \in 1..3, NEW key
    PROVE  key \in GoneOf(c) <=> key \in Forgotten(c.table) /\ (c.saves > 1 \/ Place(key) < c.at)
<1>1. ASSUME key \in Forgotten(c.table)
      PROVE  (\E i \in 1..(c.at - 1) : ForgetOrder[c.table][i] = key) <=> Place(key) < c.at
  <2>1. Place(key) \in 1..Len(ForgetOrder[c.table]) /\ ForgetOrder[c.table][Place(key)] = key
    BY <1>1, OrderFacts
  <2>2. Len(ForgetOrder[c.table]) \in {1, 2}
    BY OrderFacts DEF Tables
  <2>3. CASE Place(key) < c.at
    BY <2>1, <2>2, <2>3
  <2>4. CASE ~(Place(key) < c.at)
    <3>1. ASSUME NEW i \in 1..(c.at - 1) PROVE ForgetOrder[c.table][i] # key
      <4>1. i \in 1..Len(ForgetOrder[c.table]) /\ i # Place(key)
        BY <2>1, <2>2, <2>4
      <4> QED BY <4>1, <1>1, OrderFacts
    <3> QED BY <3>1, <2>4
  <2> QED BY <2>3, <2>4
<1> QED BY <1>1 DEF GoneOf

LEMMA GoneFacts ==
    ASSUME NEW w \in Writers
    PROVE  Gone(w) = GoneOf(change[w]) /\ Gone(w)' = GoneOf(change'[w])
  BY DEF Gone, GoneOf

LEMMA FillingFacts ==
    ASSUME Types, NEW r \in Readers
    PROVE  /\ Filling(r) \subseteq Keys
           /\ request[r].pc = "put_inner" => Filling(r) = {In(r)} \cup OutRows(r)
           /\ request[r].pc = "put_outer" => Filling(r) = OutRows(r)
           /\ request[r].pc \in {"query"} => Filling(r) = {In(r)} \cup OutRows(r)
           /\ request[r].pc \in {"inner"} => Filling(r) = OutRows(r)
  BY RouteFacts DEF Filling, OutRows, In, Out, HasOuter, At, Types, RequestTypes

\* The row around a row is forgotten after it, so what is owed of the one is owed
\* of the other.
LEMMA OuterIsOwed ==
    ASSUME Types, NEW r \in Readers, NEW key \in OutRows(r) \cap Watched
    PROVE  /\ In(r) \in Watched /\ Table(In(r)) = Table(key)
           /\ \A w \in Writers : Owes(w, In(r)) => Owes(w, key)
<1>1. request[r].route \in Routes /\ Inner[request[r].route] = "statistics" /\ key = "initial_data"
  <2>1. request[r].route \in {"initial", "statistics"} /\ key = Outer[request[r].route]
    BY RouteFacts DEF OutRows, HasOuter, Out
  <2>2. Outer["statistics"] = "statistics_response" /\ Inner["initial"] = "statistics"
    BY DEF Outer, Inner
  <2>3. Outer["initial"] = "initial_data"
    BY DEF Outer
  <2> QED BY <2>1, <2>2, <2>3, WatchedFacts, RouteFacts
<1>2. In(r) = "statistics"
  BY <1>1 DEF In
<1>3. \A w \in Writers : change[w].table \in Tables /\ change[w].at \in Nat
  BY DEF Types, ChangeTypes
<1> QED
  BY <1>1, <1>2, <1>3, WatchedFacts, OrderFacts DEF Table, Owes, Place, Tables

LEMMA OwingInit == Init => Owing
<1> SUFFICES ASSUME NEW asks \in [Readers -> SUBSET Routes], NEW plans \in [Writers -> Plans],
                    InitWith(asks, plans)
             PROVE  Owing
  BY DEF Init
<1>1. \A key \in Keys : ~Alive(key)
  BY DEF InitWith, Alive, Stored, NoRow
<1>2. RowsAreOwed /\ GoneAreHeld
  BY <1>1, WatchedFacts DEF RowsAreOwed, GoneAreHeld, InTransaction, InitWith
<1>3. ValuesAreOwed
  BY DEF ValuesAreOwed, InitWith
<1> QED BY <1>2, <1>3 DEF Owing

\* What stays when no change moves.
LEMMA FramedRequest ==
    ASSUME NEW x \in Readers, request'[x] = request[x]
    PROVE  Filling(x)' = Filling(x)
  BY DEF Filling, OutRows, In, Out, HasOuter, At

LEMMA FramedChange ==
    ASSUME UNCHANGED change
    PROVE  \A w \in Writers : /\ InTransaction(w)' = InTransaction(w) /\ Gone(w)' = Gone(w)
                              /\ \A key \in Watched : Owes(w, key)' = Owes(w, key)
  BY DEF InTransaction, Gone, Owes

LEMMA FramedOwed ==
    ASSUME UNCHANGED <<change, announced>>
    PROVE  /\ \A key \in Watched : Owed(key)' = Owed(key)
           /\ \A key \in Watched : \A value : Old(key, value)' = (value.version < announced[Table(key)])
  BY DEF Owed, Owes, InTransaction, Old

\* A step that changes or drops rows but puts none that are older than they say.
LEMMA RowsKeep ==
    ASSUME Types, Types', Owing, UNCHANGED <<announced, held, change>>,
           \A key \in Keys : Alive(key)' =>
              \/ /\ Alive(key)
                 /\ cache'[key].version = cache[key].version /\ cache'[key].raced = cache[key].raced
              \/ /\ key \in Watched /\ Old(key, cache[key])' => cache'[key].raced \/ Owed(key)
                 /\ cache'[key].raced \/ ~Exposed(key)
    PROVE  RowsAreOwed' /\ GoneAreHeld'
<1>1. RowsAreOwed'
  <2> SUFFICES ASSUME NEW key \in Watched, Alive(key)', Old(key, cache[key])'
               PROVE  cache'[key].raced \/ Owed(key)'
    BY DEF RowsAreOwed
  <2>1. key \in Keys
    BY WatchedFacts
  <2>2. Owed(key)' = Owed(key)
    BY FramedOwed
  <2> QED BY <2>1, <2>2 DEF Owing, RowsAreOwed, Old
<1>2. GoneAreHeld'
  <2> SUFFICES ASSUME NEW w \in Writers, NEW key \in Gone(w)',
                      InTransaction(w)', change'[w].kind = "transaction", Alive(key)'
               PROVE  held'[key] = w \/ cache'[key].raced
    BY DEF GoneAreHeld
  <2>1. key \in Gone(w) /\ InTransaction(w) /\ change[w].kind = "transaction"
    BY FramedChange
  <2>2. key \in Keys
    BY <2>1, OrderFacts DEF Gone, Types, ChangeTypes
  <2>3. Exposed(key)
    BY <2>1 DEF Exposed
  <2> QED BY <2>1, <2>2, <2>3 DEF Owing, GoneAreHeld
<1> QED BY <1>1, <1>2

LEMMA MissKeeps ==
    ASSUME Types, Types', Owing, NEW key \in Keys, Miss(key), UNCHANGED <<announced, held, change>>
    PROVE  RowsAreOwed' /\ GoneAreHeld'
<1>1. \A k \in Keys : cache'[k] = IF k = key THEN NoRow ELSE cache[k]
  BY DEF Miss, Types
<1>2. \A k \in Keys : Alive(k)' =>
          /\ Alive(k)
          /\ cache'[k].version = cache[k].version /\ cache'[k].raced = cache[k].raced
  BY <1>1 DEF Alive, Stored, NoRow
<1> QED BY <1>2, RowsKeep

LEMMA SameRowsKeep ==
    ASSUME Types, Types', Owing, UNCHANGED <<announced, held, change, cache>>
    PROVE  RowsAreOwed' /\ GoneAreHeld'
<1>1. \A k \in Keys : Alive(k)' =>
          /\ Alive(k)
          /\ cache'[k].version = cache[k].version /\ cache'[k].raced = cache[k].raced
  BY DEF Alive, Stored
<1> QED BY <1>1, RowsKeep

LEMMA PutKeeps ==
    ASSUME Types, Types', Owing, NEW key \in Keys, NEW value \in Values, NEW raced \in BOOLEAN,
           Put(key, value, raced), UNCHANGED <<announced, held, change>>,
           Exposed(key) => raced,
           key \in Watched /\ Old(key, value) => value.raced \/ raced \/ Owed(key)
    PROVE  RowsAreOwed' /\ GoneAreHeld'
<1> DEFINE row == [value EXCEPT !.left = Ttl[key], !.raced = @ \/ raced]
<1>1. \A k \in Keys : cache'[k] = IF k = key THEN row ELSE cache[k]
  BY DEF Put, Types
<1>2. row.version = value.version /\ row.raced = (value.raced \/ raced)
  BY DEF Values
<1>3. \A k \in Keys : Alive(k)' =>
          \/ /\ Alive(k)
             /\ cache'[k].version = cache[k].version /\ cache'[k].raced = cache[k].raced
          \/ /\ k \in Watched /\ Old(k, cache[k])' => cache'[k].raced \/ Owed(k)
             /\ cache'[k].raced \/ ~Exposed(k)
  <2> SUFFICES ASSUME NEW k \in Keys, Alive(k)'
               PROVE  \/ /\ Alive(k)
                         /\ cache'[k].version = cache[k].version /\ cache'[k].raced = cache[k].raced
                      \/ /\ k \in Watched /\ Old(k, cache[k])' => cache'[k].raced \/ Owed(k)
                         /\ cache'[k].raced \/ ~Exposed(k)
    OBVIOUS
  <2>1. CASE k # key
    BY <2>1, <1>1 DEF Alive, Stored
  <2>2. CASE k = key
    <3>1. cache'[k] = row
      BY <2>2, <1>1
    <3> QED BY <2>2, <3>1, <1>2 DEF Old
  <2> QED BY <2>1, <2>2
<1> QED BY <1>3, RowsKeep

\* A request that moves on concerns no other.
LEMMA ValuesKeep ==
    ASSUME Types, Owing, NEW r \in Readers, UNCHANGED <<announced, change>>,
           \A x \in Readers \ {r} : request'[x] = request[x],
           \/ request'[r].pc \notin {"put_inner", "put_outer"}
           \/ \A key \in Watched \cap Filling(r)' :
                 Old(key, request[r].value)' =>
                    request'[r].value.raced \/ key \in request'[r].raced \/ Owed(key)
    PROVE  ValuesAreOwed'
<1> SUFFICES ASSUME NEW x \in Readers, NEW key \in Watched \cap Filling(x)',
                    request'[x].pc \in {"put_inner", "put_outer"}, Old(key, request[x].value)'
             PROVE  request'[x].value.raced \/ key \in request'[x].raced \/ Owed(key)'
  BY DEF ValuesAreOwed
<1>1. Owed(key)' = Owed(key)
  BY FramedOwed
<1>2. CASE x = r
  BY <1>1, <1>2
<1>3. CASE x # r
  <2>1. request'[x] = request[x] /\ Filling(x)' = Filling(x)
    BY <1>3, FramedRequest
  <2> QED BY <2>1, <1>1 DEF Owing, ValuesAreOwed, Old
<1> QED BY <1>2, <1>3

LEMMA FillingNext ==
    ASSUME NEW r \in Readers, request'[r].route = request[r].route
    PROVE  /\ request'[r].pc = "put_inner" => Filling(r)' = {In(r)} \cup OutRows(r)
           /\ request'[r].pc = "put_outer" => Filling(r)' = OutRows(r)
  BY DEF Filling, OutRows, In, Out, HasOuter, At

LEMMA CarryFacts ==
    ASSUME Types, NEW r \in Readers, NEW step, NEW value, Carry(r, step, value)
    PROVE  /\ request'[r].pc = step /\ request'[r].value = value
           /\ request'[r].route = request[r].route /\ request'[r].raced = request[r].raced
           /\ request'[r].spent = request[r].spent
           /\ \A x \in Readers \ {r} : request'[x] = request[x]
  BY DEF Carry, Types, RequestTypes

LEMMA GoFacts ==
    ASSUME Types, NEW r \in Readers, NEW step, Go(r, step)
    PROVE  /\ request'[r].pc = step /\ request'[r].value = request[r].value
           /\ request'[r].route = request[r].route
           /\ \A x \in Readers \ {r} : request'[x] = request[x]
  BY DEF Go, Types, RequestTypes

LEMMA ServeOwing ==
    ASSUME Types, Types', Owing, NEW r \in Readers, Serve(r)
    PROVE  Owing'
<1>0. UNCHANGED <<data, announced, held, change>> /\ In(r) \in Keys
  BY RouteFacts DEF Serve, LookOuter, Take, LookInner, Query, QueryFails, PutInner, PutOuter, Types, RequestTypes, In
<1>1. ASSUME request'[r].pc = "put_outer", request'[r].route = request[r].route, In(r) \in Watched =>
             (Old(In(r), request'[r].value) =>
                request'[r].value.raced \/ Owed(In(r)))
      PROVE  \A key \in Watched \cap Filling(r)' :
                 Old(key, request[r].value)' =>
                    request'[r].value.raced \/ key \in request'[r].raced \/ Owed(key)
  <2> SUFFICES ASSUME NEW key \in Watched \cap OutRows(r), Old(key, request'[r].value)
               PROVE  request'[r].value.raced \/ Owed(key)
    BY <1>0, <1>1, FillingNext DEF Old
  <2>1. In(r) \in Watched /\ Table(In(r)) = Table(key)
    BY OuterIsOwed
  <2>2. Owed(In(r)) => Owed(key)
    BY OuterIsOwed DEF Owed
  <2> QED BY <2>1, <2>2, <1>1 DEF Old
<1>2. CASE LookOuter(r)
  <2>1. Out(r) \in Keys
    BY <1>2, RouteFacts DEF LookOuter, At, Out, Types, OuterSteps
  <2>2. request'[r].pc \notin {"put_inner", "put_outer"} /\ \A x \in Readers \ {r} : request'[x] = request[x]
    BY <1>2, GoFacts, CarryFacts DEF LookOuter
  <2>3. UNCHANGED cache \/ Miss(Out(r))
    BY <1>2 DEF LookOuter
  <2> QED BY <2>1, <2>2, <2>3, <1>0, MissKeeps, SameRowsKeep, ValuesKeep DEF Owing
<1>3. CASE Take(r)
  <2>1. Out(r) \in Keys
    BY <1>3, RouteFacts DEF Take, At, Out, Types, OuterSteps
  <2>2. request'[r].pc \notin {"put_inner", "put_outer"} /\ \A x \in Readers \ {r} : request'[x] = request[x]
    BY <1>3, GoFacts, CarryFacts DEF Take
  <2>3. UNCHANGED cache \/ Miss(Out(r))
    BY <1>3 DEF Take
  <2> QED BY <2>1, <2>2, <2>3, <1>0, MissKeeps, SameRowsKeep, ValuesKeep DEF Owing
<1>4. CASE LookInner(r)
  <2>1. CASE Miss(In(r)) /\ Go(r, "query")
    BY <2>1, <1>0, GoFacts, MissKeeps, ValuesKeep DEF Owing
  <2>2. CASE Alive(In(r)) /\ Carry(r, AfterInner(r), cache[In(r)]) /\ UNCHANGED cache
    <3>1. /\ request'[r].pc = AfterInner(r) /\ request'[r].value = cache[In(r)]
          /\ request'[r].route = request[r].route
          /\ \A x \in Readers \ {r} : request'[x] = request[x]
      BY <2>2, CarryFacts
    <3>2. AfterInner(r) \in {"put_outer", "answered"}
      BY DEF AfterInner
    <3>3. In(r) \in Watched => (Old(In(r), cache[In(r)]) => cache[In(r)].raced \/ Owed(In(r)))
      BY <2>2 DEF Owing, RowsAreOwed
    <3> QED BY <2>2, <3>1, <3>2, <3>3, <1>0, <1>1, SameRowsKeep, ValuesKeep DEF Owing
  <2> QED BY <1>4, <2>1, <2>2 DEF LookInner
<1>5. CASE Query(r)
  <2>1. /\ Carry(r, "put_inner", [NoRow EXCEPT !.version = data[Table(In(r))]]) /\ UNCHANGED cache
    BY <1>5 DEF Query
  <2>2. NoRow \in Values
    BY DEF NoRow, Values
  <2>3. /\ request'[r].pc = "put_inner" /\ request'[r].value.version = data[Table(In(r))]
        /\ request'[r].route = request[r].route
        /\ \A x \in Readers \ {r} : request'[x] = request[x]
    BY <2>1, <2>2, CarryFacts DEF Values
  <2>4. Table(In(r)) \in Tables /\ ~(data[Table(In(r))] < announced[Table(In(r))])
    BY <1>0, KeyFacts DEF Types, VersionTypes
  <2>5. ASSUME NEW key \in Watched \cap Filling(r)' PROVE ~Old(key, request[r].value)'
    <3>1. key = In(r) \/ key \in OutRows(r)
      BY <2>3, FillingNext
    <3>2. Table(key) = Table(In(r))
      BY <3>1, OuterIsOwed
    <3> QED BY <3>2, <2>3, <2>4, <1>0 DEF Old
  <2> QED BY <2>1, <2>3, <2>5, <1>0, SameRowsKeep, ValuesKeep DEF Owing
<1>6. CASE QueryFails(r)
  BY <1>6, <1>0, GoFacts, SameRowsKeep, ValuesKeep DEF QueryFails, Owing
<1>7. CASE PutInner(r)
  <2> DEFINE raced == Raced(r, In(r))
             value == request[r].value
  <2>0. value \in Values /\ raced \in BOOLEAN
    BY DEF Types, RequestTypes, Raced, Exposed
  <2>1. Put(In(r), value, raced) /\ Carry(r, AfterInner(r), [value EXCEPT !.raced = @ \/ raced])
    BY <1>7 DEF PutInner
  <2>2. /\ request'[r].pc = AfterInner(r) /\ request'[r].value = [value EXCEPT !.raced = @ \/ raced]
        /\ request'[r].route = request[r].route
        /\ \A x \in Readers \ {r} : request'[x] = request[x]
    BY <2>1, CarryFacts
  <2>3. request'[r].value.version = value.version /\ request'[r].value.raced = (value.raced \/ raced)
    BY <2>0, <2>2 DEF Values
  <2>4. In(r) \in Watched /\ Old(In(r), value) => value.raced \/ raced \/ Owed(In(r))
    <3>1. In(r) \in Filling(r) /\ request[r].pc = "put_inner"
      BY <1>7, FillingFacts DEF PutInner, At
    <3> QED BY <3>1 DEF Owing, ValuesAreOwed, Raced
  <2>5. AfterInner(r) \in {"put_outer", "answered"} /\ (Exposed(In(r)) => raced)
    BY DEF AfterInner, Raced
  <2>6. RowsAreOwed' /\ GoneAreHeld'
    BY <2>0, <2>1, <2>4, <2>5, <1>0, PutKeeps
  <2>7. ValuesAreOwed'
    BY <2>2, <2>3, <2>4, <2>5, <1>0, <1>1, ValuesKeep DEF Old
  <2> QED BY <2>6, <2>7 DEF Owing
<1>8. CASE PutOuter(r)
  <2> DEFINE raced == Raced(r, Out(r))
             value == request[r].value
  <2>0. value \in Values /\ raced \in BOOLEAN /\ Out(r) \in Keys /\ HasOuter(r) /\ request[r].pc = "put_outer"
    BY <1>8, RouteFacts DEF Types, RequestTypes, OuterSteps, Raced, Exposed, PutOuter, At, HasOuter, Out
  <2>1. Put(Out(r), value, raced) /\ Go(r, "answered")
    BY <1>8 DEF PutOuter
  <2>2. Out(r) \in Watched /\ Old(Out(r), value) => value.raced \/ raced \/ Owed(Out(r))
    BY <2>0, FillingFacts DEF Owing, ValuesAreOwed, Raced, OutRows
  <2>3. RowsAreOwed' /\ GoneAreHeld'
    BY <2>0, <2>1, <2>2, <1>0, PutKeeps DEF Raced
  <2>4. ValuesAreOwed'
    BY <2>1, <1>0, GoFacts, ValuesKeep
  <2> QED BY <2>3, <2>4 DEF Owing
<1> QED
  BY <1>2, <1>3, <1>4, <1>5, <1>6, <1>7, <1>8 DEF Serve

LEMMA AskOwing ==
    ASSUME Types, Types', Owing, NEW r \in Readers, NEW route \in Routes, Ask(r, route)
    PROVE  Owing'
<1>1. UNCHANGED <<announced, held, change, cache>> /\ \A x \in Readers \ {r} : request'[x] = request[x]
  BY DEF Ask, Types, RequestTypes
<1>2. request'[r].pc \notin {"put_inner", "put_outer"}
  BY DEF Ask, Types, RequestTypes
<1> QED BY <1>1, <1>2, SameRowsKeep, ValuesKeep DEF Owing

\* What a tick leaves of a row that does not expire with it.
LEMMA TickRow ==
    ASSUME Types, Tick, NEW key \in Keys, Alive(key)'
    PROVE  /\ Alive(key) /\ cache[key].left \in Nat /\ cache'[key].left = cache[key].left - 1
           /\ cache'[key].version = cache[key].version /\ cache'[key].raced = cache[key].raced
           /\ cache[key].late \in Nat /\ cache'[key].late \in {cache[key].late, cache[key].late + 1}
<1>0. cache'[key] = OlderRow(key) /\ cache[key] \in Values /\ Table(key) \in Tables
  BY KeyFacts DEF Tick, Types
<1>1. Alive(key)
  <2>1. CASE ~Alive(key)
    <3>1. ~(cache[key].left = 1)
      BY <2>1, KeyFacts DEF Alive, Stored
    <3> QED BY <2>1, <3>1, <1>0 DEF OlderRow, Alive, Stored
  <2> QED BY <2>1
<1>2. cache[key].left # 1
  <2>1. CASE cache[key].left = 1
    <3>1. cache'[key] = [NoRow EXCEPT !.left = 0] /\ NoRow \in Values
      BY <2>1, <1>0, <1>1 DEF OlderRow, NoRow, Values
    <3>2. cache'[key].left = 0
      BY <3>1 DEF Values
    <3> QED BY <3>2 DEF Alive
  <2> QED BY <2>1
<1>3. cache'[key] = [Older(cache[key], Table(key)) EXCEPT !.left = @ - 1]
  BY <1>0, <1>1, <1>2 DEF OlderRow
<1>4. /\ Older(cache[key], Table(key)) \in Values
      /\ Older(cache[key], Table(key)).version = cache[key].version
      /\ Older(cache[key], Table(key)).raced = cache[key].raced
      /\ Older(cache[key], Table(key)).left = cache[key].left
      /\ Older(cache[key], Table(key)).late \in {cache[key].late, cache[key].late + 1}
  BY <1>0, OlderTypes DEF Older, Values
<1>5. cache[key].left \in Nat /\ cache[key].late \in Nat
  BY <1>0, <1>1 DEF Alive, Stored, Values
<1> QED BY <1>1, <1>3, <1>4, <1>5 DEF Values

\* What a tick leaves of a request.
LEMMA TickRequest ==
    ASSUME Types, Tick, NEW r \in Readers
    PROVE  /\ request'[r].pc = request[r].pc /\ request'[r].route = request[r].route
           /\ request'[r].raced = request[r].raced
           /\ request'[r].value.version = request[r].value.version
           /\ request'[r].value.raced = request[r].value.raced
           /\ Idle(r) => request'[r] = request[r]
           /\ At(r, "put_inner") \/ At(r, "put_outer") =>
                 /\ request[r].value.late \in Nat /\ request[r].spent \in Nat
                 /\ request'[r].spent = request[r].spent + 1
                 /\ request'[r].value.late \in {request[r].value.late, request[r].value.late + 1}
<1>0. request'[r] = OlderRequest(r) /\ request[r].value \in Values /\ Table(In(r)) \in Tables
  BY KeyFacts, RouteFacts DEF Tick, Types, RequestTypes, In
<1>1. CASE Idle(r)
  <2>1. request'[r] = request[r]
    BY <1>0, <1>1 DEF OlderRequest, Idle, At
  <2> QED BY <2>1, <1>1 DEF Idle, At
<1>2. CASE At(r, "put_inner") \/ At(r, "put_outer")
  <2>1. request'[r] = [request[r] EXCEPT !.spent = @ + 1, !.value = Older(@, Table(In(r)))]
    BY <1>0, <1>2 DEF OlderRequest, Idle, At
  <2>2. /\ Older(request[r].value, Table(In(r))).version = request[r].value.version
        /\ Older(request[r].value, Table(In(r))).raced = request[r].value.raced
        /\ Older(request[r].value, Table(In(r))).late \in {request[r].value.late, request[r].value.late + 1}
        /\ request[r].value.late \in Nat
    BY <1>0 DEF Older, Values
  <2>3. ~Idle(r)
    BY <1>2 DEF At, Idle
  <2> QED BY <2>1, <2>2, <2>3 DEF Types, RequestTypes
<1>3. CASE ~Idle(r) /\ ~At(r, "put_inner") /\ ~At(r, "put_outer")
  <2>1. request'[r] = [request[r] EXCEPT !.spent = @ + 1]
    BY <1>0, <1>3 DEF OlderRequest
  <2> QED BY <2>1, <1>3 DEF Types, RequestTypes
<1> QED BY <1>1, <1>2, <1>3

LEMMA TickOwing ==
    ASSUME Types, Types', Owing, Tick
    PROVE  Owing'
<1>0. UNCHANGED <<announced, held, change>>
  BY DEF Tick
<1>1. ASSUME NEW key \in Keys, Alive(key)'
      PROVE  Alive(key) /\ cache'[key].version = cache[key].version /\ cache'[key].raced = cache[key].raced
  BY <1>1, TickRow
<1>2. RowsAreOwed' /\ GoneAreHeld'
  BY <1>0, <1>1, RowsKeep
<1>3. ASSUME NEW r \in Readers
      PROVE  /\ request'[r].pc = request[r].pc /\ request'[r].route = request[r].route
             /\ request'[r].raced = request[r].raced
             /\ request'[r].value.version = request[r].value.version
             /\ request'[r].value.raced = request[r].value.raced
  BY TickRequest
<1>4. \A r \in Readers : Filling(r)' = Filling(r)
  BY <1>3 DEF Filling, OutRows, In, Out, HasOuter, At
<1>5. ValuesAreOwed'
  BY <1>0, <1>3, <1>4, FramedOwed DEF Owing, ValuesAreOwed, Old
<1> QED BY <1>2, <1>5 DEF Owing

\* The other changes stay where they are.
LEMMA OthersOwe ==
    ASSUME NEW x \in Writers, change'[x] = change[x]
    PROVE  /\ InTransaction(x)' = InTransaction(x) /\ Gone(x)' = Gone(x)
           /\ \A key \in Watched : Owes(x, key)' = Owes(x, key)
  BY DEF InTransaction, Gone, Owes

LEMMA OvertakeFacts ==
    ASSUME Types, NEW keys, Overtake(keys), NEW r \in Readers
    PROVE  /\ request'[r].pc = request[r].pc /\ request'[r].value = request[r].value
           /\ request'[r].route = request[r].route /\ request'[r].spent = request[r].spent
           /\ Filling(r)' = Filling(r)
           /\ request'[r].raced = request[r].raced \cup (keys \cap Filling(r))
<1>1. request'[r] = [request[r] EXCEPT !.raced = @ \cup (keys \cap Filling(r))]
  BY DEF Overtake
<1>2. /\ request'[r].pc = request[r].pc /\ request'[r].value = request[r].value
      /\ request'[r].route = request[r].route /\ request'[r].spent = request[r].spent
      /\ request'[r].raced = request[r].raced \cup (keys \cap Filling(r))
  BY <1>1 DEF Types, RequestTypes
<1> QED BY <1>2 DEF Filling, OutRows, In, Out, HasOuter, At

\* A step of one change: old rows and values that it drops or overtakes matter no
\* more; the others must still be owed, and what other transactions hold stay held.
LEMMA ChangeKeeps ==
    ASSUME Types, Types', Owing, NEW w \in Writers, \A x \in Writers \ {w} : change'[x] = change[x],
           NEW gone \in SUBSET Keys,
           \A key \in Keys : cache'[key] = cache[key] \/ ~Alive(key)',
           \A key \in gone \cap Watched : Alive(key)' => cache[key].raced,
           \A r \in Readers : /\ request'[r].pc = request[r].pc /\ request'[r].value = request[r].value
                              /\ Filling(r)' = Filling(r) /\ request[r].raced \subseteq request'[r].raced
                              /\ gone \cap Filling(r) \subseteq request'[r].raced,
           \A key \in Watched \ gone :
              Owes(w, key)' \/ (announced'[Table(key)] = announced[Table(key)] /\ ~Owes(w, key)),
           \A key \in Keys, x \in Writers \ {w} : held[key] = x /\ Alive(key)' => held'[key] = x,
           \A key \in Gone(w)' : InTransaction(w)' /\ change'[w].kind = "transaction" /\ Alive(key)'
                                => held'[key] = w \/ cache'[key].raced
    PROVE  Owing'
<1>0. \A x \in Writers \ {w} : /\ InTransaction(x)' = InTransaction(x) /\ Gone(x)' = Gone(x)
                               /\ \A key \in Watched : Owes(x, key)' = Owes(x, key)
  BY OthersOwe
<1>1. \A key \in Keys : Alive(key)' => cache'[key] = cache[key] /\ Alive(key)
  BY DEF Alive, Stored
<1>2. ASSUME NEW key \in Watched \ gone
      PROVE  Owed(key)' \/ (announced'[Table(key)] = announced[Table(key)] /\ (Owed(key) => Owed(key)'))
  <2>1. CASE Owes(w, key)'
    BY <2>1 DEF Owed
  <2>2. CASE announced'[Table(key)] = announced[Table(key)] /\ ~Owes(w, key)
    <3>1. ASSUME NEW x \in Writers, Owes(x, key) PROVE Owes(x, key)'
      BY <2>2, <3>1, <1>0
    <3> QED BY <2>2, <3>1 DEF Owed
  <2> QED BY <2>1, <2>2
<1>3. RowsAreOwed'
  <2> SUFFICES ASSUME NEW key \in Watched, Alive(key)', Old(key, cache[key])'
               PROVE  cache'[key].raced \/ Owed(key)'
    BY DEF RowsAreOwed
  <2>1. cache'[key] = cache[key] /\ Alive(key)
    BY <1>1, WatchedFacts
  <2>2. CASE key \in gone
    BY <2>1, <2>2
  <2>3. CASE key \notin gone
    BY <2>1, <2>3, <1>2 DEF Owing, RowsAreOwed, Old
  <2> QED BY <2>2, <2>3
<1>4. ValuesAreOwed'
  <2> SUFFICES ASSUME NEW r \in Readers, NEW key \in Watched \cap Filling(r)',
                      request'[r].pc \in {"put_inner", "put_outer"}, Old(key, request[r].value)'
               PROVE  request'[r].value.raced \/ key \in request'[r].raced \/ Owed(key)'
    BY DEF ValuesAreOwed
  <2>1. CASE key \in gone
    BY <2>1
  <2>2. CASE key \notin gone
    BY <2>2, <1>2 DEF Owing, ValuesAreOwed, Old
  <2> QED BY <2>1, <2>2
<1>5. GoneAreHeld'
  <2> SUFFICES ASSUME NEW x \in Writers, NEW key \in Gone(x)',
                      InTransaction(x)', change'[x].kind = "transaction", Alive(key)'
               PROVE  held'[key] = x \/ cache'[key].raced
    BY DEF GoneAreHeld
  <2>1. CASE x = w
    BY <2>1
  <2>2. CASE x # w
    <3>1. key \in Gone(x) /\ InTransaction(x) /\ change[x].kind = "transaction"
      BY <2>2, <1>0
    <3>2. key \in Keys
      BY <3>1, OrderFacts DEF Gone, Types, ChangeTypes
    <3> QED BY <2>2, <3>1, <3>2, <1>1 DEF Owing, GoneAreHeld
  <2> QED BY <2>1, <2>2
<1> QED BY <1>3, <1>4, <1>5 DEF Owing

LEMMA SaveOwing ==
    ASSUME Types, Types', Owing, NEW w \in Writers, Save(w)
    PROVE  Owing'
<1>0. /\ UNCHANGED <<cache, held, request>> /\ \A x \in Writers \ {w} : change'[x] = change[x]
      /\ \A key \in Keys : Alive(key)' = Alive(key)
      /\ \A r \in Readers : Filling(r)' = Filling(r)
  BY FramedRequest DEF Save, Types, ChangeTypes, Alive, Stored
<1>1. /\ change[w].pc = "idle" /\ change'[w].at = 1 /\ change'[w].saves = 1
      /\ change'[w].kind = change[w].kind /\ change'[w].table = change[w].table /\ change[w].table \in Tables
      /\ change'[w].pc = IF change[w].kind = "unobserved" THEN "done" ELSE "forgetting"
  BY DEF Save, Doing, Types, ChangeTypes, ChangeSteps
<1>2. \A key \in Watched : ~Owes(w, key)
  BY <1>1 DEF Owes
<1>3. ASSUME NEW key \in Watched
      PROVE  Owes(w, key)' \/ announced'[Table(key)] = announced[Table(key)]
  <2>1. CASE change[w].kind = "plain" /\ Table(key) = change[w].table
    <3>1. key \in Forgotten(change'[w].table) /\ 1 <= Place(key)
      BY <2>1, <1>1, WatchedFacts DEF Place
    <3> QED BY <2>1, <3>1, <1>1 DEF Owes, InTransaction
  <2>2. CASE change[w].kind = "plain" /\ Table(key) # change[w].table
    BY <2>2, WatchedFacts, KeyFacts DEF Save, NewVersion, Types, VersionTypes
  <2>3. CASE change[w].kind # "plain"
    <3>1. announced' = announced
      BY <2>3 DEF Save, NewVersion
    <3> QED BY <3>1
  <2> QED BY <2>1, <2>2, <2>3
<1>4. Gone(w)' = {}
  <2>1. ASSUME NEW key \in Gone(w)' PROVE FALSE
    BY <2>1, <1>1, GoneFacts, GoneOfFacts DEF Place, GoneOf
  <2> QED BY <2>1
<1> QED
  BY <1>0, <1>2, <1>3, <1>4, ChangeKeeps

LEMMA ForgetOwing ==
    ASSUME Types, Types', Owing, NEW w \in Writers, Forget(w)
    PROVE  Owing'
<1>k. PICK t, key : t = change[w].table /\ key = ForgetOrder[change[w].table][change[w].at]
  OBVIOUS
<1>0. /\ change[w].pc = "forgetting" /\ t \in Tables /\ key \in Keys /\ key \in Forgotten(t)
      /\ change[w].at \in 1..Len(ForgetOrder[t]) /\ change[w].at = Place(key)
      /\ \A k \in Forgotten(t) : k # key => Place(k) # change[w].at /\ Place(k) \in 1..Len(ForgetOrder[t])
  BY <1>k, NextKey, OrderFacts DEF Forget, Doing
<1>1. /\ change'[w].at = change[w].at + 1 /\ change'[w].saves = change[w].saves
      /\ change'[w].kind = change[w].kind /\ change'[w].table = t
      /\ \A x \in Writers \ {w} : change'[x] = change[x]
      /\ UNCHANGED announced
      /\ change'[w].pc = IF change[w].at < Len(ForgetOrder[t]) THEN "forgetting"
                         ELSE IF InTransaction(w) THEN "open" ELSE AfterChange(w)
  BY <1>k DEF Forget, Types, ChangeTypes
<1>2. CASE InTransaction(w)
  <2>1. DropAtCommit(w, key)
    BY <1>k, <1>2 DEF Forget
  <2>2. UNCHANGED cache /\ \A k \in Keys : Alive(k)' = Alive(k)
    BY <2>1 DEF DropAtCommit, Alive, Stored
  <2>3. \A r \in Readers : /\ request'[r].pc = request[r].pc /\ request'[r].value = request[r].value
                           /\ Filling(r)' = Filling(r) /\ request[r].raced \subseteq request'[r].raced
    BY <2>1, OvertakeFacts DEF DropAtCommit
  <2>4. \A k \in Keys : held'[k] = IF k = key /\ Stored(key) THEN w ELSE held[k]
    BY <2>1, <1>0 DEF DropAtCommit, Types, HeldTypes
  <2>5. \A k \in Keys, x \in Writers \ {w} : held[k] = x /\ Alive(k)' => held'[k] = x
    BY <2>1, <2>2, <2>4, KeyFacts DEF DropAtCommit, Free, Alive
  <2>6. ASSUME NEW k \in Gone(w)', InTransaction(w)', change'[w].kind = "transaction", Alive(k)'
        PROVE  held'[k] = w \/ cache'[k].raced
    <3>1. k \in Forgotten(t) /\ (change[w].saves > 1 \/ Place(k) < change[w].at + 1)
      BY <1>0, <1>1, GoneFacts, GoneOfFacts DEF Types, ChangeTypes
    <3>2. CASE k = key
      BY <3>2, <2>2, <2>4, <2>6, <1>0 DEF Alive
    <3>3. CASE k # key
      <4>1. k \in Gone(w)
        <5>1. Place(k) # change[w].at /\ Place(k) \in {1, 2} /\ change[w].at \in 1..3
          BY <3>1, <3>3, <1>0 DEF Place, Types, ChangeTypes
        <5>2. change[w].saves > 1 \/ Place(k) < change[w].at
          BY <3>1, <5>1
        <5>3. k \in Forgotten(change[w].table) /\ change[w].table \in Tables
          BY <3>1, <1>0, <1>k
        <5> QED BY <5>1, <5>2, <5>3, GoneFacts, GoneOfFacts
      <4>2. k \in Keys
        BY <3>1, <1>0, OrderFacts
      <4> QED BY <4>1, <4>2, <3>3, <2>2, <2>4, <2>6, <1>1, <1>2 DEF Owing, GoneAreHeld
    <3> QED BY <3>2, <3>3
  <2>7. \A k \in Watched : ~Owes(w, k)
    BY <1>2 DEF Owes
  <2>e. PICK none : none = {}
    OBVIOUS
  <2>8. /\ none \in SUBSET Keys /\ \A k \in Keys : cache'[k] = cache[k] \/ ~Alive(k)'
        /\ \A k \in none \cap Watched : Alive(k)' => cache[k].raced
    BY <2>2, <2>e
  <2>9. \A r \in Readers : /\ request'[r].pc = request[r].pc /\ request'[r].value = request[r].value
                           /\ Filling(r)' = Filling(r) /\ request[r].raced \subseteq request'[r].raced
                           /\ none \cap Filling(r) \subseteq request'[r].raced
    BY <2>3, <2>e
  <2>10. \A k \in Watched \ none :
            Owes(w, k)' \/ (announced'[Table(k)] = announced[Table(k)] /\ ~Owes(w, k))
    BY <2>7, <1>1
  <2>11. \A k \in Gone(w)' : InTransaction(w)' /\ change'[w].kind = "transaction" /\ Alive(k)'
                             => held'[k] = w \/ cache'[k].raced
    BY <2>6
  <2> QED BY <1>1, <2>5, <2>8, <2>9, <2>10, <2>11, ChangeKeeps
<1>3. CASE ~InTransaction(w)
  <2>1. Drop(key)
    BY <1>k, <1>3 DEF Forget
  <2>2. held' = held /\ \A k \in Keys : cache'[k] = IF k = key THEN NoRow ELSE cache[k]
    BY <2>1, <1>0, DropTypes
  <2>3. ~Alive(key)' /\ \A k \in Keys : cache'[k] = cache[k] \/ ~Alive(k)'
    BY <2>2, <1>0 DEF Alive, Stored, NoRow
  <2>4. \A r \in Readers : /\ request'[r].pc = request[r].pc /\ request'[r].value = request[r].value
                           /\ Filling(r)' = Filling(r) /\ request[r].raced \subseteq request'[r].raced
                           /\ {key} \cap Filling(r) \subseteq request'[r].raced
    BY <2>1, OvertakeFacts DEF Drop
  <2>5. ~InTransaction(w)'
    BY <1>0, <1>1, <1>3 DEF InTransaction, AfterChange
  <2>6. ASSUME NEW k \in Watched \ {key}, Owes(w, k)
        PROVE  Owes(w, k)'
    <3>1. k \in Forgotten(t) /\ change[w].at <= Place(k)
      BY <2>6, <1>0, <1>k DEF Owes
    <3>2. Place(k) # change[w].at /\ Place(k) \in 1..Len(ForgetOrder[t])
      BY <3>1, <2>6, <1>0
    <3>3. change[w].at < Len(ForgetOrder[t]) /\ change[w].at + 1 <= Place(k)
      BY <3>1, <3>2, <1>0, OrderFacts DEF Tables
    <3>4. change'[w].pc = "forgetting" /\ change'[w].at <= Place(k)
      BY <3>3, <1>1
    <3> QED BY <3>1, <3>4, <2>5, <1>1 DEF Owes
  <2>7. {key} \in SUBSET Keys /\ \A k \in {key} \cap Watched : Alive(k)' => cache[k].raced
    BY <1>0, <2>3
  <2>8. \A k \in Watched \ {key} :
            Owes(w, k)' \/ (announced'[Table(k)] = announced[Table(k)] /\ ~Owes(w, k))
    BY <2>6, <1>1
  <2>9. \A k \in Keys, x \in Writers \ {w} : held[k] = x /\ Alive(k)' => held'[k] = x
    BY <2>2
  <2>10. \A k \in Gone(w)' : InTransaction(w)' /\ change'[w].kind = "transaction" /\ Alive(k)'
                             => held'[k] = w \/ cache'[k].raced
    BY <2>5
  <2> QED BY <1>1, <2>3, <2>4, <2>7, <2>8, <2>9, <2>10, ChangeKeeps
<1> QED BY <1>2, <1>3

LEMMA CommitOwing ==
    ASSUME Types, Types', Owing, NEW w \in Writers, Commit(w)
    PROVE  Owing'
<1>k. PICK t, gone : /\ t = change[w].table
                     /\ gone = IF change[w].kind = "transaction" THEN Forgotten(change[w].table) ELSE {}
  OBVIOUS
<1>0. /\ change[w].pc = "open" /\ t \in Tables /\ InTransaction(w)
      /\ change[w].at = Len(ForgetOrder[t]) + 1 /\ change[w].kind \in {"transaction", "catalogue"}
      /\ change[w].kind = "transaction" => t = "assets"
      /\ change[w].kind = "catalogue" => t = "branches"
  BY <1>k DEF Commit, Doing, Types, ChangeTypes, ChangeSteps, InTransaction
<1>1. /\ change'[w].kind = change[w].kind /\ change'[w].table = t
      /\ change'[w].pc = IF t = "branches" THEN "committed" ELSE "done"
      /\ \A x \in Writers \ {w} : change'[x] = change[x]
  BY <1>k DEF Commit, Step, AfterChange, Types, ChangeTypes
<1>2. /\ \A key \in Keys : held'[key] = IF held[key] = w THEN NULL ELSE held[key]
      /\ \A key \in Keys : cache'[key] = IF held[key] = w THEN NoRow ELSE cache[key]
  BY DEF Commit, Release
<1>3. \A key \in Keys : /\ Alive(key)' => Alive(key) /\ held[key] # w
                        /\ cache'[key] = cache[key] \/ ~Alive(key)'
  BY <1>2 DEF Alive, Stored, NoRow
<1>4. gone \in SUBSET Keys
  BY <1>0, <1>k, OrderFacts
<1>5. ASSUME NEW key \in gone \cap Watched, Alive(key)' PROVE cache[key].raced
  <2>1. change[w].kind = "transaction" /\ key \in Forgotten(t) /\ key \in Keys
    BY <1>5, <1>4, <1>k
  <2>2. Place(key) < change[w].at
    BY <2>1, <1>0, OrderFacts DEF Tables
  <2>3. key \in Gone(w)
    BY <2>1, <2>2, <1>0, <1>k, GoneFacts, GoneOfFacts DEF Types, ChangeTypes
  <2> QED BY <2>1, <2>3, <1>0, <1>3, <1>5 DEF Owing, GoneAreHeld
<1>6. \A r \in Readers : /\ request'[r].pc = request[r].pc /\ request'[r].value = request[r].value
                         /\ Filling(r)' = Filling(r) /\ request[r].raced \subseteq request'[r].raced
                         /\ gone \cap Filling(r) \subseteq request'[r].raced
  <2>1. Overtake(gone)
    BY <1>k DEF Commit
  <2> QED BY <2>1, OvertakeFacts
<1>7. ASSUME NEW key \in Watched \ gone
      PROVE  Owes(w, key)' \/ (announced'[Table(key)] = announced[Table(key)] /\ ~Owes(w, key))
  <2>1. CASE Table(key) = t
    <3>1. change[w].kind = "catalogue" /\ key \in Forgotten(t)
      BY <2>1, <1>0, <1>k, WatchedFacts
    <3>2. change'[w].pc = "committed" /\ ~InTransaction(w)'
      BY <3>1, <1>0, <1>1 DEF InTransaction
    <3> QED BY <3>1, <3>2, <1>1 DEF Owes
  <2>2. CASE Table(key) # t
    <3>1. announced'[Table(key)] = announced[Table(key)]
      BY <2>2, <1>k, WatchedFacts, KeyFacts DEF Commit, NewVersion, Types, VersionTypes
    <3> QED BY <3>1, <1>0 DEF Owes
  <2> QED BY <2>1, <2>2
<1>8. \A key \in Keys, x \in Writers \ {w} : held[key] = x /\ Alive(key)' => held'[key] = x
  BY <1>2
<1>9. ~InTransaction(w)'
  BY <1>1 DEF InTransaction
<1> QED BY <1>1, <1>3, <1>4, <1>5, <1>6, <1>7, <1>8, <1>9, ChangeKeeps

LEMMA ClearCacheOwing ==
    ASSUME Types, Types', Owing, NEW w \in Writers, ClearCache(w)
    PROVE  Owing'
<1>0. /\ change[w].pc = "committed" /\ change[w].table = "branches" /\ change'[w].pc = "done"
      /\ Drop("branches_all") /\ UNCHANGED announced /\ \A x \in Writers \ {w} : change'[x] = change[x]
  BY DEF ClearCache, Doing, Step, Types, ChangeTypes, ChangeSteps
<1>1. held' = held /\ \A k \in Keys : cache'[k] = IF k = "branches_all" THEN NoRow ELSE cache[k]
  BY <1>0, KeyFacts, DropTypes
<1>2. /\ {"branches_all"} \in SUBSET Keys
      /\ \A k \in {"branches_all"} \cap Watched : Alive(k)' => cache[k].raced
      /\ \A k \in Keys : cache'[k] = cache[k] \/ ~Alive(k)'
  BY <1>1, KeyFacts DEF Alive, Stored, NoRow
<1>3. \A r \in Readers : /\ request'[r].pc = request[r].pc /\ request'[r].value = request[r].value
                         /\ Filling(r)' = Filling(r) /\ request[r].raced \subseteq request'[r].raced
                         /\ {"branches_all"} \cap Filling(r) \subseteq request'[r].raced
  BY <1>0, OvertakeFacts DEF Drop
<1>4. \A k \in Watched \ {"branches_all"} :
         Owes(w, k)' \/ (announced'[Table(k)] = announced[Table(k)] /\ ~Owes(w, k))
  BY <1>0, OrderFacts DEF Owes
<1>5. \A key \in Keys, x \in Writers \ {w} : held[key] = x /\ Alive(key)' => held'[key] = x
  BY <1>1
<1>6. ~InTransaction(w)'
  BY <1>0 DEF InTransaction
<1> QED BY <1>0, <1>2, <1>3, <1>4, <1>5, <1>6, ChangeKeeps

\* The steps of a change that touch no row and tell nobody.
LEMMA QuietOwing ==
    ASSUME Types, Types', Owing, NEW w \in Writers, SaveAgain(w) \/ Rollback(w) \/ Crash(w)
    PROVE  Owing'
<1>1. /\ UNCHANGED <<announced, cache, request>> /\ \A x \in Writers \ {w} : change'[x] = change[x]
      /\ \A key \in Keys : Alive(key)' = Alive(key)
      /\ \A r \in Readers : Filling(r)' = Filling(r)
  BY FramedRequest DEF SaveAgain, Rollback, Crash, Step, Types, ChangeTypes, Alive, Stored
<1>2. ASSUME NEW key \in Watched
      PROVE  Owes(w, key)' \/ ~Owes(w, key)
  <2>1. CASE SaveAgain(w)
    BY <2>1 DEF SaveAgain, Doing, Owes
  <2>2. CASE Rollback(w)
    BY <2>2 DEF Rollback, Owes
  <2>3. CASE Crash(w)
    <3>1. change'[w].pc = "crashed" /\ change'[w].table = change[w].table
      BY <2>3 DEF Crash, Step, Types, ChangeTypes
    <3> QED BY <3>1 DEF Owes, InTransaction
  <2> QED BY <2>1, <2>2, <2>3
<1>3. \A key \in Keys, x \in Writers \ {w} : held[key] = x /\ Alive(key)' => held'[key] = x
  BY DEF SaveAgain, Rollback, Crash, Release
<1>4. ASSUME NEW key \in Gone(w)', InTransaction(w)', change'[w].kind = "transaction", Alive(key)'
      PROVE  held'[key] = w \/ cache'[key].raced
  <2>1. SaveAgain(w)
    BY <1>4 DEF Rollback, Crash, Step, InTransaction, Types, ChangeTypes
  <2>2. /\ change[w].pc = "open" /\ change[w].kind = "transaction" /\ change[w].table \in Tables
        /\ change[w].at = Len(ForgetOrder[change[w].table]) + 1 /\ held' = held
        /\ change'[w].table = change[w].table
    BY <2>1 DEF SaveAgain, Doing, Types, ChangeTypes, ChangeSteps
  <2>3. key \in Forgotten(change[w].table)
    BY <1>4, <2>2, GoneFacts DEF GoneOf
  <2>4. Place(key) < change[w].at /\ key \in Keys
    BY <2>2, <2>3, OrderFacts DEF Tables
  <2>5. key \in Gone(w)
    BY <2>2, <2>3, <2>4, GoneFacts, GoneOfFacts DEF Types, ChangeTypes
  <2> QED BY <2>2, <2>4, <2>5, <1>1, <1>4 DEF Owing, GoneAreHeld, InTransaction
<1>e. PICK none : none = {}
  OBVIOUS
<1>5. /\ none \in SUBSET Keys /\ \A key \in Keys : cache'[key] = cache[key] \/ ~Alive(key)'
      /\ \A key \in none \cap Watched : Alive(key)' => cache[key].raced
  BY <1>1, <1>e
<1>6. \A r \in Readers : /\ request'[r].pc = request[r].pc /\ request'[r].value = request[r].value
                         /\ Filling(r)' = Filling(r) /\ request[r].raced \subseteq request'[r].raced
                         /\ none \cap Filling(r) \subseteq request'[r].raced
  BY <1>1, <1>e
<1>7. \A key \in Watched \ none :
          Owes(w, key)' \/ (announced'[Table(key)] = announced[Table(key)] /\ ~Owes(w, key))
  BY <1>1, <1>2
<1> QED BY <1>1, <1>3, <1>4, <1>5, <1>6, <1>7, ChangeKeeps

LEMMA OwingStep == Types /\ Types' /\ Owing /\ [Next]_vars => Owing'
<1> SUFFICES ASSUME Types, Types', Owing, [Next]_vars PROVE Owing'
  OBVIOUS
<1>1. CASE UNCHANGED vars
  <2>1. RowsAreOwed' /\ GoneAreHeld'
    BY <1>1, SameRowsKeep DEF vars
  <2>2. \A x \in Readers : request'[x] = request[x] /\ Filling(x)' = Filling(x)
    BY <1>1, FramedRequest DEF vars
  <2>3. ValuesAreOwed'
    BY <1>1, <2>2, FramedOwed DEF vars, Owing, ValuesAreOwed, Old
  <2> QED BY <2>1, <2>3 DEF Owing
<1>2. ASSUME NEW w \in Writers, BreakDeadlock(w) PROVE Owing'
  BY <1>2, QuietOwing DEF BreakDeadlock
<1> QED
  BY <1>1, <1>2, AskOwing, ServeOwing, SaveOwing, ForgetOwing, CommitOwing, ClearCacheOwing, QuietOwing,
     TickOwing DEF Next, Proceed

LEMMA OwingImplies == Types /\ Owing => ChangesReachTheRows
<1> SUFFICES ASSUME Types, Owing, NEW t \in Tables, NEW key \in Forgotten(t),
                    Alive(key), cache[key].version < announced[t]
             PROVE  cache[key].raced \/ Unfinished(t)
  BY DEF ChangesReachTheRows
<1>1. key \in Watched /\ Table(key) = t
  BY WatchedFacts
<1>2. cache[key].raced \/ Owed(key)
  BY <1>1 DEF Owing, RowsAreOwed, Old
<1>3. ASSUME NEW w \in Writers, Owes(w, key) PROVE Unfinished(t)
  <2>1. change[w].table = t
    BY <1>1, <1>3, WatchedFacts DEF Owes, Types, ChangeTypes
  <2> QED BY <2>1, <1>3 DEF Owes, Unfinished
<1> QED BY <1>2, <1>3 DEF Owed

\* Once a change has been made and its observers have run, no row of theirs is
\* older than the change but one that raced it, whatever the number of requests,
\* changes and saves.
THEOREM ChangesReachTheRowsHolds == Spec => []ChangesReachTheRows
<1>1. Spec => [](Types /\ Owing)
  <2>1. Types /\ Owing /\ [Next]_vars => (Types /\ Owing)'
    BY TypesStep, OwingStep
  <2> QED BY <2>1, TypesInit, OwingInit, PTL DEF Spec
<1> QED BY <1>1, OwingImplies, PTL

-----------------------------------------------------------------------------
(* Ages.  A row is put with a value that has been untrue for a limited     *)
(* time, and for each tick that it grows older it comes nearer to its end. *)

\* For how long a value may have been untrue when it is put under a key.
PutLimit(key) ==
    IF key \in {"statistics", "branches_all"} THEN RequestTime
    ELSE Ttl["statistics"] + RequestTime - 1 + RequestTime

\* The bound of AnswersAreRecent.
AnswerLimit(r) ==
    (Ttl[In(r)] + RequestTime - 1) + (IF HasOuter(r) THEN Ttl[Out(r)] + RequestTime - 1 ELSE 0)

RowAges == \A key \in Keys : Alive(key) => cache[key].late + cache[key].left <= PutLimit(key) + Ttl[key]

RequestAge(r) ==
    /\ At(r, "put_inner") => request[r].value.late <= request[r].spent
    /\ At(r, "put_outer") => request[r].value.late <= Ttl[In(r)] + RequestTime - 1 + request[r].spent
    /\ At(r, "answered") => request[r].value.late <= AnswerLimit(r)

Ages == RowAges /\ \A r \in Readers : RequestAge(r)

LEMMA AgesInit == Init => Ages
<1> SUFFICES ASSUME NEW asks \in [Readers -> SUBSET Routes], NEW plans \in [Writers -> Plans],
                    InitWith(asks, plans)
             PROVE  Ages
  BY DEF Init
<1>1. \A key \in Keys : ~Alive(key)
  BY DEF InitWith, Alive, Stored, NoRow
<1>2. \A r \in Readers : request[r].pc = "idle"
  BY DEF InitWith
<1> QED BY <1>1, <1>2 DEF Ages, RowAges, RequestAge, At

LEMMA LimitFacts ==
    ASSUME Types, NEW r \in Readers
    PROVE  /\ In(r) \in Keys /\ PutLimit(In(r)) = RequestTime /\ Ttl[In(r)] \in Nat \ {0}
           /\ HasOuter(r) => /\ Out(r) \in Keys /\ Ttl[Out(r)] \in Nat \ {0}
                             /\ PutLimit(Out(r)) = Ttl[In(r)] + RequestTime - 1 + RequestTime
           /\ AnswerLimit(r) \in Nat /\ Ttl[In(r)] + RequestTime - 1 <= AnswerLimit(r)
           /\ HasOuter(r) => /\ AnswerLimit(r) = (Ttl[In(r)] + RequestTime - 1) + (Ttl[Out(r)] + RequestTime - 1)
                             /\ PutLimit(Out(r)) <= AnswerLimit(r)
           /\ request[r].spent \in 0..RequestTime /\ request[r].value \in Values
<1>1. /\ request[r].route \in Routes /\ request[r].spent \in 0..RequestTime /\ request[r].value \in Values
  BY DEF Types, RequestTypes
<1>2. In(r) \in {"statistics", "branches_all"} /\ In(r) \in Keys
  BY <1>1, RouteFacts, KeyFacts DEF In, Inner
<1>3. HasOuter(r) => /\ In(r) = "statistics" /\ Out(r) \in {"initial_data", "statistics_response"}
                     /\ Out(r) \in Keys
  <2> SUFFICES ASSUME request[r].route \in {"initial", "statistics"}
               PROVE  In(r) = "statistics" /\ Out(r) \in {"initial_data", "statistics_response"} /\ Out(r) \in Keys
    BY RouteFacts DEF HasOuter
  <2>1. CASE request[r].route = "initial"
    BY <2>1, KeyFacts DEF In, Out, Inner, Outer
  <2>2. CASE request[r].route = "statistics"
    BY <2>2, KeyFacts DEF In, Out, Inner, Outer
  <2> QED BY <2>1, <2>2
<1>4. PutLimit(In(r)) = RequestTime
  BY <1>2 DEF PutLimit
<1>5. HasOuter(r) => PutLimit(Out(r)) = Ttl[In(r)] + RequestTime - 1 + RequestTime
  BY <1>3 DEF PutLimit
<1>6. Ttl[In(r)] \in Nat \ {0} /\ RequestTime \in Nat \ {0} /\ (HasOuter(r) => Ttl[Out(r)] \in Nat \ {0})
  BY <1>2, <1>3, KeyFacts
<1>7. ASSUME NEW a \in Nat \ {0}, NEW b \in Nat \ {0}, NEW c \in Nat \ {0}
      PROVE  /\ (a + b - 1) + 0 \in Nat /\ a + b - 1 <= (a + b - 1) + 0
             /\ (a + b - 1) + (c + b - 1) \in Nat /\ a + b - 1 <= (a + b - 1) + (c + b - 1)
             /\ a + b - 1 + b <= (a + b - 1) + (c + b - 1)
  OBVIOUS
<1>8. CASE HasOuter(r)
  <2>1. AnswerLimit(r) = (Ttl[In(r)] + RequestTime - 1) + (Ttl[Out(r)] + RequestTime - 1)
    BY <1>8 DEF AnswerLimit
  <2> QED BY <2>1, <1>8, <1>1, <1>2, <1>3, <1>4, <1>5, <1>6, <1>7
<1>9. CASE ~HasOuter(r)
  <2>1. AnswerLimit(r) = (Ttl[In(r)] + RequestTime - 1) + 0
    BY <1>9 DEF AnswerLimit
  <2> QED BY <2>1, <1>9, <1>1, <1>2, <1>4, <1>6, <1>7
<1> QED BY <1>8, <1>9

LEMMA PutLimitType == \A key \in Keys : PutLimit(key) \in Nat
<1>1. \A a \in Nat \ {0}, b \in Nat \ {0} : a + b - 1 + b \in Nat
  OBVIOUS
<1>2. "statistics" \in Keys /\ Ttl["statistics"] \in Nat \ {0} /\ RequestTime \in Nat \ {0}
  BY KeyFacts
<1> QED BY <1>1, <1>2 DEF PutLimit

\* The rows there are afterwards were there before, no older.
LEMMA RowAgesKeep ==
    ASSUME Ages, \A key \in Keys : Alive(key)' => Alive(key) /\ cache'[key] = cache[key]
    PROVE  RowAges'
  BY DEF Ages, RowAges, PutLimit

LEMMA DroppedRows ==
    ASSUME Types, Ages, NEW key \in Keys, cache' = [cache EXCEPT ![key] = NoRow]
    PROVE  RowAges'
<1>1. \A k \in Keys : cache'[k] = IF k = key THEN NoRow ELSE cache[k]
  BY DEF Types
<1>2. ASSUME NEW k \in Keys, Alive(k)' PROVE Alive(k) /\ cache'[k] = cache[k]
  BY <1>1, <1>2 DEF Alive, Stored, NoRow
<1> QED BY <1>2, RowAgesKeep

LEMMA PutRows ==
    ASSUME Types, Ages, NEW key \in Keys, NEW value \in Values, NEW raced, Put(key, value, raced),
           value.late <= PutLimit(key)
    PROVE  RowAges'
<1>1. cache'[key] = [value EXCEPT !.left = Ttl[key], !.raced = @ \/ raced]
  BY DEF Put, Types
<1>2. cache'[key].late = value.late /\ cache'[key].left = Ttl[key]
  BY <1>1 DEF Values
<1>3. \A k \in Keys \ {key} : cache'[k] = cache[k]
  BY DEF Put, Types
<1>4. value.late \in Nat /\ Ttl[key] \in Nat
  BY KeyFacts DEF Values
<1>5. PutLimit(key) \in Nat
  BY PutLimitType
<1>6. cache'[key].late + cache'[key].left <= PutLimit(key) + Ttl[key]
  BY <1>2, <1>4, <1>5
<1> QED BY <1>3, <1>6 DEF Ages, RowAges, Alive, Stored, PutLimit

\* A request of which only the time spent is another.
LEMMA SameAge ==
    ASSUME Types, Ages, NEW x \in Readers, request'[x].pc = request[x].pc, request'[x].route = request[x].route,
           request'[x].value = request[x].value, request'[x].spent = request[x].spent
    PROVE  RequestAge(x)'
  BY DEF Ages, RequestAge, At, In, Out, HasOuter, AnswerLimit

\* What a request finds.
LEMMA FoundAge ==
    ASSUME Types, Ages, NEW key \in Keys, Alive(key)
    PROVE  cache[key].late \in Nat /\ cache[key].late <= PutLimit(key) + Ttl[key] - 1
<1>1. cache[key].left \in Nat /\ cache[key].left > 0 /\ cache[key].late \in Nat
  BY DEF Alive, Stored, Types, Values
<1>2. cache[key].late + cache[key].left <= PutLimit(key) + Ttl[key]
  BY DEF Ages, RowAges
<1>3. PutLimit(key) \in Nat /\ Ttl[key] \in Nat
  BY KeyFacts, PutLimitType
<1> QED BY <1>1, <1>2, <1>3

\* The limits of a request are those of its route.
LEMMA SameLimits ==
    ASSUME NEW r \in Readers, request'[r].route = request[r].route
    PROVE  In(r)' = In(r) /\ AnswerLimit(r)' = AnswerLimit(r)
  BY DEF In, Out, HasOuter, AnswerLimit

\* A request that has found a value, or is at a step without one.
LEMMA ServedAge ==
    ASSUME Types, Ages, NEW r \in Readers, \A x \in Readers \ {r} : request'[x] = request[x],
           RowAges', RequestAge(r)'
    PROVE  Ages'
  BY SameAge DEF Ages

LEMMA ServeAges ==
    ASSUME Types, Ages, NEW r \in Readers, Serve(r)
    PROVE  Ages'
<1>0. /\ In(r) \in Keys /\ PutLimit(In(r)) = RequestTime /\ Ttl[In(r)] \in Nat \ {0}
      /\ AnswerLimit(r) \in Nat /\ Ttl[In(r)] + RequestTime - 1 <= AnswerLimit(r)
      /\ request[r].spent \in 0..RequestTime /\ request[r].value \in Values
      /\ RequestTime \in Nat \ {0}
  BY LimitFacts, KeyFacts
<1>1. HasOuter(r) => /\ Out(r) \in Keys /\ Ttl[Out(r)] \in Nat \ {0}
                     /\ PutLimit(Out(r)) = Ttl[In(r)] + RequestTime - 1 + RequestTime
                     /\ AnswerLimit(r) = (Ttl[In(r)] + RequestTime - 1) + (Ttl[Out(r)] + RequestTime - 1)
                     /\ PutLimit(Out(r)) <= AnswerLimit(r)
  BY LimitFacts
<1>2. request[r].pc \in {"outer", "take", "put_outer"} => HasOuter(r)
  BY DEF Types, OuterSteps, HasOuter
<1>3. ASSUME NEW key \in Keys, Miss(key) PROVE RowAges'
  BY <1>3, DroppedRows DEF Miss
<1>4. UNCHANGED cache => RowAges'
  BY RowAgesKeep DEF Alive, Stored
<1>5. ASSUME request'[r].pc \notin {"put_inner", "put_outer", "answered"} PROVE RequestAge(r)'
  BY <1>5 DEF RequestAge, At
<1>6. ASSUME HasOuter(r), Alive(Out(r)), Carry(r, "answered", cache[Out(r)])
      PROVE  RequestAge(r)'
  <2>1. cache[Out(r)].late \in Nat /\ cache[Out(r)].late <= PutLimit(Out(r)) + Ttl[Out(r)] - 1
    BY <1>6, <1>1, FoundAge
  <2>2. \A a \in Nat \ {0}, b \in Nat \ {0}, c \in Nat \ {0} :
            (a + b - 1 + b) + c - 1 = (a + b - 1) + (c + b - 1)
    OBVIOUS
  <2>3. PutLimit(Out(r)) + Ttl[Out(r)] - 1 = AnswerLimit(r)
    BY <1>0, <1>1, <1>6, <2>2
  <2>4. /\ request'[r].pc = "answered" /\ request'[r].value = cache[Out(r)]
        /\ request'[r].route = request[r].route
    BY <1>6, CarryFacts
  <2> QED BY <2>1, <2>3, <2>4, SameLimits DEF RequestAge, At
<1>7. CASE LookOuter(r)
  <2>1. HasOuter(r) /\ Out(r) \in Keys
    BY <1>7, <1>1, <1>2 DEF LookOuter, At
  <2>2. CASE Miss(Out(r)) /\ Go(r, "inner")
    BY <2>1, <2>2, <1>3, <1>5, GoFacts, ServedAge
  <2>3. CASE UNCHANGED cache /\ Go(r, "take")
    BY <2>3, <1>4, <1>5, GoFacts, ServedAge
  <2>4. CASE UNCHANGED cache /\ Alive(Out(r)) /\ Carry(r, "answered", cache[Out(r)])
    BY <2>1, <2>4, <1>4, <1>6, CarryFacts, ServedAge
  <2> QED BY <1>7, <2>2, <2>3, <2>4 DEF LookOuter
<1>8. CASE Take(r)
  <2>1. HasOuter(r) /\ Out(r) \in Keys
    BY <1>8, <1>1, <1>2 DEF Take, At
  <2>2. CASE Miss(Out(r)) /\ Go(r, "failed")
    BY <2>1, <2>2, <1>3, <1>5, GoFacts, ServedAge
  <2>3. CASE UNCHANGED cache /\ Alive(Out(r)) /\ Carry(r, "answered", cache[Out(r)])
    BY <2>1, <2>3, <1>4, <1>6, CarryFacts, ServedAge
  <2> QED BY <1>8, <2>2, <2>3 DEF Take
<1>9. ASSUME NEW value \in Values, Carry(r, AfterInner(r), value), value.late <= Ttl[In(r)] + RequestTime - 1
      PROVE  RequestAge(r)'
  <2>1. /\ request'[r].pc \in {"put_outer", "answered"} /\ request'[r].value = value
        /\ request'[r].route = request[r].route /\ request'[r].spent = request[r].spent
    BY <1>9, CarryFacts DEF AfterInner
  <2>2. \A late \in Nat, limit \in Nat, most \in Nat, spent \in Nat :
            late <= limit /\ limit <= most => late <= limit + spent /\ late <= most
    OBVIOUS
  <2>3. /\ value.late \in Nat /\ Ttl[In(r)] + RequestTime - 1 \in Nat /\ request[r].spent \in Nat
        /\ AnswerLimit(r) \in Nat
    BY <1>0 DEF Values
  <2>4. /\ value.late <= Ttl[In(r)] + RequestTime - 1 + request[r].spent
        /\ value.late <= AnswerLimit(r)
    BY <1>0, <1>9, <2>2, <2>3
  <2> QED BY <2>1, <2>4, SameLimits DEF RequestAge, At
<1>10. CASE LookInner(r)
  <2>1. CASE Miss(In(r)) /\ Go(r, "query")
    BY <2>1, <1>0, <1>3, <1>5, GoFacts, ServedAge
  <2>2. CASE UNCHANGED cache /\ Alive(In(r)) /\ Carry(r, AfterInner(r), cache[In(r)])
    <3>1. cache[In(r)] \in Values /\ cache[In(r)].late <= RequestTime + Ttl[In(r)] - 1
      BY <2>2, <1>0, FoundAge DEF Types
    <3>2. cache[In(r)].late <= Ttl[In(r)] + RequestTime - 1
      BY <3>1, <1>0 DEF Values
    <3> QED BY <2>2, <3>1, <3>2, <1>4, <1>9, CarryFacts, ServedAge
  <2> QED BY <1>10, <2>1, <2>2 DEF LookInner
<1>11. CASE Query(r)
  <2>1. Carry(r, "put_inner", [NoRow EXCEPT !.version = data[Table(In(r))]]) /\ UNCHANGED cache
    BY <1>11 DEF Query
  <2>2. /\ request'[r].pc = "put_inner" /\ request'[r].value.late = 0
        /\ request'[r].route = request[r].route /\ request'[r].spent = request[r].spent
    BY <2>1, CarryFacts DEF NoRow
  <2>3. RequestAge(r)'
    BY <2>2, <1>0 DEF RequestAge, At
  <2> QED BY <2>1, <2>3, <1>4, CarryFacts, ServedAge
<1>12. CASE QueryFails(r)
  BY <1>12, <1>4, <1>5, GoFacts, ServedAge DEF QueryFails
<1>13. CASE PutInner(r)
  <2> DEFINE raced == Raced(r, In(r))
             value == request[r].value
             put   == [value EXCEPT !.raced = @ \/ raced]
  <2>1. Put(In(r), value, raced) /\ Carry(r, AfterInner(r), put)
    BY <1>13 DEF PutInner
  <2>2. raced \in BOOLEAN
    BY DEF Raced, Exposed
  <2>3. put \in Values /\ put.late = value.late
    BY <2>2, <1>0 DEF Values
  <2>4. value.late \in Nat /\ value.late <= request[r].spent
    BY <1>13, <1>0 DEF PutInner, Ages, RequestAge, Values
  <2>5. value.late <= RequestTime /\ value.late <= Ttl[In(r)] + RequestTime - 1
    BY <2>4, <1>0
  <2>6. RowAges'
    BY <2>1, <2>5, <1>0, PutRows
  <2>7. RequestAge(r)'
    BY <2>1, <2>3, <2>5, <1>9
  <2> QED BY <2>1, <2>6, <2>7, CarryFacts, ServedAge
<1>14. CASE PutOuter(r)
  <2>1. HasOuter(r) /\ Put(Out(r), request[r].value, Raced(r, Out(r))) /\ Go(r, "answered")
    BY <1>14, <1>2 DEF PutOuter, At
  <2>2. /\ request[r].value.late \in Nat
        /\ request[r].value.late <= Ttl[In(r)] + RequestTime - 1 + request[r].spent
    BY <1>14, <1>0 DEF PutOuter, Ages, RequestAge, Values
  <2>3. request[r].value.late <= PutLimit(Out(r)) /\ PutLimit(Out(r)) \in Nat
    BY <2>1, <2>2, <1>0, <1>1
  <2>4. request[r].value.late <= AnswerLimit(r)
    BY <2>1, <2>2, <2>3, <1>0, <1>1
  <2>5. RowAges'
    BY <2>1, <2>3, <1>0, <1>1, PutRows
  <2>6. RequestAge(r)'
    BY <2>1, <2>4, GoFacts, SameLimits DEF RequestAge, At
  <2> QED BY <2>1, <2>5, <2>6, GoFacts, ServedAge
<1> QED
  BY <1>7, <1>8, <1>10, <1>11, <1>12, <1>13, <1>14 DEF Serve

LEMMA AskAges ==
    ASSUME Types, Ages, NEW r \in Readers, NEW route \in Routes, Ask(r, route)
    PROVE  Ages'
<1>1. UNCHANGED cache /\ \A x \in Readers \ {r} : request'[x] = request[x]
  BY DEF Ask, Types, RequestTypes
<1>2. request'[r].pc \in {"outer", "inner"}
  BY DEF Ask, Types, RequestTypes
<1>3. RowAges'
  BY <1>1, RowAgesKeep DEF Alive, Stored
<1>4. RequestAge(r)'
  BY <1>2 DEF RequestAge, At
<1> QED BY <1>1, <1>3, <1>4, ServedAge

\* A change leaves the requests their values and drops rows.
LEMMA ChangeAges ==
    ASSUME Types, Ages, RowAges', NEW keys, Overtake(keys) \/ UNCHANGED request
    PROVE  Ages'
<1>1. ASSUME NEW x \in Readers
      PROVE  /\ request'[x].pc = request[x].pc /\ request'[x].route = request[x].route
             /\ request'[x].value = request[x].value /\ request'[x].spent = request[x].spent
  BY OvertakeFacts
<1> QED BY <1>1, SameAge DEF Ages

LEMMA WriterAges ==
    ASSUME Types, Ages, NEW w \in Writers,
           Save(w) \/ Forget(w) \/ SaveAgain(w) \/ Commit(w) \/ ClearCache(w) \/ Rollback(w) \/ Crash(w)
    PROVE  Ages'
<1>1. UNCHANGED cache => RowAges'
  BY RowAgesKeep DEF Alive, Stored
<1>2. ASSUME NEW key \in Keys, Drop(key) \/ DropAtCommit(w, key) PROVE Ages'
  <2>1. RowAges'
    BY <1>1, <1>2, DroppedRows DEF Drop, DropAtCommit
  <2>2. Overtake({key})
    BY <1>2 DEF Drop, DropAtCommit
  <2> QED BY <2>1, <2>2, ChangeAges
<1>3. CASE Save(w) \/ SaveAgain(w) \/ Rollback(w) \/ Crash(w)
  BY <1>1, <1>3, ChangeAges DEF Save, SaveAgain, Rollback, Crash
<1>4. CASE Forget(w)
  <2>1. ForgetOrder[change[w].table][change[w].at] \in Keys
    BY <1>4, OrderFacts DEF Forget, Doing, Types, ChangeTypes, ChangeSteps
  <2> QED BY <1>4, <2>1, <1>2 DEF Forget
<1>5. CASE ClearCache(w)
  BY <1>5, <1>2, KeyFacts DEF ClearCache
<1>6. CASE Commit(w)
  <2>1. \A key \in Keys : cache'[key] \in {NoRow, cache[key]}
    BY <1>6 DEF Commit
  <2>2. ASSUME NEW key \in Keys, Alive(key)' PROVE Alive(key) /\ cache'[key] = cache[key]
    BY <2>1, <2>2 DEF Alive, Stored, NoRow
  <2>3. RowAges'
    BY <2>2, RowAgesKeep
  <2> QED BY <2>3, <1>6, ChangeAges DEF Commit
<1> QED BY <1>3, <1>4, <1>5, <1>6

LEMMA TickAges ==
    ASSUME Types, Ages, Tick
    PROVE  Ages'
<1>1. ASSUME NEW key \in Keys, Alive(key)'
      PROVE  cache'[key].late + cache'[key].left <= PutLimit(key) + Ttl[key]
  <2>1. /\ cache[key].left \in Nat /\ cache[key].left > 0 /\ cache'[key].left = cache[key].left - 1
        /\ cache[key].late \in Nat /\ cache'[key].late \in {cache[key].late, cache[key].late + 1}
    BY <1>1, TickRow DEF Alive
  <2>2. cache[key].late + cache[key].left <= PutLimit(key) + Ttl[key]
    BY <1>1, TickRow DEF Ages, RowAges
  <2>3. PutLimit(key) \in Nat /\ Ttl[key] \in Nat
    BY KeyFacts, PutLimitType
  <2> QED BY <2>1, <2>2, <2>3
<1>2. RowAges'
  BY <1>1 DEF RowAges, PutLimit
<1>3. ASSUME NEW r \in Readers PROVE RequestAge(r)'
  <2>0. request'[r].pc = request[r].pc /\ request'[r].route = request[r].route
    BY TickRequest
  <2>1. CASE Idle(r)
    <3>1. request'[r] = request[r]
      BY <2>1, TickRequest
    <3> QED BY <3>1, SameAge
  <2>2. CASE At(r, "put_inner") \/ At(r, "put_outer")
    <3>1. /\ request[r].value.late \in Nat /\ request[r].spent \in Nat
          /\ request'[r].spent = request[r].spent + 1
          /\ request'[r].value.late \in {request[r].value.late, request[r].value.late + 1}
      BY <2>2, TickRequest
    <3>2. Ttl[In(r)] \in Nat \ {0} /\ RequestTime \in Nat \ {0}
      BY LimitFacts, KeyFacts
    <3>3. At(r, "put_inner") => request'[r].value.late <= request'[r].spent
      BY <3>1 DEF Ages, RequestAge
    <3>4. At(r, "put_outer") => request'[r].value.late <= Ttl[In(r)] + RequestTime - 1 + request'[r].spent
      BY <3>1, <3>2 DEF Ages, RequestAge
    <3>5. request'[r].pc # "answered"
      BY <2>0, <2>2 DEF At
    <3> QED BY <2>0, <3>3, <3>4, <3>5, SameLimits DEF RequestAge, At
  <2>3. CASE request[r].pc \notin {"put_inner", "put_outer", "answered"}
    BY <2>0, <2>3 DEF RequestAge, At
  <2> QED BY <2>1, <2>2, <2>3 DEF Idle, At
<1> QED BY <1>2, <1>3 DEF Ages

LEMMA AgesStep == Types /\ Ages /\ [Next]_vars => Ages'
<1> SUFFICES ASSUME Types, Ages, [Next]_vars PROVE Ages'
  OBVIOUS
<1>1. CASE UNCHANGED vars
  <2>1. RowAges'
    BY <1>1, RowAgesKeep DEF vars, Alive, Stored
  <2> QED BY <1>1, <2>1, ChangeAges DEF vars
<1>2. ASSUME NEW w \in Writers, BreakDeadlock(w) PROVE Ages'
  BY <1>2, WriterAges DEF BreakDeadlock
<1> QED
  BY <1>1, <1>2, AskAges, ServeAges, WriterAges, TickAges DEF Next, Proceed

\* Whatever the times to live, the number of requests and of changes: what is
\* answered was the truth no longer ago than its rows live and the requests that
\* filled them took.
THEOREM AnswersAreRecentHolds == Spec => []AnswersAreRecent
<1>1. Spec => [](Types /\ Ages)
  <2>1. Types /\ Ages /\ [Next]_vars => (Types /\ Ages)'
    BY TypesStep, AgesStep
  <2> QED BY <2>1, TypesInit, AgesInit, PTL DEF Spec
<1>2. Ages => AnswersAreRecent
  BY DEF Ages, RequestAge, AnswerLimit, AnswersAreRecent
<1> QED BY <1>1, <1>2, PTL

===============================================================================
