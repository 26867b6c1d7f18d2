---------------------------- MODULE DashboardCache ----------------------------
(***************************************************************************)
(* The server's caches: Cache::remember in DashboardService,               *)
(* DashboardController and BaseCatalogController, the response cache of    *)
(* the middleware CacheApiResponse around some of them, and the observers  *)
(* that forget rows when a model is saved.                                 *)
(*                                                                         *)
(* The store is a table of the same PostgreSQL database (CACHE_STORE is    *)
(* database and DB_CACHE_CONNECTION is not set).  So a forget inside a     *)
(* transaction is a DELETE of that transaction: the others see the row and *)
(* may not touch it until it ends.  The forget of a row that is not there  *)
(* locks nothing.                                                          *)
(*                                                                         *)
(* Figures are abstracted to the version of the data their first query     *)
(* saw: the number of changes committed before.  Keys of one shape are     *)
(* represented by one.                                                     *)
(***************************************************************************)
EXTENDS Naturals, Sequences

CONSTANTS Readers, Writers, NULL,
          MaxSaves,       \* saves of one transaction, at most
          ResponseTtl, DashboardTtl, CatalogTtl,   \* 60, 300 and 86400 seconds, in ticks
          RequestTime     \* ticks a request takes at most

ASSUME NullIsNoValue == NULL \notin Writers \cup Nat
ASSUME TtlsArePositive ==
    {ResponseTtl, DashboardTtl, CatalogTtl, RequestTime, MaxSaves} \subseteq Nat \ {0}

VARIABLES
    data,      \* committed: the version of each part of the database
    announced, \* history: the version of its last change the observers were told of
    cache,     \* committed: the rows of the cache table, the expired ones too
    held,      \* the transaction that has deleted the row, until it ends
    request,   \* what each reader is doing
    change     \* what each writer is doing

vars == <<data, announced, cache, held, request, change>>

Tables == {"assets", "branches"}

\* The row a route fills from the database, and the row around it.  "branches"
\* stands for the three catalogues that are cached, and has no outer row; a
\* response row belongs to one user and one URL.
Inner == [initial    |-> "statistics",
          statistics |-> "statistics",
          branches   |-> "branches_all"]

Outer == [initial    |-> "initial_data",
          statistics |-> "statistics_response"]

\* The routes behind the middleware CacheApiResponse.
ResponseRoutes == {"statistics"}

Ttl == [statistics          |-> DashboardTtl,
        initial_data        |-> DashboardTtl,
        branches_all        |-> CatalogTtl,
        statistics_response |-> ResponseTtl]

Routes == DOMAIN Inner
Keys   == DOMAIN Ttl

\* Mutant of ForgetOrder: the unified endpoint's row first.
ForgetInitialFirst == [assets   |-> <<"initial_data", "statistics">>,
                       branches |-> <<"branches_all">>]

\* What the observers of a table's models forget, in their order.
ForgetOrder == [assets   |-> <<"statistics", "initial_data">>,
                branches |-> <<"branches_all">>]

Forgotten(t) == {ForgetOrder[t][i] : i \in DOMAIN ForgetOrder[t]}

Table(key) == IF key = "branches_all" THEN "branches" ELSE "assets"

NoRow == [version |-> 0, raced |-> FALSE, late |-> 0, left |-> NULL]

\* The changes there are: a kind and the table it is made to.
Plans == {[kind |-> kind, table |-> "assets"] : kind \in {"plain", "transaction", "unobserved"}}
         \cup {[kind |-> kind, table |-> "branches"] : kind \in {"plain", "catalogue", "unobserved"}}

\* What each reader may ask for, and the change each writer makes.
InitWith(asks, plans) ==
    /\ data = [t \in Tables |-> 0]
    /\ announced = [t \in Tables |-> 0]
    /\ cache = [key \in Keys |-> NoRow]
    /\ held = [key \in Keys |-> NULL]
    /\ request = [r \in Readers |->
                    [pc |-> "idle", asks |-> asks[r], route |-> "initial", spent |-> 0,
                     raced |-> {}, value |-> NoRow]]
    /\ change = [w \in Writers |->
                    [pc |-> "idle", kind |-> plans[w].kind, table |-> plans[w].table,
                     at |-> 1, saves |-> 0]]

Init ==
    \E asks \in [Readers -> SUBSET Routes], plans \in [Writers -> Plans] :
        InitWith(asks, plans)

-------------------------------------------------------------------------------
(* The cache table.  A row is its value (version) and the time to its        *)
(* expiration (left).  Two more fields are there for the properties: late,   *)
(* for how long what it says has not been the truth, and raced, whether it   *)
(* was being filled while it was forgotten, or between the forget and the    *)
(* end of a transaction that nothing forgets after.                          *)

Stored(key) == cache[key].left # NULL
Alive(key)  == Stored(key) /\ cache[key].left > 0

Doing(w, step) == change[w].pc = step
Step(w, step)  == change' = [change EXCEPT ![w].pc = step]

InTransaction(w) ==
    /\ change[w].kind \in {"transaction", "catalogue"}
    /\ change[w].pc \in {"forgetting", "open"}

\* What the observers have forgotten in the transaction w.
Gone(w) ==
    LET order == ForgetOrder[change[w].table] IN
    {key \in Forgotten(change[w].table) :
        change[w].saves > 1 \/ \E i \in 1..(change[w].at - 1) : order[i] = key}

\* The row is forgotten by a transaction that is not at its end, and by nobody after it.
Exposed(key) ==
    \E w \in Writers : InTransaction(w) /\ change[w].kind = "transaction" /\ key \in Gone(w)

\* Nobody but the transaction that deleted a row may write it.
Free(key, by) == held[key] \in {NULL, by}

\* A get that finds nothing deletes an expired row it meets.
Miss(key) ==
    /\ ~Alive(key)
    /\ Stored(key) => Free(key, NULL)
    /\ cache' = [cache EXCEPT ![key] = NoRow]

Put(key, value, raced) ==
    /\ Free(key, NULL)
    /\ cache' = [cache EXCEPT ![key] =
                    [value EXCEPT !.left = Ttl[key], !.raced = @ \/ raced]]

-------------------------------------------------------------------------------
(* A request.                                                                *)

At(r, step) == request[r].pc = step
In(r)       == Inner[request[r].route]
Out(r)      == Outer[request[r].route]
HasOuter(r) == request[r].route \in DOMAIN Outer
Idle(r)     == request[r].pc \in {"idle", "answered", "failed"}

\* The rows a request has missed and is going to put.
OutRows(r) == IF HasOuter(r) THEN {Out(r)} ELSE {}

Filling(r) ==
    CASE At(r, "query") \/ At(r, "put_inner") -> {In(r)} \cup OutRows(r)
      [] At(r, "inner") \/ At(r, "put_outer") -> OutRows(r)
      [] OTHER                                -> {}

Go(r, step) == request' = [request EXCEPT ![r].pc = step]
Carry(r, step, value) == request' = [request EXCEPT ![r].pc = step, ![r].value = value]

\* Where a request goes with the value of its inner row.
AfterInner(r) == IF HasOuter(r) THEN "put_outer" ELSE "answered"

Ask(r, route) ==
    /\ Idle(r)
    /\ route \in request[r].asks
    /\ request' = [request EXCEPT ![r] =
                    [pc |-> IF route \in DOMAIN Outer THEN "outer" ELSE "inner", asks |-> @.asks,
                     route |-> route, spent |-> 0, raced |-> {}, value |-> NoRow]]
    /\ UNCHANGED <<data, announced, cache, held, change>>

\* Mutant of LookOuter: a hit stores what it found for the full time again.
LookOuterRenewing(r) ==
    /\ At(r, "outer")
    /\ \/ /\ Alive(Out(r))
          /\ Carry(r, "answered", cache[Out(r)])
          /\ cache' = [cache EXCEPT ![Out(r)].left = Ttl[Out(r)]]
       \/ Miss(Out(r)) /\ Go(r, "inner")
    /\ UNCHANGED <<data, announced, held, change>>

\* The outer row: Cache::remember, or the middleware's Cache::has.
LookOuter(r) ==
    /\ At(r, "outer")
    /\ \/ /\ Alive(Out(r))
          /\ IF request[r].route \in ResponseRoutes
             THEN Go(r, "take")
             ELSE Carry(r, "answered", cache[Out(r)])
          /\ UNCHANGED cache
       \/ Miss(Out(r)) /\ Go(r, "inner")
    /\ UNCHANGED <<data, announced, held, change>>

\* The Cache::get that follows has, a statement of its own.  What it returns for
\* a row that has expired since is null, and indexing it is an error.
Take(r) ==
    /\ At(r, "take")
    /\ \/ Alive(Out(r)) /\ Carry(r, "answered", cache[Out(r)]) /\ UNCHANGED cache
       \/ Miss(Out(r)) /\ Go(r, "failed")
    /\ UNCHANGED <<data, announced, held, change>>

LookInner(r) ==
    /\ At(r, "inner")
    /\ \/ Alive(In(r)) /\ Carry(r, AfterInner(r), cache[In(r)]) /\ UNCHANGED cache
       \/ Miss(In(r)) /\ Go(r, "query")
    /\ UNCHANGED <<data, announced, held, change>>

\* The first of the queries of the closure; the others see this version or a later one.
Query(r) ==
    /\ At(r, "query")
    /\ Carry(r, "put_inner", [NoRow EXCEPT !.version = data[Table(In(r))]])
    /\ UNCHANGED <<data, announced, cache, held, change>>

\* A query that throws: the answer is 500, which is stored nowhere.
QueryFails(r) ==
    /\ At(r, "query")
    /\ Go(r, "failed")
    /\ UNCHANGED <<data, announced, cache, held, change>>

Raced(r, key) == key \in request[r].raced \/ Exposed(key)

PutInner(r) ==
    LET raced == Raced(r, In(r)) IN
    /\ At(r, "put_inner")
    /\ Put(In(r), request[r].value, raced)
    /\ Carry(r, AfterInner(r), [request[r].value EXCEPT !.raced = @ \/ raced])
    /\ UNCHANGED <<data, announced, held, change>>

PutOuter(r) ==
    /\ At(r, "put_outer")
    /\ Put(Out(r), request[r].value, Raced(r, Out(r)))
    /\ Go(r, "answered")
    /\ UNCHANGED <<data, announced, held, change>>

Serve(r) ==
    \/ LookOuter(r)
    \/ Take(r)
    \/ LookInner(r)
    \/ Query(r)
    \/ QueryFails(r)
    \/ PutInner(r)
    \/ PutOuter(r)

-------------------------------------------------------------------------------
(* A change of the data.                                                     *)
(*   "plain"        a save outside a transaction: AssetController, a status  *)
(*   "transaction"  saves inside one: WorkstationService, the movements      *)
(*   "catalogue"    a save inside one: BranchController                      *)
(*   "unobserved"   a change no observer of the row is told of: the query    *)
(*                  builder, an employee's branch, a branch's employees      *)
(* After a save of either kind BaseCatalogController forgets once more.      *)

\* What is left to do once the observers have run and the change is committed.
AfterChange(w) == IF change[w].table = "branches" THEN "committed" ELSE "done"

\* A change that is committed, and whether the observers are told.
NewVersion(t, told) ==
    /\ data' = [data EXCEPT ![t] = @ + 1]
    /\ announced' = IF told THEN [announced EXCEPT ![t] = data[t] + 1] ELSE announced

\* The requests that are filling one of the rows are overtaken.
Overtake(keys) ==
    request' = [r \in Readers |-> [request[r] EXCEPT !.raced = @ \cup (keys \cap Filling(r))]]

Save(w) ==
    /\ Doing(w, "idle")
    /\ change' = [change EXCEPT
            ![w].pc = IF change[w].kind = "unobserved" THEN "done" ELSE "forgetting",
            ![w].saves = 1]
    /\ IF change[w].kind \in {"plain", "unobserved"}
       THEN NewVersion(change[w].table, change[w].kind = "plain")
       ELSE UNCHANGED <<data, announced>>
    /\ UNCHANGED <<cache, held, request>>

\* A DELETE outside a transaction.
Drop(key) ==
    /\ Stored(key) => Free(key, NULL)
    /\ cache' = [cache EXCEPT ![key] = NoRow]
    /\ Overtake({key})
    /\ UNCHANGED held

\* A DELETE inside one.
DropAtCommit(w, key) ==
    /\ Stored(key) => Free(key, w)
    /\ held' = IF Stored(key) THEN [held EXCEPT ![key] = w] ELSE held
    /\ Overtake({key})
    /\ UNCHANGED cache

\* The observers, key by key.
Forget(w) ==
    LET order == ForgetOrder[change[w].table]
        at    == change[w].at
    IN
    /\ Doing(w, "forgetting")
    /\ IF InTransaction(w) THEN DropAtCommit(w, order[at]) ELSE Drop(order[at])
    /\ change' = [change EXCEPT
            ![w].at = @ + 1,
            ![w].pc = IF at < Len(order) THEN "forgetting"
                      ELSE IF InTransaction(w) THEN "open" ELSE AfterChange(w)]
    /\ UNCHANGED <<data, announced>>

\* The next save of a service that makes several.
SaveAgain(w) ==
    /\ Doing(w, "open") /\ change[w].kind = "transaction" /\ change[w].saves < MaxSaves
    /\ change' = [change EXCEPT ![w].pc = "forgetting", ![w].at = 1, ![w].saves = @ + 1]
    /\ UNCHANGED <<data, announced, cache, held, request>>

Release(w) == held' = [key \in Keys |-> IF held[key] = w THEN NULL ELSE held[key]]

Commit(w) ==
    /\ Doing(w, "open")
    /\ NewVersion(change[w].table, TRUE)
    /\ cache' = [key \in Keys |-> IF held[key] = w THEN NoRow ELSE cache[key]]
    /\ Release(w)
    /\ Step(w, AfterChange(w))
    /\ Overtake(IF change[w].kind = "transaction" THEN Forgotten(change[w].table) ELSE {})

\* What BaseCatalogController does after performStore, performUpdate and delete.
ClearCache(w) ==
    /\ Doing(w, "committed")
    /\ Drop("branches_all")
    /\ Step(w, "done")
    /\ UNCHANGED <<data, announced>>

\* An exception in the transaction.
Rollback(w) ==
    /\ InTransaction(w)
    /\ Release(w)
    /\ Step(w, "done")
    /\ UNCHANGED <<data, announced, cache, request>>

\* The transaction w waits for a row that x has deleted.
WaitsFor(w, x) ==
    /\ InTransaction(w) /\ Doing(w, "forgetting")
    /\ held[ForgetOrder[change[w].table][change[w].at]] = x
    /\ x # w

\* Mutant of BreakDeadlock: the server has no deadlock detection.
NoDeadlockBroken(w) == FALSE /\ Rollback(w)

\* PostgreSQL ends one of two transactions that wait for each other.
BreakDeadlock(w) == (\E x \in Writers : WaitsFor(w, x) /\ WaitsFor(x, w)) /\ Rollback(w)

\* The process ends, or a forget throws, after the data has been committed.
Crash(w) ==
    /\ Doing(w, "committed") \/ (Doing(w, "forgetting") /\ ~InTransaction(w))
    /\ Step(w, "crashed")
    /\ UNCHANGED <<data, announced, cache, held, request>>

Proceed(w) == Forget(w) \/ Commit(w) \/ ClearCache(w)

-------------------------------------------------------------------------------

\* A value of the table t, a tick later.
Older(value, t) == [value EXCEPT !.late = IF value.version < data[t] THEN @ + 1 ELSE @]

\* Mutant of OlderRow: rememberForever.
OlderRowForever(key) == cache[key]

\* What is in a row that has expired matters no more.
OlderRow(key) ==
    CASE ~Alive(key)         -> cache[key]
      [] cache[key].left = 1 -> [NoRow EXCEPT !.left = 0]
      [] OTHER               -> [Older(cache[key], Table(key)) EXCEPT !.left = @ - 1]

OlderRequest(r) ==
    CASE Idle(r) -> request[r]
      [] At(r, "put_inner") \/ At(r, "put_outer") ->
            [request[r] EXCEPT !.spent = @ + 1, !.value = Older(@, Table(In(r)))]
      [] OTHER -> [request[r] EXCEPT !.spent = @ + 1]

Tick ==
    /\ \A r \in Readers : Idle(r) \/ request[r].spent < RequestTime
    /\ cache' = [key \in Keys |-> OlderRow(key)]
    /\ request' = [r \in Readers |-> OlderRequest(r)]
    /\ UNCHANGED <<data, announced, held, change>>

Next ==
    \/ \E r \in Readers, route \in Routes : Ask(r, route)
    \/ \E r \in Readers : Serve(r)
    \/ \E w \in Writers : Save(w) \/ Proceed(w) \/ SaveAgain(w)
    \/ \E w \in Writers : Rollback(w) \/ BreakDeadlock(w) \/ Crash(w)
    \/ Tick

Fairness ==
    /\ \A r \in Readers : WF_vars(Serve(r))
    /\ \A w \in Writers : WF_vars(Proceed(w)) /\ WF_vars(BreakDeadlock(w))
    /\ WF_vars(Tick)

Spec == Init /\ [][Next]_vars /\ Fairness

-------------------------------------------------------------------------------
(* What the caches promise.                                                  *)

Values == [version: Nat, raced: BOOLEAN, late: Nat, left: Nat \cup {NULL}]

Steps == {"idle", "outer", "take", "inner", "query", "put_inner", "put_outer",
          "answered", "failed"}

\* Only a transaction under way holds rows, and rows that are there.
TypeOK ==
    /\ data \in [Tables -> Nat]
    /\ \A t \in Tables : announced[t] \in 0..data[t]
    /\ cache \in [Keys -> Values]
    /\ held \in [Keys -> Writers \cup {NULL}]
    /\ \A key \in Keys : held[key] # NULL => Stored(key) /\ InTransaction(held[key])
    /\ request \in [Readers -> [pc: Steps, asks: SUBSET Routes, route: Routes, spent: 0..RequestTime,
                                raced: SUBSET Keys, value: Values]]
    /\ change \in [Writers ->
            [pc: {"idle", "forgetting", "open", "committed", "done", "crashed"},
             kind: {"plain", "transaction", "catalogue", "unobserved"},
             table: Tables, at: 1..3, saves: 0..MaxSaves]]

\* The change of t that may still leave old rows behind: committed, its forgets
\* not all done, or never to be.
Unfinished(t) ==
    \E w \in Writers : /\ change[w].table = t
                       /\ ~InTransaction(w)
                       /\ change[w].pc \in {"forgetting", "committed", "crashed"}

\* "Clear dashboard cache when data changes" (DashboardCacheObserver).  Once a
\* change has been made and its observers have run, a row of theirs that is older
\* than the change is one that raced it: no row that was there before survives, and
\* none that is filled from another cached row meanwhile.  The order of the forgets
\* matters, since initial_data is filled from statistics; and a catalogue, whose
\* controller forgets after the commit too, has no gap between forget and commit.
ChangesReachTheRows ==
    \A t \in Tables, key \in Keys :
        /\ key \in Forgotten(t)
        /\ Alive(key) /\ cache[key].version < announced[t]
        => cache[key].raced \/ Unfinished(t)

\* However the layers, the races, the crashes and the unobserved changes combine,
\* what is answered was the truth no longer ago than its two rows live and the two
\* requests that filled them took.
AnswersAreRecent ==
    \A r \in Readers :
        At(r, "answered") =>
            request[r].value.late <=
                (Ttl[In(r)] + RequestTime - 1)
                + (IF HasOuter(r) THEN Ttl[Out(r)] + RequestTime - 1 ELSE 0)

\* Once no change is made any more, every row comes to hold the truth: what a race,
\* a crash or an unobserved change has left behind expires, and is not kept alive
\* by one row being filled from the other.
RowsBecomeTrue == <>[](\A key \in Keys : Alive(key) => cache[key].version = data[Table(key)])

\* A change that has begun ends, though its transaction may wait for rows of the
\* cache that another one has deleted, and that one for this one's.
EveryChangeEnds ==
    \A w \in Writers : ~Doing(w, "idle") ~> change[w].pc \in {"done", "crashed"}

===============================================================================
