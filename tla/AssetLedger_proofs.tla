-------------------------- MODULE AssetLedger_proofs --------------------------
(***************************************************************************)
(* Proofs about the asset ledger, for any number of requests, assets,      *)
(* repairs and reserve items, and for workers that die anywhere: types     *)
(* and references, the movement that precedes a Returned repair, the       *)
(* reserve items, none of which is lost or made into two assets, where     *)
(* the log says an asset is, and whose reason a movement carries.          *)
(***************************************************************************)
EXTENDS AssetLedger, FiniteSetTheorems, TLAPS

-----------------------------------------------------------------------------
(* Types.  What a request still needs depends on the statement it is at.   *)

Labels == {"idle", "save", "commit", "log", "create", "asset", "repair",
           "repairlog", "remark", "deploy", "delete", "done", "aborted"}

\* A request at statement l with job j and model c as read.
Typed(l, j, c) ==
    /\ l \in Labels /\ j \in Jobs \cup {NULL} /\ c \in Rows \cup {NULL}
    /\ j = NULL <=> l \in {"idle", "done", "aborted"}
    /\ j # NULL =>
          /\ j.kind = "deploy" => j.item \in Items /\ j.to \in Workstations
          /\ j.kind # "deploy" => j.asset \in Assets
          /\ j.kind \in {"store", "workflow", "update"} => j.to \in RepairStatuses
          /\ j.kind \in {"workflow", "update"} => j.repair \in Repairs
    /\ l \in {"save", "commit", "log"} =>
          /\ j.kind \in InTransaction \cup {"edit", "workflow"}
          /\ j.model \in Rows /\ c \in Rows
    /\ l = "commit" => j.kind \in InTransaction
    /\ l = "create" => j.kind = "store"
    /\ l = "asset" => j.kind = "workflow"
    /\ l = "repair" => j.kind \in {"workflow", "update"}
    /\ l \in {"repairlog", "remark"} => j.kind # "deploy" /\ j.repair \in Repairs
    /\ l = "remark" => j.kind = "workflow"
    /\ l \in {"deploy", "delete"} => j.kind = "deploy"
    /\ l \in {"idle", "asset"} => c = NULL

RequestsTyped ==
    /\ pc \in [Requests -> Labels]
    /\ job \in [Requests -> Jobs \cup {NULL}]
    /\ copy \in [Requests -> Rows \cup {NULL}]
    /\ \A r \in Requests : Typed(pc[r], job[r], copy[r])

TablesSound ==
    /\ workstations \subseteq Workstations /\ items \subseteq Items
    /\ row \in [Assets -> Rows \cup {NULL}]
    /\ \A a \in Assets : row[a] # NULL => row[a].ws \in workstations \cup {NULL}
    /\ log \in [Assets -> Seq(Movements)]
    /\ \A a \in Assets : row[a] = NULL => log[a] = <<>>
    /\ repair \in [Repairs -> RepairRows \cup {NULL}]
    /\ \A p \in Repairs : repair[p] # NULL => row[repair[p].asset] # NULL
    /\ source \in [Assets -> Items \cup {NULL}]
    /\ disturbed \subseteq Assets \cup Items /\ discarded \subseteq Items

\* The UPDATE of an open transaction has passed the foreign key, and its lock
\* keeps the workstation.
Fits(r) ==
    /\ pc[r] = "commit"
    /\ row[job[r].asset] # NULL /\ job[r].model.ws # copy[r].ws
    => job[r].model.ws \in workstations \cup {NULL}

\* The repair of a request is about its asset, for as long as it exists.
OwnRepair(r) ==
    job[r] # NULL /\ job[r].repair # NULL =>
        repair[job[r].repair] = NULL \/ repair[job[r].repair].asset = job[r].asset

TypeInv ==
    /\ TablesSound
    /\ RequestsTyped
    /\ \A r \in Requests : Fits(r) /\ OwnRepair(r)

-----------------------------------------------------------------------------
(* One request's step leaves the others where they are. *)

Moves(r, l, j, c) ==
    /\ pc' = [pc EXCEPT ![r] = l]
    /\ job' = [job EXCEPT ![r] = j]
    /\ copy' = [copy EXCEPT ![r] = c]

\* A request that moves to a statement it is ready for keeps the requests typed.
LEMMA OwnStep ==
    ASSUME RequestsTyped, NEW r \in Requests, NEW l, NEW j, NEW c,
           Typed(l, j, c), Moves(r, l, j, c)
    PROVE  /\ RequestsTyped'
           /\ pc'[r] = l /\ job'[r] = j /\ copy'[r] = c
           /\ \A q \in Requests \ {r} : pc'[q] = pc[q] /\ job'[q] = job[q] /\ copy'[q] = copy[q]
<1>1. /\ pc' \in [Requests -> Labels]
      /\ job' \in [Requests -> Jobs \cup {NULL}]
      /\ copy' \in [Requests -> Rows \cup {NULL}]
  BY DEF RequestsTyped, Typed, Moves
<1>2. /\ pc'[r] = l /\ job'[r] = j /\ copy'[r] = c
      /\ \A q \in Requests \ {r} : pc'[q] = pc[q] /\ job'[q] = job[q] /\ copy'[q] = copy[q]
  BY DEF RequestsTyped, Moves
<1>3. ASSUME NEW q \in Requests PROVE Typed(pc'[q], job'[q], copy'[q])
  <2>1. CASE q = r
    BY <2>1, <1>2
  <2>2. CASE q # r
    <3>1. pc'[q] = pc[q] /\ job'[q] = job[q] /\ copy'[q] = copy[q]
      BY <2>2, <1>2
    <3>2. Typed(pc[q], job[q], copy[q])
      BY DEF RequestsTyped
    <3> QED BY <3>1, <3>2
  <2> QED BY <2>1, <2>2
<1> QED BY <1>1, <1>2, <1>3 DEF RequestsTyped

\* Nothing is asked of a request that has ended.
LEMMA NoJob == \A l \in {"idle", "done", "aborted"} : Typed(l, NULL, NULL)
  BY DEF Typed, Labels

LEMMA Ended ==
    ASSUME RequestsTyped, NEW r \in Requests, End(r)
    PROVE  /\ RequestsTyped'
           /\ pc'[r] = "done" /\ job'[r] = NULL /\ copy'[r] = NULL
           /\ \A q \in Requests \ {r} : pc'[q] = pc[q] /\ job'[q] = job[q] /\ copy'[q] = copy[q]
<1>1. Moves(r, "done", NULL, NULL)
  BY DEF End, Goto, Moves
<1> QED BY <1>1, NoJob, OwnStep

LEMMA Went ==
    ASSUME RequestsTyped, NEW r \in Requests, NEW l, Goto(r, l), UNCHANGED <<job, copy>>,
           Typed(l, job[r], copy[r])
    PROVE  /\ RequestsTyped'
           /\ pc'[r] = l /\ job' = job /\ copy' = copy
           /\ \A q \in Requests \ {r} : pc'[q] = pc[q]
<1>1. Moves(r, l, job[r], copy[r])
  BY DEF Goto, Moves, RequestsTyped
<1> QED BY <1>1, OwnStep

\* What the requests are about.
LEMMA ConcernedTyped ==
    ASSUME RequestsTyped, NEW r \in Requests
    PROVE  Concerned(r) \subseteq Assets \cup Items
  BY DEF RequestsTyped, Concerned, Jobs

-----------------------------------------------------------------------------
(* Models and movements *)

LEMMA NullIsNoRecord == NULL \notin Rows /\ NULL \notin RepairRows /\ NULL \notin Jobs
  BY NullIsNothing

LEMMA NullIsNoId ==
    /\ NULL \notin Assets /\ NULL \notin Workstations /\ NULL \notin Employees
    /\ NULL \notin Repairs /\ NULL \notin Items /\ NULL \notin Requests
  BY NullIsNothing

LEMMA ModelTyped ==
    ASSUME NEW read \in Rows, NEW want \in Rows
    PROVE  /\ Model(read, want) \in Rows
           /\ Model(read, want).ws = want.ws
           /\ Model(read, want).status = want.status
  BY DEF Model, ClearEmployee, Rows

\* Every endpoint wants a row.
LEMMA WantsTyped ==
    ASSUME NEW read \in Rows, NEW kind \in InTransaction \cup {"edit"},
           workstations \subseteq Workstations,
           NEW want \in Wants(kind, read)
    PROVE  want \in Rows
<1>1. CASE kind = "transfer"
  BY <1>1 DEF Wants, Rows
<1>2. CASE kind = "return"
  BY <1>2 DEF Wants, Rows
<1>3. CASE kind = "status"
  BY <1>3 DEF Wants, Rows
<1>4. CASE kind = "bulk"
  BY <1>4 DEF Wants, Rows
<1>5. CASE kind \in Narrating
  BY <1>5 DEF Wants, Rows, Narrating
<1>6. CASE kind = "edit"
  BY <1>6 DEF Wants, Narrating
<1> QED BY <1>1, <1>2, <1>3, <1>4, <1>5, <1>6 DEF InTransaction, Annotating

LEMMA UpdatedTyped ==
    ASSUME NEW stored \in Rows, NEW read \in Rows, NEW m \in Rows
    PROVE  /\ Updated(stored, read, m) \in Rows
           /\ Updated(stored, read, m).ws = IF m.ws # read.ws THEN m.ws ELSE stored.ws
  BY DEF Updated, Rows

LEMMA MovementTyped ==
    ASSUME NEW type \in {"created", "assignment", "workstation", "status", "repair"},
           NEW to \in Workstations \cup Employees \cup Statuses \cup {NULL},
           NEW by \in Requests \cup {NULL}
    PROVE  /\ Movement(type, to, by) \in Movements
           /\ <<Movement(type, to, by)>> \in Seq(Movements)
<1>1. Movement(type, to, by) \in Movements
  BY DEF Movement, Movements
<1> QED BY <1>1

\* What the observer writes, and that a change of status is among it.
LEMMA ObservedTyped ==
    ASSUME NEW read \in Rows, NEW m \in Rows, NEW r \in Requests
    PROVE  /\ Observed(read, m, r) \in Seq(Movements)
           /\ m.status # read.status =>
                 /\ Observed(read, m, r) # <<>>
                 /\ \E i \in DOMAIN Observed(read, m, r) :
                       Observed(read, m, r)[i] = Movement("status", m.status, r)
<1> DEFINE status == IF m.status # read.status THEN <<Movement("status", m.status, r)>> ELSE <<>>
<1>1. Placement(read, m, r) \in Seq(Movements)
  <2>1. m.ws \in Workstations \cup {NULL} /\ m.employee \in Employees \cup {NULL}
    BY DEF Rows
  <2>2. /\ <<Movement("workstation", m.ws, r)>> \in Seq(Movements)
        /\ <<Movement("assignment", m.employee, r)>> \in Seq(Movements)
    BY <2>1, MovementTyped
  <2>3. <<>> \in Seq(Movements)
    OBVIOUS
  <2> QED BY <2>2, <2>3 DEF Placement
<1>2. status \in Seq(Movements)
  <2>1. m.status \in Statuses
    BY DEF Rows
  <2>2. <<Movement("status", m.status, r)>> \in Seq(Movements)
    BY <2>1, MovementTyped
  <2> QED BY <2>2
<1>3. Observed(read, m, r) = Placement(read, m, r) \o status
  BY DEF Observed
<1>4. Observed(read, m, r) \in Seq(Movements)
  BY <1>1, <1>2, <1>3
<1>5. ASSUME m.status # read.status
      PROVE  /\ Observed(read, m, r) # <<>>
             /\ \E i \in DOMAIN Observed(read, m, r) :
                   Observed(read, m, r)[i] = Movement("status", m.status, r)
  <2> DEFINE before == Placement(read, m, r)
             x == Movement("status", m.status, r)
             mine == before \o <<x>>
  <2>1. status = <<x>> /\ Observed(read, m, r) = mine
    BY <1>3, <1>5
  <2>2. x \in Movements
    BY MovementTyped DEF Rows
  <2> HIDE DEF before, x
  <2>3. before \in Seq(Movements)
    BY <1>1 DEF before
  <2>4. Len(before) \in Nat /\ Len(mine) = Len(before) + 1 /\ mine[Len(before) + 1] = x
    BY <2>2, <2>3
  <2>5. DOMAIN mine = 1..Len(mine) /\ mine # <<>>
    BY <2>2, <2>3, <2>4
  <2> QED BY <2>1, <2>4, <2>5 DEF x
<1> QED BY <1>4, <1>5

\* But for its reason and the second it falls into, a movement stays as it is.
SameMovement(m, n) == m.type = n.type /\ m.to = n.to /\ m.by = n.by

\* What is appended to a log are the new movements.
LEMMA ExtendedShape ==
    ASSUME NEW seq \in Seq(Movements), NEW ms \in Seq(Movements),
           NEW t \in BOOLEAN, NEW u \in BOOLEAN
    PROVE  \E new \in Seq(Movements) :
              /\ Extended(seq, ms, t, u) = seq \o new
              /\ Len(new) = Len(ms)
              /\ \A i \in DOMAIN ms : SameMovement(new[i], ms[i])
<1> DEFINE dated(i) == IF i > 1 THEN u ELSE t /\ seq # <<>>
           new == [i \in DOMAIN ms |-> [ms[i] EXCEPT !.tied = dated(i)]]
<1>1. Extended(seq, ms, t, u) = seq \o new
  BY DEF Extended
<1>2. DOMAIN ms = 1..Len(ms) /\ Len(ms) \in Nat
  OBVIOUS
<1>3. ASSUME NEW i \in DOMAIN ms
      PROVE  [ms[i] EXCEPT !.tied = dated(i)] \in Movements
  <2>1. dated(i) \in BOOLEAN
    OBVIOUS
  <2>2. ms[i] \in Movements
    OBVIOUS
  <2> HIDE DEF dated
  <2> QED BY <2>1, <2>2 DEF Movements
<1>4. new \in Seq(Movements) /\ Len(new) = Len(ms)
  <2>1. new \in [1..Len(ms) -> Movements]
    BY <1>2, <1>3
  <2> HIDE DEF new
  <2> QED BY <2>1, <1>2
<1>5. ASSUME NEW i \in DOMAIN ms PROVE SameMovement(new[i], ms[i])
  <2>1. ms[i] \in Movements /\ new[i] = [ms[i] EXCEPT !.tied = dated(i)]
    OBVIOUS
  <2> HIDE DEF dated, new
  <2> QED BY <2>1 DEF Movements, SameMovement
<1> HIDE DEF new
<1> QED BY <1>1, <1>4, <1>5

-----------------------------------------------------------------------------
(* The requests that find an asset, a repair or an item *)

\* Marking is about assets and items, and takes no mark away.
LEMMA Marked ==
    ASSUME disturbed \subseteq Assets \cup Items,
           NEW r, NEW x \in Assets \cup Items, Mark(r, x)
    PROVE  disturbed' \subseteq Assets \cup Items /\ disturbed \subseteq disturbed'
  BY DEF Mark

\* As long as the tables the open transactions and the repairs rely on stay.
LEMMA CrossStays ==
    ASSUME \A q \in Requests : Fits(q) /\ OwnRepair(q),
           UNCHANGED <<workstations, row, repair>>,
           NEW r \in Requests,
           \A q \in Requests \ {r} : pc'[q] = pc[q] /\ job'[q] = job[q] /\ copy'[q] = copy[q],
           Fits(r)', OwnRepair(r)'
    PROVE  \A q \in Requests : Fits(q)' /\ OwnRepair(q)'
<1> TAKE q \in Requests
<1>1. CASE q = r
  BY <1>1
<1>2. CASE q # r
  BY <1>2 DEF Fits, OwnRepair
<1> QED BY <1>1, <1>2

LEMMA FindAssetTyped ==
    ASSUME TypeInv, NEW r \in Requests, NEW a \in Assets, FindAsset(r, a)
    PROVE  TypeInv'
<1>0. PICK kind \in InTransaction \cup {"edit"} : \E want \in Wants(kind, row[a]) :
         Ask(r, [Asked(kind, a) EXCEPT !.model = Model(row[a], want)])
  BY DEF FindAsset
<1>1. TablesSound /\ RequestsTyped
  BY DEF TypeInv
<1>2. row[a] \in Rows /\ workstations \subseteq Workstations
  BY <1>1 DEF FindAsset, TablesSound
<1>3. PICK want \in Wants(kind, row[a]) :
         Ask(r, [Asked(kind, a) EXCEPT !.model = Model(row[a], want)])
  BY <1>0
<1> DEFINE j == [Asked(kind, a) EXCEPT !.model = Model(row[a], want)]
<1>4. Model(row[a], want) \in Rows
  BY <1>2, <1>3, WantsTyped, ModelTyped
<1>5. /\ j \in Jobs /\ j # NULL
      /\ j.kind = kind /\ j.asset = a /\ j.model = Model(row[a], want) /\ j.repair = NULL
  <2>1. /\ j.kind = kind /\ j.asset = a /\ j.model = Model(row[a], want) /\ j.repair = NULL
        /\ j \in Jobs
    BY <1>3, <1>4 DEF Asked, Jobs
  <2> QED BY <2>1, NullIsNoRecord
<1>6. Typed("save", j, row[a])
  <2>1. kind \in InTransaction \cup {"edit"} /\ kind \notin {"store", "workflow", "update", "deploy"}
    BY <1>3 DEF InTransaction, Annotating, Narrating
  <2> HIDE DEF j
  <2> QED BY <1>2, <1>4, <1>5, <2>1 DEF Typed, Labels
<1>7. Moves(r, "save", j, row[a])
  BY <1>3 DEF FindAsset, Goto, Ask, Moves
<1> HIDE DEF j
<1>8. /\ RequestsTyped'
      /\ pc'[r] = "save" /\ job'[r] = j
      /\ \A q \in Requests \ {r} : pc'[q] = pc[q] /\ job'[q] = job[q] /\ copy'[q] = copy[q]
  BY <1>1, <1>6, <1>7, OwnStep
<1>9. UNCHANGED <<workstations, row, repair>>
  BY DEF FindAsset, tables
<1>10. Fits(r)' /\ OwnRepair(r)'
  BY <1>5, <1>8 DEF Fits, OwnRepair
<1>11. \A q \in Requests : Fits(q)' /\ OwnRepair(q)'
  BY <1>8, <1>9, <1>10, CrossStays DEF TypeInv
<1>12. TablesSound'
  BY <1>1, Marked DEF FindAsset, tables, TablesSound
<1> QED BY <1>8, <1>11, <1>12 DEF TypeInv

LEMMA CheckAssetTyped ==
    ASSUME TypeInv, NEW r \in Requests, NEW a \in Assets, CheckAsset(r, a)
    PROVE  TypeInv'
<1>1. TablesSound /\ RequestsTyped
  BY DEF TypeInv
<1>2. PICK s \in RepairStatuses : Ask(r, [Asked("store", a) EXCEPT !.to = s])
  BY DEF CheckAsset
<1> DEFINE j == [Asked("store", a) EXCEPT !.to = s]
<1>3. j \in Jobs /\ j.kind = "store" /\ j.asset = a /\ j.to = s /\ j.repair = NULL
  BY <1>2 DEF Asked, Jobs
<1>4. Typed("create", j, copy[r])
  <2>1. copy[r] \in Rows \cup {NULL} /\ j # NULL
    BY <1>1, <1>3, NullIsNoRecord DEF RequestsTyped
  <2> HIDE DEF j
  <2> QED BY <1>2, <1>3, <2>1 DEF Typed, Labels
<1>5. Moves(r, "create", j, copy[r])
  BY <1>1, <1>2 DEF CheckAsset, Goto, Ask, Moves, RequestsTyped
<1> HIDE DEF j
<1>6. /\ RequestsTyped'
      /\ pc'[r] = "create" /\ job'[r] = j
      /\ \A q \in Requests \ {r} : pc'[q] = pc[q] /\ job'[q] = job[q] /\ copy'[q] = copy[q]
  BY <1>1, <1>4, <1>5, OwnStep
<1>7. UNCHANGED <<workstations, row, repair>>
  BY DEF CheckAsset, tables
<1>8. Fits(r)' /\ OwnRepair(r)'
  BY <1>3, <1>6 DEF Fits, OwnRepair
<1>9. \A q \in Requests : Fits(q)' /\ OwnRepair(q)'
  BY <1>6, <1>7, <1>8, CrossStays DEF TypeInv
<1>10. TablesSound'
  BY <1>1, Marked DEF CheckAsset, tables, TablesSound
<1> QED BY <1>6, <1>9, <1>10 DEF TypeInv

LEMMA FindRepairTyped ==
    ASSUME TypeInv, NEW r \in Requests, NEW p \in Repairs, FindRepair(r, p)
    PROVE  TypeInv'
<1>1. TablesSound /\ RequestsTyped
  BY DEF TypeInv
<1>2. repair[p] \in RepairRows
  BY <1>1 DEF FindRepair, TablesSound
<1>3. repair[p].asset \in Assets /\ repair[p].status \in RepairStatuses
  BY <1>2 DEF RepairRows
<1>4. PICK kind \in {"workflow", "update"}, s \in RepairStatuses :
         /\ Ask(r, [Asked(kind, repair[p].asset) EXCEPT
                      !.repair = p, !.was = repair[p].status, !.to = s])
         /\ Goto(r, IF kind = "workflow" /\ s = "Returned" THEN "asset" ELSE "repair")
  BY DEF FindRepair
<1> DEFINE j == [Asked(kind, repair[p].asset) EXCEPT !.repair = p, !.was = repair[p].status, !.to = s]
           l == IF kind = "workflow" /\ s = "Returned" THEN "asset" ELSE "repair"
<1>5. j \in Jobs /\ j.kind = kind /\ j.asset = repair[p].asset /\ j.to = s /\ j.repair = p
  BY <1>3, <1>4 DEF Asked, Jobs
<1>6. l \in {"asset", "repair"} /\ (l = "asset" => kind = "workflow")
  OBVIOUS
<1>7. Moves(r, l, j, copy[r])
  BY <1>1, <1>4 DEF FindRepair, Goto, Ask, Moves, RequestsTyped
<1> HIDE DEF j, l
<1>8. Typed(l, j, copy[r])
  <2>1. copy[r] = NULL /\ j # NULL
    BY <1>1, <1>5, NullIsNoRecord DEF RequestsTyped, FindRepair, At, Typed
  <2> QED BY <1>3, <1>4, <1>5, <1>6, <2>1 DEF Typed, Labels
<1>9. /\ RequestsTyped'
      /\ pc'[r] = l /\ job'[r] = j
      /\ \A q \in Requests \ {r} : pc'[q] = pc[q] /\ job'[q] = job[q] /\ copy'[q] = copy[q]
  BY <1>1, <1>7, <1>8, OwnStep
<1>10. UNCHANGED <<workstations, row, repair>>
  BY DEF FindRepair, tables
<1>11. Fits(r)' /\ OwnRepair(r)'
  BY <1>5, <1>6, <1>9, <1>10 DEF Fits, OwnRepair
<1>12. \A q \in Requests : Fits(q)' /\ OwnRepair(q)'
  BY <1>9, <1>10, <1>11, CrossStays DEF TypeInv
<1>13. TablesSound'
  BY <1>1, <1>3, Marked DEF FindRepair, tables, TablesSound
<1> QED BY <1>9, <1>12, <1>13 DEF TypeInv

LEMMA FindItemTyped ==
    ASSUME TypeInv, NEW r \in Requests, NEW i \in Items, FindItem(r, i)
    PROVE  TypeInv'
<1>1. TablesSound /\ RequestsTyped
  BY DEF TypeInv
<1>2. PICK w \in workstations : Ask(r, [Asked("deploy", NULL) EXCEPT !.item = i, !.to = w])
  BY DEF FindItem
<1> DEFINE j == [Asked("deploy", NULL) EXCEPT !.item = i, !.to = w]
<1>3. w \in Workstations
  BY <1>1, <1>2 DEF TablesSound
<1>4. j \in Jobs /\ j.kind = "deploy" /\ j.item = i /\ j.to = w /\ j.repair = NULL
  BY <1>3 DEF Asked, Jobs
<1>5. Goto(r, "deploy")
  BY DEF FindItem, NextStatement
<1>6. Moves(r, "deploy", j, copy[r])
  BY <1>1, <1>2, <1>5 DEF FindItem, Goto, Ask, Moves, RequestsTyped
<1> HIDE DEF j
<1>7. Typed("deploy", j, copy[r])
  <2>1. copy[r] \in Rows \cup {NULL} /\ j # NULL
    BY <1>1, <1>4, NullIsNoRecord DEF RequestsTyped
  <2> QED BY <1>3, <1>4, <2>1 DEF Typed, Labels
<1>8. /\ RequestsTyped'
      /\ pc'[r] = "deploy" /\ job'[r] = j
      /\ \A q \in Requests \ {r} : pc'[q] = pc[q] /\ job'[q] = job[q] /\ copy'[q] = copy[q]
  BY <1>1, <1>6, <1>7, OwnStep
<1>9. UNCHANGED <<workstations, row, repair>>
  BY DEF FindItem, tables
<1>10. Fits(r)' /\ OwnRepair(r)'
  BY <1>4, <1>8 DEF Fits, OwnRepair
<1>11. \A q \in Requests : Fits(q)' /\ OwnRepair(q)'
  BY <1>8, <1>9, <1>10, CrossStays DEF TypeInv
<1>12. TablesSound'
  BY <1>1, Marked DEF FindItem, tables, TablesSound
<1> QED BY <1>8, <1>11, <1>12 DEF TypeInv

-----------------------------------------------------------------------------
(* Saves, and the movements they leave *)

LEMMA ExtendedIsLog ==
    ASSUME NEW seq \in Seq(Movements), NEW ms \in Seq(Movements),
           NEW t \in BOOLEAN, NEW u \in BOOLEAN
    PROVE  /\ Extended(seq, ms, t, u) \in Seq(Movements)
           /\ ms = <<>> => Extended(seq, ms, t, u) = seq
<1>1. PICK new \in Seq(Movements) :
         /\ Extended(seq, ms, t, u) = seq \o new
         /\ Len(new) = Len(ms)
         /\ \A i \in DOMAIN ms : SameMovement(new[i], ms[i])
  BY ExtendedShape
<1>2. seq \o new \in Seq(Movements) /\ (Len(new) = 0 => seq \o new = seq)
  OBVIOUS
<1> QED BY <1>1, <1>2

\* Movements are added to a log; a log without a row stays empty.
LEMMA LogExtended ==
    ASSUME TablesSound, NEW a \in Assets, NEW ms \in Seq(Movements),
           NEW t \in BOOLEAN, NEW u \in BOOLEAN,
           row[a] = NULL => ms = <<>>,
           log' = [log EXCEPT ![a] = Extended(log[a], ms, t, u)]
    PROVE  /\ log' \in [Assets -> Seq(Movements)]
           /\ \A b \in Assets : row[b] = NULL => log'[b] = <<>>
<1> DEFINE new == Extended(log[a], ms, t, u)
<1>1. log[a] \in Seq(Movements)
  BY DEF TablesSound
<1>2. new \in Seq(Movements) /\ (ms = <<>> => new = log[a])
  BY <1>1, ExtendedIsLog
<1> HIDE DEF new
<1>3. log' = [log EXCEPT ![a] = new]
  BY DEF new
<1> QED BY <1>2, <1>3 DEF TablesSound

\* Only the reason of a movement is written later.
LEMMA Annotated ==
    ASSUME NEW seq \in Seq(Movements), NEW i \in DOMAIN seq, NEW r \in Requests
    PROVE  /\ [seq EXCEPT ![i].reason = r] \in Seq(Movements)
           /\ DOMAIN [seq EXCEPT ![i].reason = r] = DOMAIN seq
           /\ \A k \in DOMAIN seq :
                 /\ [seq EXCEPT ![i].reason = r][k].type = seq[k].type
                 /\ [seq EXCEPT ![i].reason = r][k].to = seq[k].to
                 /\ [seq EXCEPT ![i].reason = r][k].by = seq[k].by
<1> DEFINE n == Len(seq)
           m == [seq[i] EXCEPT !.reason = r]
<1>1. n \in Nat /\ DOMAIN seq = 1..n /\ seq \in [1..n -> Movements]
  OBVIOUS
<1>2. m \in Movements /\ m.type = seq[i].type /\ m.to = seq[i].to /\ m.by = seq[i].by
  BY <1>1 DEF Movements
<1>3. [seq EXCEPT ![i].reason = r] = [seq EXCEPT ![i] = m]
  OBVIOUS
<1> HIDE DEF n, m
<1>4. [seq EXCEPT ![i] = m] \in [1..n -> Movements]
  BY <1>1, <1>2
<1>5. [seq EXCEPT ![i] = m] \in Seq(Movements)
  BY <1>1, <1>4
<1> QED BY <1>1, <1>2, <1>3, <1>5

\* An UPDATE within the foreign key neither makes nor removes rows.
LEMMA RowWritten ==
    ASSUME TablesSound, NEW a \in Assets, NEW read \in Rows, NEW m \in Rows,
           row[a] # NULL /\ m.ws # read.ws => m.ws \in workstations \cup {NULL},
           row' = Written(a, read, m),
           UNCHANGED workstations
    PROVE  /\ row' \in [Assets -> Rows \cup {NULL}]
           /\ \A b \in Assets : row'[b] = NULL <=> row[b] = NULL
           /\ \A b \in Assets : row'[b] # NULL => row'[b].ws \in workstations' \cup {NULL}
<1>1. CASE row[a] = NULL
  BY <1>1 DEF Written, TablesSound
<1>2. CASE row[a] # NULL
  <2> DEFINE new == Updated(row[a], read, m)
  <2>1. row[a] \in Rows /\ row[a].ws \in workstations \cup {NULL}
    BY <1>2 DEF TablesSound
  <2>2. new \in Rows /\ new.ws \in workstations \cup {NULL} /\ new # NULL
    BY <1>2, <2>1, UpdatedTyped, NullIsNoRecord
  <2>3. row' = [row EXCEPT ![a] = new]
    BY <1>2 DEF Written
  <2> HIDE DEF new
  <2> QED BY <1>2, <2>2, <2>3 DEF TablesSound
<1> QED BY <1>1, <1>2

\* As long as no workstation is removed, and rows and repairs are only made
\* that no other request is about.
LEMMA CrossKept ==
    ASSUME TypeInv, UNCHANGED workstations,
           NEW r \in Requests,
           \A b \in Assets : row'[b] # NULL =>
               row[b] # NULL \/ \A q \in Requests : b \notin Concerned(q),
           \A p \in Repairs :
               \/ repair'[p] = NULL
               \/ repair[p] # NULL /\ repair'[p].asset = repair[p].asset
               \/ \A q \in Requests : job[q] # NULL => job[q].repair # p,
           \A q \in Requests \ {r} : pc'[q] = pc[q] /\ job'[q] = job[q] /\ copy'[q] = copy[q],
           Fits(r)', OwnRepair(r)'
    PROVE  \A q \in Requests : Fits(q)' /\ OwnRepair(q)'
<1> TAKE q \in Requests
<1>1. CASE q = r
  BY <1>1
<1>2. CASE q # r
  <2>1. Fits(q) /\ OwnRepair(q) /\ Typed(pc[q], job[q], copy[q])
    BY DEF TypeInv, RequestsTyped
  <2>2. job[q] # NULL => job[q].repair \in Repairs \cup {NULL}
    BY <2>1 DEF Typed, Jobs
  <2>3. pc[q] = "commit" => job[q] # NULL /\ job[q].asset \in Assets
    BY <2>1 DEF Typed, InTransaction, Annotating, Narrating
  <2>4. pc[q] = "commit" => job[q].asset \in Concerned(q)
    BY <2>3, NullIsNoId DEF Concerned
  <2>5. Fits(q)'
    BY <1>2, <2>1, <2>3, <2>4 DEF Fits
  <2>6. OwnRepair(q)'
    BY <1>2, <2>1, <2>2 DEF OwnRepair
  <2> QED BY <2>5, <2>6
<1> QED BY <1>1, <1>2

\* What a request at a save or after it knows.
LEMMA Saver ==
    ASSUME RequestsTyped, NEW r \in Requests, pc[r] \in {"save", "commit", "log"}
    PROVE  /\ job[r] \in Jobs /\ job[r] # NULL /\ job[r].asset \in Assets
           /\ job[r].model \in Rows /\ copy[r] \in Rows
           /\ job[r].kind \in InTransaction \cup {"edit", "workflow"}
           /\ job[r].kind = "workflow" => job[r].repair \in Repairs /\ job[r].to \in RepairStatuses
<1>1. Typed(pc[r], job[r], copy[r])
  BY DEF RequestsTyped
<1>2. job[r] # NULL
  BY <1>1 DEF Typed
<1>3. job[r].kind # "deploy"
  BY <1>1 DEF Typed, InTransaction, Annotating, Narrating
<1> QED BY <1>1, <1>2, <1>3 DEF Typed

LEMMA OwnMovementTyped ==
    ASSUME RequestsTyped, NEW r \in Requests, pc[r] \in {"save", "commit", "log"}
    PROVE  OwnMovement(r) \in Seq(Movements)
<1>1. job[r].model.ws \in Workstations \cup {NULL}
  BY Saver DEF Rows
<1>2. <<Movement("workstation", job[r].model.ws, r)>> \in Seq(Movements) /\ <<>> \in Seq(Movements)
  BY <1>1, MovementTyped
<1> QED BY <1>2 DEF OwnMovement

LEMMA SaveInTransactionTyped ==
    ASSUME TypeInv, NEW r \in Requests, SaveInTransaction(r)
    PROVE  TypeInv'
<1> DEFINE a == job[r].asset
           m == job[r].model
           mine == Observed(copy[r], m, r) \o OwnMovement(r)
<1>1. TablesSound /\ RequestsTyped /\ At(r, "save") /\ job[r].kind \in InTransaction
  BY DEF TypeInv, SaveInTransaction
<1>2. a \in Assets /\ m \in Rows /\ copy[r] \in Rows /\ job[r] # NULL
  BY <1>1, Saver DEF At
<1>3. mine \in Seq(Movements)
  BY <1>1, <1>2, OwnMovementTyped, ObservedTyped DEF At
<1>4. UNCHANGED <<workstations, row, repair, items, source, history>>
  BY DEF SaveInTransaction
<1>5. CASE End(r) /\ UNCHANGED log
  <2>1. /\ RequestsTyped' /\ pc'[r] = "done" /\ job'[r] = NULL
        /\ \A q \in Requests \ {r} : pc'[q] = pc[q] /\ job'[q] = job[q] /\ copy'[q] = copy[q]
    BY <1>1, <1>5, Ended
  <2>2. Fits(r)' /\ OwnRepair(r)'
    BY <2>1 DEF Fits, OwnRepair
  <2>3. \A q \in Requests : Fits(q)' /\ OwnRepair(q)'
    BY <1>4, <2>1, <2>2, CrossStays DEF TypeInv
  <2>4. TablesSound'
    BY <1>1, <1>4, <1>5 DEF TablesSound, history
  <2> QED BY <2>1, <2>3, <2>4 DEF TypeInv
<1>6. CASE ~((row[a] = NULL /\ mine # <<>>) \/ Dangling(a, copy[r], m))
  <2>1. PICK t \in BOOLEAN, u \in BOOLEAN :
           log' = [log EXCEPT ![a] = Extended(log[a], mine, t, u)]
    BY <1>6 DEF SaveInTransaction
  <2>2. Goto(r, "commit") /\ UNCHANGED <<job, copy>>
    BY <1>6 DEF SaveInTransaction
  <2>3. row[a] = NULL => mine = <<>>
    BY <1>6
  <2>4. row[a] # NULL /\ m.ws # copy[r].ws => m.ws \in workstations \cup {NULL}
    BY <1>6 DEF Dangling
  <2> HIDE DEF mine
  <2>5. TablesSound'
    <3>1. /\ log' \in [Assets -> Seq(Movements)]
          /\ \A b \in Assets : row[b] = NULL => log'[b] = <<>>
      BY <1>1, <1>2, <1>3, <2>1, <2>3, LogExtended
    <3> QED BY <1>1, <1>4, <3>1 DEF TablesSound, history
  <2>6. Typed("commit", job[r], copy[r])
    BY <1>1 DEF RequestsTyped, Typed, Labels, At
  <2>7. /\ RequestsTyped' /\ pc'[r] = "commit" /\ UNCHANGED <<job, copy>>
        /\ \A q \in Requests \ {r} : pc'[q] = pc[q]
    BY <1>1, <2>2, <2>6, Went
  <2>8. Fits(r)' /\ OwnRepair(r)'
    BY <1>4, <2>4, <2>7 DEF Fits, OwnRepair, TypeInv
  <2>9. \A q \in Requests : Fits(q)' /\ OwnRepair(q)'
    BY <1>4, <2>7, <2>8, CrossStays DEF TypeInv
  <2> QED BY <2>5, <2>7, <2>9 DEF TypeInv
<1> QED BY <1>5, <1>6 DEF SaveInTransaction

LEMMA CommitTyped ==
    ASSUME TypeInv, NEW r \in Requests, Commit(r)
    PROVE  TypeInv'
<1> DEFINE a == job[r].asset
           m == job[r].model
<1>1. TablesSound /\ RequestsTyped /\ At(r, "commit")
  BY DEF TypeInv, Commit
<1>2. a \in Assets /\ m \in Rows /\ copy[r] \in Rows
  BY <1>1, Saver DEF At
<1>3. row[a] # NULL /\ m.ws # copy[r].ws => m.ws \in workstations \cup {NULL}
  BY <1>1 DEF TypeInv, Fits, At
<1>4. /\ row' = Written(a, copy[r], m) /\ End(r)
      /\ UNCHANGED <<workstations, repair, items, source, history>>
  BY DEF Commit
<1>5. /\ row' \in [Assets -> Rows \cup {NULL}]
      /\ \A b \in Assets : row'[b] = NULL <=> row[b] = NULL
      /\ \A b \in Assets : row'[b] # NULL => row'[b].ws \in workstations' \cup {NULL}
  BY <1>1, <1>2, <1>3, <1>4, RowWritten
<1>6. /\ log' \in [Assets -> Seq(Movements)]
      /\ \A b \in Assets : row'[b] = NULL => log'[b] = <<>>
  <2>1. CASE UNCHANGED log
    BY <1>1, <1>5, <2>1 DEF TablesSound
  <2>2. CASE \E i \in Latest(a, r) : log' = [log EXCEPT ![a][i].reason = r]
    <3>1. PICK i \in Latest(a, r) : log' = [log EXCEPT ![a][i].reason = r]
      BY <2>2
    <3>2. i \in DOMAIN log[a] /\ log[a] \in Seq(Movements)
      BY <1>1, <1>2, <3>1 DEF Latest, TablesSound
    <3>3. log' = [log EXCEPT ![a] = [log[a] EXCEPT ![i].reason = r]]
      BY <3>1
    <3>4. [log[a] EXCEPT ![i].reason = r] \in Seq(Movements)
      BY <3>2, Annotated
    <3>5. row[a] # NULL
      <4>1. <<>> \in Seq(Movements) /\ DOMAIN <<>> = {}
        OBVIOUS
      <4> QED BY <1>1, <1>2, <3>2, <4>1 DEF TablesSound
    <3> QED BY <1>1, <1>5, <3>3, <3>4, <3>5 DEF TablesSound
  <2> QED BY <2>1, <2>2 DEF Commit
<1>7. TablesSound'
  <2>1. ASSUME NEW p \in Repairs, repair[p] # NULL PROVE repair[p].asset \in Assets
    BY <1>1, <2>1 DEF TablesSound, RepairRows
  <2> QED BY <1>1, <1>4, <1>5, <1>6, <2>1 DEF TablesSound, history
<1>8. /\ RequestsTyped' /\ pc'[r] = "done" /\ job'[r] = NULL
      /\ \A q \in Requests \ {r} : pc'[q] = pc[q] /\ job'[q] = job[q] /\ copy'[q] = copy[q]
  BY <1>1, <1>4, Ended
<1>9. Fits(r)' /\ OwnRepair(r)'
  BY <1>8 DEF Fits, OwnRepair
<1>10. \A q \in Requests : Fits(q)' /\ OwnRepair(q)'
  BY <1>4, <1>5, <1>8, <1>9, CrossKept
<1> QED BY <1>7, <1>8, <1>10 DEF TypeInv

LEMMA Proceeded ==
    ASSUME RequestsTyped, NEW r \in Requests, NEW label, Proceed(r, label),
           label = "done" \/ Typed(label, job[r], copy[r])
    PROVE  /\ RequestsTyped'
           /\ pc'[r] = label
           /\ job'[r] = IF label = "done" THEN NULL ELSE job[r]
           /\ label # "done" => copy'[r] = copy[r]
           /\ \A q \in Requests \ {r} : pc'[q] = pc[q] /\ job'[q] = job[q] /\ copy'[q] = copy[q]
<1>1. CASE label = "done"
  <2>1. End(r)
    BY <1>1 DEF Proceed
  <2> QED BY <1>1, <2>1, Ended
<1>2. CASE label # "done"
  <2>1. Goto(r, label) /\ UNCHANGED <<job, copy>>
    BY <1>2 DEF Proceed
  <2> QED BY <1>2, <2>1, Went
<1> QED BY <1>1, <1>2

\* A request that has saved its model is ready for what comes next.
LEMMA AfterSaveTyped ==
    ASSUME RequestsTyped, NEW r \in Requests, pc[r] \in {"save", "log"}
    PROVE  \A label \in {AfterSave(r), AfterLog(r)} :
              /\ label \in {"log", "repair", "done"}
              /\ label = "done" \/ Typed(label, job[r], copy[r])
<1>1. Typed(pc[r], job[r], copy[r])
  BY DEF RequestsTyped
<1>2. Typed("log", job[r], copy[r])
  BY <1>1 DEF Typed, Labels
<1>3. job[r].kind = "workflow" => Typed("repair", job[r], copy[r])
  BY <1>1 DEF Typed, Labels
<1> QED BY <1>2, <1>3 DEF AfterSave, AfterLog

LEMMA SaveTyped ==
    ASSUME TypeInv, NEW r \in Requests, Save(r)
    PROVE  TypeInv'
<1> DEFINE a == job[r].asset
           m == job[r].model
<1>1. TablesSound /\ RequestsTyped /\ At(r, "save")
  BY DEF TypeInv, Save
<1>2. a \in Assets /\ m \in Rows /\ copy[r] \in Rows
  BY <1>1, Saver DEF At
<1>3. UNCHANGED <<workstations, log, repair, items, source, history>>
  BY DEF Save
<1>4. CASE Dangling(a, copy[r], m)
  <2>1. End(r) /\ UNCHANGED row
    BY <1>4 DEF Save
  <2>2. /\ RequestsTyped' /\ pc'[r] = "done" /\ job'[r] = NULL
        /\ \A q \in Requests \ {r} : pc'[q] = pc[q] /\ job'[q] = job[q] /\ copy'[q] = copy[q]
    BY <1>1, <2>1, Ended
  <2>3. Fits(r)' /\ OwnRepair(r)'
    BY <2>2 DEF Fits, OwnRepair
  <2>4. \A q \in Requests : Fits(q)' /\ OwnRepair(q)'
    BY <1>3, <2>1, <2>2, <2>3, CrossStays DEF TypeInv
  <2>5. TablesSound'
    BY <1>1, <1>3, <2>1 DEF TablesSound, history
  <2> QED BY <2>2, <2>4, <2>5 DEF TypeInv
<1>5. CASE ~Dangling(a, copy[r], m)
  <2>1. row' = Written(a, copy[r], m) /\ Proceed(r, AfterSave(r))
    BY <1>5 DEF Save
  <2>2. row[a] # NULL /\ m.ws # copy[r].ws => m.ws \in workstations \cup {NULL}
    BY <1>5 DEF Dangling
  <2>3. /\ row' \in [Assets -> Rows \cup {NULL}]
        /\ \A b \in Assets : row'[b] = NULL <=> row[b] = NULL
        /\ \A b \in Assets : row'[b] # NULL => row'[b].ws \in workstations' \cup {NULL}
    BY <1>1, <1>2, <1>3, <2>1, <2>2, RowWritten
  <2>4. TablesSound'
    <3>1. ASSUME NEW p \in Repairs, repair[p] # NULL PROVE repair[p].asset \in Assets
      BY <1>1, <3>1 DEF TablesSound, RepairRows
    <3> QED BY <1>1, <1>3, <2>3, <3>1 DEF TablesSound, history
  <2>5. AfterSave(r) \in {"log", "repair", "done"}
        /\ (AfterSave(r) = "done" \/ Typed(AfterSave(r), job[r], copy[r]))
    BY <1>1, AfterSaveTyped DEF At
  <2>6. /\ RequestsTyped' /\ pc'[r] = AfterSave(r) /\ job'[r] \in {NULL, job[r]}
        /\ \A q \in Requests \ {r} : pc'[q] = pc[q] /\ job'[q] = job[q] /\ copy'[q] = copy[q]
    BY <1>1, <2>1, <2>5, Proceeded
  <2>7. Fits(r)' /\ OwnRepair(r)'
    BY <1>3, <2>5, <2>6 DEF Fits, OwnRepair, TypeInv
  <2>8. \A q \in Requests : Fits(q)' /\ OwnRepair(q)'
    BY <1>3, <2>3, <2>6, <2>7, CrossKept
  <2> QED BY <2>4, <2>6, <2>8 DEF TypeInv
<1> QED BY <1>4, <1>5

LEMMA LogTyped ==
    ASSUME TypeInv, NEW r \in Requests, Log(r)
    PROVE  TypeInv'
<1> DEFINE a == job[r].asset
           mine == Observed(copy[r], job[r].model, r)
<1>1. TablesSound /\ RequestsTyped /\ At(r, "log")
  BY DEF TypeInv, Log
<1>2. a \in Assets /\ job[r].model \in Rows /\ copy[r] \in Rows
  BY <1>1, Saver DEF At
<1>3. mine \in Seq(Movements)
  BY <1>2, ObservedTyped
<1>4. UNCHANGED <<workstations, row, repair, items, source, history>>
  BY DEF Log
<1>5. CASE row[a] = NULL /\ mine # <<>>
  <2>1. End(r) /\ UNCHANGED log
    BY <1>5 DEF Log
  <2>2. /\ RequestsTyped' /\ pc'[r] = "done" /\ job'[r] = NULL
        /\ \A q \in Requests \ {r} : pc'[q] = pc[q] /\ job'[q] = job[q] /\ copy'[q] = copy[q]
    BY <1>1, <2>1, Ended
  <2>3. Fits(r)' /\ OwnRepair(r)'
    BY <2>2 DEF Fits, OwnRepair
  <2>4. \A q \in Requests : Fits(q)' /\ OwnRepair(q)'
    BY <1>4, <2>2, <2>3, CrossStays DEF TypeInv
  <2>5. TablesSound'
    BY <1>1, <1>4, <2>1 DEF TablesSound, history
  <2> QED BY <2>2, <2>4, <2>5 DEF TypeInv
<1>6. CASE ~(row[a] = NULL /\ mine # <<>>)
  <2>1. PICK t \in BOOLEAN, u \in BOOLEAN :
           log' = [log EXCEPT ![a] = Extended(log[a], mine, t, u)]
    BY <1>6 DEF Log
  <2>2. Proceed(r, AfterLog(r)) /\ (row[a] = NULL => mine = <<>>)
    BY <1>6 DEF Log
  <2> HIDE DEF mine
  <2>3. /\ log' \in [Assets -> Seq(Movements)]
        /\ \A b \in Assets : row[b] = NULL => log'[b] = <<>>
    BY <1>1, <1>2, <1>3, <2>1, <2>2, LogExtended
  <2>4. TablesSound'
    BY <1>1, <1>4, <2>3 DEF TablesSound, history
  <2>5. AfterLog(r) \in {"log", "repair", "done"}
        /\ (AfterLog(r) = "done" \/ Typed(AfterLog(r), job[r], copy[r]))
    BY <1>1, AfterSaveTyped DEF At
  <2>6. /\ RequestsTyped' /\ pc'[r] = AfterLog(r) /\ job'[r] \in {NULL, job[r]}
        /\ \A q \in Requests \ {r} : pc'[q] = pc[q] /\ job'[q] = job[q] /\ copy'[q] = copy[q]
    BY <1>1, <2>2, <2>5, Proceeded
  <2>7. Fits(r)' /\ OwnRepair(r)'
    BY <1>4, <2>5, <2>6 DEF Fits, OwnRepair, TypeInv
  <2>8. \A q \in Requests : Fits(q)' /\ OwnRepair(q)'
    BY <1>4, <2>6, <2>7, CrossStays DEF TypeInv
  <2> QED BY <2>4, <2>6, <2>8 DEF TypeInv
<1> QED BY <1>5, <1>6

-----------------------------------------------------------------------------
(* Repairs *)

\* A movement about a repair goes to an asset that exists.
LEMMA LogsOfTyped ==
    ASSUME TablesSound, NEW p \in Repairs, NEW r \in Requests, log' \in LogsOf(p, r) \cup {log}
    PROVE  /\ log' \in [Assets -> Seq(Movements)]
           /\ \A b \in Assets : row[b] = NULL => log'[b] = <<>>
<1>1. CASE log' = log
  BY <1>1 DEF TablesSound
<1>2. CASE log' \in LogsOf(p, r)
  <2> DEFINE a == repair[p].asset
             ms == <<Movement("repair", NULL, r)>>
  <2>1. repair[p] # NULL
    BY <1>2 DEF LogsOf
  <2>2. a \in Assets /\ row[a] # NULL
    BY <2>1 DEF TablesSound, RepairRows
  <2>3. PICK t \in BOOLEAN : log' = [log EXCEPT ![a] = Extended(log[a], ms, t, t)]
    BY <1>2, <2>1 DEF LogsOf
  <2>4. ms \in Seq(Movements)
    BY MovementTyped
  <2> HIDE DEF a, ms
  <2> QED BY <2>2, <2>3, <2>4, LogExtended
<1> QED BY <1>1, <1>2

LEMMA CreateRepairTyped ==
    ASSUME TypeInv, NEW r \in Requests, CreateRepair(r)
    PROVE  TypeInv'
<1>1. TablesSound /\ RequestsTyped /\ At(r, "create")
  BY DEF TypeInv, CreateRepair
<1>2. UNCHANGED <<workstations, row, log, items, source, history>>
  BY DEF CreateRepair
<1>3. /\ Typed("create", job[r], copy[r]) /\ job[r] \in Jobs /\ job[r] # NULL
      /\ job[r].kind = "store" /\ job[r].asset \in Assets /\ job[r].to \in RepairStatuses
  BY <1>1 DEF RequestsTyped, At, Typed
<1>4. CASE End(r) /\ UNCHANGED repair
  <2>1. /\ RequestsTyped' /\ pc'[r] = "done" /\ job'[r] = NULL
        /\ \A q \in Requests \ {r} : pc'[q] = pc[q] /\ job'[q] = job[q] /\ copy'[q] = copy[q]
    BY <1>1, <1>4, Ended
  <2>2. Fits(r)' /\ OwnRepair(r)'
    BY <2>1 DEF Fits, OwnRepair
  <2>3. \A q \in Requests : Fits(q)' /\ OwnRepair(q)'
    BY <1>2, <1>4, <2>1, <2>2, CrossStays DEF TypeInv
  <2>4. TablesSound'
    BY <1>1, <1>2, <1>4 DEF TablesSound, history
  <2> QED BY <2>1, <2>3, <2>4 DEF TypeInv
<1>5. CASE row[job[r].asset] # NULL
  <2> DEFINE new == [asset |-> job[r].asset, status |-> job[r].to]
  <2>1. PICK p \in Repairs :
           /\ repair[p] = NULL /\ \A q \in Requests : job[q] # NULL => job[q].repair # p
           /\ repair' = [repair EXCEPT ![p] = new]
           /\ job' = [job EXCEPT ![r].repair = p]
           /\ Goto(r, "repairlog")
           /\ UNCHANGED copy
    BY <1>5 DEF CreateRepair
  <2> DEFINE j == [job[r] EXCEPT !.repair = p]
  <2>2. new \in RepairRows /\ new.asset = job[r].asset
    BY <1>3 DEF RepairRows
  <2>3. /\ j \in Jobs /\ j.kind = job[r].kind /\ j.asset = job[r].asset /\ j.to = job[r].to
        /\ j.repair = p
    BY <1>3 DEF Jobs
  <2>4. Moves(r, "repairlog", j, copy[r])
    BY <1>1, <2>1 DEF Goto, Moves, RequestsTyped
  <2> HIDE DEF new, j
  <2>5. Typed("repairlog", j, copy[r])
    BY <1>3, <2>1, <2>3, NullIsNoRecord DEF Typed, Labels
  <2>6. /\ RequestsTyped' /\ pc'[r] = "repairlog" /\ job'[r] = j
        /\ \A q \in Requests \ {r} : pc'[q] = pc[q] /\ job'[q] = job[q] /\ copy'[q] = copy[q]
    BY <1>1, <2>4, <2>5, OwnStep
  <2>7. /\ repair' \in [Repairs -> RepairRows \cup {NULL}]
        /\ repair'[p] = new
        /\ \A o \in Repairs \ {p} : repair'[o] = repair[o]
    BY <1>1, <2>1, <2>2 DEF TablesSound
  <2>8. TablesSound'
    BY <1>1, <1>2, <1>5, <2>2, <2>7 DEF TablesSound, history
  <2>9. Fits(r)' /\ OwnRepair(r)'
    BY <2>2, <2>3, <2>6, <2>7 DEF Fits, OwnRepair
  <2>10. \A q \in Requests : Fits(q)' /\ OwnRepair(q)'
    BY <1>2, <2>1, <2>6, <2>7, <2>9, CrossKept
  <2> QED BY <2>6, <2>8, <2>10 DEF TypeInv
<1> QED BY <1>4, <1>5 DEF CreateRepair

LEMMA LoadAssetTyped ==
    ASSUME TypeInv, NEW r \in Requests, LoadAsset(r)
    PROVE  TypeInv'
<1> DEFINE a == job[r].asset
           want == [row[a] EXCEPT !.status = "Functional"]
           j == [job[r] EXCEPT !.model = Model(row[a], want)]
<1>1. TablesSound /\ RequestsTyped /\ At(r, "asset")
  BY DEF TypeInv, LoadAsset
<1>2. UNCHANGED <<tables, history>>
  BY DEF LoadAsset
<1>3. /\ Typed("asset", job[r], copy[r]) /\ job[r] \in Jobs /\ job[r] # NULL
      /\ job[r].kind = "workflow" /\ a \in Assets
      /\ job[r].to \in RepairStatuses /\ job[r].repair \in Repairs
  BY <1>1 DEF RequestsTyped, At, Typed
<1>4. TablesSound'
  BY <1>1, <1>2 DEF TablesSound, tables, history
<1>5. CASE row[a] = NULL \/ a \in hidden
  <2>1. Goto(r, "repair") /\ UNCHANGED <<job, copy>>
    BY <1>5 DEF LoadAsset
  <2>2. Typed("repair", job[r], copy[r])
    BY <1>3 DEF Typed, Labels
  <2>3. /\ RequestsTyped' /\ pc'[r] = "repair" /\ UNCHANGED <<job, copy>>
        /\ \A q \in Requests \ {r} : pc'[q] = pc[q]
    BY <1>1, <2>1, <2>2, Went
  <2>4. Fits(r)' /\ OwnRepair(r)'
    BY <1>2, <2>3 DEF Fits, OwnRepair, TypeInv, tables
  <2>5. \A q \in Requests : Fits(q)' /\ OwnRepair(q)'
    BY <1>2, <2>3, <2>4, CrossStays DEF TypeInv, tables
  <2> QED BY <1>4, <2>3, <2>5 DEF TypeInv
<1>6. CASE row[a] # NULL /\ a \notin hidden
  <2>1. row[a] \in Rows
    BY <1>1, <1>3, <1>6 DEF TablesSound
  <2>2. want \in Rows
    BY <2>1, LedgerStatuses DEF Rows
  <2>3. Model(row[a], want) \in Rows
    BY <2>1, <2>2, ModelTyped
  <2>4. Moves(r, "save", j, row[a])
    BY <1>6 DEF LoadAsset, Goto, Moves
  <2> HIDE DEF want
  <2>5. /\ j \in Jobs /\ j.kind = job[r].kind /\ j.asset = a /\ j.to = job[r].to
        /\ j.repair = job[r].repair /\ j.model = Model(row[a], want)
    BY <1>3, <2>3 DEF Jobs
  <2> HIDE DEF j
  <2>6. Typed("save", j, row[a])
    BY <1>3, <2>1, <2>3, <2>5, NullIsNoRecord DEF Typed, Labels
  <2>7. /\ RequestsTyped' /\ pc'[r] = "save" /\ job'[r] = j
        /\ \A q \in Requests \ {r} : pc'[q] = pc[q] /\ job'[q] = job[q] /\ copy'[q] = copy[q]
    BY <1>1, <2>4, <2>6, OwnStep
  <2>8. Fits(r)' /\ OwnRepair(r)'
    <3>1. OwnRepair(r)
      BY DEF TypeInv
    <3> QED BY <1>2, <1>3, <2>5, <2>7, <3>1 DEF Fits, OwnRepair, tables
  <2>9. \A q \in Requests : Fits(q)' /\ OwnRepair(q)'
    BY <1>2, <2>7, <2>8, CrossStays DEF TypeInv, tables
  <2> QED BY <1>4, <2>7, <2>9 DEF TypeInv
<1> QED BY <1>5, <1>6

LEMMA SaveRepairTyped ==
    ASSUME TypeInv, NEW r \in Requests, SaveRepair(r)
    PROVE  TypeInv'
<1> DEFINE p == job[r].repair
<1>1. TablesSound /\ RequestsTyped /\ At(r, "repair")
  BY DEF TypeInv, SaveRepair
<1>2. UNCHANGED <<workstations, row, log, items, source, history>>
  BY DEF SaveRepair
<1>3. /\ Typed("repair", job[r], copy[r]) /\ job[r] \in Jobs /\ job[r] # NULL
      /\ job[r].kind \in {"workflow", "update"} /\ p \in Repairs /\ job[r].to \in RepairStatuses
  BY <1>1 DEF RequestsTyped, At, Typed
<1>4. /\ repair' \in [Repairs -> RepairRows \cup {NULL}]
      /\ \A o \in Repairs : repair'[o] = NULL <=> repair[o] = NULL
      /\ \A o \in Repairs : repair[o] # NULL => repair'[o].asset = repair[o].asset
  <2>1. CASE UNCHANGED repair
    BY <1>1, <2>1 DEF TablesSound
  <2>2. CASE repair[p] # NULL /\ repair' = [repair EXCEPT ![p].status = job[r].to]
    <3> DEFINE new == [repair[p] EXCEPT !.status = job[r].to]
    <3>1. repair[p] \in RepairRows
      BY <1>1, <1>3, <2>2 DEF TablesSound
    <3>2. new \in RepairRows /\ new.asset = repair[p].asset /\ new # NULL
      BY <1>3, <3>1, NullIsNoRecord DEF RepairRows
    <3>3. repair' = [repair EXCEPT ![p] = new]
      BY <2>2
    <3> HIDE DEF new
    <3> QED BY <1>1, <1>3, <2>2, <3>2, <3>3 DEF TablesSound
  <2> QED BY <2>1, <2>2 DEF SaveRepair
<1>5. PICK label \in {"remark", "repairlog", "done"} :
         Proceed(r, label) /\ (label = "remark" => job[r].kind = "workflow")
  BY DEF SaveRepair
<1>6. Typed(label, job[r], copy[r]) \/ label = "done"
  BY <1>3, <1>5 DEF Typed, Labels
<1>7. /\ RequestsTyped' /\ pc'[r] = label /\ job'[r] \in {NULL, job[r]}
      /\ \A q \in Requests \ {r} : pc'[q] = pc[q] /\ job'[q] = job[q] /\ copy'[q] = copy[q]
  BY <1>1, <1>5, <1>6, Proceeded
<1>8. TablesSound'
  BY <1>1, <1>2, <1>4 DEF TablesSound, history
<1>9. Fits(r)' /\ OwnRepair(r)'
  <2>1. OwnRepair(r)
    BY DEF TypeInv
  <2> QED BY <1>3, <1>4, <1>5, <1>7, <2>1 DEF Fits, OwnRepair
<1>10. \A q \in Requests : Fits(q)' /\ OwnRepair(q)'
  BY <1>2, <1>4, <1>7, <1>9, CrossKept
<1> QED BY <1>7, <1>8, <1>10 DEF TypeInv

LEMMA LogRepairTyped ==
    ASSUME TypeInv, NEW r \in Requests, LogRepair(r)
    PROVE  TypeInv'
<1> DEFINE p == job[r].repair
<1>1. TablesSound /\ RequestsTyped /\ At(r, "repairlog")
  BY DEF TypeInv, LogRepair
<1>2. UNCHANGED <<workstations, row, repair, items, source, history>>
  BY DEF LogRepair
<1>3. /\ Typed("repairlog", job[r], copy[r]) /\ job[r] # NULL /\ p \in Repairs
  BY <1>1 DEF RequestsTyped, At, Typed
<1>4. PICK label \in {"remark", "done"} :
         Proceed(r, label) /\ (label = "remark" => job[r].kind = "workflow")
  BY DEF LogRepair, Proceed
<1>5. log' \in LogsOf(p, r) \cup {log}
  BY DEF LogRepair
<1>6. Typed(label, job[r], copy[r]) \/ label = "done"
  BY <1>3, <1>4 DEF Typed, Labels
<1>7. /\ RequestsTyped' /\ pc'[r] = label /\ job'[r] \in {NULL, job[r]}
      /\ \A q \in Requests \ {r} : pc'[q] = pc[q] /\ job'[q] = job[q] /\ copy'[q] = copy[q]
  BY <1>1, <1>4, <1>6, Proceeded
<1> HIDE DEF p
<1>8. /\ log' \in [Assets -> Seq(Movements)]
      /\ \A b \in Assets : row[b] = NULL => log'[b] = <<>>
  BY <1>1, <1>3, <1>5, LogsOfTyped
<1>9. TablesSound'
  BY <1>1, <1>2, <1>8 DEF TablesSound, history
<1>10. Fits(r)' /\ OwnRepair(r)'
  BY <1>2, <1>4, <1>7 DEF Fits, OwnRepair, TypeInv
<1>11. \A q \in Requests : Fits(q)' /\ OwnRepair(q)'
  BY <1>2, <1>7, <1>10, CrossStays DEF TypeInv
<1> QED BY <1>7, <1>9, <1>11 DEF TypeInv

\* A request that ends, having at most removed repairs and added to the log.
LEMMA RepairEnded ==
    ASSUME TypeInv, NEW r \in Requests, End(r),
           UNCHANGED <<workstations, row, items, source, discarded>>,
           repair' \in [Repairs -> RepairRows \cup {NULL}],
           \A o \in Repairs : repair'[o] \in {NULL, repair[o]},
           log' \in [Assets -> Seq(Movements)],
           \A b \in Assets : row[b] = NULL => log'[b] = <<>>,
           disturbed' \subseteq Assets \cup Items
    PROVE  TypeInv'
<1>1. TablesSound /\ RequestsTyped
  BY DEF TypeInv
<1>2. /\ RequestsTyped' /\ pc'[r] = "done" /\ job'[r] = NULL
      /\ \A q \in Requests \ {r} : pc'[q] = pc[q] /\ job'[q] = job[q] /\ copy'[q] = copy[q]
  BY <1>1, Ended
<1>3. TablesSound'
  BY <1>1 DEF TablesSound
<1>4. Fits(r)' /\ OwnRepair(r)'
  BY <1>2 DEF Fits, OwnRepair
<1>5. \A o \in Repairs : repair'[o] # NULL => repair[o] # NULL /\ repair'[o].asset = repair[o].asset
  OBVIOUS
<1>6. \A q \in Requests : Fits(q)' /\ OwnRepair(q)'
  BY <1>2, <1>4, <1>5, CrossKept
<1> QED BY <1>2, <1>3, <1>6 DEF TypeInv

LEMMA RemarkTyped ==
    ASSUME TypeInv, NEW r \in Requests, Remark(r)
    PROVE  TypeInv'
<1>1. TablesSound /\ RequestsTyped /\ At(r, "remark")
  BY DEF TypeInv, Remark
<1>2. job[r].repair \in Repairs
  BY <1>1 DEF RequestsTyped, At, Typed
<1>3. End(r) /\ UNCHANGED <<workstations, row, repair, items, source, history>>
  BY DEF Remark
<1>4. /\ log' \in [Assets -> Seq(Movements)]
      /\ \A b \in Assets : row[b] = NULL => log'[b] = <<>>
  BY <1>1, <1>2, LogsOfTyped DEF Remark
<1> QED BY <1>1, <1>3, <1>4, RepairEnded DEF TablesSound, history

LEMMA AddRemarkTyped ==
    ASSUME TypeInv, NEW r \in Requests, NEW p \in Repairs, AddRemark(r, p)
    PROVE  TypeInv'
<1>1. TablesSound
  BY DEF TypeInv
<1>2. End(r) /\ UNCHANGED <<workstations, row, repair, items, source, discarded>>
  BY DEF AddRemark
<1>3. /\ log' \in [Assets -> Seq(Movements)]
      /\ \A b \in Assets : row[b] = NULL => log'[b] = <<>>
  BY <1>1, LogsOfTyped DEF AddRemark
<1>4. repair[p].asset \in Assets
  BY <1>1 DEF AddRemark, TablesSound, RepairRows
<1>5. disturbed' \subseteq Assets \cup Items
  BY <1>1, <1>4, Marked DEF AddRemark, TablesSound
<1> QED BY <1>1, <1>2, <1>3, <1>5, RepairEnded DEF TablesSound

LEMMA DestroyRepairTyped ==
    ASSUME TypeInv, NEW r \in Requests, NEW p \in Repairs, DestroyRepair(r, p)
    PROVE  TypeInv'
<1>1. TablesSound
  BY DEF TypeInv
<1>2. End(r) /\ UNCHANGED <<workstations, row, items, source, discarded>>
  BY DEF DestroyRepair
<1>3. /\ log' \in [Assets -> Seq(Movements)]
      /\ \A b \in Assets : row[b] = NULL => log'[b] = <<>>
  BY <1>1, LogsOfTyped DEF DestroyRepair
<1>4. repair[p].asset \in Assets
  BY <1>1 DEF DestroyRepair, TablesSound, RepairRows
<1>5. disturbed' \subseteq Assets \cup Items
  BY <1>1, <1>4, Marked DEF DestroyRepair, TablesSound
<1>6. /\ repair' \in [Repairs -> RepairRows \cup {NULL}]
      /\ \A o \in Repairs : repair'[o] \in {NULL, repair[o]}
  BY <1>1 DEF DestroyRepair, TablesSound
<1> QED BY <1>2, <1>3, <1>5, <1>6, RepairEnded

-----------------------------------------------------------------------------
(* Reserve items *)

LEMMA CreateAssetTyped ==
    ASSUME TypeInv, NEW r \in Requests, NEW a \in Assets, CreateAsset(r, a)
    PROVE  TypeInv'
<1>1. TablesSound /\ RequestsTyped /\ At(r, "deploy") /\ Unused(a)
  BY DEF TypeInv, CreateAsset
<1>2. UNCHANGED <<workstations, repair, items, history>>
  BY DEF CreateAsset
<1>3. /\ Typed("deploy", job[r], copy[r]) /\ job[r] \in Jobs /\ job[r] # NULL
      /\ job[r].item \in Items /\ job[r].to \in Workstations
  BY <1>1 DEF RequestsTyped, At, Typed
<1>4. CASE job[r].to \in workstations
  <2>1. PICK s \in Statuses :
           row' = [row EXCEPT ![a] = [ws |-> job[r].to, employee |-> NULL, status |-> s]]
    BY <1>4 DEF CreateAsset
  <2> DEFINE new == [ws |-> job[r].to, employee |-> NULL, status |-> s]
  <2>2. new \in Rows /\ new.ws = job[r].to /\ new # NULL
    BY <1>3, <2>1, NullIsNoRecord DEF Rows
  <2> HIDE DEF new
  <2>3. /\ row' \in [Assets -> Rows \cup {NULL}] /\ row'[a] = new
        /\ \A b \in Assets \ {a} : row'[b] = row[b]
    BY <1>1, <2>1, <2>2 DEF TablesSound, new
  <2>4. /\ log' = [log EXCEPT ![a] = <<Movement("created", NULL, r)>>]
        /\ source' = [source EXCEPT ![a] = job[r].item]
        /\ Proceed(r, "delete")
    BY <1>4 DEF CreateAsset, NextStatement
  <2>5. <<Movement("created", NULL, r)>> \in Seq(Movements)
    BY MovementTyped
  <2>6. /\ log' \in [Assets -> Seq(Movements)]
        /\ \A b \in Assets : row'[b] = NULL => log'[b] = <<>>
    BY <1>1, <2>2, <2>3, <2>4, <2>5 DEF TablesSound
  <2>7. source' \in [Assets -> Items \cup {NULL}]
    BY <1>1, <1>3, <2>4 DEF TablesSound
  <2>8. \A b \in Assets : row'[b] # NULL => row'[b].ws \in workstations' \cup {NULL}
    BY <1>1, <1>2, <1>4, <2>2, <2>3 DEF TablesSound
  <2>9. \A p \in Repairs : repair'[p] # NULL => row'[repair'[p].asset] # NULL
    <3> SUFFICES ASSUME NEW p \in Repairs, repair[p] # NULL
                 PROVE  row'[repair[p].asset] # NULL
      BY <1>2
    <3>1. repair[p].asset \in Assets /\ row[repair[p].asset] # NULL
      BY <1>1 DEF TablesSound, RepairRows
    <3> QED BY <2>2, <2>3, <3>1
  <2>10. TablesSound'
    BY <1>1, <1>2, <2>3, <2>6, <2>7, <2>8, <2>9 DEF TablesSound, history
  <2>11. Typed("delete", job[r], copy[r])
    BY <1>3 DEF Typed, Labels
  <2>12. /\ RequestsTyped' /\ pc'[r] = "delete" /\ job'[r] = job[r]
         /\ \A q \in Requests \ {r} : pc'[q] = pc[q] /\ job'[q] = job[q] /\ copy'[q] = copy[q]
    BY <1>1, <2>4, <2>11, Proceeded
  <2>13. Fits(r)' /\ OwnRepair(r)'
    BY <1>2, <2>12 DEF Fits, OwnRepair, TypeInv
  <2>14. \A q \in Requests : Fits(q)' /\ OwnRepair(q)'
    <3>1. \A b \in Assets : row'[b] # NULL =>
             row[b] # NULL \/ \A q \in Requests : b \notin Concerned(q)
      BY <1>1, <2>3 DEF Unused
    <3>2. \A p \in Repairs : repair'[p] # NULL => repair[p] # NULL /\ repair'[p].asset = repair[p].asset
      BY <1>2
    <3> QED BY <1>2, <2>12, <2>13, <3>1, <3>2, CrossKept
  <2> QED BY <2>10, <2>12, <2>14 DEF TypeInv
<1>5. CASE job[r].to \notin workstations
  <2>1. End(r) /\ UNCHANGED <<row, log, source>>
    BY <1>5 DEF CreateAsset
  <2> QED BY <1>1, <1>2, <2>1, RepairEnded DEF TablesSound, history
<1> QED BY <1>4, <1>5

LEMMA DeleteItemTyped ==
    ASSUME TypeInv, NEW r \in Requests, DeleteItem(r)
    PROVE  TypeInv'
<1>1. TablesSound /\ RequestsTyped /\ At(r, "delete")
  BY DEF TypeInv, DeleteItem
<1>2. /\ Proceed(r, "done") /\ items' = items \ {job[r].item}
      /\ UNCHANGED <<workstations, row, log, repair, source, history>>
  BY <1>1 DEF DeleteItem, NextStatement
<1>3. /\ RequestsTyped' /\ pc'[r] = "done" /\ job'[r] = NULL
      /\ \A q \in Requests \ {r} : pc'[q] = pc[q] /\ job'[q] = job[q] /\ copy'[q] = copy[q]
  BY <1>1, <1>2, Proceeded
<1>4. TablesSound'
  BY <1>1, <1>2 DEF TablesSound, history
<1>5. Fits(r)' /\ OwnRepair(r)'
  BY <1>3 DEF Fits, OwnRepair
<1>6. \A q \in Requests : Fits(q)' /\ OwnRepair(q)'
  BY <1>2, <1>3, <1>5, CrossStays DEF TypeInv
<1> QED BY <1>3, <1>4, <1>6 DEF TypeInv

LEMMA DestroyItemTyped ==
    ASSUME TypeInv, NEW r \in Requests, NEW i \in Items, DestroyItem(r, i)
    PROVE  TypeInv'
<1>1. TablesSound /\ RequestsTyped
  BY DEF TypeInv
<1>2. /\ End(r) /\ items' = items \ {i} /\ discarded' = discarded \cup {i} /\ Mark(r, i)
      /\ UNCHANGED <<workstations, row, log, repair, source>>
  BY DEF DestroyItem
<1>3. /\ RequestsTyped' /\ pc'[r] = "done" /\ job'[r] = NULL
      /\ \A q \in Requests \ {r} : pc'[q] = pc[q] /\ job'[q] = job[q] /\ copy'[q] = copy[q]
  BY <1>1, <1>2, Ended
<1>4. TablesSound'
  BY <1>1, <1>2, Marked DEF TablesSound
<1>5. Fits(r)' /\ OwnRepair(r)'
  BY <1>3 DEF Fits, OwnRepair
<1>6. \A q \in Requests : Fits(q)' /\ OwnRepair(q)'
  BY <1>2, <1>3, <1>5, CrossStays DEF TypeInv
<1> QED BY <1>3, <1>4, <1>6 DEF TypeInv

-----------------------------------------------------------------------------
(* Deletions and failures *)

LEMMA DestroyAssetTyped ==
    ASSUME TypeInv, NEW r \in Requests, NEW a \in Assets, DestroyAsset(r, a)
    PROVE  TypeInv'
<1>1. TablesSound /\ RequestsTyped
  BY DEF TypeInv
<1>2. /\ End(r) /\ Mark(r, a)
      /\ row' = [row EXCEPT ![a] = NULL] /\ log' = [log EXCEPT ![a] = <<>>]
      /\ repair' = [p \in Repairs |->
                       IF repair[p] # NULL /\ repair[p].asset = a THEN NULL ELSE repair[p]]
      /\ UNCHANGED <<workstations, items, source, discarded>>
  BY DEF DestroyAsset
<1>3. /\ row' \in [Assets -> Rows \cup {NULL}]
      /\ row'[a] = NULL /\ \A b \in Assets \ {a} : row'[b] = row[b]
  BY <1>1, <1>2 DEF TablesSound
<1>4. \A b \in Assets : row'[b] # NULL => row'[b].ws \in workstations' \cup {NULL}
  BY <1>1, <1>2, <1>3 DEF TablesSound
<1>5. /\ log' \in [Assets -> Seq(Movements)]
      /\ \A b \in Assets : row'[b] = NULL => log'[b] = <<>>
  <2>1. <<>> \in Seq(Movements)
    OBVIOUS
  <2> QED BY <1>1, <1>2, <1>3, <2>1 DEF TablesSound
<1>6. /\ repair' \in [Repairs -> RepairRows \cup {NULL}]
      /\ \A p \in Repairs : repair'[p] # NULL =>
            repair'[p] = repair[p] /\ repair[p].asset \in Assets \ {a}
  BY <1>1, <1>2 DEF TablesSound, RepairRows
<1>7. TablesSound'
  <2>1. \A p \in Repairs : repair'[p] # NULL => row'[repair'[p].asset] # NULL
    BY <1>1, <1>3, <1>6 DEF TablesSound
  <2>2. disturbed' \subseteq Assets \cup Items
    BY <1>1, <1>2, Marked DEF TablesSound
  <2> QED BY <1>1, <1>2, <1>3, <1>4, <1>5, <1>6, <2>1, <2>2 DEF TablesSound
<1>8. /\ RequestsTyped' /\ pc'[r] = "done" /\ job'[r] = NULL
      /\ \A q \in Requests \ {r} : pc'[q] = pc[q] /\ job'[q] = job[q] /\ copy'[q] = copy[q]
  BY <1>1, <1>2, Ended
<1>9. Fits(r)' /\ OwnRepair(r)'
  BY <1>8 DEF Fits, OwnRepair
<1>10. \A q \in Requests : Fits(q)' /\ OwnRepair(q)'
  BY <1>2, <1>3, <1>6, <1>8, <1>9, CrossKept
<1> QED BY <1>7, <1>8, <1>10 DEF TypeInv

LEMMA DestroyBranchTyped ==
    ASSUME TypeInv, NEW r \in Requests, NEW w \in Workstations, DestroyBranch(r, w)
    PROVE  TypeInv'
<1>1. TablesSound /\ RequestsTyped
  BY DEF TypeInv
<1>2. /\ End(r) /\ workstations' = workstations \ {w}
      /\ \A q \in Requests, a \in Assets : Holds(q, a) => w \notin {row[a].ws, job[q].model.ws}
      /\ row' = [a \in Assets |->
                    IF row[a] # NULL /\ row[a].ws = w THEN [row[a] EXCEPT !.ws = NULL] ELSE row[a]]
      /\ UNCHANGED <<log, repair, items, source, history>>
  BY DEF DestroyBranch
<1>3. ASSUME NEW a \in Assets
      PROVE  /\ row'[a] \in Rows \cup {NULL}
             /\ row'[a] = NULL <=> row[a] = NULL
             /\ row'[a] # NULL => row'[a].ws \in workstations' \cup {NULL}
  <2>1. CASE row[a] # NULL /\ row[a].ws = w
    <3> DEFINE new == [row[a] EXCEPT !.ws = NULL]
    <3>1. row[a] \in Rows
      BY <1>1, <2>1 DEF TablesSound
    <3>2. new \in Rows /\ new.ws = NULL /\ new # NULL
      BY <3>1, NullIsNoRecord DEF Rows
    <3>3. row'[a] = new
      BY <1>2, <2>1
    <3> HIDE DEF new
    <3> QED BY <2>1, <3>2, <3>3
  <2>2. CASE ~(row[a] # NULL /\ row[a].ws = w)
    BY <1>1, <1>2, <2>2 DEF TablesSound
  <2> QED BY <2>1, <2>2
<1>4. row' \in [Assets -> Rows \cup {NULL}]
  BY <1>2, <1>3
<1>5. TablesSound'
  <2>1. \A p \in Repairs : repair'[p] # NULL => row'[repair'[p].asset] # NULL
    <3> SUFFICES ASSUME NEW p \in Repairs, repair[p] # NULL
                 PROVE  row'[repair[p].asset] # NULL
      BY <1>2
    <3>1. repair[p].asset \in Assets /\ row[repair[p].asset] # NULL
      BY <1>1 DEF TablesSound, RepairRows
    <3> QED BY <1>3, <3>1
  <2> QED BY <1>1, <1>2, <1>3, <1>4, <2>1 DEF TablesSound, history
<1>6. /\ RequestsTyped' /\ pc'[r] = "done" /\ job'[r] = NULL
      /\ \A q \in Requests \ {r} : pc'[q] = pc[q] /\ job'[q] = job[q] /\ copy'[q] = copy[q]
  BY <1>1, <1>2, Ended
<1>7. ASSUME NEW q \in Requests PROVE Fits(q)' /\ OwnRepair(q)'
  <2>1. CASE q = r
    BY <1>6, <2>1 DEF Fits, OwnRepair
  <2>2. CASE q # r
    <3>1. Fits(q) /\ OwnRepair(q) /\ pc'[q] = pc[q] /\ job'[q] = job[q] /\ copy'[q] = copy[q]
      BY <1>6, <2>2 DEF TypeInv
    <3>2. OwnRepair(q)'
      BY <1>2, <3>1 DEF OwnRepair
    <3>3. ASSUME pc[q] = "commit", row'[job[q].asset] # NULL, job[q].model.ws # copy[q].ws
          PROVE  job[q].model.ws \in workstations' \cup {NULL}
      <4>1. job[q].asset \in Assets
        BY <1>1, <3>3, Saver
      <4>2. row[job[q].asset] # NULL
        BY <1>3, <3>3, <4>1
      <4>3. Holds(q, job[q].asset)
        BY <3>3, <4>2 DEF Holds
      <4>4. job[q].model.ws \in workstations \cup {NULL}
        BY <3>1, <3>3, <4>2 DEF Fits
      <4> QED BY <1>2, <4>1, <4>3, <4>4
    <3> QED BY <3>1, <3>2, <3>3 DEF Fits
  <2> QED BY <2>1, <2>2
<1> QED BY <1>5, <1>6, <1>7 DEF TypeInv

LEMMA DieTyped ==
    ASSUME TypeInv, NEW r \in Requests, Die(r)
    PROVE  TypeInv'
<1>1. TablesSound /\ RequestsTyped
  BY DEF TypeInv
<1>2. PICK l \in {"aborted", "done"} : Moves(r, l, NULL, NULL)
  BY DEF Die, Goto, Moves
<1>3. /\ RequestsTyped' /\ pc'[r] = l /\ job'[r] = NULL
      /\ \A q \in Requests \ {r} : pc'[q] = pc[q] /\ job'[q] = job[q] /\ copy'[q] = copy[q]
  BY <1>1, <1>2, NoJob, OwnStep
<1>4. HalfDone(r) \subseteq Assets \cup Items
  <2>1. Typed(pc[r], job[r], copy[r])
    BY <1>1 DEF RequestsTyped
  <2>2. pc[r] = "log" => job[r].asset \in Assets
    BY <1>1, Saver
  <2>3. pc[r] = "delete" => job[r].item \in Items
    BY <2>1 DEF Typed
  <2> QED BY <2>2, <2>3 DEF HalfDone
<1>5. TablesSound'
  BY <1>1, <1>4 DEF Die, TablesSound, tables
<1>6. Fits(r)' /\ OwnRepair(r)'
  BY <1>3 DEF Fits, OwnRepair
<1>7. \A q \in Requests : Fits(q)' /\ OwnRepair(q)'
  BY <1>3, <1>6, CrossStays DEF Die, TypeInv, tables
<1> QED BY <1>3, <1>5, <1>7 DEF TypeInv

-----------------------------------------------------------------------------
(* The theorem *)

LEMMA InitTyped == Init => TypeInv
<1> SUFFICES ASSUME Init PROVE TypeInv
  OBVIOUS
<1>1. ASSUME NEW place \in Rows PROVE InitialLogs(place) \subseteq Seq(Movements)
  <2>1. Movement("created", NULL, NULL) \in Movements
    BY MovementTyped
  <2>2. ASSUME NEW w \in {place.ws} \ {NULL}
        PROVE  Movement("workstation", w, NULL) \in Movements
    BY MovementTyped DEF Rows
  <2>3. ASSUME NEW e \in {place.employee} \ {NULL}
        PROVE  Movement("assignment", e, NULL) \in Movements
    BY MovementTyped DEF Rows
  <2>4. /\ \A m \in Movements : <<m>> \in Seq(Movements)
        /\ \A m, n \in Movements : <<m, n>> \in Seq(Movements)
    OBVIOUS
  <2> QED BY <2>1, <2>2, <2>3, <2>4 DEF InitialLogs
<1>2. row \in [Assets -> Rows \cup {NULL}]
  BY DEF Init
<1>3. ASSUME NEW a \in Assets
      PROVE  log[a] \in Seq(Movements) /\ (row[a] = NULL => log[a] = <<>>)
  <2>1. CASE row[a] = NULL
    <3>1. <<>> \in Seq(Movements)
      OBVIOUS
    <3> QED BY <2>1, <3>1 DEF Init
  <2>2. CASE row[a] # NULL
    BY <1>1, <1>2, <2>2 DEF Init
  <2> QED BY <2>1, <2>2
<1>4. \A a \in Assets : row[a] # NULL => row[a].ws \in workstations \cup {NULL}
  BY <1>2 DEF Init, Rows
<1>5. log \in [Assets -> Seq(Movements)]
  BY <1>3 DEF Init
<1>6. TablesSound
  BY <1>2, <1>3, <1>4, <1>5 DEF Init, TablesSound
<1>7. RequestsTyped
  BY NoJob DEF Init, RequestsTyped, Labels
<1>8. \A r \in Requests : Fits(r) /\ OwnRepair(r)
  BY DEF Init, Fits, OwnRepair
<1> QED BY <1>6, <1>7, <1>8 DEF TypeInv

LEMMA NextTyped == TypeInv /\ [Next]_vars => TypeInv'
<1> SUFFICES ASSUME TypeInv, [Next]_vars PROVE TypeInv'
  OBVIOUS
<1>1. CASE UNCHANGED vars
  BY <1>1 DEF vars, tables, history, TypeInv, TablesSound, RequestsTyped, Typed, Fits, OwnRepair
<1>2. CASE \E a \in Assets : Expire(a)
  BY <1>2 DEF Expire, history, TypeInv, TablesSound, RequestsTyped, Typed, Fits, OwnRepair
<1>3. CASE \E r \in Requests : Step(r)
  <2>1. PICK r \in Requests : Step(r)
    BY <1>3
  <2>2. CASE \E a \in Assets :
               FindAsset(r, a) \/ CheckAsset(r, a) \/ CreateAsset(r, a) \/ DestroyAsset(r, a)
    BY <2>2, FindAssetTyped, CheckAssetTyped, CreateAssetTyped, DestroyAssetTyped
  <2>3. CASE \E w \in Workstations : DestroyBranch(r, w)
    BY <2>3, DestroyBranchTyped
  <2>4. CASE SaveInTransaction(r) \/ Commit(r) \/ Save(r) \/ Log(r)
    BY <2>4, SaveInTransactionTyped, CommitTyped, SaveTyped, LogTyped
  <2>5. CASE \E p \in Repairs : FindRepair(r, p) \/ AddRemark(r, p) \/ DestroyRepair(r, p)
    BY <2>5, FindRepairTyped, AddRemarkTyped, DestroyRepairTyped
  <2>6. CASE CreateRepair(r) \/ LoadAsset(r) \/ SaveRepair(r) \/ LogRepair(r) \/ Remark(r)
    BY <2>6, CreateRepairTyped, LoadAssetTyped, SaveRepairTyped, LogRepairTyped, RemarkTyped
  <2>7. CASE \E i \in Items : FindItem(r, i) \/ DestroyItem(r, i)
    BY <2>7, FindItemTyped, DestroyItemTyped
  <2>8. CASE DeleteItem(r) \/ Die(r)
    BY <2>8, DeleteItemTyped, DieTyped
  <2> QED BY <2>1, <2>2, <2>3, <2>4, <2>5, <2>6, <2>7, <2>8 DEF Step
<1> QED BY <1>1, <1>2, <1>3 DEF Next

LEMMA TypeInvHolds == Spec => []TypeInv
  BY InitTyped, NextTyped, PTL DEF Spec

(* What is hidden exists: only deletions take an asset away, and they take it *)
(* out of hiding, as the saves of its status do.                             *)

LEMMA WrittenStays ==
    ASSUME TablesSound, NEW a \in Assets, NEW read \in Rows, NEW m \in Rows,
           row' = Written(a, read, m)
    PROVE  \A b \in Assets : row[b] # NULL => row'[b] # NULL
<1>1. CASE row[a] = NULL
  BY <1>1 DEF Written
<1>2. CASE row[a] # NULL
  <2> DEFINE new == Updated(row[a], read, m)
  <2>1. row[a] \in Rows
    BY <1>2 DEF TablesSound
  <2>2. new # NULL
    BY <2>1, UpdatedTyped, NullIsNoRecord
  <2>3. row' = [row EXCEPT ![a] = new]
    BY <1>2 DEF Written
  <2> HIDE DEF new
  <2> QED BY <2>2, <2>3 DEF TablesSound
<1> QED BY <1>1, <1>2

Reveals(r, a) == DestroyAsset(r, a) \/ (pc[r] \in {"save", "commit"} /\ job[r].asset = a)

HidesLess(r) ==
    /\ hidden' \subseteq hidden
    /\ \A a \in Assets : row[a] # NULL => row'[a] # NULL \/ DestroyAsset(r, a)
    /\ \A a \in hidden : a \in hidden' \/ Reveals(r, a)

LEMMA StepsHideLess ==
    ASSUME TypeInv, NEW r \in Requests, Step(r)
    PROVE  HidesLess(r)
<1>1. TablesSound /\ RequestsTyped
  BY DEF TypeInv
<1>2. ASSUME UNCHANGED <<row, hidden>> PROVE HidesLess(r)
  BY <1>2 DEF HidesLess
<1>3. ASSUME Commit(r) \/ Save(r) PROVE HidesLess(r)
  <2> DEFINE a == job[r].asset
  <2>1. pc[r] \in {"save", "commit"}
    BY <1>3 DEF Commit, Save, At
  <2>2. a \in Assets /\ copy[r] \in Rows /\ job[r].model \in Rows
    BY <1>1, <2>1, Saver
  <2>3. \/ UNCHANGED <<row, hidden>>
        \/ /\ row' = Written(a, copy[r], job[r].model)
           /\ hidden' \in StillHidden(a, copy[r], job[r].model)
    BY <1>3 DEF Commit, Save
  <2>4. ASSUME row' = Written(a, copy[r], job[r].model),
               hidden' \in StillHidden(a, copy[r], job[r].model)
        PROVE  HidesLess(r)
    <3>1. hidden' \subseteq hidden /\ \A b \in hidden : b \in hidden' \/ b = a
      BY <2>4 DEF StillHidden
    <3>2. \A b \in Assets : row[b] # NULL => row'[b] # NULL
      BY <1>1, <2>2, <2>4, WrittenStays
    <3> QED BY <2>1, <3>1, <3>2 DEF HidesLess, Reveals
  <2> QED BY <1>2, <2>3, <2>4
<1>4. ASSUME NEW a \in Assets, DestroyAsset(r, a) PROVE HidesLess(r)
  <2>1. hidden' = hidden \ {a} /\ row' = [row EXCEPT ![a] = NULL]
    BY <1>4 DEF DestroyAsset
  <2>2. \A b \in Assets : b = a \/ row'[b] = row[b]
    BY <1>1, <2>1 DEF TablesSound
  <2> QED BY <1>4, <2>1, <2>2 DEF HidesLess, Reveals
<1>5. ASSUME NEW w \in Workstations, DestroyBranch(r, w) PROVE HidesLess(r)
  <2>1. UNCHANGED hidden
    BY <1>5 DEF DestroyBranch
  <2>2. ASSUME NEW a \in Assets, row[a] # NULL PROVE row'[a] # NULL
    <3>1. row[a] \in Rows /\ row'[a] \in {row[a], [row[a] EXCEPT !.ws = NULL]}
      BY <1>1, <1>5, <2>2 DEF DestroyBranch, TablesSound
    <3>2. [row[a] EXCEPT !.ws = NULL] \in Rows
      BY <3>1 DEF Rows
    <3> QED BY <2>2, <3>1, <3>2, NullIsNoRecord
  <2> QED BY <2>1, <2>2 DEF HidesLess
<1>6. ASSUME NEW a \in Assets, CreateAsset(r, a) PROVE HidesLess(r)
  <2>1. UNCHANGED hidden /\ row[a] = NULL
    BY <1>6 DEF CreateAsset, Unused
  <2>2. \A b \in Assets : b = a \/ row'[b] = row[b]
    BY <1>1, <1>6 DEF CreateAsset, TablesSound
  <2> QED BY <2>1, <2>2 DEF HidesLess
<1>7. ASSUME \/ \E a \in Assets : FindAsset(r, a) \/ CheckAsset(r, a)
             \/ \E p \in Repairs : FindRepair(r, p) \/ AddRemark(r, p) \/ DestroyRepair(r, p)
             \/ \E i \in Items : FindItem(r, i) \/ DestroyItem(r, i)
      PROVE  HidesLess(r)
  BY <1>2, <1>7 DEF FindAsset, CheckAsset, FindRepair, AddRemark, DestroyRepair, FindItem,
                    DestroyItem, tables
<1>8. ASSUME \/ SaveInTransaction(r) \/ Log(r) \/ CreateRepair(r) \/ LoadAsset(r) \/ SaveRepair(r)
             \/ LogRepair(r) \/ Remark(r) \/ DeleteItem(r) \/ Die(r)
      PROVE  HidesLess(r)
  BY <1>2, <1>8 DEF SaveInTransaction, Log, CreateRepair, LoadAsset, SaveRepair, LogRepair,
                    Remark, DeleteItem, Die, tables
<1> QED BY <1>3, <1>4, <1>5, <1>6, <1>7, <1>8 DEF Step

HiddenExist == hidden \subseteq {a \in Assets : row[a] # NULL}

LEMMA HiddenExistHolds == Spec => []HiddenExist
<1>1. Init => HiddenExist
  BY DEF Init, HiddenExist
<1>2. TypeInv /\ HiddenExist /\ [Next]_vars => HiddenExist'
  <2> SUFFICES ASSUME TypeInv, HiddenExist, [Next]_vars PROVE HiddenExist'
    OBVIOUS
  <2>1. CASE UNCHANGED vars
    BY <2>1 DEF vars, tables, HiddenExist
  <2>2. CASE \E a \in Assets : Expire(a)
    BY <2>2 DEF Expire, HiddenExist
  <2>3. CASE \E r \in Requests : Step(r)
    <3>1. PICK r \in Requests : Step(r)
      BY <2>3
    <3>2. HidesLess(r)
      BY <3>1, StepsHideLess
    <3>3. \A a \in Assets : DestroyAsset(r, a) => a \notin hidden'
      BY DEF DestroyAsset
    <3> QED BY <3>2, <3>3 DEF HidesLess, HiddenExist
  <2> QED BY <2>1, <2>2, <2>3 DEF Next
<1> QED BY <1>1, <1>2, TypeInvHolds, PTL DEF Spec

\* However requests interleave and wherever they die, no row refers to a
\* workstation, an asset or a repair that is gone, a deleted asset keeps no
\* movements, and every request has what its next statement needs
\* (RepairController, AssetController, AssetMovementController,
\* ReplenishmentController).
THEOREM LedgerTypeCorrect == Spec => []TypeOK
<1>1. TypeInv /\ HiddenExist => TypeOK
  <2> SUFFICES ASSUME TypeInv, HiddenExist PROVE TypeOK
    OBVIOUS
  <2>1. TablesSound /\ RequestsTyped
    BY DEF TypeInv
  <2>2. ASSUME NEW r \in Requests
        PROVE  /\ job[r] = NULL <=> pc[r] \in {"idle", "done", "aborted"}
               /\ pc[r] \in {"save", "commit", "log"} => copy[r] \in Rows /\ job[r].asset \in Assets
               /\ pc[r] \in {"repair", "repairlog", "remark"} => job[r].repair \in Repairs
    <3>1. Typed(pc[r], job[r], copy[r])
      BY <2>1 DEF RequestsTyped
    <3>2. pc[r] \in {"save", "commit", "log"} => job[r].asset \in Assets
      BY <2>1, Saver
    <3> QED BY <3>1, <3>2 DEF Typed
  <2> QED BY <2>1, <2>2 DEF TypeOK, TablesSound, RequestsTyped, Labels, HiddenExist
<1> QED BY <1>1, TypeInvHolds, HiddenExistHolds, PTL

-----------------------------------------------------------------------------
(* What no step of a request does: move another request, bring back the    *)
(* repair another is at work on, or lose what the log says of an asset     *)
(* that keeps its repairs.                                                 *)

LogKept(a) ==
    \A i \in DOMAIN log[a] :
        /\ i \in DOMAIN log'[a]
        /\ log'[a][i].type = log[a][i].type
        /\ log'[a][i].to = log[a][i].to
        /\ log'[a][i].by = log[a][i].by

Considerate(r) ==
    /\ \A q \in Requests \ {r} : pc'[q] = pc[q] /\ job'[q] = job[q] /\ copy'[q] = copy[q]
    /\ \A p \in Repairs : repair'[p] # NULL =>
          repair[p] # NULL \/ \A q \in Requests : job[q] # NULL => job[q].repair # p
    /\ \A a \in Assets :
          \/ LogKept(a)
          \/ \A p \in Repairs : repair[p] # NULL /\ repair[p].asset = a => repair'[p] = NULL
          \/ \A q \in Requests : a \notin Concerned(q)

LEMMA SameLogKept ==
    ASSUME UNCHANGED log
    PROVE  \A a \in Assets : LogKept(a)
  BY DEF LogKept

LEMMA ExtendedAdds ==
    ASSUME NEW seq \in Seq(Movements), NEW ms \in Seq(Movements),
           NEW t \in BOOLEAN, NEW u \in BOOLEAN, NEW i \in DOMAIN ms
    PROVE  /\ Len(seq) + i \in DOMAIN Extended(seq, ms, t, u)
           /\ SameMovement(Extended(seq, ms, t, u)[Len(seq) + i], ms[i])
<1>1. PICK new \in Seq(Movements) :
         /\ Extended(seq, ms, t, u) = seq \o new
         /\ Len(new) = Len(ms)
         /\ SameMovement(new[i], ms[i])
  BY ExtendedShape
<1>2. i \in 1..Len(new) /\ Len(seq) \in Nat /\ Len(new) \in Nat
  BY <1>1
<1>3. Len(seq) + i \in DOMAIN (seq \o new) /\ (seq \o new)[Len(seq) + i] = new[i]
  BY <1>2
<1> QED BY <1>1, <1>3

LEMMA ExtendedKeeps ==
    ASSUME NEW seq \in Seq(Movements), NEW ms \in Seq(Movements),
           NEW t \in BOOLEAN, NEW u \in BOOLEAN
    PROVE  \A i \in DOMAIN seq : i \in DOMAIN Extended(seq, ms, t, u)
                                 /\ Extended(seq, ms, t, u)[i] = seq[i]
<1>1. PICK new \in Seq(Movements) :
         /\ Extended(seq, ms, t, u) = seq \o new
         /\ Len(new) = Len(ms)
         /\ \A i \in DOMAIN ms : SameMovement(new[i], ms[i])
  BY ExtendedShape
<1>2. \A i \in DOMAIN seq : i \in DOMAIN (seq \o new) /\ (seq \o new)[i] = seq[i]
  OBVIOUS
<1> QED BY <1>1, <1>2

LEMMA ExtendedLogKept ==
    ASSUME TablesSound, NEW a \in Assets, NEW ms \in Seq(Movements),
           NEW t \in BOOLEAN, NEW u \in BOOLEAN,
           log' = [log EXCEPT ![a] = Extended(log[a], ms, t, u)]
    PROVE  \A b \in Assets : LogKept(b)
<1> DEFINE new == Extended(log[a], ms, t, u)
<1>1. log[a] \in Seq(Movements)
  BY DEF TablesSound
<1>2. \A i \in DOMAIN log[a] : i \in DOMAIN new /\ new[i] = log[a][i]
  BY <1>1, ExtendedKeeps
<1> HIDE DEF new
<1>3. log' = [log EXCEPT ![a] = new]
  BY DEF new
<1> QED BY <1>2, <1>3 DEF LogKept, TablesSound

LEMMA AnnotatedLogKept ==
    ASSUME TablesSound, NEW a \in Assets, NEW i \in DOMAIN log[a], NEW r \in Requests,
           log' = [log EXCEPT ![a][i].reason = r]
    PROVE  \A b \in Assets : LogKept(b)
<1> DEFINE new == [log[a] EXCEPT ![i].reason = r]
<1>1. log[a] \in Seq(Movements)
  BY DEF TablesSound
<1>2. /\ DOMAIN new = DOMAIN log[a]
      /\ \A k \in DOMAIN log[a] :
            new[k].type = log[a][k].type /\ new[k].to = log[a][k].to /\ new[k].by = log[a][k].by
  BY <1>1, Annotated
<1>3. log' = [log EXCEPT ![a] = new]
  OBVIOUS
<1> HIDE DEF new
<1> QED BY <1>2, <1>3 DEF LogKept, TablesSound

LEMMA RepairLogKept ==
    ASSUME TablesSound, NEW p \in Repairs, NEW r \in Requests, log' \in LogsOf(p, r) \cup {log}
    PROVE  \A b \in Assets : LogKept(b)
<1>1. CASE log' = log
  BY <1>1, SameLogKept
<1>2. CASE log' \in LogsOf(p, r)
  <2> DEFINE a == repair[p].asset
             ms == <<Movement("repair", NULL, r)>>
  <2>1. repair[p] # NULL
    BY <1>2 DEF LogsOf
  <2>2. a \in Assets
    BY <2>1 DEF TablesSound, RepairRows
  <2>3. PICK t \in BOOLEAN : log' = [log EXCEPT ![a] = Extended(log[a], ms, t, t)]
    BY <1>2, <2>1 DEF LogsOf
  <2>4. ms \in Seq(Movements)
    BY MovementTyped
  <2> HIDE DEF a, ms
  <2> QED BY <2>2, <2>3, <2>4, ExtendedLogKept
<1> QED BY <1>1, <1>2

LEMMA StepsAreConsiderate ==
    ASSUME TypeInv, NEW r \in Requests, Step(r)
    PROVE  Considerate(r)
<1>1. TablesSound /\ RequestsTyped
  BY DEF TypeInv
<1> DEFINE Others == \A q \in Requests \ {r} :
                        pc'[q] = pc[q] /\ job'[q] = job[q] /\ copy'[q] = copy[q]
           AllKept == \A a \in Assets : LogKept(a)
           NoneBack == \A p \in Repairs : repair'[p] # NULL => repair[p] # NULL
<1>2. Others /\ NoneBack /\ AllKept => Considerate(r)
  BY DEF Considerate
<1> HIDE DEF AllKept
<1>3. ASSUME End(r) PROVE Others
  BY <1>1, <1>3, Ended
<1>4. ASSUME UNCHANGED log PROVE AllKept
  BY <1>4, SameLogKept DEF AllKept
<1>5. ASSUME UNCHANGED repair PROVE NoneBack
  BY <1>5
<1>6. ASSUME NEW label, Proceed(r, label) PROVE Others
  <2>1. CASE label = "done"
    BY <1>3, <1>6, <2>1 DEF Proceed
  <2>2. CASE label # "done"
    BY <1>1, <1>6, <2>2 DEF Proceed, Goto, RequestsTyped
  <2> QED BY <2>1, <2>2
<1>7. ASSUME NEW a \in Assets, FindAsset(r, a) PROVE Considerate(r)
  <2>1. Others
    BY <1>1, <1>7 DEF FindAsset, Ask, Goto, RequestsTyped
  <2> QED BY <1>2, <1>4, <1>5, <1>7, <2>1 DEF FindAsset, tables
<1>8. ASSUME NEW a \in Assets, CheckAsset(r, a) PROVE Considerate(r)
  <2>1. Others
    BY <1>1, <1>8 DEF CheckAsset, Ask, Goto, RequestsTyped
  <2> QED BY <1>2, <1>4, <1>5, <1>8, <2>1 DEF CheckAsset, tables
<1>9. ASSUME NEW a \in Assets, CreateAsset(r, a) PROVE Considerate(r)
  <2>1. Others
    BY <1>3, <1>6, <1>9 DEF CreateAsset
  <2>2. NoneBack
    BY <1>9 DEF CreateAsset
  <2>3. ASSUME NEW b \in Assets
        PROVE  LogKept(b) \/ \A q \in Requests : b \notin Concerned(q)
    BY <1>1, <1>9 DEF CreateAsset, Unused, LogKept, TablesSound
  <2> QED BY <2>1, <2>2, <2>3 DEF Considerate
<1>10. ASSUME NEW a \in Assets, DestroyAsset(r, a) PROVE Considerate(r)
  <2>1. Others
    BY <1>3, <1>10 DEF DestroyAsset
  <2>2. NoneBack
    BY <1>10 DEF DestroyAsset
  <2>3. ASSUME NEW b \in Assets
        PROVE  LogKept(b) \/ \A p \in Repairs :
                                repair[p] # NULL /\ repair[p].asset = b => repair'[p] = NULL
    BY <1>1, <1>10 DEF DestroyAsset, LogKept, TablesSound
  <2> QED BY <2>1, <2>2, <2>3 DEF Considerate
<1>11. ASSUME NEW w \in Workstations, DestroyBranch(r, w) PROVE Considerate(r)
  BY <1>2, <1>3, <1>4, <1>5, <1>11 DEF DestroyBranch
<1>12. ASSUME SaveInTransaction(r) PROVE Considerate(r)
  <2> DEFINE a == job[r].asset
             mine == Observed(copy[r], job[r].model, r) \o OwnMovement(r)
  <2>1. a \in Assets /\ job[r].model \in Rows /\ copy[r] \in Rows
    BY <1>1, <1>12, Saver DEF At, SaveInTransaction
  <2>2. mine \in Seq(Movements)
    BY <1>1, <1>12, <2>1, ObservedTyped, OwnMovementTyped DEF At, SaveInTransaction
  <2>3. Others
    BY <1>1, <1>3, <1>12 DEF SaveInTransaction, Goto, RequestsTyped
  <2>4. AllKept
    <3>1. CASE UNCHANGED log
      BY <1>4, <3>1
    <3>2. CASE \E t, u \in BOOLEAN : log' = [log EXCEPT ![a] = Extended(log[a], mine, t, u)]
      <4> HIDE DEF a, mine
      <4> QED BY <1>1, <2>1, <2>2, <3>2, ExtendedLogKept DEF AllKept
    <3> QED BY <1>12, <3>1, <3>2 DEF SaveInTransaction
  <2> QED BY <1>2, <1>5, <1>12, <2>3, <2>4 DEF SaveInTransaction
<1>13. ASSUME Commit(r) PROVE Considerate(r)
  <2>1. job[r].asset \in Assets
    BY <1>1, <1>13, Saver DEF At, Commit
  <2>2. AllKept
    <3>1. CASE UNCHANGED log
      BY <1>4, <3>1
    <3>2. CASE \E i \in Latest(job[r].asset, r) : log' = [log EXCEPT ![job[r].asset][i].reason = r]
      <4> DEFINE a == job[r].asset
      <4>1. PICK i \in Latest(a, r) : log' = [log EXCEPT ![a][i].reason = r]
        BY <3>2
      <4>2. i \in DOMAIN log[a]
        BY <4>1 DEF Latest
      <4> HIDE DEF a
      <4>3. a \in Assets
        BY <2>1 DEF a
      <4> QED BY <1>1, <4>1, <4>2, <4>3, AnnotatedLogKept DEF AllKept
    <3> QED BY <1>13, <3>1, <3>2 DEF Commit
  <2> QED BY <1>2, <1>3, <1>5, <1>13, <2>2 DEF Commit
<1>14. ASSUME Save(r) PROVE Considerate(r)
  BY <1>2, <1>3, <1>4, <1>5, <1>6, <1>14 DEF Save
<1>15. ASSUME Log(r) PROVE Considerate(r)
  <2> DEFINE a == job[r].asset
             mine == Observed(copy[r], job[r].model, r)
  <2>1. a \in Assets /\ job[r].model \in Rows /\ copy[r] \in Rows
    BY <1>1, <1>15, Saver DEF At, Log
  <2>2. mine \in Seq(Movements)
    BY <2>1, ObservedTyped
  <2>3. Others
    BY <1>3, <1>6, <1>15 DEF Log
  <2>4. AllKept
    <3>1. CASE UNCHANGED log
      BY <1>4, <3>1
    <3>2. CASE \E t, u \in BOOLEAN : log' = [log EXCEPT ![a] = Extended(log[a], mine, t, u)]
      <4> HIDE DEF a, mine
      <4> QED BY <1>1, <2>1, <2>2, <3>2, ExtendedLogKept DEF AllKept
    <3> QED BY <1>15, <3>1, <3>2 DEF Log
  <2> QED BY <1>2, <1>5, <1>15, <2>3, <2>4 DEF Log
<1>16. ASSUME NEW p \in Repairs, FindRepair(r, p) PROVE Considerate(r)
  <2>1. Others
    BY <1>1, <1>16 DEF FindRepair, Ask, Goto, RequestsTyped
  <2> QED BY <1>2, <1>4, <1>5, <1>16, <2>1 DEF FindRepair, tables
<1>17. ASSUME NEW p \in Repairs, AddRemark(r, p) PROVE Considerate(r)
  <2>1. AllKept
    BY <1>1, <1>17, RepairLogKept DEF AddRemark, AllKept
  <2> QED BY <1>2, <1>3, <1>5, <1>17, <2>1 DEF AddRemark
<1>18. ASSUME NEW p \in Repairs, DestroyRepair(r, p) PROVE Considerate(r)
  <2>1. AllKept
    BY <1>1, <1>18, RepairLogKept DEF DestroyRepair, AllKept
  <2>2. NoneBack
    BY <1>1, <1>18 DEF DestroyRepair, TablesSound
  <2> QED BY <1>2, <1>3, <1>18, <2>1, <2>2 DEF DestroyRepair
<1>19. ASSUME CreateRepair(r) PROVE Considerate(r)
  <2>1. Others
    BY <1>1, <1>3, <1>19 DEF CreateRepair, Goto, RequestsTyped
  <2>2. \A p \in Repairs : repair'[p] # NULL =>
           repair[p] # NULL \/ \A q \in Requests : job[q] # NULL => job[q].repair # p
    BY <1>1, <1>19 DEF CreateRepair, TablesSound
  <2>3. AllKept
    BY <1>4, <1>19 DEF CreateRepair
  <2> QED BY <2>1, <2>2, <2>3 DEF Considerate, AllKept
<1>20. ASSUME LoadAsset(r) PROVE Considerate(r)
  <2>1. Others
    BY <1>1, <1>20 DEF LoadAsset, Goto, RequestsTyped
  <2> QED BY <1>2, <1>4, <1>5, <1>20, <2>1 DEF LoadAsset, tables
<1>21. ASSUME SaveRepair(r) PROVE Considerate(r)
  <2>1. Others
    BY <1>6, <1>21 DEF SaveRepair
  <2>2. NoneBack
    BY <1>1, <1>21 DEF SaveRepair, TablesSound
  <2> QED BY <1>2, <1>4, <1>21, <2>1, <2>2 DEF SaveRepair
<1>22. ASSUME LogRepair(r) \/ Remark(r) PROVE Considerate(r)
  <2>1. job[r].repair \in Repairs
    BY <1>1, <1>22 DEF LogRepair, Remark, At, RequestsTyped, Typed
  <2>2. log' \in LogsOf(job[r].repair, r) \cup {log}
    BY <1>22 DEF LogRepair, Remark
  <2>3. AllKept
    BY <1>1, <2>1, <2>2, RepairLogKept DEF AllKept
  <2>4. Others
    BY <1>3, <1>6, <1>22 DEF LogRepair, Remark
  <2>5. UNCHANGED repair
    BY <1>22 DEF LogRepair, Remark
  <2> QED BY <1>2, <1>5, <2>3, <2>4, <2>5
<1>23. ASSUME NEW i \in Items, FindItem(r, i) PROVE Considerate(r)
  <2>1. Others
    BY <1>1, <1>23 DEF FindItem, Ask, Goto, RequestsTyped
  <2> QED BY <1>2, <1>4, <1>5, <1>23, <2>1 DEF FindItem, tables
<1>24. ASSUME NEW i \in Items, DestroyItem(r, i) PROVE Considerate(r)
  BY <1>2, <1>3, <1>4, <1>5, <1>24 DEF DestroyItem
<1>25. ASSUME DeleteItem(r) PROVE Considerate(r)
  BY <1>2, <1>4, <1>5, <1>6, <1>25 DEF DeleteItem
<1>26. ASSUME Die(r) PROVE Considerate(r)
  <2>1. Others
    BY <1>1, <1>26 DEF Die, Goto, RequestsTyped
  <2> QED BY <1>2, <1>4, <1>5, <1>26, <2>1 DEF Die, tables
<1> HIDE DEF Others, NoneBack
<1> QED BY <1>7, <1>8, <1>9, <1>10, <1>11, <1>12, <1>13, <1>14, <1>15, <1>16, <1>17, <1>18,
           <1>19, <1>20, <1>21, <1>22, <1>23, <1>24, <1>25, <1>26 DEF Step

-----------------------------------------------------------------------------
(* Reserve items.  Nobody but the one request at work on an item makes an   *)
(* asset of it, and while it is deployed its asset exists already.          *)

ItemInv ==
    /\ \A i \in Items : i \in items \/ Made(i) # {} \/ i \in discarded
    /\ \A i \in Items \ disturbed :
          /\ i \in items /\ Made(i) # {} => Deploying(i)
          /\ \A a, b \in Made(i) : a = b
          /\ \A q, r \in Requests : i \in Concerned(q) /\ i \in Concerned(r) => q = r
    /\ \A r \in Requests :
          /\ pc[r] = "delete" => Made(job[r].item) # {}
          /\ pc[r] = "deploy" /\ job[r].item \notin disturbed => Made(job[r].item) = {}

\* Steps that leave the items alone: the request deletes none and deploys
\* none, and marks what it shares with another.
LEMMA ItemsStay ==
    ASSUME ItemInv, UNCHANGED <<source, items, discarded>>, disturbed \subseteq disturbed',
           NEW r \in Requests, pc[r] # "delete", pc'[r] \notin {"deploy", "delete"},
           \A q \in Requests \ {r} : pc'[q] = pc[q] /\ job'[q] = job[q],
           \A i \in Items \ disturbed' : i \in Concerned(r)' =>
               i \in Concerned(r) \/ \A q \in Requests \ {r} : i \notin Concerned(q)
    PROVE  ItemInv'
<1>1. \A i : Made(i)' = Made(i)
  BY DEF Made
<1>2. \A q \in Requests \ {r} : Concerned(q)' = Concerned(q)
  BY DEF Concerned
<1>3. \A i : Deploying(i) => Deploying(i)'
  BY DEF Deploying, At
<1>4. \A i \in Items : (i \in items \/ Made(i) # {} \/ i \in discarded)'
  BY <1>1 DEF ItemInv
<1>5. ASSUME NEW i \in Items \ disturbed'
      PROVE  (/\ i \in items /\ Made(i) # {} => Deploying(i)
              /\ \A a, b \in Made(i) : a = b)'
  BY <1>1, <1>3 DEF ItemInv
<1>6. ASSUME NEW i \in Items \ disturbed', NEW q \in Requests, NEW o \in Requests,
             i \in Concerned(q)', i \in Concerned(o)'
      PROVE  q = o
  <2>1. \A x, y \in Requests : i \in Concerned(x) /\ i \in Concerned(y) => x = y
    BY DEF ItemInv
  <2> QED BY <1>2, <1>6, <2>1
<1>7. ASSUME NEW q \in Requests
      PROVE  (/\ pc[q] = "delete" => Made(job[q].item) # {}
              /\ pc[q] = "deploy" /\ job[q].item \notin disturbed => Made(job[q].item) = {})'
  <2>1. CASE q = r
    BY <2>1
  <2>2. CASE q # r
    <3>1. pc'[q] = pc[q] /\ job'[q] = job[q]
      BY <2>2
    <3> QED BY <1>1, <3>1 DEF ItemInv
  <2> QED BY <2>1, <2>2
<1> QED BY <1>4, <1>5, <1>6, <1>7 DEF ItemInv

\* What a request has marked it shares with nobody unmarked.
LEMMA MarkedShared ==
    ASSUME NEW r \in Requests, NEW x, Mark(r, x)
    PROVE  /\ disturbed \subseteq disturbed'
           /\ x \notin disturbed' => \A q \in Requests \ {r} : x \notin Concerned(q)
  BY DEF Mark

\* A deploying request is about its item.
LEMMA DeployerConcerned ==
    ASSUME RequestsTyped, NEW r \in Requests, pc[r] \in {"deploy", "delete"}
    PROVE  job[r] # NULL /\ job[r].item \in Items /\ job[r].item \in Concerned(r)
<1>1. job[r] # NULL /\ job[r].item \in Items
  BY DEF RequestsTyped, Typed
<1> QED BY <1>1, NullIsNoId DEF Concerned

LEMMA EndedIsUnconcerned ==
    ASSUME NEW r, job'[r] = NULL
    PROVE  Concerned(r)' = {}
  BY DEF Concerned

LEMMA FindItemKeepsItems ==
    ASSUME TypeInv, ItemInv, NEW r \in Requests, NEW i \in Items, FindItem(r, i),
           Considerate(r)
    PROVE  ItemInv'
<1>1. TablesSound /\ RequestsTyped
  BY DEF TypeInv
<1>2. UNCHANGED <<items, source, discarded>> /\ Mark(r, i) /\ i \in items /\ At(r, "idle")
  BY DEF FindItem, tables
<1>3. PICK w \in workstations : Ask(r, [Asked("deploy", NULL) EXCEPT !.item = i, !.to = w])
  BY DEF FindItem
<1>4. pc'[r] = "deploy"
  BY <1>1 DEF FindItem, NextStatement, Goto, RequestsTyped
<1>5. job'[r].item = i /\ job'[r].asset = NULL
  BY <1>1, <1>3 DEF Ask, Asked, RequestsTyped
<1>6. Concerned(r)' \subseteq {i}
  BY <1>5 DEF Concerned
<1>7. \A q \in Requests \ {r} : pc'[q] = pc[q] /\ job'[q] = job[q] /\ Concerned(q)' = Concerned(q)
  BY DEF Considerate, Concerned
<1>8. \A k : Made(k)' = Made(k)
  BY <1>2 DEF Made
<1>9. \A k : Deploying(k) => Deploying(k)'
  BY <1>2, <1>7 DEF Deploying, At
<1>10. disturbed \subseteq disturbed'
       /\ (i \notin disturbed' => \A q \in Requests \ {r} : i \notin Concerned(q))
  BY <1>2, MarkedShared
<1>11. \A k \in Items : (k \in items \/ Made(k) # {} \/ k \in discarded)'
  BY <1>2, <1>8 DEF ItemInv
<1>12. ASSUME NEW k \in Items \ disturbed'
       PROVE  (/\ k \in items /\ Made(k) # {} => Deploying(k)
               /\ \A a, b \in Made(k) : a = b)'
  BY <1>2, <1>8, <1>9, <1>10 DEF ItemInv
<1>13. ASSUME NEW k \in Items \ disturbed', NEW q \in Requests, NEW o \in Requests,
              k \in Concerned(q)', k \in Concerned(o)'
       PROVE  q = o
  <2>1. \A x, y \in Requests : k \in Concerned(x) /\ k \in Concerned(y) => x = y
    BY <1>10 DEF ItemInv
  <2> QED BY <1>6, <1>7, <1>10, <1>13, <2>1
<1>14. i \notin disturbed' => Made(i) = {}
  <2> SUFFICES ASSUME i \notin disturbed', Made(i) # {} PROVE FALSE
    OBVIOUS
  <2>1. Deploying(i)
    BY <1>2, <1>10 DEF ItemInv
  <2>2. PICK q \in Requests : pc[q] = "delete" /\ job[q].item = i
    BY <2>1 DEF Deploying, At
  <2>3. q # r /\ i \in Concerned(q)
    BY <1>1, <1>2, <2>2, DeployerConcerned DEF At
  <2> QED BY <1>10, <2>3
<1>15. ASSUME NEW q \in Requests
       PROVE  (/\ pc[q] = "delete" => Made(job[q].item) # {}
               /\ pc[q] = "deploy" /\ job[q].item \notin disturbed => Made(job[q].item) = {})'
  <2>1. CASE q = r
    BY <1>4, <1>5, <1>8, <1>14, <2>1
  <2>2. CASE q # r
    <3>1. pc'[q] = pc[q] /\ job'[q] = job[q]
      BY <1>7, <2>2
    <3> QED BY <1>8, <1>10, <3>1 DEF ItemInv
  <2> QED BY <2>1, <2>2
<1> QED BY <1>11, <1>12, <1>13, <1>15 DEF ItemInv

LEMMA CreateAssetKeepsItems ==
    ASSUME TypeInv, ItemInv, NEW r \in Requests, NEW a \in Assets, CreateAsset(r, a),
           Considerate(r)
    PROVE  ItemInv'
<1>1. TablesSound /\ RequestsTyped /\ At(r, "deploy") /\ Unused(a)
  BY DEF TypeInv, CreateAsset
<1>2. UNCHANGED <<items, disturbed, discarded>>
  BY DEF CreateAsset, history
<1>3. \A q \in Requests \ {r} : pc'[q] = pc[q] /\ job'[q] = job[q]
  BY DEF Considerate
<1>4. CASE job[r].to \notin workstations
  <2>1. End(r) /\ UNCHANGED source
    BY <1>4 DEF CreateAsset
  <2>2. pc'[r] = "done" /\ job'[r] = NULL
    BY <1>1, <2>1, Ended
  <2>3. Concerned(r)' = {}
    BY <2>2, EndedIsUnconcerned
  <2> QED BY <1>1, <1>2, <1>3, <2>1, <2>2, <2>3, ItemsStay DEF At
<1>5. CASE job[r].to \in workstations
  <2>1. PICK i \in Items : i = job[r].item /\ i \in Concerned(r)
    BY <1>1, DeployerConcerned DEF At
  <2>2. source' = [source EXCEPT ![a] = i] /\ Proceed(r, "delete") /\ source[a] = NULL
    BY <1>1, <1>5, <2>1 DEF CreateAsset, NextStatement, Unused
  <2>3. pc'[r] = "delete" /\ job'[r] = job[r]
    BY <1>1, <2>2 DEF Proceed, Goto, RequestsTyped
  <2>4. \A q \in Requests : Concerned(q)' = Concerned(q)
    BY <1>3, <2>3 DEF Concerned
  <2>5. Made(i)' = Made(i) \cup {a} /\ \A k \in Items \ {i} : Made(k)' = Made(k)
    BY <1>1, <2>2, NullIsNoId DEF Made, TablesSound
  <2>6. Deploying(i)' /\ \A k : Deploying(k) => Deploying(k)'
    BY <1>1, <1>3, <2>1, <2>3 DEF Deploying, At
  <2>7. i \notin disturbed => Made(i) = {}
    BY <1>1, <2>1 DEF ItemInv, At
  <2>8. \A k \in Items : (k \in items \/ Made(k) # {} \/ k \in discarded)'
    BY <1>2, <2>5 DEF ItemInv
  <2>9. ASSUME NEW k \in Items \ disturbed'
        PROVE  (/\ k \in items /\ Made(k) # {} => Deploying(k)
                /\ \A x, y \in Made(k) : x = y
                /\ \A q, o \in Requests : k \in Concerned(q) /\ k \in Concerned(o) => q = o)'
    <3>1. CASE k = i
      BY <1>2, <2>4, <2>5, <2>6, <2>7, <3>1 DEF ItemInv
    <3>2. CASE k # i
      BY <1>2, <2>4, <2>5, <2>6, <3>2 DEF ItemInv
    <3> QED BY <3>1, <3>2
  <2>10. ASSUME NEW q \in Requests
         PROVE  (/\ pc[q] = "delete" => Made(job[q].item) # {}
                 /\ pc[q] = "deploy" /\ job[q].item \notin disturbed => Made(job[q].item) = {})'
    <3>1. CASE q = r
      BY <2>1, <2>3, <2>5, <3>1
    <3>2. CASE q # r
      <4>1. pc'[q] = pc[q] /\ job'[q] = job[q]
        BY <1>3, <3>2
      <4>2. pc[q] \in {"deploy", "delete"} => job[q].item \in Items /\ job[q].item \in Concerned(q)
        BY <1>1, DeployerConcerned
      <4>3. pc[q] = "deploy" /\ job[q].item \notin disturbed => job[q].item # i
        BY <2>1, <3>2, <4>2 DEF ItemInv
      <4> QED BY <1>2, <2>5, <4>1, <4>2, <4>3 DEF ItemInv
    <3> QED BY <3>1, <3>2
  <2> QED BY <2>8, <2>9, <2>10 DEF ItemInv
<1> QED BY <1>4, <1>5

\* An item that goes: its asset exists, a user discarded it, or the worker
\* died and the item is marked.
LEMMA ItemGoes ==
    ASSUME TypeInv, ItemInv, NEW r \in Requests, job'[r] = NULL,
           pc'[r] \notin {"deploy", "delete"},
           \A q \in Requests \ {r} : pc'[q] = pc[q] /\ job'[q] = job[q],
           UNCHANGED source, disturbed \subseteq disturbed', discarded \subseteq discarded',
           items' \subseteq items,
           \A i \in Items : i \in items \ items' => Made(i) # {} \/ i \in discarded',
           pc[r] = "delete" => job[r].item \in disturbed' \/ job[r].item \notin items'
    PROVE  ItemInv'
<1>1. \A i : Made(i)' = Made(i)
  BY DEF Made
<1>2. Concerned(r)' = {} /\ \A q \in Requests \ {r} : Concerned(q)' = Concerned(q)
  BY DEF Concerned
<1>3. \A i \in Items : (i \in items \/ Made(i) # {} \/ i \in discarded)'
  BY <1>1 DEF ItemInv
<1>4. ASSUME NEW i \in Items \ disturbed'
      PROVE  (/\ i \in items /\ Made(i) # {} => Deploying(i)
              /\ \A a, b \in Made(i) : a = b)'
  <2>1. ASSUME i \in items', Made(i) # {} PROVE Deploying(i)'
    <3>1. Deploying(i)
      BY <2>1 DEF ItemInv
    <3>2. PICK q \in Requests : pc[q] = "delete" /\ job[q].item = i
      BY <3>1 DEF Deploying, At
    <3>3. q # r
      BY <2>1, <3>2
    <3> QED BY <3>2, <3>3 DEF Deploying, At
  <2> QED BY <1>1, <2>1 DEF ItemInv
<1>5. ASSUME NEW i \in Items \ disturbed', NEW q \in Requests, NEW o \in Requests,
             i \in Concerned(q)', i \in Concerned(o)'
      PROVE  q = o
  BY <1>2, <1>5 DEF ItemInv
<1>6. ASSUME NEW q \in Requests
      PROVE  (/\ pc[q] = "delete" => Made(job[q].item) # {}
              /\ pc[q] = "deploy" /\ job[q].item \notin disturbed => Made(job[q].item) = {})'
  <2>1. CASE q = r
    BY <2>1
  <2>2. CASE q # r
    <3>1. pc'[q] = pc[q] /\ job'[q] = job[q]
      BY <2>2
    <3> QED BY <1>1, <3>1 DEF ItemInv
  <2> QED BY <2>1, <2>2
<1> QED BY <1>3, <1>4, <1>5, <1>6 DEF ItemInv

LEMMA StepKeepsItems ==
    ASSUME TypeInv, ItemInv, NEW r \in Requests, Step(r)
    PROVE  ItemInv'
<1>1. TablesSound /\ RequestsTyped /\ Considerate(r)
  BY StepsAreConsiderate DEF TypeInv
<1>2. \A q \in Requests \ {r} : pc'[q] = pc[q] /\ job'[q] = job[q]
  BY <1>1 DEF Considerate
<1> DEFINE Untouched == UNCHANGED <<source, items, discarded>> /\ disturbed \subseteq disturbed'
           Elsewhere == pc[r] # "delete" /\ pc'[r] \notin {"deploy", "delete"}
<1>3. ASSUME Untouched, Elsewhere, Concerned(r)' \subseteq Concerned(r) PROVE ItemInv'
  BY <1>2, <1>3, ItemsStay
<1>4. ASSUME Untouched, Elsewhere, NEW x, Mark(r, x), Concerned(r)' \subseteq {x} PROVE ItemInv'
  BY <1>2, <1>4, MarkedShared, ItemsStay
<1>5. ASSUME End(r), Untouched, pc[r] # "delete" PROVE ItemInv'
  <2>1. pc'[r] = "done" /\ job'[r] = NULL
    BY <1>1, <1>5, Ended
  <2>2. Concerned(r)' = {}
    BY <2>1, EndedIsUnconcerned
  <2> QED BY <1>3, <1>5, <2>1, <2>2
<1>6. ASSUME Untouched, Elsewhere, job'[r] = job[r] PROVE ItemInv'
  <2>1. Concerned(r)' = Concerned(r)
    BY <1>6 DEF Concerned
  <2> QED BY <1>3, <1>6, <2>1
<1>7. ASSUME NEW label, label \notin {"deploy", "delete"}, Proceed(r, label), Untouched,
             pc[r] # "delete"
      PROVE  ItemInv'
  <2>1. CASE label = "done"
    BY <1>5, <1>7, <2>1 DEF Proceed
  <2>2. CASE label # "done"
    <3>1. pc'[r] = label /\ job'[r] = job[r]
      BY <1>1, <1>7, <2>2 DEF Proceed, Goto, RequestsTyped
    <3> QED BY <1>6, <1>7, <3>1
  <2> QED BY <2>1, <2>2
<1>8. ASSUME NEW a \in Assets, FindAsset(r, a) PROVE ItemInv'
  <2>1. PICK kind \in InTransaction \cup {"edit"} : \E want \in Wants(kind, row[a]) :
           Ask(r, [Asked(kind, a) EXCEPT !.model = Model(row[a], want)])
    BY <1>8 DEF FindAsset
  <2>2. pc'[r] = "save" /\ job'[r].asset = a /\ job'[r].item = NULL
    BY <1>1, <1>8, <2>1 DEF FindAsset, Goto, Ask, Asked, RequestsTyped
  <2>3. Concerned(r)' \subseteq {a}
    BY <2>2 DEF Concerned
  <2>4. Untouched /\ Mark(r, a) /\ pc[r] = "idle"
    BY <1>8, MarkedShared DEF FindAsset, tables, At
  <2> QED BY <1>4, <2>2, <2>3, <2>4
<1>9. ASSUME NEW a \in Assets, CheckAsset(r, a) PROVE ItemInv'
  <2>1. pc'[r] = "create" /\ job'[r].asset = a /\ job'[r].item = NULL
    BY <1>1, <1>9 DEF CheckAsset, Goto, Ask, Asked, RequestsTyped
  <2>2. Concerned(r)' \subseteq {a}
    BY <2>1 DEF Concerned
  <2>3. Untouched /\ Mark(r, a) /\ pc[r] = "idle"
    BY <1>9, MarkedShared DEF CheckAsset, tables, At
  <2> QED BY <1>4, <2>1, <2>2, <2>3
<1>10. ASSUME NEW p \in Repairs, FindRepair(r, p) PROVE ItemInv'
  <2>1. /\ pc'[r] \in {"asset", "repair"}
        /\ job'[r].asset = repair[p].asset /\ job'[r].item = NULL
    BY <1>1, <1>10 DEF FindRepair, Goto, Ask, Asked, RequestsTyped
  <2>2. Concerned(r)' \subseteq {repair[p].asset}
    BY <2>1 DEF Concerned
  <2>3. Untouched /\ Mark(r, repair[p].asset) /\ pc[r] = "idle"
    BY <1>10, MarkedShared DEF FindRepair, tables, At
  <2> QED BY <1>4, <2>1, <2>2, <2>3
<1>11. ASSUME \/ \E a \in Assets : DestroyAsset(r, a)
              \/ \E w \in Workstations : DestroyBranch(r, w)
              \/ \E p \in Repairs : AddRemark(r, p) \/ DestroyRepair(r, p)
              \/ Commit(r) \/ Remark(r)
       PROVE  ItemInv'
  <2>1. End(r) /\ UNCHANGED <<source, items, discarded>> /\ pc[r] # "delete"
    BY <1>11 DEF DestroyAsset, DestroyBranch, AddRemark, DestroyRepair, Commit, Remark, At, history
  <2>2. disturbed \subseteq disturbed'
    BY <1>11, MarkedShared
      DEF DestroyAsset, DestroyBranch, AddRemark, DestroyRepair, Commit, Remark, history
  <2> QED BY <1>5, <2>1, <2>2
<1>12. ASSUME SaveInTransaction(r) PROVE ItemInv'
  <2>1. Untouched /\ pc[r] = "save"
    BY <1>12 DEF SaveInTransaction, history, At
  <2>2. CASE End(r)
    BY <1>5, <2>1, <2>2
  <2>3. CASE Goto(r, "commit") /\ UNCHANGED job
    <3>1. pc'[r] = "commit" /\ job'[r] = job[r]
      BY <1>1, <2>3 DEF Goto, RequestsTyped
    <3> QED BY <1>6, <2>1, <3>1
  <2> QED BY <1>12, <2>2, <2>3 DEF SaveInTransaction
<1>13. ASSUME Save(r) \/ Log(r) PROVE ItemInv'
  <2>1. Untouched /\ pc[r] \in {"save", "log"}
    BY <1>13 DEF Save, Log, history, At
  <2>2. CASE End(r)
    BY <1>5, <2>1, <2>2
  <2>3. CASE Proceed(r, AfterSave(r)) \/ Proceed(r, AfterLog(r))
    BY <1>7, <2>1, <2>3 DEF AfterSave, AfterLog
  <2> QED BY <1>13, <2>2, <2>3 DEF Save, Log
<1>14. ASSUME CreateRepair(r) PROVE ItemInv'
  <2>1. Untouched /\ pc[r] = "create"
    BY <1>14 DEF CreateRepair, history, At
  <2>2. CASE End(r)
    BY <1>5, <2>1, <2>2
  <2>3. CASE \E p \in Repairs : job' = [job EXCEPT ![r].repair = p] /\ Goto(r, "repairlog")
    <3>1. job[r] \in Jobs /\ job[r] # NULL
      BY <1>1, <2>1 DEF RequestsTyped, Typed
    <3>2. /\ pc'[r] = "repairlog"
          /\ job'[r].asset = job[r].asset /\ job'[r].item = job[r].item
      BY <1>1, <2>3, <3>1 DEF Goto, RequestsTyped, Jobs
    <3>3. Concerned(r)' \subseteq Concerned(r)
      BY <3>1, <3>2 DEF Concerned
    <3> QED BY <1>3, <2>1, <3>2, <3>3
  <2> QED BY <1>14, <2>2, <2>3 DEF CreateRepair
<1>15. ASSUME LoadAsset(r) PROVE ItemInv'
  <2>1. Untouched /\ pc[r] = "asset"
    BY <1>15 DEF LoadAsset, tables, history, At
  <2>2. job[r] \in Jobs /\ job[r] # NULL
    BY <1>1, <2>1 DEF RequestsTyped, Typed
  <2>3. /\ pc'[r] \in {"repair", "save"}
        /\ job'[r].asset = job[r].asset /\ job'[r].item = job[r].item
    BY <1>1, <1>15, <2>2 DEF LoadAsset, Goto, RequestsTyped, Jobs
  <2>4. Concerned(r)' \subseteq Concerned(r)
    BY <2>2, <2>3 DEF Concerned
  <2> QED BY <1>3, <2>1, <2>3, <2>4
<1>16. ASSUME SaveRepair(r) \/ LogRepair(r) PROVE ItemInv'
  <2>1. Untouched /\ pc[r] \in {"repair", "repairlog"}
    BY <1>16 DEF SaveRepair, LogRepair, history, At
  <2>2. PICK label \in {"remark", "done", "repairlog"} : Proceed(r, label)
    BY <1>16 DEF SaveRepair, LogRepair, Proceed
  <2> QED BY <1>7, <2>1, <2>2
<1>17. ASSUME NEW i \in Items, DestroyItem(r, i) PROVE ItemInv'
  <2>1. pc'[r] = "done" /\ job'[r] = NULL
    BY <1>1, <1>17, Ended DEF DestroyItem
  <2>2. /\ items' = items \ {i} /\ discarded' = discarded \cup {i} /\ UNCHANGED source
        /\ disturbed \subseteq disturbed' /\ pc[r] = "idle"
    BY <1>17, MarkedShared DEF DestroyItem, At
  <2> QED BY <1>2, <2>1, <2>2, ItemGoes
<1>18. ASSUME DeleteItem(r) PROVE ItemInv'
  <2>1. At(r, "delete") /\ End(r) /\ items' = items \ {job[r].item}
        /\ UNCHANGED <<source, disturbed, discarded>>
    BY <1>18 DEF DeleteItem, NextStatement, Proceed, At, history
  <2>2. pc'[r] = "done" /\ job'[r] = NULL
    BY <1>1, <2>1, Ended
  <2>3. Made(job[r].item) # {}
    BY <2>1 DEF ItemInv, At
  <2> QED BY <1>2, <2>1, <2>2, <2>3, ItemGoes
<1>19. ASSUME Die(r) PROVE ItemInv'
  <2>1. pc'[r] \in {"aborted", "done"} /\ job'[r] = NULL
    BY <1>1, <1>19 DEF Die, Goto, RequestsTyped
  <2>2. /\ UNCHANGED <<items, source, discarded>>
        /\ disturbed' = disturbed \cup HalfDone(r)
    BY <1>19 DEF Die, tables
  <2>3. pc[r] = "delete" => job[r].item \in HalfDone(r)
    BY DEF HalfDone
  <2> QED BY <1>2, <2>1, <2>2, <2>3, ItemGoes
<1>20. ASSUME NEW i \in Items, FindItem(r, i) PROVE ItemInv'
  BY <1>1, <1>20, FindItemKeepsItems
<1>21. ASSUME NEW a \in Assets, CreateAsset(r, a) PROVE ItemInv'
  BY <1>1, <1>21, CreateAssetKeepsItems
<1> QED BY <1>8, <1>9, <1>10, <1>11, <1>12, <1>13, <1>14, <1>15, <1>16, <1>17, <1>18, <1>19,
           <1>20, <1>21 DEF Step

\* No reserve item is ever lost, and unless deployments of it overlapped or
\* died half-way, it is made into one asset and stays listed beside it no
\* longer than the request between the two statements
\* (ReplenishmentController::assignToEmployee and destroy).
THEOREM ItemOrAssetHolds == Spec => []ItemOrAsset
<1>1. Init => ItemInv
  <2> SUFFICES ASSUME Init PROVE ItemInv
    OBVIOUS
  <2>1. \A i \in Items : Made(i) = {}
    BY NullIsNoId DEF Init, Made
  <2>2. \A r \in Requests : Concerned(r) = {} /\ pc[r] = "idle"
    BY DEF Init, Concerned
  <2>3. \A i \in Items : i \in items \/ i \in discarded
    BY DEF Init
  <2> QED BY <2>1, <2>2, <2>3 DEF ItemInv
<1>2. TypeInv /\ ItemInv /\ [Next]_vars => ItemInv'
  <2> SUFFICES ASSUME TypeInv, ItemInv, [Next]_vars PROVE ItemInv'
    OBVIOUS
  <2>1. CASE UNCHANGED vars \/ \E a \in Assets : Expire(a)
    BY <2>1 DEF vars, tables, history, Expire, ItemInv, Made, Deploying, Concerned, At
  <2>2. CASE \E r \in Requests : Step(r)
    BY <2>2, StepKeepsItems
  <2> QED BY <2>1, <2>2 DEF Next
<1>3. ItemInv => ItemOrAsset
  <2> SUFFICES ASSUME ItemInv, NEW i \in Items
               PROVE  /\ i \in items \/ Made(i) # {} \/ i \in discarded
                      /\ i \notin disturbed => (i \in items /\ Made(i) # {} => Deploying(i))
                      /\ i \notin disturbed => Cardinality(Made(i)) <= 1
    BY DEF ItemOrAsset
  <2>1. i \notin disturbed => Cardinality(Made(i)) <= 1
    <3> SUFFICES ASSUME \A a, b \in Made(i) : a = b PROVE Cardinality(Made(i)) <= 1
      BY DEF ItemInv
    <3>1. CASE Made(i) = {}
      BY <3>1, FS_EmptySet
    <3>2. CASE Made(i) # {}
      <4>1. PICK a : Made(i) = {a}
        BY <3>2
      <4> QED BY <4>1, FS_Singleton
    <3> QED BY <3>1, <3>2
  <2> QED BY <2>1 DEF ItemInv
<1> QED BY <1>1, <1>2, <1>3, TypeInvHolds, PTL DEF Spec

-----------------------------------------------------------------------------
(* What the log says of a place.  The last movement of a type is found by  *)
(* its place in the log; that there is one, if there is any, is a fact     *)
(* about finite sets of numbers.                                           *)

Told(a, type, v) ==
    \E i \in Visible(a) :
        /\ log[a][i].type = type /\ log[a][i].to = v
        /\ \A j \in Visible(a) : log[a][j].type = type => j <= i

\* A set of positions has a last one: of what follows its members, the least.
LEMMA LastExists ==
    ASSUME NEW n \in Nat, NEW S \in SUBSET (1..n), S # {}
    PROVE  \E i \in S : \A j \in S : j <= i
<1> DEFINE Above(i) == {x \in 1..n : x > i}
           T == {Above(i) : i \in S}
           R == StrictSubsetOrdering(1..n)
<1>1. IsFiniteSet(1..n)
  BY FS_Interval
<1>2. IsWellFoundedOn(R, SUBSET (1..n))
  <2>1. FiniteSubsetsOf(1..n) = SUBSET (1..n)
    BY <1>1, FS_FiniteSubsetsOfFinite
  <2> QED BY <2>1, FS_StrictSubsetOrderingWellFounded
<1>3. T \subseteq SUBSET (1..n) /\ T # {}
  OBVIOUS
<1> HIDE DEF R
<1>4. PICK A \in T : \A B \in T : ~(<<B, A>> \in R)
  BY <1>2, <1>3, WFMin
<1>5. PICK i \in S : A = Above(i)
  BY <1>4
<1>6. ASSUME NEW j \in S PROVE j <= i
  <2> SUFFICES ASSUME ~(j <= i) PROVE FALSE
    OBVIOUS
  <2>1. j > i /\ j \in 1..n /\ i \in 1..n
    BY <1>6
  <2>2. Above(j) \subseteq Above(i) /\ j \in Above(i) /\ j \notin Above(j)
    BY <2>1
  <2>3. <<Above(j), Above(i)>> \in R
    BY <2>2 DEF R, StrictSubsetOrdering
  <2> QED BY <1>4, <1>5, <2>3
<1> QED BY <1>5, <1>6

LEMMA VisibleIsInLog ==
    ASSUME TablesSound, NEW a \in Assets
    PROVE  /\ Len(log[a]) \in Nat /\ DOMAIN log[a] = 1..Len(log[a])
           /\ Visible(a) \subseteq 1..Len(log[a])
           /\ \A i \in DOMAIN log[a] : log[a][i] \in Movements
<1>1. log[a] \in Seq(Movements)
  BY DEF TablesSound
<1>2. Len(log[a]) \in Nat /\ DOMAIN log[a] = 1..Len(log[a])
      /\ \A i \in DOMAIN log[a] : log[a][i] \in Movements
  BY <1>1
<1> QED BY <1>2 DEF Visible

\* Told is what LastTo says.
LEMMA LastToIsTold ==
    ASSUME TablesSound, NEW a \in Assets, NEW type
    PROVE  LastTo(a, type) = NULL \/ Told(a, type, LastTo(a, type))
<1> DEFINE moves == {i \in Visible(a) : log[a][i].type = type}
           last == CHOOSE i \in moves : \A j \in moves : j <= i
<1>1. CASE moves = {}
  BY <1>1 DEF LastTo
<1>2. CASE moves # {}
  <2>1. \E i \in moves : \A j \in moves : j <= i
    BY <1>2, VisibleIsInLog, LastExists
  <2>2. last \in moves /\ \A j \in moves : j <= last
    BY <2>1
  <2>3. LastTo(a, type) = log[a][last].to
    BY <1>2 DEF LastTo
  <2> HIDE DEF last
  <2> QED BY <2>2, <2>3 DEF Told
<1> QED BY <1>1, <1>2

\* The log after some movements, news, have come into sight at its end.
LEMMA ToldAfter ==
    ASSUME NEW a, LogKept(a), NEW news, NEW type, NEW v,
           Visible(a) \subseteq DOMAIN log[a], Visible(a)' = Visible(a) \cup news,
           DOMAIN log'[a] \subseteq Nat, news \subseteq Nat, DOMAIN log[a] \subseteq Nat,
           \A i \in Visible(a), j \in news : i < j,
           Told(a, type, v)'
    PROVE  \/ \E i \in news : log'[a][i].type = type /\ log'[a][i].to = v
           \/ Told(a, type, v) /\ \A i \in news : log'[a][i].type # type
<1>1. PICK i \in Visible(a)' :
         /\ log'[a][i].type = type /\ log'[a][i].to = v
         /\ \A j \in Visible(a)' : log'[a][j].type = type => j <= i
  BY DEF Told
<1>2. CASE i \in news
  BY <1>1, <1>2
<1>3. CASE i \in Visible(a)
  <2>1. \A j \in news : log'[a][j].type # type
    <3> SUFFICES ASSUME NEW j \in news, log'[a][j].type = type PROVE FALSE
      OBVIOUS
    <3>1. i \in Nat /\ j \in Nat /\ i < j
      BY <1>3
    <3>2. j <= i
      BY <1>1
    <3> QED BY <3>1, <3>2
  <2>2. \A j \in Visible(a) : log'[a][j].type = log[a][j].type /\ log'[a][j].to = log[a][j].to
    BY DEF LogKept
  <2>3. Told(a, type, v)
    BY <1>1, <1>3, <2>2 DEF Told
  <2> QED BY <2>1, <2>3
<1> QED BY <1>1, <1>2, <1>3

-----------------------------------------------------------------------------
(* Places of models *)

OnePlace(p) == p.ws = NULL \/ p.employee = NULL

\* A row that was given the place of m, but for a workstation deleted since.
Reflects(p, m) ==
    /\ p.employee = m.employee
    /\ p.ws = m.ws \/ (p.ws = NULL /\ m.ws \notin workstations)

\* p is where the log says.
Agrees(a, p) ==
    /\ \A w \in workstations : Told(a, "workstation", w) => p.ws = w
    /\ \A e \in Employees : Told(a, "assignment", e) => p.employee = e

\* The observer clears the employee of an asset at a workstation.
LEMMA ModelHasOnePlace ==
    ASSUME NEW read \in Rows, NEW want \in Rows, OnePlace(read)
    PROVE  OnePlace(Model(read, want))
  BY DEF Model, ClearEmployee, OnePlace, Rows

LEMMA UpdatedReflects ==
    ASSUME NEW stored \in Rows, NEW read \in Rows, NEW m \in Rows, Reflects(stored, read)
    PROVE  Reflects(Updated(stored, read, m), m)
  BY DEF Updated, Reflects, Rows

\* What the movements ms of r tell of the place of its model m, where they
\* have one, and of the place it had read, where they have none.
Tells(ms, read, m, r) ==
    /\ \A i \in DOMAIN ms :
          /\ ms[i].by = r /\ ms[i].reason = NULL
          /\ ms[i].type = "workstation" => ms[i].to = m.ws
          /\ ms[i].type = "assignment" => ms[i].to = m.employee
    /\ (\A i \in DOMAIN ms : ms[i].type # "workstation") => read.ws = NULL \/ m.ws = read.ws
    /\ (\A i \in DOMAIN ms : ms[i].type # "assignment") =>
          m.employee = read.employee \/ (read.ws # NULL /\ m.ws # read.ws)

LEMMA TellsMore ==
    ASSUME NEW ms \in Seq(Movements), NEW read, NEW m, NEW r, Tells(ms, read, m, r),
           NEW x \in Movements, x.by = r, x.reason = NULL,
           x.type = "workstation" => x.to = m.ws,
           x.type = "assignment" => x.to = m.employee
    PROVE  ms \o <<x>> \in Seq(Movements) /\ Tells(ms \o <<x>>, read, m, r)
<1> DEFINE all == ms \o <<x>>
<1>1. /\ all \in Seq(Movements) /\ Len(ms) \in Nat
      /\ DOMAIN ms = 1..Len(ms) /\ DOMAIN all = 1..(Len(ms) + 1)
      /\ \A i \in 1..Len(ms) : all[i] = ms[i]
      /\ all[Len(ms) + 1] = x
  OBVIOUS
<1> HIDE DEF all
<1>2. \A i \in DOMAIN all : i \in DOMAIN ms \/ i = Len(ms) + 1
  BY <1>1
<1>3. \A i \in DOMAIN all : all[i] = x \/ (i \in DOMAIN ms /\ all[i] = ms[i])
  BY <1>1, <1>2
<1>4. \A i \in DOMAIN ms : i \in DOMAIN all /\ all[i] = ms[i]
  BY <1>1
<1>5. Tells(all, read, m, r)
  BY <1>3, <1>4 DEF Tells
<1> QED BY <1>1, <1>5 DEF all

LEMMA ObservedTells ==
    ASSUME NEW read \in Rows, NEW m \in Rows, NEW r \in Requests
    PROVE  Observed(read, m, r) \in Seq(Movements) /\ Tells(Observed(read, m, r), read, m, r)
<1>1. \A type, to : /\ Movement(type, to, r).type = type /\ Movement(type, to, r).to = to
                    /\ Movement(type, to, r).by = r /\ Movement(type, to, r).reason = NULL
  BY DEF Movement
<1>2. Placement(read, m, r) \in Seq(Movements) /\ Tells(Placement(read, m, r), read, m, r)
  <2>1. m.ws \in Workstations \cup {NULL} /\ m.employee \in Employees \cup {NULL}
    BY DEF Rows
  <2>2. CASE read.ws # NULL /\ m.ws # read.ws
    <3> DEFINE x == Movement("workstation", m.ws, r)
    <3>1. Placement(read, m, r) = <<x>> /\ x \in Movements
      BY <2>1, <2>2, MovementTyped DEF Placement
    <3>2. x.type = "workstation" /\ x.to = m.ws /\ x.by = r /\ x.reason = NULL
      BY <1>1
    <3> HIDE DEF x
    <3>3. DOMAIN <<x>> = {1} /\ <<x>>[1] = x /\ <<x>> \in Seq(Movements)
      BY <3>1
    <3> QED BY <2>2, <3>1, <3>2, <3>3 DEF Tells
  <2>3. CASE ~(read.ws # NULL /\ m.ws # read.ws) /\ m.employee # read.employee
    <3> DEFINE x == Movement("assignment", m.employee, r)
    <3>1. Placement(read, m, r) = <<x>> /\ x \in Movements
      BY <2>1, <2>3, MovementTyped DEF Placement
    <3>2. x.type = "assignment" /\ x.to = m.employee /\ x.by = r /\ x.reason = NULL
      BY <1>1
    <3> HIDE DEF x
    <3>3. DOMAIN <<x>> = {1} /\ <<x>>[1] = x /\ <<x>> \in Seq(Movements)
      BY <3>1
    <3> QED BY <2>3, <3>1, <3>2, <3>3 DEF Tells
  <2>4. CASE ~(read.ws # NULL /\ m.ws # read.ws) /\ m.employee = read.employee
    <3>1. Placement(read, m, r) = <<>>
      BY <2>4 DEF Placement
    <3>2. <<>> \in Seq(Movements) /\ DOMAIN <<>> = {}
      OBVIOUS
    <3> QED BY <2>4, <3>1, <3>2 DEF Tells
  <2> QED BY <2>2, <2>3, <2>4
<1>3. CASE m.status = read.status
  <2>1. Observed(read, m, r) = Placement(read, m, r) \o <<>>
    BY <1>3 DEF Observed
  <2>2. Observed(read, m, r) = Placement(read, m, r)
    BY <1>2, <2>1
  <2> QED BY <1>2, <2>2
<1>4. CASE m.status # read.status
  <2> DEFINE x == Movement("status", m.status, r)
  <2>1. Observed(read, m, r) = Placement(read, m, r) \o <<x>>
    BY <1>4 DEF Observed
  <2>2. x \in Movements
    BY MovementTyped DEF Rows
  <2>3. x.type = "status" /\ x.by = r /\ x.reason = NULL
    BY <1>1
  <2> HIDE DEF x
  <2> QED BY <1>2, <2>1, <2>2, <2>3, TellsMore
<1> QED BY <1>3, <1>4

\* What a request writes about its asset in a transaction.
Mine(r) == Observed(copy[r], job[r].model, r) \o OwnMovement(r)

LEMMA MineTells ==
    ASSUME RequestsTyped, NEW r \in Requests, pc[r] \in {"save", "commit", "log"}
    PROVE  Mine(r) \in Seq(Movements) /\ Tells(Mine(r), copy[r], job[r].model, r)
<1> DEFINE m == job[r].model
           seen == Observed(copy[r], m, r)
           x == Movement("workstation", m.ws, r)
<1>1. m \in Rows /\ copy[r] \in Rows
  BY Saver
<1>2. seen \in Seq(Movements) /\ Tells(seen, copy[r], m, r)
  BY <1>1, ObservedTells
<1>3. CASE job[r].kind \in Narrating
  <2>1. Mine(r) = seen \o <<x>>
    BY <1>3 DEF Mine, OwnMovement
  <2>2. x \in Movements
    <3>1. m.ws \in Workstations \cup {NULL}
      BY <1>1 DEF Rows
    <3> QED BY <3>1, MovementTyped
  <2>3. x.type = "workstation" /\ x.to = m.ws /\ x.by = r /\ x.reason = NULL
    BY DEF Movement
  <2> HIDE DEF x, seen, m
  <2>4. Mine(r) \in Seq(Movements) /\ Tells(Mine(r), copy[r], m, r)
    BY <1>2, <2>1, <2>2, <2>3, TellsMore
  <2> QED BY <2>4 DEF m
<1>4. CASE job[r].kind \notin Narrating
  <2>1. Mine(r) = seen \o <<>>
    BY <1>4 DEF Mine, OwnMovement
  <2> HIDE DEF seen
  <2>2. Mine(r) = seen
    BY <1>2, <2>1
  <2> QED BY <1>2, <2>2
<1> QED BY <1>3, <1>4

\* A place that was where the log said, before r moved it and said so.
LEMMA AgreesAfter ==
    ASSUME NEW a, NEW read \in Rows, NEW m \in Rows, NEW p \in Rows, NEW r,
           OnePlace(read), OnePlace(m), Reflects(p, m), Agrees(a, read),
           UNCHANGED workstations, workstations \subseteq Workstations,
           NEW ms, Tells(ms, read, m, r), NEW news,
           \A i \in news : \E k \in DOMAIN ms : SameMovement(log'[a][i], ms[k]),
           \A k \in DOMAIN ms : \E i \in news : SameMovement(log'[a][i], ms[k]),
           \A type, v : Told(a, type, v)' =>
              \/ \E i \in news : log'[a][i].type = type /\ log'[a][i].to = v
              \/ Told(a, type, v) /\ \A i \in news : log'[a][i].type # type
    PROVE  OnePlace(p) /\ Agrees(a, p)'
<1>1. OnePlace(p)
  BY DEF OnePlace, Reflects
<1>2. ASSUME NEW i \in news
      PROVE  /\ log'[a][i].type = "workstation" => log'[a][i].to = m.ws
             /\ log'[a][i].type = "assignment" => log'[a][i].to = m.employee
  <2>1. PICK k \in DOMAIN ms : SameMovement(log'[a][i], ms[k])
    OBVIOUS
  <2> QED BY <2>1 DEF SameMovement, Tells
<1>3. ASSUME NEW type, \A i \in news : log'[a][i].type # type
      PROVE  \A k \in DOMAIN ms : ms[k].type # type
  BY <1>3 DEF SameMovement
<1>4. ASSUME NEW w \in workstations', Told(a, "workstation", w)' PROVE p.ws = w
  <2>0. w \in workstations /\ w # NULL
    BY NullIsNoId
  <2>1. CASE \E i \in news : log'[a][i].type = "workstation" /\ log'[a][i].to = w
    <3>1. m.ws = w
      BY <1>2, <2>1
    <3> QED BY <2>0, <3>1 DEF Reflects
  <2>2. CASE Told(a, "workstation", w) /\ \A i \in news : log'[a][i].type # "workstation"
    <3>1. read.ws = w
      BY <2>0, <2>2 DEF Agrees
    <3>2. m.ws = read.ws
      BY <1>3, <2>0, <2>2, <3>1 DEF Tells
    <3> QED BY <2>0, <3>1, <3>2 DEF Reflects
  <2> QED BY <1>4, <2>1, <2>2
<1>5. ASSUME NEW e \in Employees, Told(a, "assignment", e)' PROVE p.employee = e
  <2>0. e # NULL
    BY NullIsNoId
  <2>1. CASE \E i \in news : log'[a][i].type = "assignment" /\ log'[a][i].to = e
    BY <1>2, <2>1 DEF Reflects
  <2>2. CASE Told(a, "assignment", e) /\ \A i \in news : log'[a][i].type # "assignment"
    <3>1. read.employee = e /\ read.ws = NULL
      BY <2>0, <2>2 DEF Agrees, OnePlace
    <3>2. m.employee = read.employee
      BY <1>3, <2>2, <3>1 DEF Tells
    <3> QED BY <3>1, <3>2 DEF Reflects
  <2> QED BY <1>5, <2>1, <2>2
<1> QED BY <1>1, <1>4, <1>5 DEF Agrees

-----------------------------------------------------------------------------
(* The invariant: of an asset on which requests do not overlap, the row,   *)
(* the log and the one request at work on it fit together.                 *)

Working == {"save", "commit", "log"}

Alone(a) == \A q, r \in Requests : a \in Concerned(q) /\ a \in Concerned(r) => q = r

\* The movements of the transaction of r are the last of the log.
EndsWith(r, a, n, ms) ==
    /\ Len(log[a]) = n + Len(ms)
    /\ \A i \in 1..n : log[a][i].by # r
    /\ \A i \in DOMAIN ms : SameMovement(log[a][n + i], ms[i])

Unread(r, a) == \E n \in Nat : EndsWith(r, a, n, Mine(r))

\* r knows where the asset is: there it was when r read it, says the log, and
\* there r has put it, once it has written the row.
AtWork(r, a) ==
    /\ row[a] # NULL
    /\ OnePlace(copy[r]) /\ OnePlace(job[r].model)
    /\ Agrees(a, copy[r])
    /\ Reflects(row[a], IF pc[r] = "log" THEN job[r].model ELSE copy[r])
    /\ pc[r] = "commit" => Unread(r, a)

Settled(a) == row[a] # NULL /\ ~Saving(a) => OnePlace(row[a]) /\ Agrees(a, row[a])

ReasonsOwnOf(a) ==
    \A i \in DOMAIN log[a] :
        LET r == log[a][i].reason
            own == {j \in DOMAIN log[a] : log[a][j].by = r}
        IN  r # NULL /\ own # {} =>
                i \in own \/ \E j \in own : j > i /\ \A k \in i+1..j : log[a][k].tied

Chronicle(a) ==
    /\ Settled(a)
    /\ ReasonsOwnOf(a)
    /\ \A r \in Requests : pc[r] \in Working /\ job[r].asset = a => AtWork(r, a)

ByNobody(r, a) == \A i \in DOMAIN log[a] : log[a][i].by # r

\* No movement is by a request that has written none yet.
Unheard(r) ==
    /\ pc[r] = "idle" \/ (pc[r] = "save" /\ job[r].kind \in InTransaction) =>
          \A a \in Assets : ByNobody(r, a)
    /\ pc[r] = "commit" => \A a \in Assets \ {job[r].asset} : ByNobody(r, a)

\* A reason is written with the last statement of its request.
ReasonsLate ==
    \A a \in Assets : \A i \in DOMAIN log[a] :
        log[a][i].reason # NULL => log[a][i].reason \in Requests /\ pc[log[a][i].reason] = "done"

LedgerInv ==
    /\ \A r \in Requests : Unheard(r)
    /\ ReasonsLate
    /\ \A a \in Assets \ disturbed : Alone(a) /\ Chronicle(a)

-----------------------------------------------------------------------------
(* What the invariant means to other requests *)

LEMMA WorkerConcerned ==
    ASSUME RequestsTyped, NEW r \in Requests, pc[r] \in Working \cup {"asset", "create"}
    PROVE  job[r].asset \in Assets /\ job[r].asset \in Concerned(r)
<1>1. Typed(pc[r], job[r], copy[r])
  BY DEF RequestsTyped
<1>2. job[r] # NULL /\ job[r].kind # "deploy"
  BY <1>1 DEF Typed, Working, InTransaction, Annotating, Narrating
<1>3. job[r].asset \in Assets
  BY <1>1, <1>2 DEF Typed
<1> QED BY <1>2, <1>3, NullIsNoId DEF Concerned

\* Who is not concerned with an asset is not at work on it.
LEMMA OthersAway ==
    ASSUME RequestsTyped, NEW r \in Requests, NEW a \in Assets, Considerate(r),
           \A q \in Requests \ {r} : a \notin Concerned(q)
    PROVE  \A q \in Requests \ {r} : /\ ~(pc[q] \in Working /\ job[q].asset = a)
                                     /\ ~(pc'[q] \in Working /\ job'[q].asset = a)
  BY WorkerConcerned DEF Considerate

\* What is in sight stays so, if no transaction opens or closes, or if that of
\* r has nothing to show.
LEMMA SameInSight ==
    ASSUME NEW r \in Requests, NEW a, Considerate(r), log'[a] = log[a],
           (pc[r] \in {"commit", "aborted"} <=> pc'[r] \in {"commit", "aborted"})
              \/ ByNobody(r, a)
    PROVE  Visible(a)' = Visible(a)
<1>1. \A q \in Requests \ {r} : q \in Uncommitted <=> q \in Uncommitted'
  BY DEF Considerate, Uncommitted
<1>2. CASE pc[r] \in {"commit", "aborted"} <=> pc'[r] \in {"commit", "aborted"}
  <2>1. Uncommitted' = Uncommitted
    BY <1>1, <1>2 DEF Uncommitted
  <2> QED BY <2>1 DEF Visible
<1>3. CASE ByNobody(r, a)
  <2>1. ASSUME NEW i \in DOMAIN log[a]
        PROVE  log[a][i].by \notin Uncommitted <=> log[a][i].by \notin Uncommitted'
    <3>1. log[a][i].by # r
      BY <1>3 DEF ByNobody
    <3>2. CASE log[a][i].by \in Requests
      BY <1>1, <3>1, <3>2
    <3>3. CASE log[a][i].by \notin Requests
      BY <3>3 DEF Uncommitted
    <3> QED BY <3>2, <3>3
  <2> QED BY <2>1 DEF Visible
<1> QED BY <1>2, <1>3

LEMMA SameTold ==
    ASSUME NEW a, LogKept(a), Visible(a)' = Visible(a), Visible(a) \subseteq DOMAIN log[a]
    PROVE  \A type, v : Told(a, type, v)' <=> Told(a, type, v)
<1>1. \A i \in Visible(a) : log'[a][i].type = log[a][i].type /\ log'[a][i].to = log[a][i].to
  BY DEF LogKept
<1> QED BY <1>1 DEF Told

\* The others' work does not change.
LEMMA SameMine ==
    ASSUME NEW q, job'[q] = job[q], copy'[q] = copy[q]
    PROVE  Mine(q)' = Mine(q)
  BY DEF Mine, OwnMovement, Observed, Placement, Movement

\* Movements that r appends carry no reason yet.
LEMMA ReasonsOwnKept ==
    ASSUME NEW a \in Assets, TablesSound, ReasonsLate, ReasonsOwnOf(a), NEW r \in Requests,
           pc[r] # "done",
           DOMAIN log[a] \subseteq DOMAIN log'[a],
           \A i \in DOMAIN log[a] : log'[a][i] = log[a][i],
           \A i \in DOMAIN log'[a] \ DOMAIN log[a] :
               log'[a][i].by = r /\ log'[a][i].reason = NULL
    PROVE  ReasonsOwnOf(a)'
<1> DEFINE own(q) == {j \in DOMAIN log[a] : log[a][j].by = q}
           own2(q) == {j \in DOMAIN log'[a] : log'[a][j].by = q}
<1>1. SUFFICES ASSUME NEW i \in DOMAIN log'[a], NEW q, q = log'[a][i].reason, q # NULL, own2(q) # {}
               PROVE  i \in own2(q) \/ \E j \in own2(q) : j > i /\ \A k \in i+1..j : log'[a][k].tied
  BY DEF ReasonsOwnOf
<1>2. i \in DOMAIN log[a] /\ q = log[a][i].reason
  BY <1>1
<1>3. q # r
  BY <1>1, <1>2 DEF ReasonsLate
<1>4. own2(q) = own(q)
  BY <1>3
<1>5. i \in own(q) \/ \E j \in own(q) : j > i /\ \A k \in i+1..j : log[a][k].tied
  BY <1>1, <1>2, <1>4 DEF ReasonsOwnOf
<1>6. ASSUME NEW j \in own(q) PROVE \A k \in i+1..j : k \in DOMAIN log[a]
  <2>1. DOMAIN log[a] = 1..Len(log[a]) /\ Len(log[a]) \in Nat
    BY VisibleIsInLog
  <2>2. j \in 1..Len(log[a]) /\ i \in 1..Len(log[a])
    BY <1>2, <2>1
  <2> QED BY <2>1, <2>2
<1> HIDE DEF own, own2
<1>7. \A j \in own(q) : \A k \in i+1..j : log'[a][k].tied <=> log[a][k].tied
  BY <1>6
<1> QED BY <1>4, <1>5, <1>7

-----------------------------------------------------------------------------
(* What a step writes into the logs *)

LEMMA ExtendedReasons ==
    ASSUME NEW seq \in Seq(Movements), NEW ms \in Seq(Movements), ms # <<>>,
           NEW t \in BOOLEAN, NEW u \in BOOLEAN, NEW i \in DOMAIN ms
    PROVE  Extended(seq, ms, t, u)[Len(seq) + i].reason = ms[i].reason
<1> DEFINE dated(k) == IF k > 1 THEN u ELSE t /\ seq # <<>>
           new == [k \in DOMAIN ms |-> [ms[k] EXCEPT !.tied = dated(k)]]
<1>1. Extended(seq, ms, t, u) = seq \o new
  BY DEF Extended
<1>2. DOMAIN ms = 1..Len(ms) /\ Len(ms) \in Nat
  OBVIOUS
<1>3. ASSUME NEW k \in DOMAIN ms
      PROVE  [ms[k] EXCEPT !.tied = dated(k)] \in Movements
  <2>1. dated(k) \in BOOLEAN
    OBVIOUS
  <2>2. ms[k] \in Movements
    OBVIOUS
  <2> HIDE DEF dated
  <2> QED BY <2>1, <2>2 DEF Movements
<1>4. new[i].reason = ms[i].reason
  <2>1. ms[i] \in Movements /\ new[i] = [ms[i] EXCEPT !.tied = dated(i)]
    OBVIOUS
  <2> HIDE DEF dated, new
  <2> QED BY <2>1 DEF Movements
<1>5. new \in Seq(Movements) /\ Len(new) = Len(ms)
  <2>1. new \in [1..Len(ms) -> Movements]
    BY <1>2, <1>3
  <2> HIDE DEF new
  <2> QED BY <2>1, <1>2
<1> HIDE DEF new
<1>6. i \in 1..Len(new)
  BY <1>2, <1>5
<1>7. (seq \o new)[Len(seq) + i] = new[i]
  BY <1>5, <1>6
<1> QED BY <1>1, <1>4, <1>7

\* What a log looks like with ms at its end.
Appended(a, ms) ==
    /\ \A b \in Assets \ {a} : log'[b] = log[b]
    /\ Len(log'[a]) = Len(log[a]) + Len(ms)
    /\ DOMAIN log'[a] = 1..(Len(log[a]) + Len(ms))
    /\ \A i \in DOMAIN log[a] : log'[a][i] = log[a][i]
    /\ \A k \in DOMAIN ms :
          /\ SameMovement(log'[a][Len(log[a]) + k], ms[k])
          /\ log'[a][Len(log[a]) + k].reason = ms[k].reason

LEMMA ExtendedAppends ==
    ASSUME TablesSound, NEW a \in Assets, NEW ms \in Seq(Movements),
           NEW t \in BOOLEAN, NEW u \in BOOLEAN,
           log' = [log EXCEPT ![a] = Extended(log[a], ms, t, u)]
    PROVE  Appended(a, ms)
<1> DEFINE new == Extended(log[a], ms, t, u)
<1>1. log[a] \in Seq(Movements) /\ log \in [Assets -> Seq(Movements)]
  BY DEF TablesSound
<1>2. PICK tail \in Seq(Movements) :
         /\ new = log[a] \o tail
         /\ Len(tail) = Len(ms)
         /\ \A i \in DOMAIN ms : SameMovement(tail[i], ms[i])
  BY <1>1, ExtendedShape
<1>3. \A i \in DOMAIN log[a] : new[i] = log[a][i]
  BY <1>1, ExtendedKeeps
<1>4. \A k \in DOMAIN ms : SameMovement(new[Len(log[a]) + k], ms[k])
  BY <1>1, ExtendedAdds
<1>5. \A k \in DOMAIN ms : new[Len(log[a]) + k].reason = ms[k].reason
  <2> SUFFICES ASSUME NEW k \in DOMAIN ms PROVE new[Len(log[a]) + k].reason = ms[k].reason
    OBVIOUS
  <2>1. ms # <<>>
    OBVIOUS
  <2> QED BY <1>1, <2>1, ExtendedReasons
<1>6. Len(new) = Len(log[a]) + Len(ms) /\ DOMAIN new = 1..(Len(log[a]) + Len(ms))
  <2>1. /\ Len(log[a] \o tail) = Len(log[a]) + Len(tail)
        /\ DOMAIN (log[a] \o tail) = 1..(Len(log[a]) + Len(tail))
    BY <1>1
  <2> HIDE DEF new
  <2> QED BY <1>2, <2>1
<1> HIDE DEF new
<1>7. log' = [log EXCEPT ![a] = new]
  BY DEF new
<1>8. log'[a] = new /\ \A b \in Assets \ {a} : log'[b] = log[b]
  BY <1>1, <1>7
<1> QED BY <1>3, <1>4, <1>5, <1>6, <1>8 DEF Appended

\* The old entries and the new ones.
LEMMA AppendedParts ==
    ASSUME TablesSound, NEW a \in Assets, NEW ms \in Seq(Movements), Appended(a, ms)
    PROVE  /\ LogKept(a) /\ DOMAIN log[a] \subseteq DOMAIN log'[a]
           /\ \A i \in DOMAIN log'[a] \ DOMAIN log[a] :
                 \E k \in DOMAIN ms : /\ i = Len(log[a]) + k
                                      /\ SameMovement(log'[a][i], ms[k])
                                      /\ log'[a][i].reason = ms[k].reason
           /\ \A k \in DOMAIN ms : Len(log[a]) + k \in DOMAIN log'[a] \ DOMAIN log[a]
<1> DEFINE n == Len(log[a])
<1>1. n \in Nat /\ DOMAIN log[a] = 1..n
  BY VisibleIsInLog
<1>2. Len(ms) \in Nat /\ DOMAIN ms = 1..Len(ms)
  OBVIOUS
<1>3. DOMAIN log'[a] = 1..(n + Len(ms))
  BY DEF Appended
<1> HIDE DEF n
<1>4. DOMAIN log[a] \subseteq DOMAIN log'[a]
  BY <1>1, <1>2, <1>3
<1>5. LogKept(a)
  BY <1>4 DEF LogKept, Appended
<1>6. ASSUME NEW i \in DOMAIN log'[a] \ DOMAIN log[a]
      PROVE  \E k \in DOMAIN ms : i = n + k
  <2>1. i \in 1..(n + Len(ms)) /\ i \notin 1..n
    BY <1>1, <1>3
  <2>2. i - n \in 1..Len(ms) /\ i = n + (i - n)
    BY <1>1, <1>2, <2>1
  <2> QED BY <1>2, <2>2
<1>7. \A k \in DOMAIN ms : n + k \in DOMAIN log'[a] \ DOMAIN log[a]
  <2>1. \A k \in 1..Len(ms) : n + k \in 1..(n + Len(ms)) /\ n + k \notin 1..n
    BY <1>1, <1>2
  <2> QED BY <1>1, <1>2, <1>3, <2>1
<1> QED BY <1>4, <1>5, <1>6, <1>7 DEF Appended, n

\* A step of r adds movements of r, and annotates with r as its last act.
Writes(r) ==
    \A b \in Assets : \A i \in DOMAIN log'[b] :
        \/ /\ i \in DOMAIN log[b] /\ log'[b][i].by = log[b][i].by
           /\ \/ log'[b][i].reason = log[b][i].reason
              \/ log'[b][i].reason = r /\ pc'[r] = "done"
        \/ log'[b][i].by = r /\ log'[b][i].reason = NULL

LEMMA AppendedWrites ==
    ASSUME TablesSound, NEW r, NEW a \in Assets, NEW ms \in Seq(Movements), Appended(a, ms),
           \A k \in DOMAIN ms : ms[k].by = r /\ ms[k].reason = NULL
    PROVE  Writes(r)
<1> SUFFICES ASSUME NEW b \in Assets, NEW i \in DOMAIN log'[b]
             PROVE  \/ /\ i \in DOMAIN log[b] /\ log'[b][i].by = log[b][i].by
                       /\ log'[b][i].reason = log[b][i].reason
                    \/ log'[b][i].by = r /\ log'[b][i].reason = NULL
  BY DEF Writes
<1>1. CASE b # a
  BY <1>1 DEF Appended
<1>2. CASE b = a /\ i \in DOMAIN log[a]
  BY <1>2 DEF Appended
<1>3. CASE b = a /\ i \notin DOMAIN log[a]
  <2>1. PICK k \in DOMAIN ms : SameMovement(log'[a][i], ms[k]) /\ log'[a][i].reason = ms[k].reason
    BY <1>3, AppendedParts
  <2> QED BY <1>3, <2>1 DEF SameMovement
<1> QED BY <1>1, <1>2, <1>3

\* A movement about a repair.
LEMMA RepairAppends ==
    ASSUME TablesSound, NEW p \in Repairs, NEW r \in Requests, log' \in LogsOf(p, r)
    PROVE  /\ repair[p] # NULL /\ repair[p].asset \in Assets
           /\ <<Movement("repair", NULL, r)>> \in Seq(Movements)
           /\ Appended(repair[p].asset, <<Movement("repair", NULL, r)>>)
<1> DEFINE a == repair[p].asset
           ms == <<Movement("repair", NULL, r)>>
<1>1. repair[p] # NULL
  BY DEF LogsOf
<1>2. a \in Assets
  BY <1>1 DEF TablesSound, RepairRows
<1>3. PICK t \in BOOLEAN : log' = [log EXCEPT ![a] = Extended(log[a], ms, t, t)]
  BY <1>1 DEF LogsOf
<1>4. ms \in Seq(Movements)
  BY MovementTyped
<1> HIDE DEF a, ms
<1>5. Appended(a, ms)
  BY <1>2, <1>3, <1>4, ExtendedAppends
<1> QED BY <1>1, <1>2, <1>4, <1>5 DEF a, ms

\* What a step does to the logs and to where its request is.
LEMMA StepWrites ==
    ASSUME TypeInv, NEW r \in Requests, Step(r)
    PROVE  /\ Writes(r)
           /\ pc[r] \notin {"done", "aborted"} /\ pc'[r] # "idle"
           /\ pc'[r] = "commit" =>
                 /\ pc[r] = "save" /\ job[r].kind \in InTransaction /\ job'[r] = job[r]
                 /\ \A b \in Assets \ {job[r].asset} : log'[b] = log[b]
           /\ pc'[r] = "save" /\ job'[r].kind \in InTransaction => pc[r] = "idle" /\ log' = log
<1>1. TablesSound /\ RequestsTyped /\ pc \in [Requests -> Labels] /\ job \in [Requests -> Jobs \cup {NULL}]
  BY DEF TypeInv, RequestsTyped
<1>2. UNCHANGED log => Writes(r)
  BY DEF Writes
<1> DEFINE Late == pc'[r] \in {"log", "repair", "repairlog", "remark", "delete", "done", "aborted"}
<1>3. ASSUME End(r) PROVE pc'[r] = "done"
  BY <1>1, <1>3, Ended
<1>4. ASSUME NEW label, Proceed(r, label) PROVE pc'[r] = label
  BY <1>1, <1>3, <1>4 DEF Proceed, Goto
<1>5. ASSUME NEW p \in Repairs, log' \in LogsOf(p, r) \cup {log} PROVE Writes(r)
  <2> DEFINE x == Movement("repair", NULL, r)
             ms == <<x>>
  <2>1. CASE log' = log
    BY <1>2, <2>1
  <2>2. CASE log' \in LogsOf(p, r)
    <3>1. repair[p].asset \in Assets /\ ms \in Seq(Movements) /\ Appended(repair[p].asset, ms)
      BY <1>1, <2>2, RepairAppends
    <3>2. \A k \in DOMAIN ms : ms[k] = x
      OBVIOUS
    <3>3. x.by = r /\ x.reason = NULL
      BY DEF Movement
    <3> HIDE DEF ms, x
    <3> QED BY <1>1, <3>1, <3>2, <3>3, AppendedWrites
  <2> QED BY <1>5, <2>1, <2>2
<1>6. ASSUME \E a \in Assets : FindAsset(r, a) PROVE UNCHANGED log /\ pc[r] = "idle" /\ pc'[r] = "save"
  BY <1>1, <1>6 DEF FindAsset, Goto, At, tables
<1>7. ASSUME \/ \E a \in Assets : CheckAsset(r, a)
             \/ \E p \in Repairs : FindRepair(r, p)
             \/ \E i \in Items : FindItem(r, i)
      PROVE  UNCHANGED log /\ pc[r] = "idle" /\ pc'[r] \in {"create", "asset", "repair", "deploy"}
  BY <1>1, <1>7 DEF CheckAsset, FindRepair, FindItem, NextStatement, Goto, At, tables
<1>8. ASSUME \/ \E w \in Workstations : DestroyBranch(r, w)
             \/ \E i \in Items : DestroyItem(r, i)
      PROVE  UNCHANGED log /\ pc[r] = "idle" /\ pc'[r] = "done"
  BY <1>3, <1>8 DEF DestroyBranch, DestroyItem, At
<1>9. ASSUME NEW a \in Assets, CreateAsset(r, a) PROVE Writes(r) /\ pc[r] = "deploy" /\ Late
  <2>1. pc[r] = "deploy"
    BY <1>9 DEF CreateAsset, At
  <2>2. CASE End(r) /\ UNCHANGED log
    BY <1>2, <1>3, <2>1, <2>2
  <2>3. CASE Proceed(r, "delete") /\ log' = [log EXCEPT ![a] = <<Movement("created", NULL, r)>>]
    <3> DEFINE x == Movement("created", NULL, r)
    <3>1. x.by = r /\ x.reason = NULL
      BY DEF Movement
    <3> HIDE DEF x
    <3>2. log' = [log EXCEPT ![a] = <<x>>]
      BY <2>3 DEF x
    <3>3. DOMAIN log'[a] = {1} /\ log'[a][1] = x /\ \A b \in Assets \ {a} : log'[b] = log[b]
      BY <1>1, <3>2 DEF TablesSound
    <3>4. Writes(r)
      BY <3>1, <3>3 DEF Writes
    <3> QED BY <1>4, <2>1, <2>3, <3>4
  <2> QED BY <1>9, <2>2, <2>3 DEF CreateAsset, NextStatement
<1>10. ASSUME NEW a \in Assets, DestroyAsset(r, a) PROVE Writes(r) /\ pc[r] = "idle" /\ pc'[r] = "done"
  <2>1. log' = [log EXCEPT ![a] = <<>>]
    BY <1>10 DEF DestroyAsset
  <2>2. DOMAIN log'[a] = {} /\ \A b \in Assets \ {a} : log'[b] = log[b]
    BY <1>1, <2>1 DEF TablesSound
  <2>3. Writes(r)
    BY <2>2 DEF Writes
  <2> QED BY <1>3, <1>10, <2>3 DEF DestroyAsset, At
<1>11. ASSUME SaveInTransaction(r)
       PROVE  /\ Writes(r) /\ pc[r] = "save" /\ pc'[r] \in {"done", "commit"}
              /\ pc'[r] = "commit" =>
                    /\ job[r].kind \in InTransaction /\ job'[r] = job[r]
                    /\ \A b \in Assets \ {job[r].asset} : log'[b] = log[b]
  <2>1. pc[r] = "save" /\ job[r].kind \in InTransaction
    BY <1>11 DEF SaveInTransaction, At
  <2>2. CASE End(r) /\ UNCHANGED log
    BY <1>2, <1>3, <2>1, <2>2
  <2>3. CASE /\ \E t, u \in BOOLEAN :
                   log' = [log EXCEPT ![job[r].asset] = Extended(log[job[r].asset], Mine(r), t, u)]
             /\ Goto(r, "commit") /\ UNCHANGED <<job, copy>>
    <3>1. job[r].asset \in Assets
      BY <1>1, <2>1, Saver
    <3>2. Mine(r) \in Seq(Movements) /\ Tells(Mine(r), copy[r], job[r].model, r)
      BY <1>1, <2>1, MineTells
    <3>3. Appended(job[r].asset, Mine(r))
      BY <1>1, <2>3, <3>1, <3>2, ExtendedAppends
    <3>4. Writes(r)
      BY <1>1, <3>1, <3>2, <3>3, AppendedWrites DEF Tells
    <3>5. pc'[r] = "commit" /\ job'[r] = job[r]
      BY <1>1, <2>3 DEF Goto
    <3> QED BY <2>1, <3>3, <3>4, <3>5 DEF Appended
  <2> QED BY <1>11, <2>2, <2>3 DEF SaveInTransaction, Mine
<1>12. ASSUME Log(r) PROVE Writes(r) /\ pc[r] = "log" /\ Late
  <2>1. pc[r] = "log"
    BY <1>12 DEF Log, At
  <2>2. CASE End(r) /\ UNCHANGED log
    BY <1>2, <1>3, <2>1, <2>2
  <2>3. CASE /\ \E t, u \in BOOLEAN : log' =
                   [log EXCEPT ![job[r].asset] =
                        Extended(log[job[r].asset], Observed(copy[r], job[r].model, r), t, u)]
             /\ Proceed(r, AfterLog(r))
    <3>1. job[r].asset \in Assets /\ job[r].model \in Rows /\ copy[r] \in Rows
      BY <1>1, <2>1, Saver
    <3>2. /\ Observed(copy[r], job[r].model, r) \in Seq(Movements)
          /\ Tells(Observed(copy[r], job[r].model, r), copy[r], job[r].model, r)
      BY <3>1, ObservedTells
    <3>3. Appended(job[r].asset, Observed(copy[r], job[r].model, r))
      BY <1>1, <2>3, <3>1, <3>2, ExtendedAppends
    <3>4. Writes(r)
      BY <1>1, <3>1, <3>2, <3>3, AppendedWrites DEF Tells
    <3> QED BY <1>4, <2>1, <2>3, <3>4 DEF AfterLog
  <2> QED BY <1>12, <2>2, <2>3 DEF Log
<1>13. ASSUME Save(r) PROVE UNCHANGED log /\ pc[r] = "save" /\ Late
  BY <1>3, <1>4, <1>13 DEF Save, At, AfterSave, AfterLog
<1>14. ASSUME Commit(r) PROVE Writes(r) /\ pc[r] = "commit" /\ pc'[r] = "done"
  <2>1. pc[r] = "commit" /\ pc'[r] = "done"
    BY <1>3, <1>14 DEF Commit, At
  <2>2. CASE UNCHANGED log
    BY <1>2, <2>1, <2>2
  <2>3. CASE \E i \in Latest(job[r].asset, r) : log' = [log EXCEPT ![job[r].asset][i].reason = r]
    <3> DEFINE a == job[r].asset
    <3>1. a \in Assets
      BY <1>1, <2>1, Saver
    <3>2. PICK i \in Latest(a, r) : log' = [log EXCEPT ![a] = [log[a] EXCEPT ![i].reason = r]]
      BY <2>3
    <3>3. i \in DOMAIN log[a] /\ log[a] \in Seq(Movements)
      BY <1>1, <3>1, <3>2 DEF Latest, TablesSound
    <3> DEFINE new == [log[a] EXCEPT ![i].reason = r]
    <3>4. DOMAIN new = DOMAIN log[a] /\ \A k \in DOMAIN log[a] : new[k].by = log[a][k].by
      BY <3>3, Annotated
    <3>5. \A k \in DOMAIN log[a] : new[k].reason = log[a][k].reason \/ new[k].reason = r
      <4>1. \A k \in DOMAIN log[a] : log[a][k] \in Movements
        BY <3>3
      <4>2. \A k \in DOMAIN log[a] : new[k] = IF k = i THEN [log[a][i] EXCEPT !.reason = r] ELSE log[a][k]
        OBVIOUS
      <4>3. [log[a][i] EXCEPT !.reason = r].reason = r
        BY <3>3, <4>1 DEF Movements
      <4> HIDE DEF new
      <4> QED BY <4>2, <4>3
    <3> HIDE DEF new
    <3>6. log'[a] = new /\ \A b \in Assets \ {a} : log'[b] = log[b]
      BY <1>1, <3>1, <3>2 DEF new, TablesSound
    <3> HIDE DEF a
    <3>7. Writes(r)
      BY <2>1, <3>4, <3>5, <3>6 DEF Writes
    <3> QED BY <2>1, <3>7
  <2> QED BY <1>14, <2>2, <2>3 DEF Commit
<1>15. ASSUME CreateRepair(r) PROVE UNCHANGED log /\ pc[r] = "create" /\ Late
  BY <1>1, <1>3, <1>15 DEF CreateRepair, At, Goto
<1>16. ASSUME LoadAsset(r)
       PROVE  UNCHANGED log /\ pc[r] = "asset" /\ pc'[r] \in {"repair", "save"}
              /\ job'[r].kind = "workflow"
  <2>1. pc[r] = "asset" /\ UNCHANGED log /\ Typed(pc[r], job[r], copy[r])
    BY <1>1, <1>16 DEF LoadAsset, At, tables, RequestsTyped
  <2>2. job[r].kind = "workflow" /\ job[r] \in Jobs
    BY <2>1 DEF Typed
  <2> QED BY <1>1, <1>16, <2>1, <2>2 DEF LoadAsset, Goto, Jobs
<1>17. ASSUME SaveRepair(r) PROVE UNCHANGED log /\ pc[r] = "repair" /\ Late
  BY <1>4, <1>17 DEF SaveRepair, At
<1>18. ASSUME NEW p \in Repairs, AddRemark(r, p) \/ DestroyRepair(r, p)
       PROVE  Writes(r) /\ pc[r] = "idle" /\ pc'[r] = "done"
  BY <1>3, <1>5, <1>18 DEF AddRemark, DestroyRepair, At
<1>19. ASSUME LogRepair(r) \/ Remark(r) PROVE Writes(r) /\ pc[r] \in {"repairlog", "remark"} /\ Late
  <2>1. pc[r] \in {"repairlog", "remark"} /\ Typed(pc[r], job[r], copy[r])
    BY <1>1, <1>19 DEF LogRepair, Remark, At, RequestsTyped
  <2>2. job[r].repair \in Repairs
    BY <2>1 DEF Typed
  <2>3. log' \in LogsOf(job[r].repair, r) \cup {log}
    BY <1>19 DEF LogRepair, Remark
  <2>4. Late
    BY <1>3, <1>4, <1>19 DEF LogRepair, Remark
  <2> QED BY <1>5, <2>1, <2>2, <2>3, <2>4
<1>20. ASSUME DeleteItem(r) PROVE UNCHANGED log /\ pc[r] = "delete" /\ Late
  BY <1>4, <1>20 DEF DeleteItem, At, NextStatement
<1>21. ASSUME Die(r) PROVE UNCHANGED log /\ pc[r] \notin {"idle", "done", "aborted"} /\ Late
  BY <1>1, <1>21 DEF Die, Goto, tables
<1>22. ASSUME \E a \in Assets : CreateAsset(r, a) PROVE Writes(r) /\ pc[r] = "deploy" /\ Late
  BY <1>9, <1>22
<1> HIDE DEF Late
<1>23. Late => pc'[r] \notin {"idle", "commit", "save"}
  BY DEF Late
<1> DEFINE Opens == /\ job[r].kind \in InTransaction /\ job'[r] = job[r]
                    /\ \A b \in Assets \ {job[r].asset} : log'[b] = log[b]
<1> HIDE DEF Opens
<1>24. \/ UNCHANGED log /\ pc[r] = "idle" /\ pc'[r] \in {"save", "create", "asset", "repair", "deploy", "done"}
       \/ Writes(r) /\ pc[r] = "idle" /\ pc'[r] = "done"
       \/ Writes(r) /\ pc[r] \notin {"idle", "done", "aborted"} /\ Late
       \/ Writes(r) /\ pc[r] = "save" /\ pc'[r] \in {"done", "commit"} /\ (pc'[r] = "commit" => Opens)
       \/ Writes(r) /\ pc[r] = "commit" /\ pc'[r] = "done"
       \/ /\ UNCHANGED log /\ pc[r] = "asset" /\ pc'[r] \in {"repair", "save"}
          /\ job'[r].kind = "workflow"
  <2>1. CASE \E a \in Assets : FindAsset(r, a) \/ CheckAsset(r, a) \/ CreateAsset(r, a) \/ DestroyAsset(r, a)
    BY <1>6, <1>7, <1>22, <1>10, <2>1
  <2>2. CASE \E w \in Workstations : DestroyBranch(r, w)
    BY <1>8, <2>2
  <2>3. CASE SaveInTransaction(r)
    BY <1>11, <2>3 DEF Opens
  <2>4. CASE Commit(r) \/ Save(r) \/ Log(r)
    BY <1>2, <1>12, <1>13, <1>14, <2>4
  <2>5. CASE \E p \in Repairs : FindRepair(r, p) \/ AddRemark(r, p) \/ DestroyRepair(r, p)
    BY <1>7, <1>18, <2>5
  <2>6. CASE CreateRepair(r) \/ SaveRepair(r) \/ LogRepair(r) \/ Remark(r) \/ DeleteItem(r) \/ Die(r)
    BY <1>2, <1>15, <1>17, <1>19, <1>20, <1>21, <2>6
  <2>7. CASE LoadAsset(r)
    BY <1>16, <2>7
  <2>8. CASE \E i \in Items : FindItem(r, i) \/ DestroyItem(r, i)
    BY <1>7, <1>8, <2>8
  <2> QED BY <2>1, <2>2, <2>3, <2>4, <2>5, <2>6, <2>7, <2>8 DEF Step
<1>25. "workflow" \notin InTransaction
  BY DEF InTransaction, Annotating, Narrating
<1>26. /\ Writes(r) /\ pc[r] \notin {"done", "aborted"} /\ pc'[r] # "idle"
       /\ pc'[r] = "commit" => pc[r] = "save" /\ Opens
       /\ pc'[r] = "save" /\ job'[r].kind \in InTransaction => pc[r] = "idle" /\ log' = log
  BY <1>2, <1>23, <1>24, <1>25
<1> QED BY <1>26 DEF Opens

LEMMA UnheardKept ==
    ASSUME TypeInv, \A q \in Requests : Unheard(q), NEW r \in Requests, Step(r)
    PROVE  \A q \in Requests : Unheard(q)'
<1>1. Considerate(r) /\ Writes(r)
  BY StepsAreConsiderate, StepWrites
<1>2. ASSUME NEW q \in Requests \ {r}, NEW b \in Assets, ByNobody(q, b) PROVE ByNobody(q, b)'
  BY <1>1, <1>2 DEF Writes, ByNobody
<1>3. ASSUME NEW q \in Requests \ {r} PROVE Unheard(q)'
  BY <1>1, <1>2 DEF Unheard, Considerate
<1>4. Unheard(r)'
  <2>1. pc'[r] # "idle"
    BY StepWrites
  <2>2. pc'[r] = "commit" => \A b \in Assets \ {job'[r].asset} : ByNobody(r, b)'
    <3> SUFFICES ASSUME pc'[r] = "commit", NEW b \in Assets, b # job'[r].asset PROVE ByNobody(r, b)'
      OBVIOUS
    <3>1. /\ pc[r] = "save" /\ job[r].kind \in InTransaction /\ job'[r] = job[r]
          /\ \A c \in Assets \ {job[r].asset} : log'[c] = log[c]
      BY StepWrites
    <3> QED BY <3>1 DEF ByNobody, Unheard
  <2>3. pc'[r] = "save" /\ job'[r].kind \in InTransaction => \A b \in Assets : ByNobody(r, b)'
    <3> SUFFICES ASSUME pc'[r] = "save", job'[r].kind \in InTransaction, NEW b \in Assets
                 PROVE  ByNobody(r, b)'
      OBVIOUS
    <3>1. pc[r] = "idle" /\ log' = log
      BY StepWrites
    <3> QED BY <3>1 DEF ByNobody, Unheard
  <2> QED BY <2>1, <2>2, <2>3 DEF Unheard
<1> QED BY <1>3, <1>4

LEMMA ReasonsLateKept ==
    ASSUME TypeInv, ReasonsLate, NEW r \in Requests, Step(r)
    PROVE  ReasonsLate'
<1>1. Considerate(r) /\ Writes(r) /\ pc[r] # "done"
  BY StepsAreConsiderate, StepWrites
<1> SUFFICES ASSUME NEW a \in Assets, NEW i \in DOMAIN log'[a], log'[a][i].reason # NULL
             PROVE  log'[a][i].reason \in Requests /\ pc'[log'[a][i].reason] = "done"
  BY DEF ReasonsLate
<1>2. CASE i \in DOMAIN log[a] /\ log'[a][i].reason = log[a][i].reason
  <2>1. log[a][i].reason \in Requests /\ pc[log[a][i].reason] = "done"
    BY <1>2 DEF ReasonsLate
  <2> QED BY <1>1, <1>2, <2>1 DEF Considerate
<1>3. CASE log'[a][i].reason = r /\ pc'[r] = "done"
  BY <1>3
<1> QED BY <1>1, <1>2, <1>3 DEF Writes

\* Whom a request joins at its asset, it marks.
LEMMA AloneKept ==
    ASSUME TypeInv, NEW r \in Requests, Step(r), NEW a \in Assets,
           Alone(a), a \notin disturbed'
    PROVE  Alone(a)'
<1>1. TablesSound /\ RequestsTyped /\ Considerate(r)
  BY StepsAreConsiderate DEF TypeInv
<1>2. \A q \in Requests \ {r} : Concerned(q)' = Concerned(q)
  BY <1>1 DEF Considerate, Concerned
<1>3. ASSUME Concerned(r)' \subseteq Concerned(r) PROVE Alone(a)'
  BY <1>2, <1>3 DEF Alone
<1>4. ASSUME NEW x, Mark(r, x), Concerned(r)' \subseteq {x} PROVE Alone(a)'
  <2>1. \A q \in Requests \ {r} : ~(a \in Concerned(q) /\ a \in Concerned(r)')
    BY <1>4, MarkedShared
  <2>2. \A q, o \in Requests : a \in Concerned(q) /\ a \in Concerned(o) => q = o
    BY DEF Alone
  <2>3. ASSUME NEW q \in Requests, NEW o \in Requests, a \in Concerned(q)', a \in Concerned(o)'
        PROVE  q = o
    BY <1>2, <2>1, <2>2, <2>3
  <2> QED BY <2>3 DEF Alone
<1>5. ASSUME job'[r] = NULL \/ job'[r] = job[r] PROVE Alone(a)'
  <2>1. Concerned(r)' \subseteq Concerned(r)
    BY <1>5 DEF Concerned
  <2> QED BY <1>3, <2>1
<1>6. ASSUME End(r) PROVE Alone(a)'
  <2>1. job'[r] = NULL
    BY <1>1, <1>6, Ended
  <2> QED BY <1>5, <2>1
<1>7. ASSUME NEW label, Proceed(r, label) PROVE Alone(a)'
  BY <1>5, <1>6, <1>7 DEF Proceed
<1>8. ASSUME NEW b \in Assets, FindAsset(r, b) PROVE Alone(a)'
  <2>1. PICK kind \in InTransaction \cup {"edit"} : \E want \in Wants(kind, row[b]) :
           Ask(r, [Asked(kind, b) EXCEPT !.model = Model(row[b], want)])
    BY <1>8 DEF FindAsset
  <2>2. job'[r].asset = b /\ job'[r].item = NULL
    BY <1>1, <2>1 DEF Ask, Asked, RequestsTyped
  <2>3. Concerned(r)' \subseteq {b} /\ Mark(r, b)
    BY <1>8, <2>2 DEF Concerned, FindAsset
  <2> QED BY <1>4, <2>3
<1>9. ASSUME NEW b \in Assets, CheckAsset(r, b) PROVE Alone(a)'
  <2>1. job'[r].asset = b /\ job'[r].item = NULL
    BY <1>1, <1>9 DEF CheckAsset, Ask, Asked, RequestsTyped
  <2>2. Concerned(r)' \subseteq {b} /\ Mark(r, b)
    BY <1>9, <2>1 DEF Concerned, CheckAsset
  <2> QED BY <1>4, <2>2
<1>10. ASSUME NEW p \in Repairs, FindRepair(r, p) PROVE Alone(a)'
  <2>1. job'[r].asset = repair[p].asset /\ job'[r].item = NULL
    BY <1>1, <1>10 DEF FindRepair, Ask, Asked, RequestsTyped
  <2>2. Concerned(r)' \subseteq {repair[p].asset} /\ Mark(r, repair[p].asset)
    BY <1>10, <2>1 DEF Concerned, FindRepair
  <2> QED BY <1>4, <2>2
<1>11. ASSUME NEW i \in Items, FindItem(r, i) PROVE Alone(a)'
  <2>1. job'[r].asset = NULL /\ job'[r].item = i
    BY <1>1, <1>11 DEF FindItem, Ask, Asked, RequestsTyped
  <2>2. Concerned(r)' \subseteq {i} /\ Mark(r, i)
    BY <1>11, <2>1 DEF Concerned, FindItem
  <2> QED BY <1>4, <2>2
<1>12. ASSUME CreateRepair(r) PROVE Alone(a)'
  <2>1. CASE End(r)
    BY <1>6, <2>1
  <2>2. CASE \E p \in Repairs : job' = [job EXCEPT ![r].repair = p]
    <3>1. job[r] \in Jobs /\ job[r] # NULL
      BY <1>1, <1>12 DEF RequestsTyped, Typed, CreateRepair, At
    <3>2. job'[r].asset = job[r].asset /\ job'[r].item = job[r].item
      BY <1>1, <2>2, <3>1 DEF RequestsTyped, Jobs
    <3>3. Concerned(r)' \subseteq Concerned(r)
      BY <3>1, <3>2 DEF Concerned
    <3> QED BY <1>3, <3>3
  <2> QED BY <1>12, <2>1, <2>2 DEF CreateRepair
<1>13. ASSUME LoadAsset(r) PROVE Alone(a)'
  <2>1. job[r] \in Jobs /\ job[r] # NULL
    BY <1>1, <1>13 DEF RequestsTyped, Typed, LoadAsset, At
  <2>2. job'[r].asset = job[r].asset /\ job'[r].item = job[r].item
    BY <1>1, <1>13, <2>1 DEF LoadAsset, RequestsTyped, Jobs
  <2>3. Concerned(r)' \subseteq Concerned(r)
    BY <2>1, <2>2 DEF Concerned
  <2> QED BY <1>3, <2>3
<1>14. ASSUME \/ \E b \in Assets : DestroyAsset(r, b)
              \/ \E w \in Workstations : DestroyBranch(r, w)
              \/ \E p \in Repairs : AddRemark(r, p) \/ DestroyRepair(r, p)
              \/ \E i \in Items : DestroyItem(r, i)
              \/ Commit(r) \/ Remark(r)
       PROVE  Alone(a)'
  BY <1>6, <1>14 DEF DestroyAsset, DestroyBranch, AddRemark, DestroyRepair, DestroyItem, Commit, Remark
<1>15. ASSUME SaveInTransaction(r) PROVE Alone(a)'
  BY <1>5, <1>6, <1>15 DEF SaveInTransaction
<1>16. ASSUME Save(r) \/ Log(r) \/ SaveRepair(r) \/ LogRepair(r) \/ DeleteItem(r) PROVE Alone(a)'
  BY <1>6, <1>7, <1>16 DEF Save, Log, SaveRepair, LogRepair, DeleteItem
<1>17. ASSUME NEW b \in Assets, CreateAsset(r, b) PROVE Alone(a)'
  BY <1>6, <1>7, <1>17 DEF CreateAsset
<1>18. ASSUME Die(r) PROVE Alone(a)'
  BY <1>1, <1>5, <1>18 DEF Die, RequestsTyped
<1> QED BY <1>8, <1>9, <1>10, <1>11, <1>12, <1>13, <1>14, <1>15, <1>16, <1>17, <1>18 DEF Step

-----------------------------------------------------------------------------
(* Assets that a step leaves alone *)

LEMMA DisturbedStay ==
    ASSUME NEW r \in Requests, Step(r)
    PROVE  disturbed \subseteq disturbed'
  BY MarkedShared DEF Step, FindAsset, CheckAsset, CreateAsset, DestroyAsset, DestroyBranch,
     SaveInTransaction, Commit, Save, Log, FindRepair, AddRemark, DestroyRepair, CreateRepair,
     LoadAsset, SaveRepair, LogRepair, Remark, FindItem, DestroyItem, DeleteItem, Die, history

LEMMA SettledKept ==
    ASSUME NEW r \in Requests, Considerate(r), NEW a, Settled(a),
           UNCHANGED workstations, row'[a] = row[a],
           \A type, v : Told(a, type, v)' => Told(a, type, v),
           pc[r] = "log" /\ job[r].asset = a => pc'[r] = "log" /\ job'[r].asset = a
    PROVE  Settled(a)'
<1>1. Saving(a) => Saving(a)'
  <2> SUFFICES ASSUME NEW q \in Requests, pc[q] = "log", job[q].asset = a PROVE Saving(a)'
    BY DEF Saving, At
  <2>1. pc'[q] = "log" /\ job'[q].asset = a
    BY DEF Considerate
  <2> QED BY <2>1 DEF Saving, At
<1>2. Agrees(a, row[a]) => Agrees(a, row[a])'
  BY DEF Agrees
<1> QED BY <1>1, <1>2 DEF Settled, OnePlace

LEMMA Untouched ==
    ASSUME TypeInv, ReasonsLate, NEW r \in Requests, Considerate(r), pc[r] # "done",
           NEW a \in Assets, Chronicle(a),
           UNCHANGED workstations, row'[a] = row[a], log'[a] = log[a], Visible(a)' = Visible(a),
           pc'[r] \in Working /\ job'[r].asset = a => AtWork(r, a)',
           pc[r] = "log" /\ job[r].asset = a => pc'[r] = "log" /\ job'[r].asset = a
    PROVE  Chronicle(a)'
<1>1. TablesSound
  BY DEF TypeInv
<1>2. Visible(a) \subseteq DOMAIN log[a] /\ LogKept(a)
  BY <1>1, VisibleIsInLog DEF LogKept
<1>3. \A type, v : Told(a, type, v)' <=> Told(a, type, v)
  BY <1>2, SameTold
<1>4. Settled(a)'
  BY <1>3, SettledKept DEF Chronicle
<1>5. ReasonsOwnOf(a)'
  BY <1>1, ReasonsOwnKept DEF Chronicle
<1>6. ASSUME NEW q \in Requests \ {r}, pc'[q] \in Working, job'[q].asset = a PROVE AtWork(q, a)'
  <2>1. pc'[q] = pc[q] /\ job'[q] = job[q] /\ copy'[q] = copy[q]
    BY DEF Considerate
  <2>2. AtWork(q, a)
    BY <1>6, <2>1 DEF Chronicle
  <2>3. Unread(q, a) => Unread(q, a)'
    <3> SUFFICES ASSUME Unread(q, a) PROVE Unread(q, a)'
      OBVIOUS
    <3>1. PICK n \in Nat :
             /\ Len(log[a]) = n + Len(Mine(q))
             /\ \A i \in 1..n : log[a][i].by # q
             /\ \A i \in DOMAIN Mine(q) : SameMovement(log[a][n + i], Mine(q)[i])
      BY DEF Unread, EndsWith
    <3>2. Mine(q)' = Mine(q) /\ log'[a] = log[a]
      BY <2>1, SameMine
    <3>3. /\ Len(log'[a]) = n + Len(Mine(q)')
          /\ \A i \in 1..n : log'[a][i].by # q
          /\ \A i \in DOMAIN Mine(q)' : SameMovement(log'[a][n + i], Mine(q)'[i])
      BY <3>1, <3>2
    <3> QED BY <3>3 DEF Unread, EndsWith
  <2>4. Agrees(a, copy[q]) => Agrees(a, copy[q])'
    BY <1>3, <2>1 DEF Agrees
  <2> QED BY <2>1, <2>2, <2>3, <2>4 DEF AtWork, OnePlace, Reflects
<1> QED BY <1>4, <1>5, <1>6 DEF Chronicle

\* A request that has just read the asset where it is.
LEMMA FreshlyRead ==
    ASSUME TypeInv, NEW r \in Requests, NEW a \in Assets, Settled(a), ~Saving(a),
           row[a] # NULL, UNCHANGED <<workstations, row, log>>, Visible(a)' = Visible(a),
           pc'[r] = "save", job'[r].asset = a, copy'[r] = row[a],
           NEW want \in Rows, job'[r].model = Model(row[a], want)
    PROVE  AtWork(r, a)'
<1>1. TablesSound
  BY DEF TypeInv
<1>2. Visible(a) \subseteq DOMAIN log[a] /\ LogKept(a)
  BY <1>1, VisibleIsInLog DEF LogKept
<1>3. \A type, v : Told(a, type, v)' <=> Told(a, type, v)
  BY <1>2, SameTold
<1>4. OnePlace(row[a]) /\ Agrees(a, row[a]) /\ row[a] \in Rows
  BY <1>1 DEF Settled, TablesSound
<1>5. Agrees(a, copy[r])'
  BY <1>3, <1>4 DEF Agrees
<1>6. OnePlace(Model(row[a], want))
  BY <1>4, ModelHasOnePlace
<1> QED BY <1>4, <1>5, <1>6 DEF AtWork, OnePlace, Reflects

LEMMA FindAssetKeepsPlaces ==
    ASSUME TypeInv, ReasonsLate, NEW r \in Requests, Considerate(r),
           NEW b \in Assets, FindAsset(r, b),
           NEW a \in Assets \ disturbed', Chronicle(a)
    PROVE  Chronicle(a)'
<1>1. TablesSound /\ RequestsTyped
  BY DEF TypeInv
<1>2. /\ pc[r] = "idle" /\ row[b] # NULL /\ UNCHANGED <<workstations, row, log>>
      /\ copy'[r] = row[b] /\ pc'[r] = "save" /\ Mark(r, b)
  BY <1>1 DEF FindAsset, At, Goto, tables, RequestsTyped
<1>0. PICK kind \in InTransaction \cup {"edit"} : \E want \in Wants(kind, row[b]) :
         Ask(r, [Asked(kind, b) EXCEPT !.model = Model(row[b], want)])
  BY DEF FindAsset
<1>3. PICK want \in Wants(kind, row[b]) :
         Ask(r, [Asked(kind, b) EXCEPT !.model = Model(row[b], want)])
  BY <1>0
<1>4. job'[r].asset = b /\ job'[r].model = Model(row[b], want)
  BY <1>1, <1>3 DEF Ask, Asked, RequestsTyped
<1>5. Visible(a)' = Visible(a)
  BY <1>2, SameInSight
<1>6. ASSUME b = a PROVE AtWork(r, a)'
  <2>1. row[a] \in Rows /\ want \in Rows
    <3>1. row[a] \in Rows
      BY <1>1, <1>2, <1>6 DEF TablesSound
    <3> QED BY <1>1, <1>3, <1>6, <3>1, WantsTyped DEF TablesSound
  <2>2. ~Saving(a)
    <3> SUFFICES ASSUME NEW q \in Requests, pc[q] = "log", job[q].asset = a PROVE FALSE
      BY DEF Saving, At
    <3>1. q # r /\ a \in Concerned(q)
      BY <1>1, <1>2, WorkerConcerned DEF Working
    <3> QED BY <1>2, <1>6, <3>1, MarkedShared
  <2> QED BY <1>2, <1>4, <1>5, <1>6, <2>1, <2>2, FreshlyRead DEF Chronicle
<1> QED BY <1>2, <1>4, <1>5, <1>6, Untouched

LEMMA LoadAssetKeepsPlaces ==
    ASSUME TypeInv, ReasonsLate, NEW r \in Requests, Considerate(r), LoadAsset(r),
           NEW a \in Assets \ disturbed', Chronicle(a), Alone(a)
    PROVE  Chronicle(a)'
<1> DEFINE b == job[r].asset
<1>1. TablesSound /\ RequestsTyped
  BY DEF TypeInv
<1>2. pc[r] = "asset" /\ UNCHANGED <<workstations, row, log>> /\ pc'[r] \in {"repair", "save"}
  BY <1>1 DEF LoadAsset, At, Goto, tables, RequestsTyped
<1>3. job[r] # NULL /\ job[r] \in Jobs /\ b \in Assets /\ b \in Concerned(r)
  BY <1>1, <1>2, WorkerConcerned DEF RequestsTyped, Typed
<1>4. Visible(a)' = Visible(a)
  BY <1>2, SameInSight
<1>5. CASE row[b] = NULL \/ b \in hidden
  <2>1. pc'[r] = "repair"
    BY <1>1, <1>5 DEF LoadAsset, Goto, RequestsTyped
  <2> QED BY <1>2, <1>4, <2>1, Untouched DEF Working
<1>6. CASE row[b] # NULL /\ b \notin hidden
  <2> DEFINE want == [row[b] EXCEPT !.status = "Functional"]
  <2>1. /\ pc'[r] = "save" /\ copy'[r] = row[b]
        /\ job' = [job EXCEPT ![r].model = Model(row[b], want)]
    BY <1>1, <1>6 DEF LoadAsset, Goto, RequestsTyped
  <2>2. job'[r].asset = b /\ job'[r].model = Model(row[b], want)
    BY <1>1, <1>3, <2>1 DEF RequestsTyped, Jobs
  <2>3. row[b] \in Rows /\ want \in Rows
    <3>1. row[b] \in Rows
      BY <1>1, <1>3, <1>6 DEF TablesSound
    <3> QED BY <3>1, LedgerStatuses DEF Rows
  <2>4. ASSUME b = a PROVE AtWork(r, a)'
    <3>1. ~Saving(a)
      <4> SUFFICES ASSUME NEW q \in Requests, pc[q] = "log", job[q].asset = a PROVE FALSE
        BY DEF Saving, At
      <4>1. q # r /\ a \in Concerned(q)
        BY <1>1, <1>2, WorkerConcerned DEF Working
      <4> QED BY <1>3, <2>4, <4>1 DEF Alone
    <3> HIDE DEF want
    <3> QED BY <1>2, <1>4, <1>6, <2>1, <2>2, <2>3, <2>4, <3>1, FreshlyRead DEF Chronicle
  <2>5. pc'[r] \in Working /\ job'[r].asset = a => AtWork(r, a)'
    BY <2>2, <2>4
  <2> QED BY <1>2, <1>4, <2>5, Untouched
<1> QED BY <1>5, <1>6

\* Steps about repairs, items and stock, and deaths.
LEMMA QuietKeepsPlaces ==
    ASSUME TypeInv, ReasonsLate, NEW r \in Requests, Considerate(r), pc[r] # "done",
           NEW a \in Assets, Chronicle(a),
           UNCHANGED workstations, row'[a] = row[a], log'[a] = log[a], pc'[r] \notin Working,
           pc[r] \in {"commit", "aborted"} <=> pc'[r] \in {"commit", "aborted"},
           ~(pc[r] = "log" /\ job[r].asset = a)
    PROVE  Chronicle(a)'
<1>1. Visible(a)' = Visible(a)
  BY SameInSight
<1> QED BY <1>1, Untouched

-----------------------------------------------------------------------------
(* Assets that a step moves, or says where they went *)

\* Nobody but r is at work on a.
Left(r, a) == \A q \in Requests \ {r} : ~(pc'[q] \in Working /\ job'[q].asset = a)

LEMMA OnlyOwn ==
    ASSUME RequestsTyped, NEW r \in Requests, NEW a \in Assets, Considerate(r),
           Alone(a), a \in Concerned(r)
    PROVE  Left(r, a) /\ \A q \in Requests \ {r} : ~(pc[q] \in Working /\ job[q].asset = a)
<1>1. \A q \in Requests \ {r} : a \notin Concerned(q)
  BY DEF Alone
<1> QED BY <1>1, OthersAway DEF Left

\* The log of an asset with news at its end, all of them in sight.
LEMMA AppendedTold ==
    ASSUME TablesSound, NEW r \in Requests, Considerate(r), NEW a \in Assets,
           NEW ms \in Seq(Movements), Appended(a, ms), \A k \in DOMAIN ms : ms[k].by = r,
           pc[r] \notin {"commit", "aborted"}, pc'[r] \notin {"commit", "aborted"}
    PROVE  \A type, v : Told(a, type, v)' =>
              \/ \E i \in DOMAIN log'[a] \ DOMAIN log[a] :
                    log'[a][i].type = type /\ log'[a][i].to = v
              \/ /\ Told(a, type, v)
                 /\ \A i \in DOMAIN log'[a] \ DOMAIN log[a] : log'[a][i].type # type
<1> DEFINE news == DOMAIN log'[a] \ DOMAIN log[a]
<1>1. /\ LogKept(a) /\ DOMAIN log[a] \subseteq DOMAIN log'[a]
      /\ \A i \in news : \E k \in DOMAIN ms : SameMovement(log'[a][i], ms[k])
  BY AppendedParts
<1>2. /\ Len(log[a]) \in Nat /\ DOMAIN log[a] = 1..Len(log[a]) /\ Visible(a) \subseteq DOMAIN log[a]
  BY VisibleIsInLog
<1>3. DOMAIN log'[a] = 1..(Len(log[a]) + Len(ms)) /\ Len(ms) \in Nat
  BY DEF Appended
<1>4. Uncommitted' = Uncommitted /\ r \notin Uncommitted
  BY DEF Considerate, Uncommitted
<1>5. \A i \in news : log'[a][i].by = r
  BY <1>1 DEF SameMovement
<1>6. Visible(a)' = Visible(a) \cup news
  <2>1. \A i \in DOMAIN log[a] : log'[a][i].by = log[a][i].by
    BY <1>1 DEF LogKept
  <2> QED BY <1>1, <1>4, <1>5, <2>1 DEF Visible
<1>7. \A i \in Visible(a), j \in news : i < j
  <2> SUFFICES ASSUME NEW i \in Visible(a), NEW j \in news PROVE i < j
    OBVIOUS
  <2>1. i \in 1..Len(log[a]) /\ j \in 1..(Len(log[a]) + Len(ms)) /\ j \notin 1..Len(log[a])
    BY <1>2, <1>3
  <2> QED BY <1>2, <1>3, <2>1
<1>8. DOMAIN log'[a] \subseteq Nat /\ news \subseteq Nat /\ DOMAIN log[a] \subseteq Nat
  BY <1>2, <1>3
<1> HIDE DEF news
<1>9. \A type, v : Told(a, type, v)' =>
         \/ \E i \in news : log'[a][i].type = type /\ log'[a][i].to = v
         \/ Told(a, type, v) /\ \A i \in news : log'[a][i].type # type
  BY <1>1, <1>2, <1>6, <1>7, <1>8, ToldAfter
<1> QED BY <1>9 DEF news

\* A movement about a repair says nothing of the place.
LEMMA RepairKeepsPlaces ==
    ASSUME TypeInv, ReasonsLate, NEW r \in Requests, Considerate(r),
           pc[r] \notin {"done", "aborted"} \cup Working, pc'[r] \notin Working \cup {"aborted"},
           NEW p \in Repairs, log' \in LogsOf(p, r) \cup {log}, UNCHANGED <<workstations, row>>,
           NEW a \in Assets, Chronicle(a),
           repair[p] # NULL => repair[p].asset # a \/ Left(r, a)
    PROVE  Chronicle(a)'
<1> DEFINE b == repair[p].asset
           x == Movement("repair", NULL, r)
           ms == <<x>>
<1>1. TablesSound /\ RequestsTyped
  BY DEF TypeInv
<1>2. CASE log' = log
  BY <1>2, QuietKeepsPlaces DEF Working
<1>3. CASE log' \in LogsOf(p, r)
  <2>1. repair[p] # NULL /\ b \in Assets /\ ms \in Seq(Movements) /\ Appended(b, ms)
    BY <1>1, <1>3, RepairAppends
  <2>2. CASE a # b
    <3>1. log'[a] = log[a]
      BY <2>1, <2>2 DEF Appended
    <3> QED BY <2>2, <3>1, QuietKeepsPlaces DEF Working
  <2>3. CASE a = b
    <3>1. DOMAIN ms = {1} /\ ms[1] = x
      OBVIOUS
    <3>2. x.type = "repair" /\ x.by = r /\ x.reason = NULL
      BY DEF Movement
    <3> HIDE DEF x, ms
    <3>3. \A i \in DOMAIN log'[a] \ DOMAIN log[a] :
             log'[a][i].type = "repair" /\ log'[a][i].by = r /\ log'[a][i].reason = NULL
      BY <1>1, <2>1, <2>3, <3>1, <3>2, AppendedParts DEF SameMovement
    <3>4. \A k \in DOMAIN ms : ms[k].by = r
      BY <3>1, <3>2
    <3>5. \A type, v : Told(a, type, v)' =>
             \/ \E i \in DOMAIN log'[a] \ DOMAIN log[a] :
                   log'[a][i].type = type /\ log'[a][i].to = v
             \/ Told(a, type, v)
      BY <1>1, <2>1, <2>3, <3>4, AppendedTold DEF Working
    <3>6. \A type \in {"workstation", "assignment"} : \A v : Told(a, type, v)' => Told(a, type, v)
      BY <3>3, <3>5
    <3>7. Settled(a)'
      <4>1. Agrees(a, row[a]) => Agrees(a, row[a])'
        BY <3>6 DEF Agrees
      <4>2. Saving(a) => Saving(a)'
        <5> SUFFICES ASSUME NEW q \in Requests, pc[q] = "log", job[q].asset = a PROVE Saving(a)'
          BY DEF Saving, At
        <5>1. pc'[q] = "log" /\ job'[q].asset = a
          BY DEF Considerate, Working
        <5> QED BY <5>1 DEF Saving, At
      <4> QED BY <4>1, <4>2 DEF Chronicle, Settled, OnePlace
    <3>8. DOMAIN log[a] \subseteq DOMAIN log'[a] /\ \A i \in DOMAIN log[a] : log'[a][i] = log[a][i]
      BY <1>1, <2>1, <2>3, AppendedParts DEF Appended
    <3>9. ReasonsOwnOf(a)'
      BY <1>1, <3>3, <3>8, ReasonsOwnKept DEF Chronicle
    <3> QED BY <2>1, <2>3, <3>7, <3>9 DEF Chronicle, Left
  <2> QED BY <2>2, <2>3
<1> QED BY <1>2, <1>3

LEMMA LogKeepsPlaces ==
    ASSUME TypeInv, ReasonsLate, NEW r \in Requests, Considerate(r), Log(r),
           NEW a \in Assets, Alone(a), Chronicle(a)
    PROVE  Chronicle(a)'
<1> DEFINE b == job[r].asset
           m == job[r].model
           ms == Observed(copy[r], m, r)
<1>1. TablesSound /\ RequestsTyped
  BY DEF TypeInv
<1>2. pc[r] = "log" /\ UNCHANGED <<workstations, row>>
  BY DEF Log, At
<1>3. b \in Assets /\ b \in Concerned(r) /\ m \in Rows /\ copy[r] \in Rows
  BY <1>1, <1>2, WorkerConcerned, Saver DEF Working
<1>4. ms \in Seq(Movements) /\ Tells(ms, copy[r], m, r)
  BY <1>3, ObservedTells
<1>5. AfterLog(r) \in {"repair", "done"} /\ (AfterLog(r) = "done" \/ Typed(AfterLog(r), job[r], copy[r]))
  BY <1>1, <1>2, AfterSaveTyped DEF AfterLog
<1>6. pc'[r] \in {"repair", "done"} /\ (log' = log \/ Appended(b, ms))
      /\ (row[b] # NULL => Appended(b, ms))
  <2>1. CASE End(r) /\ UNCHANGED log /\ row[b] = NULL
    BY <1>1, <2>1, Ended
  <2>2. CASE /\ \E t, u \in BOOLEAN : log' = [log EXCEPT ![b] = Extended(log[b], ms, t, u)]
             /\ Proceed(r, AfterLog(r))
    <3>1. Appended(b, ms)
      BY <1>1, <1>3, <1>4, <2>2, ExtendedAppends
    <3>2. pc'[r] = AfterLog(r)
      BY <1>1, <1>5, <2>2, Proceeded
    <3> QED BY <1>5, <3>1, <3>2
  <2> QED BY <2>1, <2>2 DEF Log
<1> HIDE DEF ms
<1>7. CASE a # b
  <2>1. log'[a] = log[a]
    BY <1>6, <1>7 DEF Appended
  <2> QED BY <1>2, <1>6, <1>7, <2>1, QuietKeepsPlaces DEF Working
<1>8. CASE a = b
  <2>1. AtWork(r, a) /\ row[a] # NULL
    BY <1>2, <1>8 DEF Chronicle, Working, AtWork
  <2>2. Appended(a, ms) /\ \A k \in DOMAIN ms : ms[k].by = r /\ ms[k].reason = NULL
    BY <1>4, <1>6, <1>8, <2>1 DEF Tells
  <2> DEFINE news == DOMAIN log'[a] \ DOMAIN log[a]
  <2>3. \A type, v : Told(a, type, v)' =>
           \/ \E i \in news : log'[a][i].type = type /\ log'[a][i].to = v
           \/ Told(a, type, v) /\ \A i \in news : log'[a][i].type # type
    BY <1>1, <1>2, <1>4, <1>6, <2>2, AppendedTold
  <2>4. /\ \A i \in news : \E k \in DOMAIN ms : /\ SameMovement(log'[a][i], ms[k])
                                                /\ log'[a][i].reason = ms[k].reason
        /\ \A k \in DOMAIN ms : \E i \in news : SameMovement(log'[a][i], ms[k])
    <3>1. \A i \in news : \E k \in DOMAIN ms : /\ SameMovement(log'[a][i], ms[k])
                                               /\ log'[a][i].reason = ms[k].reason
      BY <1>1, <1>4, <2>2, AppendedParts
    <3>2. \A k \in DOMAIN ms : Len(log[a]) + k \in news
      BY <1>1, <1>4, <2>2, AppendedParts
    <3>3. \A k \in DOMAIN ms : SameMovement(log'[a][Len(log[a]) + k], ms[k])
      BY <2>2 DEF Appended
    <3> QED BY <3>1, <3>2, <3>3
  <2>5. DOMAIN log[a] \subseteq DOMAIN log'[a] /\ \A i \in DOMAIN log[a] : log'[a][i] = log[a][i]
    BY <1>1, <1>4, <2>2, AppendedParts DEF Appended
  <2>6. ReasonsOwnOf(a)'
    <3>1. \A i \in news : log'[a][i].by = r /\ log'[a][i].reason = NULL
      BY <2>2, <2>4 DEF SameMovement
    <3> QED BY <1>1, <1>2, <2>5, <3>1, ReasonsOwnKept DEF Chronicle
  <2> HIDE DEF news
  <2>7. PICK p \in Rows : p = row[a]
    BY <1>1, <2>1 DEF TablesSound
  <2>8. OnePlace(copy[r]) /\ OnePlace(m) /\ Agrees(a, copy[r]) /\ Reflects(p, m)
    BY <1>2, <2>1, <2>7 DEF AtWork
  <2>9. PICK read \in Rows, mm \in Rows : read = copy[r] /\ mm = m
    BY <1>3
  <2>10. OnePlace(p) /\ Agrees(a, p)'
    <3>1. OnePlace(read) /\ OnePlace(mm) /\ Agrees(a, read) /\ Reflects(p, mm) /\ Tells(ms, read, mm, r)
      BY <1>4, <2>8, <2>9
    <3>2. workstations \subseteq Workstations /\ UNCHANGED workstations
      BY <1>1, <1>2 DEF TablesSound
    <3> QED BY <2>3, <2>4, <3>1, <3>2, AgreesAfter
  <2>11. Settled(a)'
    BY <1>2, <2>7, <2>10 DEF Settled, Agrees, OnePlace
  <2>12. Left(r, a)
    BY <1>1, <1>3, <1>8, OnlyOwn
  <2> QED BY <1>6, <2>6, <2>11, <2>12 DEF Chronicle, Left, Working
<1> QED BY <1>7, <1>8

LEMMA SaveInTransactionKeepsPlaces ==
    ASSUME TypeInv, ReasonsLate, NEW r \in Requests, Unheard(r), Considerate(r),
           SaveInTransaction(r), NEW a \in Assets, Alone(a), Chronicle(a)
    PROVE  Chronicle(a)'
<1> DEFINE b == job[r].asset
           ms == Mine(r)
<1>1. TablesSound /\ RequestsTyped
  BY DEF TypeInv
<1>2. /\ pc[r] = "save" /\ job[r].kind \in InTransaction /\ UNCHANGED <<workstations, row>>
      /\ \A c \in Assets : ByNobody(r, c)
  BY DEF SaveInTransaction, At, Unheard
<1>3. b \in Assets /\ b \in Concerned(r)
  BY <1>1, <1>2, WorkerConcerned DEF Working
<1>4. ms \in Seq(Movements) /\ Tells(ms, copy[r], job[r].model, r)
  BY <1>1, <1>2, MineTells
<1>5. CASE End(r) /\ UNCHANGED log
  <2>1. pc'[r] = "done"
    BY <1>1, <1>5, Ended
  <2> QED BY <1>2, <1>5, <2>1, QuietKeepsPlaces DEF Working
<1>6. CASE /\ \E t, u \in BOOLEAN : log' = [log EXCEPT ![b] = Extended(log[b], ms, t, u)]
           /\ Goto(r, "commit") /\ UNCHANGED <<job, copy>>
  <2>1. Appended(b, ms)
    BY <1>1, <1>3, <1>4, <1>6, ExtendedAppends
  <2>2. pc'[r] = "commit" /\ job'[r] = job[r] /\ copy'[r] = copy[r]
    BY <1>1, <1>6 DEF Goto, RequestsTyped
  <2>3. CASE a # b
    <3>1. log'[a] = log[a]
      BY <2>1, <2>3 DEF Appended
    <3>2. Visible(a)' = Visible(a)
      BY <1>2, <3>1, SameInSight
    <3> QED BY <1>2, <2>2, <2>3, <3>1, <3>2, Untouched
  <2>4. CASE a = b
    <3>1. /\ LogKept(a) /\ DOMAIN log[a] \subseteq DOMAIN log'[a]
          /\ \A i \in DOMAIN log'[a] \ DOMAIN log[a] :
                log'[a][i].by = r /\ log'[a][i].reason = NULL
      <4>1. \A k \in DOMAIN ms : ms[k].by = r /\ ms[k].reason = NULL
        BY <1>4 DEF Tells
      <4> HIDE DEF ms
      <4> QED BY <1>1, <1>4, <2>1, <2>4, <4>1, AppendedParts DEF SameMovement
    <3>2. /\ Len(log[a]) \in Nat /\ DOMAIN log[a] = 1..Len(log[a])
          /\ Visible(a) \subseteq DOMAIN log[a]
      BY <1>1, VisibleIsInLog
    <3>3. Visible(a)' = Visible(a)
      <4>1. \A q \in Requests \ {r} : q \in Uncommitted' <=> q \in Uncommitted
        BY DEF Considerate, Uncommitted
      <4>2. r \in Uncommitted'
        BY <2>2 DEF Uncommitted
      <4>3. ASSUME NEW i \in DOMAIN log[a]
            PROVE  log'[a][i].by \in Uncommitted' <=> log[a][i].by \in Uncommitted
        <5>1. log'[a][i].by = log[a][i].by /\ log[a][i].by # r
          BY <1>2, <3>1 DEF LogKept, ByNobody
        <5> QED BY <4>1, <5>1 DEF Uncommitted
      <4>4. \A i \in DOMAIN log'[a] \ DOMAIN log[a] : log'[a][i].by \in Uncommitted'
        BY <3>1, <4>2
      <4> QED BY <3>1, <4>3, <4>4 DEF Visible
    <3>4. \A type, v : Told(a, type, v)' <=> Told(a, type, v)
      BY <3>1, <3>2, <3>3, SameTold
    <3>5. Settled(a)'
      BY <1>2, <3>4, SettledKept DEF Chronicle
    <3>6. ReasonsOwnOf(a)'
      <4>1. \A i \in DOMAIN log[a] : log'[a][i] = log[a][i]
        BY <2>1, <2>4 DEF Appended
      <4> QED BY <1>1, <1>2, <3>1, <4>1, ReasonsOwnKept DEF Chronicle
    <3>7. Unread(r, a)'
      <4>1. PICK n \in Nat : n = Len(log[a])
        BY <3>2
      <4>2. Mine(r)' = ms
        BY <2>2, SameMine
      <4>3. Len(log'[a]) = n + Len(ms)
        BY <2>1, <2>4, <4>1 DEF Appended
      <4>4. \A i \in 1..n : log'[a][i].by # r
        BY <1>2, <3>1, <3>2, <4>1 DEF LogKept, ByNobody
      <4>5. \A k \in DOMAIN ms : SameMovement(log'[a][n + k], ms[k])
        BY <2>1, <2>4, <4>1 DEF Appended
      <4> HIDE DEF ms
      <4> QED BY <4>2, <4>3, <4>4, <4>5 DEF Unread, EndsWith
    <3>8. AtWork(r, a)'
      <4>1. AtWork(r, a)
        BY <1>2, <2>4 DEF Chronicle, Working
      <4>2. Agrees(a, copy[r])'
        BY <1>2, <2>2, <3>4, <4>1 DEF AtWork, Agrees
      <4>3. Reflects(row[a], copy[r])'
        BY <1>2, <2>2, <4>1 DEF AtWork, Reflects
      <4> QED BY <1>2, <2>2, <3>7, <4>1, <4>2, <4>3 DEF AtWork, OnePlace
    <3>9. Left(r, a)
      BY <1>1, <1>3, <2>4, OnlyOwn
    <3> QED BY <3>5, <3>6, <3>8, <3>9 DEF Chronicle, Left
  <2> QED BY <2>3, <2>4
<1> QED BY <1>5, <1>6 DEF SaveInTransaction, Mine

\* The positions after the first n.
Since(a, n) == DOMAIN log[a] \ (1..n)

\* The reason of r goes to a movement of its own, if it wrote one, or to one of
\* the same second: what it wrote is last in the log.
LEMMA AnnotatedReasons ==
    ASSUME TablesSound, NEW r \in Requests, NEW a \in Assets, NEW i \in Latest(a, r),
           log' = [log EXCEPT ![a][i].reason = r], ReasonsOwnOf(a),
           NEW n \in Nat, NEW ms, EndsWith(r, a, n, ms), \A k \in Since(a, n) : log[a][k].by = r
    PROVE  ReasonsOwnOf(a)'
<1> DEFINE new == [log[a] EXCEPT ![i].reason = r]
           own(q) == {j \in DOMAIN log[a] : log[a][j].by = q}
<1>1. log[a] \in Seq(Movements) /\ i \in DOMAIN log[a]
  BY DEF TablesSound, Latest
<1>2. Len(log[a]) \in Nat /\ DOMAIN log[a] = 1..Len(log[a])
  BY <1>1
<1>3. DOMAIN new = DOMAIN log[a] /\ \A k \in DOMAIN log[a] : new[k].by = log[a][k].by
  BY <1>1, Annotated
<1>4. /\ new[i].reason = r
      /\ \A k \in DOMAIN log[a] \ {i} : new[k].reason = log[a][k].reason
      /\ \A k \in DOMAIN log[a] : new[k].tied <=> log[a][k].tied
  <2>1. log[a][i] \in Movements
    BY <1>1
  <2>2. \A k \in DOMAIN log[a] : new[k] = IF k = i THEN [log[a][i] EXCEPT !.reason = r] ELSE log[a][k]
    BY <1>1
  <2>3. [log[a][i] EXCEPT !.reason = r].reason = r
    BY <2>1 DEF Movements
  <2>4. [log[a][i] EXCEPT !.reason = r].tied = log[a][i].tied
    BY <2>1 DEF Movements
  <2> HIDE DEF new
  <2>5. new[i].reason = r
    BY <1>1, <2>2, <2>3
  <2>6. \A k \in DOMAIN log[a] \ {i} : new[k].reason = log[a][k].reason
    BY <2>2
  <2>7. \A k \in DOMAIN log[a] : new[k].tied = log[a][k].tied
    BY <2>2, <2>4
  <2> QED BY <2>5, <2>6, <2>7
<1> HIDE DEF new
<1>5. log'[a] = new
  BY DEF new, TablesSound
<1> DEFINE own2(q) == {j \in DOMAIN log'[a] : log'[a][j].by = q}
<1>6. SUFFICES ASSUME NEW j \in DOMAIN log'[a], NEW q, q = log'[a][j].reason, q # NULL, own2(q) # {}
               PROVE  j \in own2(q) \/ \E l \in own2(q) : l > j /\ \A k \in j+1..l : log'[a][k].tied
  BY DEF ReasonsOwnOf
<1>0. j \in DOMAIN new /\ q = new[j].reason /\ own2(q) = own(q)
  BY <1>3, <1>5, <1>6
<1>7. ASSUME NEW l \in own(q) PROVE \A k \in j+1..l : k \in DOMAIN log[a]
  <2>1. l \in 1..Len(log[a]) /\ j \in 1..Len(log[a])
    BY <1>0, <1>2, <1>3
  <2> QED BY <1>2, <2>1
<1>8. CASE j # i
  <2>1. q = log[a][j].reason /\ j \in DOMAIN log[a]
    BY <1>0, <1>3, <1>4, <1>8
  <2>2. j \in own(q) \/ \E l \in own(q) : l > j /\ \A k \in j+1..l : log[a][k].tied
    BY <1>0, <1>6, <2>1 DEF ReasonsOwnOf
  <2> HIDE DEF own, own2
  <2> QED BY <1>0, <1>4, <1>5, <1>7, <2>2
<1>9. CASE j = i
  <2>1. q = r
    BY <1>0, <1>4, <1>9
  <2>2. PICK l \in own(q) : TRUE
    BY <1>0, <1>6
  <2>3. l \in {k \in DOMAIN log[a] : log[a][k].by \notin Uncommitted \ {r}}
    BY <2>1
  <2>4. l > i => \A k \in i+1..l : log[a][k].tied
    BY <2>3 DEF Latest
  <2>5. l \in 1..Len(log[a]) /\ i \in 1..Len(log[a]) /\ ~(l <= n)
    BY <1>1, <1>2, <2>1 DEF EndsWith
  <2>6. CASE l > i
    <3> HIDE DEF own, own2
    <3> QED BY <1>0, <1>4, <1>5, <1>7, <1>9, <2>4, <2>6
  <2>7. CASE ~(l > i)
    <3>1. i \notin 1..n
      BY <1>2, <2>5, <2>7
    <3> QED BY <1>0, <1>1, <1>9, <2>1, <3>1 DEF Since
  <2> QED BY <2>6, <2>7
<1> QED BY <1>8, <1>9

\* Once the transaction is over, its movements are in sight, all at the end.
LEMMA CommitShows ==
    ASSUME TablesSound, NEW r \in Requests, Considerate(r), NEW a \in Assets,
           pc[r] = "commit", pc'[r] = "done", LogKept(a), DOMAIN log'[a] = DOMAIN log[a],
           NEW ms \in Seq(Movements), \A k \in DOMAIN ms : ms[k].by = r,
           NEW n \in Nat, EndsWith(r, a, n, ms), NEW news, news = Since(a, n)
    PROVE  /\ \A i \in news : log[a][i].by = r
           /\ \A i \in news : \E k \in DOMAIN ms : SameMovement(log'[a][i], ms[k])
           /\ \A k \in DOMAIN ms : \E i \in news : SameMovement(log'[a][i], ms[k])
           /\ \A type, v : Told(a, type, v)' =>
                 \/ \E i \in news : log'[a][i].type = type /\ log'[a][i].to = v
                 \/ /\ Told(a, type, v)
                    /\ \A i \in news : log'[a][i].type # type
<1>1. /\ Len(log[a]) \in Nat /\ DOMAIN log[a] = 1..Len(log[a]) /\ Visible(a) \subseteq DOMAIN log[a]
  BY VisibleIsInLog
<1>2. Len(ms) \in Nat /\ DOMAIN ms = 1..Len(ms)
  OBVIOUS
<1>0. /\ Len(log[a]) = n + Len(ms) /\ news = DOMAIN log[a] \ (1..n)
      /\ \A i \in 1..n : log[a][i].by # r
      /\ \A k \in DOMAIN ms : SameMovement(log[a][n + k], ms[k])
  BY DEF EndsWith, Since
<1>3. \A i \in news : i - n \in DOMAIN ms /\ n + (i - n) = i
  <2> SUFFICES ASSUME NEW i \in news PROVE i - n \in DOMAIN ms /\ n + (i - n) = i
    OBVIOUS
  <2>1. i \in 1..(n + Len(ms)) /\ i \notin 1..n
    BY <1>0, <1>1
  <2> QED BY <1>0, <1>2, <2>1
<1>4. \A k \in DOMAIN ms : n + k \in news
  <2>1. \A k \in 1..Len(ms) : n + k \in 1..(n + Len(ms)) /\ n + k \notin 1..n
    BY <1>2
  <2> QED BY <1>0, <1>1, <1>2, <2>1
<1>5. \A i \in DOMAIN log[a] : /\ log'[a][i].type = log[a][i].type
                               /\ log'[a][i].to = log[a][i].to /\ log'[a][i].by = log[a][i].by
  BY DEF LogKept
<1>6. \A i \in news : log[a][i].by = r
  BY <1>0, <1>3 DEF SameMovement
<1>7. \A i \in news : \E k \in DOMAIN ms : SameMovement(log'[a][i], ms[k])
  <2> SUFFICES ASSUME NEW i \in news PROVE SameMovement(log'[a][i], ms[i - n])
    BY <1>0, <1>3
  <2>1. SameMovement(log[a][i], ms[i - n])
    BY <1>0, <1>3
  <2> QED BY <1>0, <1>5, <2>1 DEF SameMovement
<1>8. \A k \in DOMAIN ms : \E i \in news : SameMovement(log'[a][i], ms[k])
  <2> SUFFICES ASSUME NEW k \in DOMAIN ms PROVE SameMovement(log'[a][n + k], ms[k])
    BY <1>4
  <2> QED BY <1>0, <1>4, <1>5 DEF SameMovement
<1>9. \A q \in Requests \ {r} : q \in Uncommitted' <=> q \in Uncommitted
  BY DEF Considerate, Uncommitted
<1>10. r \in Uncommitted /\ r \notin Uncommitted'
  BY DEF Uncommitted
<1>11. Visible(a)' = Visible(a) \cup news
  <2>1. ASSUME NEW i \in DOMAIN log[a], i \notin news
        PROVE  log'[a][i].by \in Uncommitted' <=> log[a][i].by \in Uncommitted
    <3>1. log'[a][i].by = log[a][i].by /\ log[a][i].by # r
      BY <1>0, <1>5, <2>1
    <3> QED BY <1>9, <3>1 DEF Uncommitted
  <2>2. \A i \in news : log'[a][i].by \notin Uncommitted'
    BY <1>0, <1>5, <1>6, <1>10
  <2>3. news \subseteq DOMAIN log[a]
    BY <1>0
  <2> QED BY <2>1, <2>2, <2>3 DEF Visible
<1>12. \A i \in Visible(a), j \in news : i < j
  <2> SUFFICES ASSUME NEW i \in Visible(a), NEW j \in news PROVE i < j
    OBVIOUS
  <2>1. i \in 1..n
    BY <1>0, <1>1, <1>6, <1>10 DEF Visible
  <2>2. j \in 1..Len(log[a]) /\ j \notin 1..n
    BY <1>0, <1>1
  <2> QED BY <1>1, <2>1, <2>2
<1>13. DOMAIN log'[a] \subseteq Nat /\ news \subseteq Nat /\ DOMAIN log[a] \subseteq Nat
  BY <1>0, <1>1
<1>14. \A type, v : Told(a, type, v)' =>
         \/ \E i \in news : log'[a][i].type = type /\ log'[a][i].to = v
         \/ Told(a, type, v) /\ \A i \in news : log'[a][i].type # type
  <2> SUFFICES ASSUME NEW type, NEW v, Told(a, type, v)'
               PROVE  \/ \E i \in news : log'[a][i].type = type /\ log'[a][i].to = v
                      \/ Told(a, type, v) /\ \A i \in news : log'[a][i].type # type
    OBVIOUS
  <2>1. LogKept(a)
    OBVIOUS
  <2> QED BY ONLY <1>1, <1>11, <1>12, <1>13, <2>1, Told(a, type, v)', ToldAfter
<1> QED BY <1>6, <1>7, <1>8, <1>14

LEMMA CommitKeepsPlaces ==
    ASSUME TypeInv, ReasonsLate, NEW r \in Requests, Unheard(r), Considerate(r),
           Commit(r), NEW a \in Assets, Alone(a), Chronicle(a)
    PROVE  Chronicle(a)'
<1> DEFINE b == job[r].asset
           m == job[r].model
<1>1. TablesSound /\ RequestsTyped
  BY DEF TypeInv
<1>2. /\ pc[r] = "commit" /\ UNCHANGED workstations
      /\ \A c \in Assets \ {b} : ByNobody(r, c)
      /\ row' = Written(b, copy[r], m)
  BY DEF Commit, At, Unheard
<1>3. b \in Assets /\ b \in Concerned(r) /\ m \in Rows /\ copy[r] \in Rows
  BY <1>1, <1>2, WorkerConcerned, Saver DEF Working
<1>4. PICK ms \in Seq(Movements) : ms = Mine(r) /\ Tells(ms, copy[r], m, r)
  BY <1>1, <1>2, MineTells
<1>5. pc'[r] = "done"
  BY <1>1, Ended DEF Commit
<1>6. CASE a # b
  <2>1. log'[a] = log[a] /\ row'[a] = row[a]
    BY <1>1, <1>2, <1>3, <1>6 DEF Commit, Written, TablesSound
  <2>2. Visible(a)' = Visible(a)
    BY <1>2, <1>6, <2>1, SameInSight
  <2> QED BY <1>2, <1>5, <2>1, <2>2, Untouched DEF Working
<1>7. CASE a = b
  <2>1. AtWork(r, a)
    BY <1>2, <1>7 DEF Chronicle, Working
  <2>2. PICK n \in Nat : EndsWith(r, a, n, ms)
    BY <1>2, <1>4, <2>1 DEF AtWork, Unread
  <2>3. LogKept(a) /\ DOMAIN log'[a] = DOMAIN log[a]
    <3>1. CASE UNCHANGED log
      BY <3>1, SameLogKept
    <3>2. CASE \E i \in Latest(a, r) : log' = [log EXCEPT ![a][i].reason = r]
      <4>1. PICK i \in Latest(a, r) : log' = [log EXCEPT ![a][i].reason = r]
        BY <3>2
      <4>2. i \in DOMAIN log[a] /\ log[a] \in Seq(Movements)
        BY <1>1, <4>1 DEF Latest, TablesSound
      <4>3. LogKept(a)
        BY <1>1, <4>1, <4>2, AnnotatedLogKept
      <4>4. DOMAIN [log[a] EXCEPT ![i].reason = r] = DOMAIN log[a]
        BY <4>2, Annotated
      <4> QED BY <1>1, <4>1, <4>3, <4>4 DEF TablesSound
    <3> QED BY <1>7, <3>1, <3>2 DEF Commit
  <2>0. PICK news : news = Since(a, n)
    OBVIOUS
  <2>4. \A k \in DOMAIN ms : ms[k].by = r
    BY <1>4 DEF Tells
  <2>5. /\ \A i \in news : log[a][i].by = r
        /\ \A i \in news : \E k \in DOMAIN ms : SameMovement(log'[a][i], ms[k])
        /\ \A k \in DOMAIN ms : \E i \in news : SameMovement(log'[a][i], ms[k])
        /\ \A type, v : Told(a, type, v)' =>
              \/ \E i \in news : log'[a][i].type = type /\ log'[a][i].to = v
              \/ Told(a, type, v) /\ \A i \in news : log'[a][i].type # type
    BY <1>1, <1>2, <1>5, <2>0, <2>2, <2>3, <2>4, CommitShows
  <2>6. ReasonsOwnOf(a)'
    <3>1. CASE UNCHANGED log
      BY <3>1 DEF ReasonsOwnOf, Chronicle
    <3>2. CASE \E i \in Latest(a, r) : log' = [log EXCEPT ![a][i].reason = r]
      BY <1>1, <2>0, <2>2, <2>5, <3>2, AnnotatedReasons DEF Chronicle
    <3> QED BY <1>7, <3>1, <3>2 DEF Commit
  <2>7. PICK old \in Rows, read \in Rows, mm \in Rows : old = row[a] /\ read = copy[r] /\ mm = m
    BY <1>1, <1>3, <2>1 DEF AtWork, TablesSound
  <2>8. PICK p \in Rows : p = Updated(old, read, mm)
    BY UpdatedTyped
  <2>9. row'[a] = p
    BY <1>1, <1>2, <1>7, <2>1, <2>7, <2>8 DEF Written, AtWork, TablesSound
  <2>10. OnePlace(read) /\ OnePlace(mm) /\ Agrees(a, read) /\ Reflects(old, read)
    BY <1>2, <2>1, <2>7 DEF AtWork
  <2>11. Reflects(p, mm)
    BY <2>7, <2>8, <2>10, UpdatedReflects
  <2>12. Tells(ms, read, mm, r)
    BY <1>4, <2>7
  <2>13. OnePlace(p) /\ Agrees(a, p)'
    <3>1. workstations \subseteq Workstations /\ UNCHANGED workstations
      BY <1>1, <1>2 DEF TablesSound
    <3> QED BY <2>5, <2>10, <2>11, <2>12, <3>1, AgreesAfter
  <2>14. Settled(a)'
    BY <2>9, <2>13 DEF Settled, Agrees, OnePlace
  <2>15. Left(r, a)
    BY <1>1, <1>3, <1>7, OnlyOwn
  <2> QED BY <1>5, <2>6, <2>14, <2>15 DEF Chronicle, Left, Working
<1> QED BY <1>6, <1>7

LEMMA SaveKeepsPlaces ==
    ASSUME TypeInv, ReasonsLate, NEW r \in Requests, Considerate(r),
           Save(r), NEW a \in Assets, Alone(a), Chronicle(a)
    PROVE  Chronicle(a)'
<1> DEFINE b == job[r].asset
           m == job[r].model
<1>1. TablesSound /\ RequestsTyped
  BY DEF TypeInv
<1>2. pc[r] = "save" /\ UNCHANGED <<workstations, log>>
  BY DEF Save, At
<1>3. b \in Assets /\ b \in Concerned(r) /\ m \in Rows /\ copy[r] \in Rows
  BY <1>1, <1>2, WorkerConcerned, Saver DEF Working
<1>4. CASE End(r) /\ UNCHANGED row
  <2>1. pc'[r] = "done"
    BY <1>1, <1>4, Ended
  <2> QED BY <1>2, <1>4, <2>1, QuietKeepsPlaces DEF Working
<1>5. CASE row' = Written(b, copy[r], m) /\ Proceed(r, AfterSave(r))
  <2>1. /\ AfterSave(r) \in {"log", "repair", "done"}
        /\ AfterSave(r) = "done" \/ Typed(AfterSave(r), job[r], copy[r])
    BY <1>1, <1>2, AfterSaveTyped
  <2>2. /\ pc'[r] = AfterSave(r)
        /\ job'[r] = IF AfterSave(r) = "done" THEN NULL ELSE job[r]
        /\ AfterSave(r) # "done" => copy'[r] = copy[r]
    BY <1>1, <1>5, <2>1, Proceeded
  <2>3. pc'[r] \in {"log", "repair", "done"}
    BY <2>1, <2>2
  <2>4. Visible(a)' = Visible(a)
    BY <1>2, <2>3, SameInSight
  <2>5. CASE a # b
    <3>1. row'[a] = row[a]
      BY <1>1, <1>3, <1>5, <2>5 DEF Written, TablesSound
    <3>2. ~(pc'[r] \in Working /\ job'[r].asset = a)
      BY <2>2, <2>3, <2>5 DEF Working
    <3> QED BY <1>2, <2>4, <3>1, <3>2, Untouched
  <2>6. CASE a = b
    <3>1. AtWork(r, a)
      BY <1>2, <2>6 DEF Chronicle, Working
    <3>2. PICK old \in Rows, read \in Rows, mm \in Rows : old = row[a] /\ read = copy[r] /\ mm = m
      BY <1>1, <1>3, <3>1 DEF AtWork, TablesSound
    <3>3. row'[a] = Updated(old, read, mm)
      BY <1>1, <1>3, <1>5, <2>6, <3>1, <3>2 DEF Written, AtWork, TablesSound
    <3>4. CASE m = copy[r]
      <4>1. AfterSave(r) # "log"
        BY <3>4 DEF AfterSave, AfterLog
      <4>2. Updated(old, read, mm) = old
        BY <3>2, <3>4 DEF Updated, Rows
      <4> QED BY <1>2, <2>3, <2>2, <3>2, <3>3, <4>1, <4>2, QuietKeepsPlaces DEF Working
    <3>5. CASE m # copy[r]
      <4>1. pc'[r] = "log" /\ job'[r] = job[r] /\ copy'[r] = copy[r]
        BY <2>2, <3>5 DEF AfterSave
      <4>2. Saving(a)'
        BY <2>6, <4>1 DEF Saving, At
      <4>3. ReasonsOwnOf(a)'
        BY <1>2 DEF ReasonsOwnOf, Chronicle
      <4>4. OnePlace(read) /\ OnePlace(mm) /\ Agrees(a, read) /\ Reflects(old, read)
        BY <1>2, <3>1, <3>2 DEF AtWork
      <4>5. Reflects(Updated(old, read, mm), mm)
        BY <3>2, <4>4, UpdatedReflects
      <4>6. Updated(old, read, mm) # NULL
        BY UpdatedTyped, NullIsNoRecord
      <4>7. Agrees(a, read)'
        <5>1. Visible(a) \subseteq DOMAIN log[a] /\ LogKept(a)
          BY <1>1, <1>2, VisibleIsInLog DEF LogKept
        <5>2. \A type, v : Told(a, type, v)' <=> Told(a, type, v)
          BY <2>4, <5>1, SameTold
        <5> QED BY <1>2, <4>4, <5>2 DEF Agrees
      <4>8. AtWork(r, a)'
        <5>1. copy'[r] = read /\ job'[r].model = mm
          BY <3>2, <4>1
        <5>2. Agrees(a, copy[r])' /\ OnePlace(copy[r])' /\ OnePlace(job[r].model)'
          BY <4>4, <4>7, <5>1 DEF Agrees, OnePlace
        <5>3. Reflects(row[a], job[r].model)'
          BY <1>2, <3>3, <4>5, <5>1 DEF Reflects
        <5> QED BY <3>3, <4>1, <4>6, <5>2, <5>3 DEF AtWork
      <4>9. Left(r, a)
        BY <1>1, <1>3, <2>6, OnlyOwn
      <4> QED BY <4>2, <4>3, <4>8, <4>9 DEF Chronicle, Settled, Left
    <3> QED BY <3>4, <3>5
  <2> QED BY <2>5, <2>6
<1> QED BY <1>4, <1>5 DEF Save

LEMMA CreateAssetKeepsPlaces ==
    ASSUME TypeInv, ReasonsLate, NEW r \in Requests, Considerate(r),
           NEW b \in Assets, CreateAsset(r, b), NEW a \in Assets, Chronicle(a)
    PROVE  Chronicle(a)'
<1>1. TablesSound /\ RequestsTyped
  BY DEF TypeInv
<1>2. pc[r] = "deploy" /\ Unused(b) /\ UNCHANGED workstations
  BY DEF CreateAsset, At
<1>3. CASE End(r) /\ UNCHANGED <<row, log, source>>
  <2>1. pc'[r] = "done"
    BY <1>1, <1>3, Ended
  <2> QED BY <1>2, <1>3, <2>1, QuietKeepsPlaces DEF Working
<1>4. CASE /\ \E s \in Statuses :
                  row' = [row EXCEPT ![b] = [ws |-> job[r].to, employee |-> NULL, status |-> s]]
           /\ log' = [log EXCEPT ![b] = <<Movement("created", NULL, r)>>]
           /\ Proceed(r, "delete")
  <2>1. pc'[r] = "delete"
    BY <1>1, <1>4 DEF Proceed, Goto, RequestsTyped
  <2>2. CASE a # b
    <3>1. row'[a] = row[a] /\ log'[a] = log[a]
      BY <1>1, <1>4, <2>2 DEF TablesSound
    <3> QED BY <1>2, <2>1, <3>1, QuietKeepsPlaces DEF Working
  <2>3. CASE a = b
    <3>1. row'[a].ws = job[r].to /\ row'[a].employee = NULL
      BY <1>1, <1>4, <2>3 DEF TablesSound
    <3> DEFINE x == Movement("created", NULL, r)
    <3>2. x.type = "created" /\ x.reason = NULL
      BY DEF Movement
    <3> HIDE DEF x
    <3>3. log'[a] = <<x>>
      BY <1>1, <1>4, <2>3 DEF TablesSound, x
    <3>4. DOMAIN log'[a] = {1} /\ log'[a][1] = x
      BY <3>3
    <3>5. ReasonsOwnOf(a)'
      BY <3>2, <3>4 DEF ReasonsOwnOf
    <3>6. \A type \in {"workstation", "assignment"} : \A v : ~Told(a, type, v)'
      BY <3>2, <3>4 DEF Told, Visible
    <3>7. Settled(a)'
      BY <3>1, <3>6 DEF Settled, OnePlace, Agrees
    <3>8. ASSUME NEW q \in Requests, pc'[q] \in Working, job'[q].asset = a PROVE FALSE
      <4>1. q # r /\ pc[q] \in Working /\ job[q].asset = a
        BY <2>1, <3>8 DEF Considerate, Working
      <4>2. a \in Concerned(q)
        BY <1>1, <4>1, WorkerConcerned
      <4> QED BY <1>2, <2>3, <4>2 DEF Unused
    <3> QED BY <3>5, <3>7, <3>8 DEF Chronicle
  <2> QED BY <2>2, <2>3
<1>5. NextStatement("deploy") = "delete"
  BY DEF NextStatement
<1> QED BY <1>3, <1>4, <1>5 DEF CreateAsset

LEMMA DestroyAssetKeepsPlaces ==
    ASSUME TypeInv, ReasonsLate, NEW r \in Requests, Considerate(r),
           NEW b \in Assets, DestroyAsset(r, b),
           NEW a \in Assets \ disturbed', Chronicle(a)
    PROVE  Chronicle(a)'
<1>1. TablesSound /\ RequestsTyped
  BY DEF TypeInv
<1>2. /\ pc[r] = "idle" /\ UNCHANGED workstations /\ Mark(r, b)
      /\ row' = [row EXCEPT ![b] = NULL] /\ log' = [log EXCEPT ![b] = <<>>]
  BY DEF DestroyAsset, At
<1>3. pc'[r] = "done"
  BY <1>1, Ended DEF DestroyAsset
<1>4. CASE a # b
  <2>1. row'[a] = row[a] /\ log'[a] = log[a]
    BY <1>1, <1>2, <1>4 DEF TablesSound
  <2> QED BY <1>2, <1>3, <2>1, QuietKeepsPlaces DEF Working
<1>5. CASE a = b
  <2>1. row'[a] = NULL /\ log'[a] = <<>>
    BY <1>1, <1>2, <1>5 DEF TablesSound
  <2>2. Settled(a)' /\ ReasonsOwnOf(a)'
    BY <2>1 DEF Settled, ReasonsOwnOf
  <2>3. \A q \in Requests \ {r} : ~(pc'[q] \in Working /\ job'[q].asset = a)
    BY <1>1, <1>2, <1>5, MarkedShared, OthersAway
  <2> QED BY <1>3, <2>2, <2>3 DEF Chronicle, Working
<1> QED BY <1>4, <1>5

\* A workstation goes: of what the log says, only that it was there is void.
LEMMA DestroyBranchKeepsPlaces ==
    ASSUME TypeInv, ReasonsLate, NEW r \in Requests, Considerate(r),
           NEW w \in Workstations, DestroyBranch(r, w),
           NEW a \in Assets, Chronicle(a)
    PROVE  Chronicle(a)'
<1>1. TablesSound /\ RequestsTyped
  BY DEF TypeInv
<1>2. pc[r] = "idle" /\ UNCHANGED log /\ workstations' = workstations \ {w} /\ w # NULL
  BY NullIsNoId DEF DestroyBranch, At
<1>3. pc'[r] = "done"
  BY <1>1, Ended DEF DestroyBranch
<1>4. /\ row[a] = NULL => row'[a] = NULL
      /\ row[a] # NULL => /\ row[a] \in Rows /\ row'[a] # NULL
                          /\ row'[a].employee = row[a].employee
                          /\ row'[a].ws = IF row[a].ws = w THEN NULL ELSE row[a].ws
  <2>1. row[a] # NULL => row[a] \in Rows
    BY <1>1 DEF TablesSound
  <2>2. row[a] # NULL => [row[a] EXCEPT !.ws = NULL] \in Rows
    BY <2>1 DEF Rows
  <2>3. row'[a] = IF row[a] # NULL /\ row[a].ws = w THEN [row[a] EXCEPT !.ws = NULL] ELSE row[a]
    BY DEF DestroyBranch
  <2> QED BY <2>1, <2>2, <2>3, NullIsNoRecord DEF Rows
<1>5. Visible(a)' = Visible(a)
  BY <1>2, <1>3, SameInSight
<1>6. \A type, v : Told(a, type, v)' <=> Told(a, type, v)
  <2>1. Visible(a) \subseteq DOMAIN log[a] /\ LogKept(a)
    BY <1>1, <1>2, VisibleIsInLog DEF LogKept
  <2> QED BY <1>5, <2>1, SameTold
<1>7. Settled(a)'
  <2> SUFFICES ASSUME row'[a] # NULL, ~Saving(a)' PROVE (OnePlace(row[a]) /\ Agrees(a, row[a]))'
    BY DEF Settled
  <2>1. ~Saving(a)
    <3> SUFFICES ASSUME NEW q \in Requests, pc[q] = "log", job[q].asset = a PROVE FALSE
      BY DEF Saving, At
    <3>1. pc'[q] = "log" /\ job'[q].asset = a
      BY <1>2 DEF Considerate
    <3> QED BY <3>1 DEF Saving, At
  <2>2. row[a] # NULL /\ OnePlace(row[a]) /\ Agrees(a, row[a])
    BY <1>4, <2>1 DEF Chronicle, Settled
  <2>3. OnePlace(row[a])'
    BY <1>4, <2>2 DEF OnePlace
  <2>4. Agrees(a, row[a])'
    BY <1>2, <1>4, <1>6, <2>2 DEF Agrees
  <2> QED BY <2>3, <2>4
<1>8. ReasonsOwnOf(a)'
  BY <1>2 DEF ReasonsOwnOf, Chronicle
<1>9. ASSUME NEW q \in Requests, pc'[q] \in Working, job'[q].asset = a PROVE AtWork(q, a)'
  <2>1. pc'[q] = pc[q] /\ job'[q] = job[q] /\ copy'[q] = copy[q]
    BY <1>3, <1>9 DEF Considerate, Working
  <2>2. AtWork(q, a)
    BY <1>9, <2>1 DEF Chronicle
  <2>3. Unread(q, a) => Unread(q, a)'
    <3>1. Mine(q)' = Mine(q)
      BY <2>1, SameMine
    <3> QED BY <1>2, <3>1 DEF Unread, EndsWith
  <2>4. Agrees(a, copy[q]) => Agrees(a, copy[q])'
    BY <1>2, <1>6, <2>1 DEF Agrees
  <2>5. ASSUME NEW m, Reflects(row[a], m), row[a] # NULL
        PROVE  row'[a].employee = m.employee
               /\ (row'[a].ws = m.ws \/ (row'[a].ws = NULL /\ m.ws \notin workstations'))
    BY <1>2, <1>4, <2>5 DEF Reflects
  <2>6. PICK m : m = IF pc[q] = "log" THEN job[q].model ELSE copy[q]
    OBVIOUS
  <2>7. Reflects(row[a], m) /\ row[a] # NULL
    BY <2>2, <2>6 DEF AtWork
  <2>8. Reflects(row[a], IF pc[q] = "log" THEN job[q].model ELSE copy[q])'
    BY <2>1, <2>5, <2>6, <2>7 DEF Reflects
  <2> QED BY <1>4, <2>1, <2>2, <2>3, <2>4, <2>8 DEF AtWork, OnePlace
<1> QED BY <1>7, <1>8, <1>9 DEF Chronicle

LEMMA DieKeepsPlaces ==
    ASSUME TypeInv, ReasonsLate, NEW r \in Requests, Considerate(r), Die(r),
           NEW a \in Assets \ disturbed', Chronicle(a)
    PROVE  Chronicle(a)'
<1>1. RequestsTyped
  BY DEF TypeInv
<1>2. /\ UNCHANGED <<workstations, row, log>> /\ pc[r] \notin {"idle", "done", "aborted"}
      /\ disturbed' = disturbed \cup HalfDone(r)
  BY DEF Die, tables
<1>3. pc'[r] = IF pc[r] = "commit" THEN "aborted" ELSE "done"
  BY <1>1 DEF Die, Goto, RequestsTyped
<1>4. ~(pc[r] = "log" /\ job[r].asset = a)
  BY <1>2 DEF HalfDone
<1> QED BY <1>2, <1>3, <1>4, QuietKeepsPlaces DEF Working

\* What is begun, and repairs and items.
LEMMA OtherStepsKeepPlaces ==
    ASSUME TypeInv, ReasonsLate, NEW r \in Requests, Considerate(r),
           \/ \E b \in Assets : CheckAsset(r, b)
           \/ \E p \in Repairs : FindRepair(r, p)
           \/ \E i \in Items : FindItem(r, i) \/ DestroyItem(r, i)
           \/ CreateRepair(r) \/ SaveRepair(r) \/ DeleteItem(r),
           NEW a \in Assets, Chronicle(a)
    PROVE  Chronicle(a)'
<1>1. RequestsTyped
  BY DEF TypeInv
<1>2. ASSUME End(r) PROVE pc'[r] = "done"
  BY <1>1, <1>2, Ended
<1>3. ASSUME NEW label, Proceed(r, label) PROVE pc'[r] = label
  BY <1>1, <1>2, <1>3 DEF Proceed, Goto, RequestsTyped
<1>4. ASSUME NEW label, Goto(r, label) PROVE pc'[r] = label
  BY <1>1, <1>4 DEF Goto, RequestsTyped
<1> DEFINE Idle == {"idle", "create", "asset", "repair", "deploy", "repairlog", "remark", "delete"}
<1>5. UNCHANGED <<workstations, row, log>> /\ pc[r] \in Idle /\ pc'[r] \in Idle \cup {"done"}
  <2>1. CASE \E b \in Assets : CheckAsset(r, b)
    BY <1>4, <2>1 DEF CheckAsset, At, tables
  <2>2. CASE \E p \in Repairs : FindRepair(r, p)
    BY <1>4, <2>2 DEF FindRepair, At, tables
  <2>3. CASE \E i \in Items : FindItem(r, i)
    BY <1>4, <2>3 DEF FindItem, At, tables, NextStatement
  <2>4. CASE \E i \in Items : DestroyItem(r, i)
    BY <1>2, <2>4 DEF DestroyItem, At
  <2>5. CASE CreateRepair(r)
    BY <1>2, <1>4, <2>5 DEF CreateRepair, At
  <2>6. CASE SaveRepair(r)
    BY <1>3, <2>6 DEF SaveRepair, At
  <2>7. CASE DeleteItem(r)
    BY <1>3, <2>7 DEF DeleteItem, At, NextStatement
  <2> QED BY <2>1, <2>2, <2>3, <2>4, <2>5, <2>6, <2>7
<1> QED BY <1>5, QuietKeepsPlaces DEF Working

\* Movements about repairs, and a repair's end.
LEMMA RepairStepsKeepPlaces ==
    ASSUME TypeInv, ReasonsLate, NEW r \in Requests, Considerate(r),
           \/ LogRepair(r) \/ Remark(r)
           \/ \E p \in Repairs : AddRemark(r, p) \/ DestroyRepair(r, p),
           NEW a \in Assets \ disturbed', Alone(a), Chronicle(a)
    PROVE  Chronicle(a)'
<1>1. TablesSound /\ RequestsTyped /\ OwnRepair(r)
  BY DEF TypeInv
<1>2. ASSUME End(r) PROVE pc'[r] = "done"
  BY <1>1, <1>2, Ended
<1>3. ASSUME NEW label, Proceed(r, label) PROVE pc'[r] = label
  BY <1>1, <1>2, <1>3 DEF Proceed, Goto, RequestsTyped
<1>4. CASE LogRepair(r) \/ Remark(r)
  <2> DEFINE p == job[r].repair
  <2>1. /\ pc[r] \in {"repairlog", "remark"} /\ UNCHANGED <<workstations, row>>
        /\ log' \in LogsOf(p, r) \cup {log}
    BY <1>4 DEF LogRepair, Remark, At
  <2>2. job[r] # NULL /\ p \in Repairs /\ job[r].asset \in Assets
    BY <1>1, <2>1 DEF RequestsTyped, Typed
  <2>3. pc'[r] \in {"remark", "done"}
    BY <1>2, <1>3, <1>4 DEF LogRepair, Remark
  <2>4. repair[p] # NULL => repair[p].asset # a \/ Left(r, a)
    <3>1. CASE repair[p] # NULL /\ repair[p].asset = a
      <4>1. job[r].asset = a
        BY <1>1, <2>2, <3>1, NullIsNoId DEF OwnRepair
      <4>2. a \in Concerned(r)
        BY <2>2, <4>1, NullIsNoId DEF Concerned
      <4> QED BY <1>1, <4>2, OnlyOwn
    <3> QED BY <3>1
  <2> HIDE DEF p
  <2> QED BY <2>1, <2>2, <2>3, <2>4, RepairKeepsPlaces DEF Working
<1>5. CASE \E p \in Repairs : AddRemark(r, p) \/ DestroyRepair(r, p)
  <2>1. PICK p \in Repairs : AddRemark(r, p) \/ DestroyRepair(r, p)
    BY <1>5
  <2>2. /\ pc[r] = "idle" /\ UNCHANGED <<workstations, row>> /\ Mark(r, repair[p].asset)
        /\ log' \in LogsOf(p, r)
    BY <2>1 DEF AddRemark, DestroyRepair, At
  <2>3. pc'[r] = "done"
    BY <1>2, <2>1 DEF AddRemark, DestroyRepair
  <2>4. repair[p].asset = a => Left(r, a)
    BY <1>1, <2>2, MarkedShared, OthersAway DEF Left
  <2> QED BY <2>2, <2>3, <2>4, RepairKeepsPlaces DEF Working
<1> QED BY <1>4, <1>5

LEMMA StepKeepsLedger ==
    ASSUME TypeInv, LedgerInv, NEW r \in Requests, Step(r)
    PROVE  LedgerInv'
<1>1. Considerate(r) /\ ReasonsLate /\ Unheard(r)
  BY StepsAreConsiderate DEF LedgerInv
<1>2. \A q \in Requests : Unheard(q)'
  BY UnheardKept DEF LedgerInv
<1>3. ReasonsLate'
  BY ReasonsLateKept DEF LedgerInv
<1>4. ASSUME NEW a \in Assets \ disturbed' PROVE Alone(a)' /\ Chronicle(a)'
  <2>1. Alone(a) /\ Chronicle(a)
    BY DisturbedStay DEF LedgerInv
  <2>2. Alone(a)'
    BY <2>1, AloneKept
  <2> SUFFICES Chronicle(a)'
    BY <2>2
  <2>3. CASE \E b \in Assets : FindAsset(r, b) \/ CreateAsset(r, b) \/ DestroyAsset(r, b)
    BY <1>1, <2>1, <2>3, FindAssetKeepsPlaces, CreateAssetKeepsPlaces, DestroyAssetKeepsPlaces
  <2>4. CASE \E w \in Workstations : DestroyBranch(r, w)
    BY <1>1, <2>1, <2>4, DestroyBranchKeepsPlaces
  <2>5. CASE SaveInTransaction(r) \/ Commit(r)
    BY <1>1, <2>1, <2>5, SaveInTransactionKeepsPlaces, CommitKeepsPlaces
  <2>6. CASE Save(r) \/ Log(r) \/ LoadAsset(r)
    BY <1>1, <2>1, <2>6, SaveKeepsPlaces, LogKeepsPlaces, LoadAssetKeepsPlaces
  <2>7. CASE \/ LogRepair(r) \/ Remark(r)
             \/ \E p \in Repairs : AddRemark(r, p) \/ DestroyRepair(r, p)
    BY <1>1, <2>1, <2>7, RepairStepsKeepPlaces
  <2>8. CASE \/ \E b \in Assets : CheckAsset(r, b)
             \/ \E p \in Repairs : FindRepair(r, p)
             \/ \E i \in Items : FindItem(r, i) \/ DestroyItem(r, i)
             \/ CreateRepair(r) \/ SaveRepair(r) \/ DeleteItem(r)
    BY <1>1, <2>1, <2>8, OtherStepsKeepPlaces
  <2>9. CASE Die(r)
    BY <1>1, <2>1, <2>9, DieKeepsPlaces
  <2> QED BY <2>3, <2>4, <2>5, <2>6, <2>7, <2>8, <2>9 DEF Step
<1> QED BY <1>2, <1>3, <1>4 DEF LedgerInv

-----------------------------------------------------------------------------
(* The theorems *)

\* The log of an asset nobody has touched yet says nothing or where it is.
LEMMA InitTellsPlace ==
    ASSUME Init, NEW a \in Assets
    PROVE  /\ row[a] # NULL => OnePlace(row[a]) /\ Agrees(a, row[a])
           /\ \A i \in DOMAIN log[a] : log[a][i].by = NULL /\ log[a][i].reason = NULL
<1> DEFINE created == Movement("created", NULL, NULL)
           atWorkstation(w) == Movement("workstation", w, NULL)
           withEmployee(e) == Movement("assignment", e, NULL)
<1>1. row \in [Assets -> {p \in Rows : p.ws = NULL \/ p.employee = NULL} \cup {NULL}]
      /\ log[a] \in (IF row[a] = NULL THEN {<<>>} ELSE InitialLogs(row[a]))
  BY DEF Init
<1>2. /\ created.type = "created" /\ created.by = NULL /\ created.reason = NULL
      /\ \A w : /\ atWorkstation(w).type = "workstation" /\ atWorkstation(w).to = w
                /\ atWorkstation(w).by = NULL /\ atWorkstation(w).reason = NULL
      /\ \A e : /\ withEmployee(e).type = "assignment" /\ withEmployee(e).to = e
                /\ withEmployee(e).by = NULL /\ withEmployee(e).reason = NULL
  BY DEF Movement
<1>3. CASE row[a] = NULL
  BY <1>1, <1>3
<1>4. CASE row[a] # NULL
  <2>1. OnePlace(row[a])
    BY <1>1, <1>4 DEF OnePlace
  <2>2. \/ log[a] = <<created>>
        \/ log[a] = <<created, atWorkstation(row[a].ws)>>
        \/ log[a] = <<created, withEmployee(row[a].employee)>>
    BY <1>1, <1>4 DEF InitialLogs
  <2> HIDE DEF created, atWorkstation, withEmployee
  <2>3. \A i \in DOMAIN log[a] : \/ log[a][i] = created
                                 \/ log[a][i] = atWorkstation(row[a].ws)
                                 \/ log[a][i] = withEmployee(row[a].employee)
    <3>1. ASSUME NEW x PROVE DOMAIN <<created>> = {1} /\ <<created>>[1] = created
                             /\ DOMAIN <<created, x>> = {1, 2}
                             /\ <<created, x>>[1] = created /\ <<created, x>>[2] = x
      OBVIOUS
    <3> QED BY <2>2, <3>1
  <2>4. \A i \in DOMAIN log[a] : /\ log[a][i].by = NULL /\ log[a][i].reason = NULL
                                 /\ log[a][i].type = "workstation" => log[a][i].to = row[a].ws
                                 /\ log[a][i].type = "assignment" => log[a][i].to = row[a].employee
    BY <1>2, <2>3
  <2>5. Agrees(a, row[a])
    <3>1. Visible(a) \subseteq DOMAIN log[a]
      BY DEF Visible
    <3>2. ASSUME NEW v, Told(a, "workstation", v) PROVE row[a].ws = v
      BY <2>4, <3>1, <3>2 DEF Told
    <3>3. ASSUME NEW v, Told(a, "assignment", v) PROVE row[a].employee = v
      BY <2>4, <3>1, <3>3 DEF Told
    <3> QED BY <3>2, <3>3 DEF Agrees
  <2>6. \A i \in DOMAIN log[a] : log[a][i].by = NULL /\ log[a][i].reason = NULL
    BY <2>4
  <2> QED BY <2>1, <2>5, <2>6
<1> QED BY <1>3, <1>4

LEMMA LedgerInvHolds == Spec => []LedgerInv
<1>1. Init => LedgerInv
  <2> SUFFICES ASSUME Init PROVE LedgerInv
    OBVIOUS
  <2>1. \A r \in Requests : pc[r] = "idle" /\ Concerned(r) = {}
    BY DEF Init, Concerned
  <2>2. \A a \in Assets, r \in Requests : ByNobody(r, a)
    BY InitTellsPlace, NullIsNoId DEF ByNobody
  <2>3. \A r \in Requests : Unheard(r)
    BY <2>1, <2>2 DEF Unheard
  <2>4. ReasonsLate
    BY InitTellsPlace DEF ReasonsLate
  <2>5. ASSUME NEW a \in Assets PROVE Alone(a) /\ Chronicle(a)
    <3>1. Alone(a)
      BY <2>1 DEF Alone
    <3>2. Settled(a)
      BY InitTellsPlace DEF Settled
    <3>3. ReasonsOwnOf(a)
      BY InitTellsPlace DEF ReasonsOwnOf
    <3> QED BY <2>1, <3>1, <3>2, <3>3 DEF Chronicle, Working
  <2> QED BY <2>3, <2>4, <2>5 DEF LedgerInv
<1>2. TypeInv /\ LedgerInv /\ [Next]_vars => LedgerInv'
  <2> SUFFICES ASSUME TypeInv, LedgerInv, [Next]_vars PROVE LedgerInv'
    OBVIOUS
  <2>1. CASE UNCHANGED vars \/ \E a \in Assets : Expire(a)
    <3>1. UNCHANGED <<workstations, row, log, pc, job, copy, disturbed>>
      BY <2>1 DEF vars, tables, history, Expire
    <3>2. (\A r \in Requests : Unheard(r))' /\ ReasonsLate'
      BY <3>1 DEF LedgerInv, Unheard, ByNobody, ReasonsLate
    <3>3. ASSUME NEW a \in Assets \ disturbed PROVE Alone(a)' /\ Chronicle(a)'
      <4>1. Alone(a) /\ Chronicle(a)
        BY DEF LedgerInv
      <4>2. Alone(a)'
        BY <3>1, <4>1 DEF Alone, Concerned
      <4>3. \A type, v : Told(a, type, v)' <=> Told(a, type, v)
        BY <3>1 DEF Told, Visible, Uncommitted
      <4>4. \A p : Agrees(a, p)' <=> Agrees(a, p)
        BY <3>1, <4>3 DEF Agrees
      <4>5. Settled(a)' /\ ReasonsOwnOf(a)'
        BY <3>1, <4>1, <4>4 DEF Chronicle, Settled, Saving, At, OnePlace, ReasonsOwnOf
      <4>6. ASSUME NEW r \in Requests, pc[r] \in Working, job[r].asset = a PROVE AtWork(r, a)'
        <5>1. AtWork(r, a)
          BY <4>1, <4>6 DEF Chronicle
        <5>2. Mine(r)' = Mine(r)
          BY <3>1, SameMine
        <5>3. Unread(r, a) => Unread(r, a)'
          BY <3>1, <5>2 DEF Unread, EndsWith
        <5>4. Agrees(a, copy[r])'
          BY <3>1, <4>4, <5>1 DEF AtWork
        <5> QED BY <3>1, <5>1, <5>3, <5>4 DEF AtWork, OnePlace, Reflects
      <4> QED BY <3>1, <4>2, <4>5, <4>6 DEF Chronicle
    <3> QED BY <3>1, <3>2, <3>3 DEF LedgerInv
  <2>2. CASE \E r \in Requests : Step(r)
    BY <2>2, StepKeepsLedger
  <2> QED BY <2>1, <2>2 DEF Next
<1> QED BY <1>1, <1>2, TypeInvHolds, PTL DEF Spec

\* An asset that requests did not meet at, and that none died over, has one
\* place, and AssetObserver's last word on its workstation or its employee is
\* true, as soon as the request that moved it has written its movements.
THEOREM PlaceIsKnownHolds == Spec => []PlaceIsKnown
<1>1. TypeInv /\ LedgerInv => PlaceIsKnown
  <2> SUFFICES ASSUME TypeInv, LedgerInv, NEW a \in Assets \ disturbed, row[a] # NULL, ~Saving(a)
               PROVE  /\ row[a].ws = NULL \/ row[a].employee = NULL
                      /\ LastTo(a, "workstation") \in workstations =>
                            row[a].ws = LastTo(a, "workstation")
                      /\ LastTo(a, "assignment") \in Employees =>
                            row[a].employee = LastTo(a, "assignment")
    BY DEF PlaceIsKnown
  <2>1. TablesSound /\ workstations \subseteq Workstations
    BY DEF TypeInv, TablesSound
  <2>2. OnePlace(row[a]) /\ Agrees(a, row[a])
    BY DEF LedgerInv, Chronicle, Settled
  <2>3. \A type : LastTo(a, type) = NULL \/ Told(a, type, LastTo(a, type))
    BY <2>1, LastToIsTold
  <2> QED BY <2>1, <2>2, <2>3, NullIsNoId DEF OnePlace, Agrees
<1> QED BY <1>1, LedgerInvHolds, TypeInvHolds, PTL

\* The reason that AssetMovementController adds to the latest movement is on a
\* movement of its request, or on one of the same second, if the request wrote
\* any, and no other was at work on the asset.
THEOREM ReasonsAreOwnHolds == Spec => []ReasonsAreOwn
<1>1. LedgerInv => ReasonsAreOwn
  BY DEF LedgerInv, Chronicle, ReasonsOwnOf, ReasonsAreOwn
<1> QED BY <1>1, LedgerInvHolds, PTL

-----------------------------------------------------------------------------
(* A return is on record before the repair is Returned.  The request carries *)
(* the promise from the asset's model to the repair: once it is past the     *)
(* asset, its movement stands, or there was none to write, or it did not     *)
(* find the asset, which whoever reveals it since must meet it at.           *)

Logged(r, a) ==
    \E i \in DOMAIN log[a] :
        log[a][i].by = r /\ log[a][i].type = "status" /\ log[a][i].to = "Functional"

OnRecord(r) ==
    \/ repair[job[r].repair] = NULL
    \/ copy[r] # NULL /\ copy[r].status = "Functional"
    \/ copy[r] = NULL /\ job[r].asset \in hidden \cup disturbed
    \/ Logged(r, job[r].asset)

ReturnPromised(r) ==
    /\ pc[r] \in {"save", "log"} /\ job[r].kind = "workflow" => job[r].model.status = "Functional"
    /\ pc[r] = "repair" /\ job[r].kind = "workflow" /\ job[r].to = "Returned" => OnRecord(r)

\* The steps of others leave the record.
LEMMA OthersLeaveRecord ==
    ASSUME TypeInv, LedgerInv, NEW r \in Requests, Step(r),
           NEW q \in Requests \ {r}, ReturnPromised(q)
    PROVE  ReturnPromised(q)'
<1>1. /\ pc'[q] = pc[q] /\ job'[q] = job[q] /\ copy'[q] = copy[q]
      /\ RequestsTyped /\ Typed(pc[q], job[q], copy[q]) /\ OwnRepair(q)
      /\ Considerate(r) /\ HidesLess(r)
  BY StepsAreConsiderate, StepsHideLess DEF Considerate, TypeInv, RequestsTyped
<1>2. ASSUME pc[q] = "repair", job[q].kind = "workflow", job[q].to = "Returned",
             repair'[job[q].repair] # NULL
      PROVE  \/ copy[q] # NULL /\ copy[q].status = "Functional"
             \/ copy[q] = NULL /\ job[q].asset \in hidden' \cup disturbed'
             \/ Logged(q, job[q].asset)'
  <2>1. /\ job[q] # NULL /\ job[q].repair \in Repairs /\ job[q].repair # NULL
        /\ job[q].asset \in Assets /\ job[q].asset # NULL
    BY <1>1, <1>2, NullIsNoId DEF Typed
  <2>2. PICK a \in Assets, p \in Repairs : a = job[q].asset /\ p = job[q].repair
    BY <2>1
  <2>3. repair[p] # NULL
    BY <1>1, <1>2, <2>1, <2>2 DEF Considerate
  <2>4. repair[p].asset = a
    BY <1>1, <2>1, <2>2, <2>3 DEF OwnRepair
  <2>5. a \in Concerned(q)
    BY <2>1, <2>2 DEF Concerned
  <2>6. LogKept(a)
    BY <1>1, <1>2, <2>1, <2>2, <2>3, <2>4, <2>5 DEF Considerate
  <2>7. \/ copy[q] # NULL /\ copy[q].status = "Functional"
        \/ copy[q] = NULL /\ a \in hidden \cup disturbed
        \/ Logged(q, a)
    BY <1>2, <2>2, <2>3 DEF ReturnPromised, OnRecord
  <2>8. Logged(q, a) => Logged(q, a)'
    BY <2>6 DEF Logged, LogKept
  <2>9. Logged(q, a)' => Logged(q, job[q].asset)'
    BY <1>1, <2>2 DEF Logged
  <2>10. ASSUME a \in hidden, a \notin hidden' PROVE a \in disturbed
    <3>1. ~DestroyAsset(r, a)
      BY <1>2, <2>2, <2>3, <2>4 DEF DestroyAsset
    <3>2. pc[r] \in {"save", "commit"} /\ job[r].asset = a
      BY <1>1, <2>10, <3>1 DEF HidesLess, Reveals
    <3>3. a \in Concerned(r)
      BY <1>1, <3>2, WorkerConcerned DEF Working
    <3>4. ~Alone(a)
      BY <2>5, <3>3 DEF Alone
    <3> QED BY <3>4 DEF LedgerInv
  <2>11. disturbed \subseteq disturbed'
    BY DisturbedStay
  <2> QED BY <2>2, <2>7, <2>8, <2>9, <2>10, <2>11
<1> QED BY <1>1, <1>2 DEF ReturnPromised, OnRecord

\* A request keeps its own promise.
LEMMA OwnRecord ==
    ASSUME TypeInv, NEW r \in Requests, Step(r), ReturnPromised(r)
    PROVE  ReturnPromised(r)'
<1>1. TablesSound /\ RequestsTyped /\ Typed(pc[r], job[r], copy[r]) /\ OwnRepair(r)
  BY DEF TypeInv, RequestsTyped
<1>2. ASSUME pc'[r] \notin {"save", "log", "repair"} PROVE ReturnPromised(r)'
  BY <1>2 DEF ReturnPromised
<1>3. ASSUME End(r) PROVE ReturnPromised(r)'
  BY <1>1, <1>2, <1>3, Ended
<1>4. ASSUME NEW label, label \notin {"save", "log", "repair"}, Proceed(r, label)
      PROVE  ReturnPromised(r)'
  BY <1>1, <1>2, <1>3, <1>4 DEF Proceed, Goto, RequestsTyped
<1>5. ASSUME NEW a \in Assets, FindAsset(r, a) PROVE ReturnPromised(r)'
  <2>1. PICK kind \in InTransaction \cup {"edit"} : \E want \in Wants(kind, row[a]) :
           Ask(r, [Asked(kind, a) EXCEPT !.model = Model(row[a], want)])
    BY <1>5 DEF FindAsset
  <2>2. kind # "workflow"
    BY <2>1 DEF InTransaction, Annotating, Narrating
  <2>3. pc'[r] = "save" /\ job'[r].kind = kind
    BY <1>1, <1>5, <2>1 DEF FindAsset, Goto, Ask, Asked, RequestsTyped
  <2> QED BY <2>2, <2>3 DEF ReturnPromised
<1>6. ASSUME NEW p \in Repairs, FindRepair(r, p) PROVE ReturnPromised(r)'
  <2>1. PICK kind \in {"workflow", "update"}, s \in RepairStatuses :
           /\ Ask(r, [Asked(kind, repair[p].asset) EXCEPT
                        !.repair = p, !.was = repair[p].status, !.to = s])
           /\ Goto(r, IF kind = "workflow" /\ s = "Returned" THEN "asset" ELSE "repair")
    BY <1>6 DEF FindRepair
  <2>2. /\ job'[r].kind = kind /\ job'[r].to = s
        /\ pc'[r] = IF kind = "workflow" /\ s = "Returned" THEN "asset" ELSE "repair"
    BY <1>1, <2>1 DEF Ask, Asked, Goto, RequestsTyped
  <2> QED BY <2>1, <2>2 DEF ReturnPromised
<1>7. ASSUME LoadAsset(r) PROVE ReturnPromised(r)'
  <2>1. At(r, "asset") /\ UNCHANGED repair
    BY <1>7 DEF LoadAsset, tables
  <2>2. job[r].asset \in Assets /\ job[r] # NULL /\ job[r].repair \in Repairs /\ job[r] \in Jobs
    BY <1>1, <2>1 DEF At, Typed
  <2>3. CASE row[job[r].asset] = NULL \/ job[r].asset \in hidden
    <3>1. repair[job[r].repair] = NULL \/ job[r].asset \in hidden
      BY <1>1, <2>2, <2>3, NullIsNoId DEF OwnRepair, TablesSound
    <3>2. /\ pc'[r] = "repair" /\ job'[r] = job[r] /\ copy'[r] = copy[r]
          /\ UNCHANGED <<hidden, disturbed>>
      BY <1>1, <1>7, <2>3 DEF LoadAsset, Goto, RequestsTyped, tables, history
    <3>3. copy[r] = NULL
      BY <1>1, <2>1 DEF At, Typed
    <3> QED BY <2>1, <3>1, <3>2, <3>3 DEF ReturnPromised, OnRecord
  <2>4. CASE row[job[r].asset] # NULL /\ job[r].asset \notin hidden
    <3> DEFINE want == [row[job[r].asset] EXCEPT !.status = "Functional"]
               m == Model(row[job[r].asset], want)
    <3>1. row[job[r].asset] \in Rows
      BY <1>1, <2>2, <2>4 DEF TablesSound
    <3>2. want \in Rows /\ want.status = "Functional"
      BY <3>1, LedgerStatuses DEF Rows
    <3>3. m.status = "Functional"
      BY <3>1, <3>2, ModelTyped
    <3>4. pc'[r] = "save" /\ job'[r] = [job[r] EXCEPT !.model = m]
      BY <1>1, <1>7, <2>4 DEF LoadAsset, Goto, RequestsTyped
    <3> HIDE DEF m
    <3>5. job'[r].model = m
      BY <2>2, <3>4 DEF Jobs
    <3> QED BY <3>3, <3>4, <3>5 DEF ReturnPromised
  <2> QED BY <2>3, <2>4
<1>8. ASSUME Save(r) PROVE ReturnPromised(r)'
  <2>1. CASE Dangling(job[r].asset, copy[r], job[r].model)
    BY <1>3, <1>8, <2>1 DEF Save
  <2>2. CASE ~Dangling(job[r].asset, copy[r], job[r].model)
    <3>1. Proceed(r, AfterSave(r)) /\ At(r, "save")
      BY <1>8, <2>2 DEF Save
    <3>2. AfterSave(r) = "done" \/ Typed(AfterSave(r), job[r], copy[r])
      BY <1>1, <3>1, AfterSaveTyped DEF At
    <3>3. /\ pc'[r] = AfterSave(r)
          /\ AfterSave(r) # "done" => job'[r] = job[r] /\ copy'[r] = copy[r]
      BY <1>1, <3>1, <3>2, Proceeded
    <3>4. job[r].kind = "workflow" => job[r].model.status = "Functional"
      BY <3>1 DEF ReturnPromised, At
    <3>5. copy[r] # NULL
      BY <1>1, <3>1, Saver, NullIsNoRecord DEF At
    <3> QED BY <3>3, <3>4, <3>5 DEF ReturnPromised, OnRecord, AfterSave, AfterLog
  <2> QED BY <2>1, <2>2
<1>9. ASSUME Log(r) PROVE ReturnPromised(r)'
  <2> DEFINE a == job[r].asset
             m == job[r].model
             mine == Observed(copy[r], m, r)
  <2>1. At(r, "log") /\ a \in Assets /\ m \in Rows /\ copy[r] \in Rows
    BY <1>1, <1>9, Saver DEF Log, At
  <2>2. CASE row[a] = NULL /\ mine # <<>>
    BY <1>3, <1>9, <2>2 DEF Log
  <2>3. CASE ~(row[a] = NULL /\ mine # <<>>)
    <3>1. PICK t \in BOOLEAN, u \in BOOLEAN :
             log' = [log EXCEPT ![a] = Extended(log[a], mine, t, u)]
      BY <1>9, <2>3 DEF Log
    <3>2. Proceed(r, AfterLog(r))
      BY <1>9, <2>3 DEF Log
    <3>3. AfterLog(r) = "done" \/ Typed(AfterLog(r), job[r], copy[r])
      BY <1>1, <2>1, AfterSaveTyped DEF At
    <3>4. /\ pc'[r] = AfterLog(r)
          /\ AfterLog(r) # "done" => job'[r] = job[r] /\ copy'[r] = copy[r]
      BY <1>1, <3>2, <3>3, Proceeded
    <3>5. ASSUME job[r].kind = "workflow", copy[r].status # "Functional", job'[r] = job[r]
          PROVE  Logged(r, job[r].asset)'
      <4>1. m.status = "Functional"
        BY <2>1, <3>5 DEF ReturnPromised, At
      <4>2. mine \in Seq(Movements)
        BY <2>1, ObservedTyped
      <4>3. PICK i \in DOMAIN mine : mine[i] = Movement("status", "Functional", r)
        BY <2>1, <3>5, <4>1, ObservedTyped
      <4>4. PICK b \in Assets : b = a
        BY <2>1
      <4> HIDE DEF mine
      <4>5. log[b] \in Seq(Movements)
        BY <1>1 DEF TablesSound
      <4>6. log'[b] = Extended(log[b], mine, t, u)
        BY <1>1, <3>1, <4>4 DEF TablesSound
      <4>7. /\ Len(log[b]) + i \in DOMAIN log'[b]
            /\ SameMovement(log'[b][Len(log[b]) + i], mine[i])
        BY <4>2, <4>5, <4>6, ExtendedAdds
      <4>8. mine[i].by = r /\ mine[i].type = "status" /\ mine[i].to = "Functional"
        BY <4>3 DEF Movement
      <4>9. job'[r].asset = b
        BY <3>5, <4>4
      <4> QED BY <4>7, <4>8, <4>9 DEF Logged, SameMovement
    <3>6. AfterLog(r) \in {"repair", "done"} /\ (AfterLog(r) = "repair" => job[r].kind = "workflow")
      BY DEF AfterLog
    <3>7. copy[r] # NULL
      BY <2>1, NullIsNoRecord
    <3> QED BY <3>4, <3>5, <3>6, <3>7 DEF ReturnPromised, OnRecord
  <2> QED BY <2>2, <2>3
<1>10. ASSUME SaveRepair(r) \/ LogRepair(r) PROVE ReturnPromised(r)'
  <2>1. PICK label \in {"remark", "done", "repairlog"} : Proceed(r, label)
    BY <1>10 DEF SaveRepair, LogRepair, Proceed
  <2> QED BY <1>4, <2>1
<1>11. ASSUME NEW a \in Assets, CreateAsset(r, a) PROVE ReturnPromised(r)'
  BY <1>3, <1>4, <1>11 DEF CreateAsset, NextStatement, At
<1>12. ASSUME DeleteItem(r) PROVE ReturnPromised(r)'
  BY <1>4, <1>12 DEF DeleteItem, NextStatement, At
<1>13. ASSUME \/ \E a \in Assets : CheckAsset(r, a)
              \/ \E i \in Items : FindItem(r, i)
              \/ SaveInTransaction(r)
              \/ CreateRepair(r)
              \/ Die(r)
       PROVE  ReturnPromised(r)'
  <2>1. CASE \E a \in Assets : CheckAsset(r, a)
    BY <1>1, <1>2, <2>1 DEF CheckAsset, Goto, RequestsTyped
  <2>2. CASE \E i \in Items : FindItem(r, i)
    BY <1>1, <1>2, <2>2 DEF FindItem, NextStatement, Goto, RequestsTyped
  <2>3. CASE SaveInTransaction(r)
    BY <1>1, <1>2, <1>3, <2>3 DEF SaveInTransaction, Goto, RequestsTyped
  <2>4. CASE CreateRepair(r)
    BY <1>1, <1>2, <1>3, <2>4 DEF CreateRepair, Goto, RequestsTyped
  <2>5. CASE Die(r)
    BY <1>1, <1>2, <2>5 DEF Die, Goto, RequestsTyped
  <2> QED BY <1>13, <2>1, <2>2, <2>3, <2>4, <2>5
<1>14. ASSUME \/ \E a \in Assets : DestroyAsset(r, a)
              \/ \E w \in Workstations : DestroyBranch(r, w)
              \/ \E p \in Repairs : AddRemark(r, p) \/ DestroyRepair(r, p)
              \/ \E i \in Items : DestroyItem(r, i)
              \/ Commit(r) \/ Remark(r)
       PROVE  ReturnPromised(r)'
  <2>1. End(r)
    BY <1>14 DEF DestroyAsset, DestroyBranch, AddRemark, DestroyRepair, DestroyItem, Commit, Remark
  <2> QED BY <1>3, <2>1
<1> QED BY <1>5, <1>6, <1>7, <1>8, <1>9, <1>10, <1>11, <1>12, <1>13, <1>14 DEF Step

LEMMA ReturnPromisedHolds == Spec => [](\A r \in Requests : ReturnPromised(r))
<1>1. Init => \A r \in Requests : ReturnPromised(r)
  BY DEF Init, ReturnPromised
<1>2. TypeInv /\ LedgerInv /\ (\A r \in Requests : ReturnPromised(r)) /\ [Next]_vars
        => (\A r \in Requests : ReturnPromised(r))'
  <2> SUFFICES ASSUME TypeInv, LedgerInv, \A r \in Requests : ReturnPromised(r), [Next]_vars,
                      NEW q \in Requests
               PROVE  ReturnPromised(q)'
    OBVIOUS
  <2>1. CASE UNCHANGED vars
    BY <2>1 DEF vars, tables, history, ReturnPromised, OnRecord, Logged
  <2>2. CASE \E a \in Assets : Expire(a)
    <3>1. UNCHANGED <<log, repair, pc, job, copy, disturbed>> /\ hidden \subseteq hidden'
      BY <2>2 DEF Expire, history
    <3> QED BY <3>1 DEF ReturnPromised, OnRecord, Logged
  <2>3. CASE \E r \in Requests : Step(r)
    <3>1. PICK r \in Requests : Step(r)
      BY <2>3
    <3>2. CASE q = r
      BY <3>1, <3>2, OwnRecord
    <3>3. CASE q # r
      BY <3>1, <3>3, OthersLeaveRecord
    <3> QED BY <3>2, <3>3
  <2> QED BY <2>1, <2>2, <2>3 DEF Next
<1> QED BY <1>1, <1>2, TypeInvHolds, LedgerInvHolds, PTL DEF Spec

\* updateStatus marks the asset Functional before the repair Returned: whatever
\* else overlaps and wherever the request dies, no repair is Returned by it but
\* that the asset was Functional as read or its movement is in the log, or that
\* Asset's scope hid the asset from it, does still, or did so until a request
\* that overlapped (RepairController::updateStatus, AssetObserver::updated).
THEOREM ReturnIsLoggedHolds == Spec => ReturnIsLogged
<1> DEFINE Recorded ==
        \A r \in Requests, p \in Repairs : Returns(r, p) =>
          \/ copy[r] # NULL /\ copy[r].status = "Functional"
          \/ copy[r] = NULL /\ job[r].asset \in hidden \cup disturbed
          \/ \E i \in DOMAIN log[job[r].asset] :
                LET m == log[job[r].asset][i] IN
                m.by = r /\ m.type = "status" /\ m.to = "Functional"
<1>1. TypeInv /\ (\A r \in Requests : ReturnPromised(r)) /\ [Next]_vars => [Recorded]_vars
  <2> SUFFICES ASSUME TypeInv, \A r \in Requests : ReturnPromised(r), [Next]_vars,
                      NEW q \in Requests, NEW p \in Repairs, Returns(q, p)
               PROVE  \/ copy[q] # NULL /\ copy[q].status = "Functional"
                      \/ copy[q] = NULL /\ job[q].asset \in hidden \cup disturbed
                      \/ Logged(q, job[q].asset)
    BY DEF Logged
  <2>1. OnRecord(q)
    BY DEF ReturnPromised, Returns, At
  <2>2. repair[p] # NULL
    <3>1. CASE UNCHANGED vars \/ \E a \in Assets : Expire(a)
      BY <3>1 DEF vars, Expire, Returns, At
    <3>2. CASE \E r \in Requests : Step(r)
      <4>1. PICK r \in Requests : Step(r)
        BY <3>2
      <4>2. Considerate(r)
        BY <4>1, StepsAreConsiderate
      <4>3. job[q] # NULL
        BY DEF Returns, At, TypeInv, RequestsTyped, Typed
      <4> QED BY <4>2, <4>3 DEF Considerate, Returns
    <3> QED BY <3>1, <3>2 DEF Next
  <2> QED BY <2>1, <2>2 DEF OnRecord, Returns
<1> QED BY <1>1, TypeInvHolds, ReturnPromisedHolds, PTL DEF Spec, ReturnIsLogged

=============================================================================
