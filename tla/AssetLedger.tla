----------------------------- MODULE AssetLedger -----------------------------
(***************************************************************************)
(* Where the assets are, what the movement log says of it, and the repairs *)
(* and reserve items behind them.  Requests are split where others can     *)
(* come in between.  A save writes the columns in which the model differs  *)
(* from what was read and AssetObserver logs the difference afterwards,    *)
(* within a transaction in AssetMovementController and WorkstationService  *)
(* and as a statement of its own everywhere else.  Workers may die.        *)
(***************************************************************************)
EXTENDS Naturals, Sequences, FiniteSets

CONSTANTS
    Assets, Workstations, Employees, Repairs, Items,  \* ids
    Requests,   \* each is served once
    Statuses,   \* names of the status table; New, which ages, is AssetAging's
    RepairStatuses,  \* Pending, In Repair, Completed, Returned
    NULL

ASSUME LedgerStatuses ==
    {"Functional", "Under Repair", "Defective"} \subseteq Statuses /\ "Returned" \in RepairStatuses

VARIABLES
    workstations,  \* the ids in their table
    row,           \* the assets table: workstation_id, assigned_to_employee_id, status
    hidden,        \* assets past their delete_after_at: the model's scope hides them
    log,           \* the asset_movements of each asset, by insertion
    repair,        \* the repairs table
    items,         \* the ids in replenishments
    source,        \* history: the item an asset was made from
    pc,            \* the statement each request is at
    job,           \* what it was asked
    copy,          \* its Asset model as read
    disturbed,     \* history: assets and items that two requests were at work
                   \* on at once, or whose request died between two statements
    discarded      \* history: items that a user deleted

tables == <<workstations, row, hidden, log, repair, items, source>>
history == <<disturbed, discarded>>
vars == <<tables, pc, job, copy, history>>

Rows == [ws: Workstations \cup {NULL}, employee: Employees \cup {NULL}, status: Statuses]

RepairRows == [asset: Assets, status: RepairStatuses]

Annotating    == {"transfer", "return", "status", "bulk"}
Narrating     == {"assign", "move"}
InTransaction == Annotating \cup Narrating

\* What a request may be asked, and the model or the repair it has come to.
Jobs ==
    [kind: InTransaction \cup {"edit", "store", "workflow", "update", "deploy"},
     asset: Assets \cup {NULL}, model: Rows \cup {NULL}, repair: Repairs \cup {NULL},
     was: RepairStatuses \cup {NULL}, to: RepairStatuses \cup Workstations \cup {NULL},
     item: Items \cup {NULL}]

ASSUME NullIsNothing ==
    NULL \notin Assets \cup Workstations \cup Employees \cup Repairs \cup Items \cup Requests
                  \cup Rows \cup RepairRows \cup Jobs

\* tied: in the same second as the movement before it.
Movements ==
    [type: {"created", "assignment", "workstation", "status", "repair"},
     to: Workstations \cup Employees \cup Statuses \cup {NULL},
     by: Requests \cup {NULL}, reason: Requests \cup {NULL}, tied: BOOLEAN]

Movement(type, to, r) == [type |-> type, to |-> to, by |-> r, reason |-> NULL, tied |-> FALSE]

\* An asset that was created or put there unlogged, or whose last placement is logged.
InitialLogs(place) ==
    {<<Movement("created", NULL, NULL)>>} \cup
    {<<Movement("created", NULL, NULL), Movement("workstation", w, NULL)>> :
        w \in {place.ws} \ {NULL}} \cup
    {<<Movement("created", NULL, NULL), Movement("assignment", e, NULL)>> :
        e \in {place.employee} \ {NULL}}

Init ==
    /\ workstations = Workstations
    /\ row \in [Assets -> {p \in Rows : p.ws = NULL \/ p.employee = NULL} \cup {NULL}]
    /\ hidden = {}
    /\ log \in [Assets -> UNION {InitialLogs(p) : p \in Rows} \cup {<<>>}]
    /\ \A a \in Assets : log[a] \in (IF row[a] = NULL THEN {<<>>} ELSE InitialLogs(row[a]))
    /\ repair \in [Repairs -> RepairRows \cup {NULL}]
    /\ \A p \in Repairs : repair[p] # NULL => row[repair[p].asset] # NULL
    /\ items \in SUBSET Items
    /\ source = [a \in Assets |-> NULL]
    /\ pc = [r \in Requests |-> "idle"]
    /\ job = [r \in Requests |-> NULL]
    /\ copy = [r \in Requests |-> NULL]
    /\ disturbed = {} /\ discarded = Items \ items

-----------------------------------------------------------------------------
(* Models and movements *)

\* AssetObserver::updating: an asset at a workstation has no employee, by the
\* model's workstation whether or not that is what changed.
ClearEmployee(m) == IF m.ws # NULL THEN [m EXCEPT !.employee = NULL] ELSE m

\* The model as it will be saved; nothing is saved if nothing is dirty.
Model(read, want) == IF want = read THEN read ELSE ClearEmployee(want)

\* UPDATE of the columns in which the model differs from what was read.
Updated(stored, read, m) ==
    [ws       |-> IF m.ws # read.ws THEN m.ws ELSE stored.ws,
     employee |-> IF m.employee # read.employee THEN m.employee ELSE stored.employee,
     status   |-> IF m.status # read.status THEN m.status ELSE stored.status]

\* Mutant of Placement: the removal from a workstation is left out.
PlacementUnlessRemoved(read, m, r) ==
    IF read.ws # NULL /\ m.ws # NULL /\ m.ws # read.ws
    THEN <<Movement("workstation", m.ws, r)>>
    ELSE IF m.employee # read.employee THEN <<Movement("assignment", m.employee, r)>> ELSE <<>>

\* isset() is false of NULL: the first workstation of an asset is not logged.
Placement(read, m, r) ==
    IF read.ws # NULL /\ m.ws # read.ws
    THEN <<Movement("workstation", m.ws, r)>>
    ELSE IF m.employee # read.employee THEN <<Movement("assignment", m.employee, r)>> ELSE <<>>

\* AssetObserver::updated
Observed(read, m, r) ==
    Placement(read, m, r) \o
    IF m.status # read.status THEN <<Movement("status", m.status, r)>> ELSE <<>>

\* The log after ms, the first of which may fall into the second of the last
\* entry (t), and the others into that of the one before them (u).
Extended(seq, ms, t, u) ==
    seq \o [i \in DOMAIN ms |->
               [ms[i] EXCEPT !.tied = IF i > 1 THEN u ELSE t /\ seq # <<>>]]

\* The transaction of r has updated the asset's row and keeps it locked.
Holds(r, a) ==
    pc[r] = "commit" /\ job[r].asset = a /\ row[a] # NULL /\ job[r].model # copy[r]

Free(a) == \A r \in Requests : ~Holds(r, a)

\* Requests whose movements are not committed, or rolled back.
Uncommitted == {r \in Requests : pc[r] \in {"commit", "aborted"}}

\* Mutant of Latest: the oldest movement.
Oldest(a, r) == {i \in DOMAIN log[a] : i = 1}

\* where('asset_id')->latest('created_at')->first(): timestamps count seconds.
Latest(a, r) ==
    LET seen == {i \in DOMAIN log[a] : log[a][i].by \notin Uncommitted \ {r}}
    IN  {i \in seen : \A j \in seen : j > i => \A k \in i+1..j : log[a][k].tied}

-----------------------------------------------------------------------------
(* Requests *)

At(r, label) == pc[r] = label

Goto(r, label) == pc' = [pc EXCEPT ![r] = label]

End(r) ==
    /\ Goto(r, "done")
    /\ job' = [job EXCEPT ![r] = NULL]
    /\ copy' = [copy EXCEPT ![r] = NULL]

Concerned(r) == IF job[r] = NULL THEN {} ELSE {job[r].asset, job[r].item} \ {NULL}

\* Somebody begins to work on x.
Mark(r, x) ==
    disturbed' = disturbed \cup {y \in {x} : \E q \in Requests \ {r} : y \in Concerned(q)}

Asked(kind, a) == [kind |-> kind, asset |-> a, model |-> NULL, repair |-> NULL,
                   was |-> NULL, to |-> NULL, item |-> NULL]

Ask(r, j) == job' = [job EXCEPT ![r] = j]

\* What each endpoint makes of the model it has read.  A form that leaves a
\* column out is one that repeats what was read.
Wants(kind, read) ==
    CASE kind = "transfer" -> {[read EXCEPT !.employee = e] : e \in Employees}
      [] kind = "return"   -> {[read EXCEPT !.ws = NULL, !.employee = NULL]}
      [] kind = "status"   -> {[read EXCEPT !.status = s] : s \in Statuses}
      [] kind = "bulk"     -> {[read EXCEPT !.ws = w, !.employee = NULL] : w \in workstations}
      [] kind \in Narrating -> {[read EXCEPT !.ws = w] : w \in workstations}
      [] kind = "edit"     -> {m \in Rows : m.ws \in workstations \cup {NULL}}

\* Asset::findOrFail, of assets that are not hidden.  returnAsset answers 400
\* when there is nothing to return, transferAsset of the service when the asset
\* is not where it is said to be: such requests leave no trace and do not begin
\* here.
FindAsset(r, a) ==
    /\ At(r, "idle")
    /\ row[a] # NULL /\ a \notin hidden
    /\ \E kind \in InTransaction \cup {"edit"} :
          /\ kind = "return" => row[a].ws # NULL \/ row[a].employee # NULL
          /\ kind = "move" => row[a].ws # NULL
          /\ \E want \in Wants(kind, row[a]) :
                Ask(r, [Asked(kind, a) EXCEPT !.model = Model(row[a], want)])
    /\ copy' = [copy EXCEPT ![r] = row[a]]
    /\ Goto(r, "save")
    /\ Mark(r, a)
    /\ UNCHANGED <<tables, discarded>>

\* WorkstationService logs the move itself, after the observer has.
OwnMovement(r) ==
    IF job[r].kind \in Narrating
    THEN <<Movement("workstation", job[r].model.ws, r)>>
    ELSE <<>>

\* Mutant of Dangling: no foreign key.
DanglingNever(a, read, m) == FALSE

\* The foreign key refuses a workstation that is gone.
Dangling(a, read, m) ==
    row[a] # NULL /\ m.ws # read.ws /\ m.ws \notin workstations \cup {NULL}

Written(a, read, m) ==
    IF row[a] # NULL THEN [row EXCEPT ![a] = Updated(@, read, m)] ELSE row

\* AssetObserver::updating sets or clears the deadline with the status.  A model
\* read before another request's save may have nothing to clear.
StillHidden(a, read, m) ==
    IF m.status = read.status THEN {hidden}
    ELSE {hidden \ {a}} \cup {h \in {hidden} : a \in disturbed}

\* A transaction's UPDATE, with its movements.  It waits for the row; of an
\* asset deleted meanwhile the first movement is refused, and the
\* transaction rolled back.
SaveInTransaction(r) ==
    /\ At(r, "save") /\ job[r].kind \in InTransaction
    /\ LET a    == job[r].asset
           m    == job[r].model
           mine == Observed(copy[r], m, r) \o OwnMovement(r)
       IN  /\ Free(a)
           /\ IF (row[a] = NULL /\ mine # <<>>) \/ Dangling(a, copy[r], m)
              THEN End(r) /\ UNCHANGED log
              ELSE /\ \E t, u \in BOOLEAN : log' = [log EXCEPT ![a] = Extended(@, mine, t, u)]
                   /\ Goto(r, "commit")
                   /\ UNCHANGED <<job, copy>>
    /\ UNCHANGED <<workstations, row, hidden, repair, items, source, history>>

\* The reason goes to the latest movement; then the transaction is visible.
Commit(r) ==
    /\ At(r, "commit")
    /\ LET a == job[r].asset IN
       /\ row' = Written(a, copy[r], job[r].model)
       /\ hidden' \in StillHidden(a, copy[r], job[r].model)
       /\ IF job[r].kind \in Annotating /\ Latest(a, r) # {}
          THEN \E i \in Latest(a, r) : log' = [log EXCEPT ![a][i].reason = r]
          ELSE UNCHANGED log
    /\ End(r)
    /\ UNCHANGED <<workstations, repair, items, source, history>>

\* Mutant of AfterSave: on to the repair, with the asset's movement unwritten.
AfterSaveUnlogged(r) ==
    IF job[r].kind = "workflow" THEN "repair"
    ELSE IF job[r].model # copy[r] THEN "log" ELSE "done"

AfterLog(r) == IF job[r].kind = "workflow" THEN "repair" ELSE "done"

AfterSave(r) == IF job[r].model # copy[r] THEN "log" ELSE AfterLog(r)

Proceed(r, label) ==
    IF label = "done" THEN End(r) ELSE Goto(r, label) /\ UNCHANGED <<job, copy>>

\* The UPDATE of AssetController and RepairController, which others see at once.
Save(r) ==
    /\ At(r, "save") /\ job[r].kind \notin InTransaction
    /\ LET a == job[r].asset IN
       /\ Free(a)
       /\ IF Dangling(a, copy[r], job[r].model)
          THEN End(r) /\ UNCHANGED <<row, hidden>>
          ELSE /\ row' = Written(a, copy[r], job[r].model)
               /\ hidden' \in StillHidden(a, copy[r], job[r].model)
               /\ Proceed(r, AfterSave(r))
    /\ UNCHANGED <<workstations, log, repair, items, source, history>>

\* The observer's movements.  A deleted asset's are refused, and the request fails.
Log(r) ==
    /\ At(r, "log")
    /\ LET a    == job[r].asset
           mine == Observed(copy[r], job[r].model, r)
       IN  IF row[a] = NULL /\ mine # <<>>
           THEN End(r) /\ UNCHANGED log
           ELSE /\ \E t, u \in BOOLEAN : log' = [log EXCEPT ![a] = Extended(@, mine, t, u)]
                /\ Proceed(r, AfterLog(r))
    /\ UNCHANGED <<workstations, row, hidden, repair, items, source, history>>

-----------------------------------------------------------------------------
(* Repairs *)

\* RepairController::store: the check of the asset's status.
CheckAsset(r, a) ==
    /\ At(r, "idle")
    /\ row[a] # NULL /\ a \notin hidden /\ row[a].status = "Under Repair"
    /\ \E s \in RepairStatuses : Ask(r, [Asked("store", a) EXCEPT !.to = s])
    /\ Goto(r, "create")
    /\ Mark(r, a)
    /\ UNCHANGED <<tables, copy, discarded>>

CreateRepair(r) ==
    /\ At(r, "create")
    /\ IF row[job[r].asset] = NULL
       THEN End(r) /\ UNCHANGED repair
       ELSE \E p \in Repairs :
               /\ repair[p] = NULL /\ \A q \in Requests : job[q] # NULL => job[q].repair # p
               /\ repair' = [repair EXCEPT ![p] = [asset |-> job[r].asset, status |-> job[r].to]]
               /\ job' = [job EXCEPT ![r].repair = p]
               /\ Goto(r, "repairlog")
               /\ UNCHANGED copy
    /\ UNCHANGED <<workstations, row, hidden, log, items, source, history>>

\* Repair::findOrFail of updateStatus ("workflow") and of update.
FindRepair(r, p) ==
    /\ At(r, "idle")
    /\ repair[p] # NULL
    /\ \E kind \in {"workflow", "update"}, s \in RepairStatuses :
          /\ Ask(r, [Asked(kind, repair[p].asset) EXCEPT
                       !.repair = p, !.was = repair[p].status, !.to = s])
          /\ Goto(r, IF kind = "workflow" /\ s = "Returned" THEN "asset" ELSE "repair")
    /\ Mark(r, repair[p].asset)
    /\ UNCHANGED <<tables, copy, discarded>>

\* $repair->asset, which becomes Functional before the repair is saved, if it
\* is there and not hidden.
LoadAsset(r) ==
    /\ At(r, "asset")
    /\ LET a == job[r].asset IN
       IF row[a] = NULL \/ a \in hidden
       THEN Goto(r, "repair") /\ UNCHANGED <<job, copy>>
       ELSE /\ copy' = [copy EXCEPT ![r] = row[a]]
            /\ job' = [job EXCEPT ![r].model = Model(row[a], [row[a] EXCEPT !.status = "Functional"])]
            /\ Goto(r, "save")
    /\ UNCHANGED <<tables, history>>

\* $repair->save(): nothing if the status is that of the model; no row if the
\* repair was deleted.
SaveRepair(r) ==
    /\ At(r, "repair")
    /\ LET p == job[r].repair IN
       IF job[r].was = job[r].to
       THEN /\ Proceed(r, IF job[r].kind = "workflow" THEN "remark" ELSE "done")
            /\ UNCHANGED repair
       ELSE /\ repair' = IF repair[p] = NULL THEN repair
                         ELSE [repair EXCEPT ![p].status = job[r].to]
            /\ Proceed(r, "repairlog")
    /\ UNCHANGED <<workstations, row, hidden, log, items, source, history>>

\* A movement about repair p, refused if the repair is gone.
LogsOf(p, r) ==
    IF repair[p] = NULL THEN {}
    ELSE {[log EXCEPT ![repair[p].asset] = Extended(@, <<Movement("repair", NULL, r)>>, t, t)] :
             t \in BOOLEAN}

\* $repair->asset is read once: a return that did not find it does not look again.
Unfound(r) ==
    IF job[r].kind = "workflow" /\ job[r].to = "Returned" THEN copy[r] = NULL
    ELSE job[r].asset \in hidden

\* RepairObserver::created and ::updated, which fail when the asset is not found.
LogRepair(r) ==
    /\ At(r, "repairlog")
    /\ LET p == job[r].repair IN
       IF repair[p] = NULL \/ Unfound(r)
       THEN End(r) /\ UNCHANGED log
       ELSE /\ log' \in LogsOf(p, r)
            /\ Proceed(r, IF job[r].kind = "workflow" THEN "remark" ELSE "done")
    /\ UNCHANGED <<workstations, row, hidden, repair, items, source, history>>

\* The remark that may come with a status, logged by RepairRemarkObserver.
Remark(r) ==
    /\ At(r, "remark")
    /\ log' \in LogsOf(job[r].repair, r) \cup {log}
    /\ End(r)
    /\ UNCHANGED <<workstations, row, hidden, repair, items, source, history>>

\* RepairController::addRemark
AddRemark(r, p) ==
    /\ At(r, "idle")
    /\ repair[p] # NULL
    /\ log' \in LogsOf(p, r)
    /\ End(r)
    /\ Mark(r, repair[p].asset)
    /\ UNCHANGED <<workstations, row, hidden, repair, items, source, discarded>>

\* RepairController::destroy, with the movement its observer writes.
DestroyRepair(r, p) ==
    /\ At(r, "idle")
    /\ repair[p] # NULL
    /\ repair' = [repair EXCEPT ![p] = NULL]
    /\ log' \in LogsOf(p, r)
    /\ End(r)
    /\ Mark(r, repair[p].asset)
    /\ UNCHANGED <<workstations, row, hidden, items, source, discarded>>

-----------------------------------------------------------------------------
(* Reserve items *)

\* Mutant of NextStatement: the item first.
NextStatementItemFirst(label) ==
    CASE label = "idle" -> "delete" [] label = "delete" -> "deploy" [] label = "deploy" -> "done"

\* The order in which assignToEmployee creates the asset and deletes the item.
NextStatement(label) ==
    CASE label = "idle" -> "deploy" [] label = "deploy" -> "delete" [] label = "delete" -> "done"

\* An id that nobody refers to stands for the next one of the sequence.
Unused(a) == row[a] = NULL /\ source[a] = NULL /\ \A r \in Requests : a \notin Concerned(r)

\* assignToEmployee: the item and the workstation are read ...
FindItem(r, i) ==
    /\ At(r, "idle")
    /\ i \in items
    /\ \E w \in workstations : Ask(r, [Asked("deploy", NULL) EXCEPT !.item = i, !.to = w])
    /\ Goto(r, NextStatement("idle"))
    /\ Mark(r, i)
    /\ UNCHANGED <<tables, copy, discarded>>

\* ... the asset is created, and its first movement with it ...
CreateAsset(r, a) ==
    /\ At(r, "deploy")
    /\ Unused(a)
    /\ IF job[r].to \in workstations
       THEN /\ \E s \in Statuses :
                  row' = [row EXCEPT ![a] = [ws |-> job[r].to, employee |-> NULL, status |-> s]]
            /\ log' = [log EXCEPT ![a] = <<Movement("created", NULL, r)>>]
            /\ source' = [source EXCEPT ![a] = job[r].item]
            /\ Proceed(r, NextStatement("deploy"))
       ELSE End(r) /\ UNCHANGED <<row, log, source>>
    /\ UNCHANGED <<workstations, hidden, repair, items, history>>

\* ... and the item deleted.
DeleteItem(r) ==
    /\ At(r, "delete")
    /\ items' = items \ {job[r].item}
    /\ Proceed(r, NextStatement("delete"))
    /\ UNCHANGED <<workstations, row, hidden, log, repair, source, history>>

\* ReplenishmentController::destroy
DestroyItem(r, i) ==
    /\ At(r, "idle")
    /\ i \in items
    /\ items' = items \ {i}
    /\ discarded' = discarded \cup {i}
    /\ End(r)
    /\ Mark(r, i)
    /\ UNCHANGED <<workstations, row, hidden, log, repair, source>>

-----------------------------------------------------------------------------
(* Deletions and failures *)

\* The deadline that an asset got with its status passes; overlapping requests
\* may have left it on an asset that is not Defective any more.
Expire(a) ==
    /\ row[a] # NULL /\ a \notin hidden
    /\ row[a].status = "Defective" \/ a \in disturbed
    /\ hidden' = hidden \cup {a}
    /\ UNCHANGED <<workstations, row, log, repair, items, source, pc, job, copy, history>>

\* AssetController::destroy, or of a hidden asset the hourly clean-up: movements
\* and repairs cascade, and the observer's last movement names no asset.
DestroyAsset(r, a) ==
    /\ At(r, "idle")
    /\ row[a] # NULL
    /\ \A i \in DOMAIN log[a], q \in Requests : log[a][i].by = q => pc[q] # "commit"
    /\ Free(a)
    /\ row' = [row EXCEPT ![a] = NULL]
    /\ hidden' = hidden \ {a}
    /\ log' = [log EXCEPT ![a] = <<>>]
    /\ repair' = [p \in Repairs |->
                     IF repair[p] # NULL /\ repair[p].asset = a THEN NULL ELSE repair[p]]
    /\ End(r)
    /\ Mark(r, a)
    /\ UNCHANGED <<workstations, items, source, discarded>>

\* A branch goes, and its workstation w with it; the assets stay, and nothing is logged.
DestroyBranch(r, w) ==
    /\ At(r, "idle")
    /\ w \in workstations
    /\ \A q \in Requests, a \in Assets : Holds(q, a) => w \notin {row[a].ws, job[q].model.ws}
    /\ workstations' = workstations \ {w}
    /\ row' = [a \in Assets |->
                  IF row[a] # NULL /\ row[a].ws = w THEN [row[a] EXCEPT !.ws = NULL] ELSE row[a]]
    /\ End(r)
    /\ UNCHANGED <<hidden, log, repair, items, source, history>>

\* What is half done when r dies: an asset saved and not logged, an item
\* deployed and not deleted.
HalfDone(r) ==
    (IF pc[r] = "log" THEN {job[r].asset} ELSE {}) \cup
    (IF pc[r] = "delete" THEN {job[r].item} ELSE {})

\* The worker dies, or a statement fails for reasons of its own.  The
\* movements of a transaction stay invisible.
Die(r) ==
    /\ pc[r] \notin {"idle", "done", "aborted"}
    /\ disturbed' = disturbed \cup HalfDone(r)
    /\ Goto(r, IF pc[r] = "commit" THEN "aborted" ELSE "done")
    /\ job' = [job EXCEPT ![r] = NULL]
    /\ copy' = [copy EXCEPT ![r] = NULL]
    /\ UNCHANGED <<tables, discarded>>

-----------------------------------------------------------------------------
Step(r) ==
    \/ \E a \in Assets :
          FindAsset(r, a) \/ CheckAsset(r, a) \/ CreateAsset(r, a) \/ DestroyAsset(r, a)
    \/ \E w \in Workstations : DestroyBranch(r, w)
    \/ SaveInTransaction(r) \/ Commit(r) \/ Save(r) \/ Log(r)
    \/ \E p \in Repairs : FindRepair(r, p) \/ AddRemark(r, p) \/ DestroyRepair(r, p)
    \/ CreateRepair(r) \/ LoadAsset(r) \/ SaveRepair(r) \/ LogRepair(r) \/ Remark(r)
    \/ \E i \in Items : FindItem(r, i) \/ DestroyItem(r, i)
    \/ DeleteItem(r)
    \/ Die(r)

Next == (\E r \in Requests : Step(r)) \/ (\E a \in Assets : Expire(a))

Spec == Init /\ [][Next]_vars

-----------------------------------------------------------------------------
(* Properties *)

\* Requests know what they still need: a save has a model to compare with, and
\* a deleted asset has neither movements nor repairs.
TypeOK ==
    /\ workstations \subseteq Workstations /\ items \subseteq Items
    /\ row \in [Assets -> Rows \cup {NULL}]
    /\ \A a \in Assets : row[a] # NULL => row[a].ws \in workstations \cup {NULL}
    /\ hidden \subseteq {a \in Assets : row[a] # NULL}
    /\ \A a \in Assets : log[a] \in Seq(Movements) /\ (row[a] = NULL => log[a] = <<>>)
    /\ repair \in [Repairs -> RepairRows \cup {NULL}]
    /\ \A p \in Repairs : repair[p] # NULL => row[repair[p].asset] # NULL
    /\ source \in [Assets -> Items \cup {NULL}]
    /\ pc \in [Requests -> {"idle", "save", "commit", "log", "create", "asset", "repair",
                            "repairlog", "remark", "deploy", "delete", "done", "aborted"}]
    /\ job \in [Requests -> Jobs \cup {NULL}] /\ copy \in [Requests -> Rows \cup {NULL}]
    /\ \A r \in Requests :
          /\ job[r] = NULL <=> pc[r] \in {"idle", "done", "aborted"}
          /\ pc[r] \in {"save", "commit", "log"} => copy[r] \in Rows /\ job[r].asset \in Assets
          /\ pc[r] \in {"repair", "repairlog", "remark"} => job[r].repair \in Repairs
    /\ disturbed \subseteq Assets \cup Items /\ discarded \subseteq Items

\* What others see of the log.
Visible(a) == {i \in DOMAIN log[a] : log[a][i].by \notin Uncommitted}

\* Where the last visible movement of a type went, or NULL.
LastTo(a, type) ==
    LET moves == {i \in Visible(a) : log[a][i].type = type}
    IN  IF moves = {} THEN NULL
        ELSE log[a][CHOOSE i \in moves : \A j \in moves : j <= i].to

Saving(a) == \E r \in Requests : At(r, "log") /\ job[r].asset = a

\* Unless requests overlapped on an asset or died half-way, it has one place,
\* and the log can be relied on for what it says last: the asset is at that
\* workstation if there still is one, or with that employee.  (It may say
\* nothing of an asset's first workstation, or of the loss of a deleted one.)
PlaceIsKnown ==
    \A a \in Assets \ disturbed : row[a] # NULL /\ ~Saving(a) =>
        /\ row[a].ws = NULL \/ row[a].employee = NULL
        /\ LastTo(a, "workstation") \in workstations => row[a].ws = LastTo(a, "workstation")
        /\ LastTo(a, "assignment") \in Employees => row[a].employee = LastTo(a, "assignment")

\* The reason a user gave is on a movement of that request.  Exceptions: the
\* request changed nothing that is logged, and an older movement got the
\* reason; one of the same second did; or requests overlapped on the asset.
ReasonsAreOwn ==
    \A a \in Assets \ disturbed : \A i \in DOMAIN log[a] :
        LET r == log[a][i].reason
            own == {j \in DOMAIN log[a] : log[a][j].by = r}
        IN  r # NULL /\ own # {} =>
                i \in own \/ \E j \in own : j > i /\ \A k \in i+1..j : log[a][k].tied

\* r saves repair p as Returned.
Returns(r, p) ==
    /\ At(r, "repair") /\ job[r].kind = "workflow" /\ job[r].repair = p
    /\ pc'[r] # "repair" /\ job[r].to = "Returned"
    /\ repair'[p] \notin {NULL, repair[p]}

\* A repair's return is on record before the repair is Returned: the asset was
\* Functional when the request read it, or the request has logged the change,
\* whatever else overlaps and wherever the request dies.  Exception: the request
\* did not find the asset, which is hidden, or was until an overlapping one.
ReturnIsLogged ==
    [][\A r \in Requests, p \in Repairs : Returns(r, p) =>
          \/ copy[r] # NULL /\ copy[r].status = "Functional"
          \/ copy[r] = NULL /\ job[r].asset \in hidden \cup disturbed
          \/ \E i \in DOMAIN log[job[r].asset] :
                LET m == log[job[r].asset][i] IN
                m.by = r /\ m.type = "status" /\ m.to = "Functional"]_vars

Made(i) == {a \in Assets : source[a] = i}

Deploying(i) == \E r \in Requests : At(r, "delete") /\ job[r].item = i

\* A reserve item is never lost: it is listed until an asset is made of it or a
\* user deletes it.  It is listed beside its asset, or made into several, only
\* while it is deployed, or if deployments overlapped or died half-way.
ItemOrAsset ==
    \A i \in Items :
        /\ i \in items \/ Made(i) # {} \/ i \in discarded
        /\ i \notin disturbed => (i \in items /\ Made(i) # {} => Deploying(i))
        /\ i \notin disturbed => Cardinality(Made(i)) <= 1

=============================================================================
