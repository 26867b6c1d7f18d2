------------------------------ MODULE AssetAging ------------------------------
(***************************************************************************)
(* How an asset grows old: New becomes Functional thirty days after its    *)
(* purchase, by whichever request reads it next; Defective sets a deadline *)
(* one month ahead, after which every query hides the asset and the hourly *)
(* cleanup:expired-defective-assets deletes it.  Requests are split at the *)
(* statements where others can come in between: the SELECT that hydrates   *)
(* the model, the writes of AssetObserver::retrieved, and those of save(). *)
(* A save writes only the columns that differ from the model as it was     *)
(* read.  Time is counted in months.  Workers do not die half-way.         *)
(***************************************************************************)
EXTENDS Integers, Sequences, FiniteSets

CONSTANTS
    Assets,     \* ids: the clean-up pages through them in this order
    Requests,   \* each is served once
    Statuses,   \* names of the status table
    NULL,
    ChunkSize,  \* 50 in the code
    MaxNow      \* bound on the months that pass

ASSUME AssetsAreIds == Assets \subseteq Nat \ {0} /\ IsFiniteSet(Assets)
ASSUME StatusNames  == {"New", "Functional", "Defective"} \subseteq Statuses
ASSUME NullIsNoName == NULL \notin Statuses /\ NULL \notin Nat
ASSUME Bounds       == ChunkSize \in Nat \ {0} /\ MaxNow \in Nat

VARIABLES
    now,         \* the month
    due,         \* the month from which purchase_date + 30 days is past, or Never
    row,         \* the assets table: status and delete_after_at, or NULL
    logged,      \* the statuses that an asset's movements say it has reached
    pc,          \* the statement each request is at
    asset,       \* the asset it is about
    copy,        \* the model as it was read, and whether it is to be aged
    target,      \* the status it is to set (NULL: it only reads)
    page,        \* the page the clean-up is to fetch
    todo,        \* what is left of the page before
    overlapped   \* history: two requests were at work on the asset at once

table == <<row, logged>>
request == <<pc, asset, copy, target>>
vars == <<now, due, row, logged, pc, asset, copy, target, page, todo, overlapped>>

Never == MaxNow + 1    \* without a purchase_date

Row == [status: Statuses, delete_after_at: Nat \cup {NULL}]
Model == [status: Statuses, delete_after_at: Nat \cup {NULL}, auto: BOOLEAN]

ASSUME NullIsNoRow == NULL \notin Row /\ NULL \notin Model

Init ==
    /\ now = 0
    /\ due \in [Assets -> {0, 1, Never}]
    /\ row \in [Assets -> {[status |-> s, delete_after_at |-> NULL] : s \in Statuses}]
    /\ logged = [a \in Assets |-> {row[a].status}]
    /\ pc = [r \in Requests |-> "idle"]
    /\ asset = [r \in Requests |-> NULL]
    /\ copy = [r \in Requests |-> NULL]
    /\ target = [r \in Requests |-> NULL]
    /\ page = 1 /\ todo = <<>>
    /\ overlapped = [a \in Assets |-> FALSE]

-----------------------------------------------------------------------------
(* The model *)

Expired(a) == row[a].delete_after_at # NULL /\ row[a].delete_after_at <= now

\* The global scope hide_expired_defective.
Visible(a) == row[a] # NULL /\ ~Expired(a)

\* shouldTransitionToFunctional
ShouldAge(a) == row[a].status = "New" /\ due[a] <= now

\* Mutant of Deadline: whatever the new status is.
DeadlineAlways(s) == now + 1

\* What AssetObserver::updating computes when status_id is dirty.
Deadline(s) == IF s = "Defective" THEN now + 1 ELSE NULL

\* Mutant of Updated: only a Defective status touches the deadline.
UpdatedKeepingDeadline(stored, read, s) ==
    [status |-> s,
     delete_after_at |-> IF s = "Defective" THEN Deadline(s) ELSE stored.delete_after_at]

\* UPDATE of the columns in which the model differs from what was read.
Updated(stored, read, s) ==
    [status |-> s,
     delete_after_at |-> IF Deadline(s) = read.delete_after_at
                         THEN stored.delete_after_at
                         ELSE Deadline(s)]

-----------------------------------------------------------------------------
(* Requests *)

At(r, label) == pc[r] = label

End(r) ==
    /\ pc' = [pc EXCEPT ![r] = "done"]
    /\ asset' = [asset EXCEPT ![r] = NULL]
    /\ copy' = [copy EXCEPT ![r] = NULL]
    /\ target' = [target EXCEPT ![r] = NULL]

Goto(r, label) == pc' = [pc EXCEPT ![r] = label] /\ UNCHANGED <<asset, copy, target>>

\* Asset::find.  A request for status s saves each statement at once, or all
\* of them in a transaction; a request without s is any other that reads the asset.
Retrieve(r, a, s, transaction) ==
    /\ At(r, "idle")
    /\ Visible(a)
    /\ s = NULL => ShouldAge(a) /\ ~transaction
    /\ pc' = [pc EXCEPT ![r] = IF transaction THEN "transaction"
                               ELSE IF ShouldAge(a) THEN "age" ELSE "save"]
    /\ asset' = [asset EXCEPT ![r] = a]
    /\ copy' = [copy EXCEPT ![r] = [status          |-> row[a].status,
                                    delete_after_at |-> row[a].delete_after_at,
                                    auto            |-> ShouldAge(a)]]
    /\ target' = [target EXCEPT ![r] = s]
    /\ overlapped' = [overlapped EXCEPT ![a] = @ \/ \E q \in Requests \ {r} : asset[q] = a]
    /\ UNCHANGED <<now, due, table, page, todo>>

\* Mutant of AgeMovement: the movement is left to the observer, which
\* saveQuietly never calls.
AgeMovementUnwritten(a) == {}

\* The movement of the automatic transition: of an asset deleted meanwhile its
\* foreign key refuses it, and the exception is swallowed.
AgeMovement(a) == {"Functional"}

\* transitionToFunctional: AssetMovement::create.
LogAge(r) ==
    /\ At(r, "age")
    /\ LET a == asset[r] IN
       IF row[a] # NULL
       THEN /\ logged' = [logged EXCEPT ![a] = @ \cup AgeMovement(a)]
            /\ Goto(r, "age_save")
       ELSE /\ IF target[r] = NULL THEN End(r) ELSE Goto(r, "save")
            /\ UNCHANGED logged
    /\ UNCHANGED <<now, due, row, page, todo, overlapped>>

AfterAge(r) == IF target[r] = NULL THEN "done" ELSE "save"

\* saveQuietly: the status column only, and no events.
SaveAge(r) ==
    /\ At(r, "age_save")
    /\ LET a == asset[r] IN
       row' = IF row[a] = NULL THEN row ELSE [row EXCEPT ![a].status = "Functional"]
    /\ IF AfterAge(r) = "done"
       THEN End(r)
       ELSE /\ pc' = [pc EXCEPT ![r] = AfterAge(r)]
            /\ copy' = [copy EXCEPT ![r].status = "Functional"]
            /\ UNCHANGED <<asset, target>>
    /\ UNCHANGED <<now, due, logged, page, todo, overlapped>>

\* save(): nothing if the model is not dirty; no row if it was deleted.
Save(r) ==
    /\ At(r, "save")
    /\ LET a == asset[r] IN
       IF target[r] = copy[r].status
       THEN UNCHANGED row /\ End(r)
       ELSE /\ row' = IF row[a] = NULL THEN row
                      ELSE [row EXCEPT ![a] = Updated(@, copy[r], target[r])]
            /\ Goto(r, "log")
    /\ UNCHANGED <<now, due, logged, page, todo, overlapped>>

\* AssetObserver::updated, trackStatusChange; refused for a deleted asset.
LogStatus(r) ==
    /\ At(r, "log")
    /\ LET a == asset[r] IN
       logged' = IF row[a] = NULL THEN logged
                 ELSE [logged EXCEPT ![a] = @ \cup {target[r]}]
    /\ End(r)
    /\ UNCHANGED <<now, due, row, page, todo, overlapped>>

\* AssetMovementController::updateStatus: all of the above, visible to others
\* at its commit.  If the asset is gone a movement fails, and everything with it.
CommitStatus(r) ==
    /\ At(r, "transaction")
    /\ LET a     == asset[r]
           model == IF copy[r].auto THEN [copy[r] EXCEPT !.status = "Functional"] ELSE copy[r]
           dirty == target[r] # model.status
           aged  == IF copy[r].auto THEN [row[a] EXCEPT !.status = "Functional"] ELSE row[a]
       IN  IF row[a] = NULL
           THEN UNCHANGED table
           ELSE /\ row' = [row EXCEPT ![a] =
                              IF dirty THEN Updated(aged, model, target[r]) ELSE aged]
                /\ logged' = [logged EXCEPT ![a] =
                      @ \cup (IF copy[r].auto THEN AgeMovement(a) ELSE {})
                        \cup (IF dirty THEN {target[r]} ELSE {})]
    /\ End(r)
    /\ UNCHANGED <<now, due, page, todo, overlapped>>

-----------------------------------------------------------------------------
(* CleanupExpiredDefectiveAssets *)

\* Mutant of ToDelete: under the global scope, as assets:delete-defective asks.
ToDeleteInScope == {a \in Assets : Visible(a) /\ Expired(a)}

ToDelete == {a \in Assets : row[a] # NULL /\ Expired(a)}

\* The p-th page of the ids in S: chunk() orders by id and pages by offset.
Page(S, p) ==
    LET rank(a) == Cardinality({b \in S : b < a})
        onPage  == {a \in S : rank(a) \div ChunkSize = p - 1}
    IN  [i \in 1..Cardinality(onPage) |->
            CHOOSE a \in onPage : Cardinality({b \in onPage : b < a}) = i - 1]

\* One SELECT.  Hydrating the rows ages them like any other read.  After a
\* short or an empty page the command ends, and the schedule starts it again.
FetchPage ==
    LET found == Page(ToDelete, page)
        aged  == {a \in Assets : (\E i \in DOMAIN found : found[i] = a) /\ ShouldAge(a)}
    IN  /\ todo = <<>>
        /\ todo' = found
        /\ page' = IF Len(found) < ChunkSize THEN 1 ELSE page + 1
        /\ row' = [a \in Assets |->
                      IF a \in aged THEN [row[a] EXCEPT !.status = "Functional"] ELSE row[a]]
        /\ logged' = [a \in Assets |->
                      logged[a] \cup (IF a \in aged THEN AgeMovement(a) ELSE {})]
        /\ UNCHANGED <<now, due, request, overlapped>>

\* $asset->delete() of the model as it was read; its movements cascade.
DeleteFetched ==
    /\ todo # <<>>
    /\ row' = [row EXCEPT ![Head(todo)] = NULL]
    /\ logged' = [logged EXCEPT ![Head(todo)] = {}]
    /\ todo' = Tail(todo)
    /\ UNCHANGED <<now, due, request, page, overlapped>>

CleanUp == FetchPage \/ DeleteFetched

Tick ==
    /\ now < MaxNow
    /\ now' = now + 1
    /\ UNCHANGED <<due, table, request, page, todo, overlapped>>

-----------------------------------------------------------------------------
Step(r) ==
    \/ \E a \in Assets, s \in Statuses \cup {NULL}, transaction \in BOOLEAN :
          Retrieve(r, a, s, transaction)
    \/ LogAge(r)
    \/ SaveAge(r)
    \/ Save(r)
    \/ LogStatus(r)
    \/ CommitStatus(r)

Next == (\E r \in Requests : Step(r)) \/ CleanUp \/ Tick

Spec == Init /\ [][Next]_vars /\ WF_vars(CleanUp)

-----------------------------------------------------------------------------
(* Properties *)

\* Whoever has something to save has a status to save, and a model to compare
\* it with; a deleted asset has no movements.
TypeOK ==
    /\ now \in 0..MaxNow
    /\ due \in [Assets -> {0, 1, Never}]
    /\ row \in [Assets -> Row \cup {NULL}]
    /\ logged \in [Assets -> SUBSET Statuses]
    /\ \A a \in Assets : row[a] = NULL => logged[a] = {}
    /\ pc \in [Requests -> {"idle", "age", "age_save", "save", "log", "transaction", "done"}]
    /\ \A r \in Requests :
          IF pc[r] \in {"idle", "done"}
          THEN asset[r] = NULL /\ copy[r] = NULL /\ target[r] = NULL
          ELSE /\ asset[r] \in Assets /\ copy[r] \in Model
               /\ target[r] \in Statuses \/ (target[r] = NULL /\ pc[r] \in {"age", "age_save"})
    /\ page \in Nat \ {0}
    /\ todo \in Seq(Assets)
    /\ overlapped \in [Assets -> BOOLEAN]

AboutToLog(a, s) == \E r \in Requests : At(r, "log") /\ asset[r] = a /\ target[r] = s

\* The movement log explains the status: however requests overlap, an asset is
\* in no status that none of its movements reports, except for the moment
\* between a save and its observer's movement.
StatusIsLogged ==
    \A a \in Assets : row[a] # NULL =>
        row[a].status \in logged[a] \/ AboutToLog(a, row[a].status)

\* A deadline is kept without a Defective status only if two requests were at
\* work on the asset at the same time.
DeadlineOnlyWhileDefective ==
    \A a \in Assets :
        (row[a] # NULL /\ row[a].delete_after_at # NULL /\ ~overlapped[a])
            => row[a].status = "Defective"

\* The command deletes nothing that was never marked Defective.
OnlyMarkedAreDeleted ==
    [][\A a \in Assets : (row[a] # NULL /\ row'[a] = NULL) =>
          "Defective" \in logged[a] \/ AboutToLog(a, "Defective")]_vars

\* Every asset past its deadline is deleted, or rescued by a request that had
\* read it before: the pages the command skips are left to its next run.
ExpiredGo ==
    \A a \in Assets : (row[a] # NULL /\ Expired(a)) ~> (row[a] = NULL \/ ~Expired(a))

\* Asset.php: "Automatically exclude expired defective assets from queries".
\* What the scope hides is defective.
HiddenAreDefective ==
    \A a \in Assets : (row[a] # NULL /\ Expired(a)) => row[a].status = "Defective"

=============================================================================
