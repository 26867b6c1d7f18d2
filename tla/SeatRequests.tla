---------------------------- MODULE SeatRequests ----------------------------
(***************************************************************************)
(* The requests that seat employees, statement by statement.  Each runs in *)
(* a transaction of its own (DB::transaction, PostgreSQL READ COMMITTED):  *)
(* a SELECT sees the committed tables and the transaction's own writes; an *)
(* UPDATE locks the row until the transaction ends; lockForUpdate locks an *)
(* employee against other lockForUpdates and against the foreign-key check *)
(* of somebody else's workstations.employee_id.  Only the transition       *)
(* services call lockForUpdate; nobody locks a workstation before reading. *)
(* Workstations and employees are neither created nor deleted here.        *)
(***************************************************************************)
EXTENDS Naturals, Sequences

CONSTANTS Employees, WorkstationIds, Requests, NULL

ASSUME NullIsNoEmployee == NULL \notin Employees \cup WorkstationIds

VARIABLES
    employee_id,           \* committed: the seat column of each workstation
    employee_workstation,  \* committed: the pivot
    program,    \* what each request is to do
    pc,         \* the statement each request is at
    k,          \* the row of the batch it is at
    old,        \* $oldWorkstation of that row, as read
    written,    \* its uncommitted seats: a function on the rows it has locked
    listed,     \* its uncommitted pivot rows
    locked,     \* the employees it holds FOR UPDATE
    checked     \* the employees it holds FOR KEY SHARE

vars == <<employee_id, employee_workstation, program, pc, k, old, written, listed,
          locked, checked>>

committed == <<employee_id, employee_workstation>>
holdings  == <<written, listed, locked, checked>>

\* A move names an employee and a workstation.  A transition is a batch of them,
\* and has one row at least.
Move     == [employee: Employees, workstation: WorkstationIds]
Programs == [kind: {"transition"}, rows: Seq(Move) \ {<<>>}]
            \cup [kind: {"assign", "unassign"}, rows: {<<m>> : m \in Move}]

Unlocked == [w \in {} |-> NULL]

InitWith(seats, programs) ==
    /\ employee_id = seats
    /\ employee_workstation = {p \in Employees \X WorkstationIds : seats[p[2]] = p[1]}
    /\ program = programs
    /\ pc = [r \in Requests |->
                IF programs[r].kind = "transition" THEN "lock" ELSE "read"]
    /\ k = [r \in Requests |-> 1]
    /\ old = [r \in Requests |-> NULL]
    /\ written = [r \in Requests |-> Unlocked]
    /\ listed = [r \in Requests |-> {}]
    /\ locked = [r \in Requests |-> {}]
    /\ checked = [r \in Requests |-> {}]

\* Seats that requests alone have left: the column lets an employee have two,
\* but nobody starts with more than one here.
OneSeatEach(seats) ==
    \A v, w \in WorkstationIds : seats[v] = seats[w] => v = w \/ seats[v] = NULL

Init ==
    \E seats \in [WorkstationIds -> Employees \cup {NULL}], programs \in [Requests -> Programs] :
        OneSeatEach(seats) /\ InitWith(seats, programs)

-----------------------------------------------------------------------------
(* Snapshots and locks *)

kind(r) == program[r].kind
row(r)  == program[r].rows[k[r]]

Batch(r) == {program[r].rows[i].employee : i \in DOMAIN program[r].rows}

\* What a SELECT of request r finds in the seat column of w.
Sees(r, w) == IF w \in DOMAIN written[r] THEN written[r][w] ELSE employee_id[w]

Others(r) == Requests \ {r}

SeatHolders(r, w)   == {q \in Others(r) : w \in DOMAIN written[q]}
UpdateHolders(r, e) == {q \in Others(r) : e \in locked[q] \cup checked[q]}
ShareHolders(r, e)  == {q \in Others(r) : e \in locked[q]}

\* UPDATE workstations SET employee_id = e WHERE id = w: whatever w holds now.
Write(r, w, e) ==
    /\ SeatHolders(r, w) = {}
    /\ written' = [written EXCEPT ![r] =
          [v \in DOMAIN @ \cup {w} |-> IF v = w THEN e ELSE @[v]]]

Goto(r, label) == pc' = [pc EXCEPT ![r] = label]

\* The row is done: on to the next one, or to the end of the transaction.
NextRow(r) ==
    /\ k' = [k EXCEPT ![r] = @ + 1]
    /\ Goto(r, IF k[r] < Len(program[r].rows) THEN "look" ELSE "commit")

-----------------------------------------------------------------------------
(* BranchTransitionService::execute, EmployeeTransitionService::execute *)

\* Mutant of MayLock: SELECT without FOR UPDATE.
MayLockWithoutLock(r, e) == TRUE

\* FOR UPDATE waits for every other lock on the employee.
MayLock(r, e) == UpdateHolders(r, e) = {}

\* Employee::whereIn(...)->lockForUpdate(): one row after another, in no set order.
LockEmployee(r) ==
    /\ pc[r] = "lock"
    /\ \E e \in Batch(r) \ locked[r] :
          /\ MayLock(r, e)
          /\ locked' = [locked EXCEPT ![r] = @ \cup {e}]
          /\ Goto(r, IF Batch(r) \subseteq locked[r] \cup {e} THEN "look" ELSE "lock")
    /\ UNCHANGED <<committed, program, k, old, written, listed, checked>>

\* Workstation::where('employee_id', $employee->id)->first()
LookUpOld(r) ==
    /\ pc[r] = "look"
    /\ LET found == {w \in WorkstationIds : Sees(r, w) = row(r).employee}
       IN  IF found = {}
           THEN old' = [old EXCEPT ![r] = NULL] /\ Goto(r, "read")
           ELSE (\E w \in found : old' = [old EXCEPT ![r] = w]) /\ Goto(r, "release")
    /\ UNCHANGED <<committed, program, k, holdings>>

\* $oldWorkstation->employee_id = null; save()
Release(r) ==
    /\ pc[r] = "release"
    /\ Write(r, old[r], NULL)
    /\ Goto(r, "read")
    /\ UNCHANGED <<committed, program, k, old, listed, locked, checked>>

-----------------------------------------------------------------------------
(* WorkstationService::assignEmployee and unassignEmployee *)

\* success => false: already there; occupied, and not forced; not there.
Refuses(r, seen) ==
    CASE kind(r) = "transition" -> seen = row(r).employee
      [] kind(r) = "assign"     -> seen # NULL
      [] kind(r) = "unassign"   -> seen # row(r).employee

\* Workstation::findOrFail and the checks on what it returned.
ReadSeat(r) ==
    /\ pc[r] = "read"
    /\ IF Refuses(r, Sees(r, row(r).workstation))
       THEN NextRow(r)
       ELSE Goto(r, "write") /\ UNCHANGED k
    /\ UNCHANGED <<committed, program, old, holdings>>

\* save() and the pivot row, which no other request touches while this one
\* holds the workstation's row.  The batch holds its employees already.
Seat(r) ==
    /\ pc[r] = "write" /\ kind(r) # "unassign"
    /\ Write(r, row(r).workstation, row(r).employee)
    /\ listed' = [listed EXCEPT ![r] = @ \cup {<<row(r).employee, row(r).workstation>>}]
    /\ IF kind(r) = "transition"
       THEN NextRow(r)
       ELSE Goto(r, "check") /\ UNCHANGED k
    /\ UNCHANGED <<committed, program, old, locked, checked>>

\* The foreign key of the column: FOR KEY SHARE on the employee, with the
\* workstation's row locked.
CheckEmployee(r) ==
    /\ pc[r] = "check"
    /\ ShareHolders(r, row(r).employee) = {}
    /\ checked' = [checked EXCEPT ![r] = @ \cup {row(r).employee}]
    /\ NextRow(r)
    /\ UNCHANGED <<committed, program, old, written, listed, locked>>

Unseat(r) ==
    /\ pc[r] = "write" /\ kind(r) = "unassign"
    /\ Write(r, row(r).workstation, NULL)
    /\ NextRow(r)
    /\ UNCHANGED <<committed, program, old, listed, locked, checked>>

-----------------------------------------------------------------------------
(* The end of the transaction *)

LetGo(r) ==
    /\ Goto(r, "done")
    /\ written' = [written EXCEPT ![r] = Unlocked]
    /\ listed' = [listed EXCEPT ![r] = {}]
    /\ locked' = [locked EXCEPT ![r] = {}]
    /\ checked' = [checked EXCEPT ![r] = {}]

\* Mutant of Unlisted: detached whatever the check of the seat said.
UnlistedAnyway(r) ==
    IF kind(r) = "unassign"
    THEN {<<program[r].rows[1].employee, program[r].rows[1].workstation>>}
    ELSE {}

\* The pivot rows a request removes: those of a successful unassignment.
Unlisted(r) ==
    IF kind(r) = "unassign" /\ DOMAIN written[r] # {}
    THEN {<<program[r].rows[1].employee, program[r].rows[1].workstation>>}
    ELSE {}

Commit(r) ==
    /\ pc[r] = "commit"
    /\ employee_id' = [w \in WorkstationIds |-> Sees(r, w)]
    /\ employee_workstation' = (employee_workstation \ Unlisted(r)) \cup listed[r]
    /\ LetGo(r)
    /\ UNCHANGED <<program, k, old>>

\* r waits for a lock of q.
Waits(r, q) ==
    \/ pc[r] = "lock"    /\ \E e \in Batch(r) \ locked[r] : q \in UpdateHolders(r, e)
    \/ pc[r] = "release" /\ q \in SeatHolders(r, old[r])
    \/ pc[r] = "write"   /\ q \in SeatHolders(r, row(r).workstation)
    \/ pc[r] = "check"   /\ q \in ShareHolders(r, row(r).employee)

\* Mutant of OnWaitingCycle: the server has no deadlock detection.
OnNoCycle(r) == FALSE

OnWaitingCycle(r) ==
    \E cycle \in SUBSET Requests :
        /\ r \in cycle
        /\ \A q \in cycle : /\ \E p \in cycle : Waits(q, p)
                            /\ \E p \in cycle : Waits(p, q)

\* PostgreSQL picks one of the transactions that wait for each other; the
\* exception rolls everything of it back, and the request is answered 500.
Abort(r) ==
    /\ OnWaitingCycle(r)
    /\ LetGo(r)
    /\ UNCHANGED <<committed, program, k, old>>

-----------------------------------------------------------------------------
Step(r) ==
    \/ LockEmployee(r)
    \/ LookUpOld(r)
    \/ Release(r)
    \/ ReadSeat(r)
    \/ Seat(r)
    \/ CheckEmployee(r)
    \/ Unseat(r)
    \/ Commit(r)
    \/ Abort(r)

Next == \E r \in Requests : Step(r)

Spec == Init /\ [][Next]_vars

-----------------------------------------------------------------------------
(* Properties *)

TypeOK ==
    /\ employee_id \in [WorkstationIds -> Employees \cup {NULL}]
    /\ employee_workstation \subseteq Employees \X WorkstationIds
    /\ program \in [Requests -> Programs]
    /\ pc \in [Requests -> {"lock", "look", "release", "read", "write", "check",
                            "commit", "done"}]
    /\ \A r \in Requests : k[r] \in 1..(Len(program[r].rows) + 1)
    /\ old \in [Requests -> WorkstationIds \cup {NULL}]
    /\ \A r \in Requests :
          /\ DOMAIN written[r] \subseteq WorkstationIds
          /\ \A w \in DOMAIN written[r] : written[r][w] \in Employees \cup {NULL}
          /\ listed[r] \subseteq Employees \X WorkstationIds
          /\ locked[r] \cup checked[r] \subseteq Employees

\* Whoever is committed to a seat is in the pivot, however the statements of
\* the requests interleave: the pivot follows the column under the row's lock.
SeatedAreListed ==
    \A w \in WorkstationIds :
        employee_id[w] # NULL => <<employee_id[w], w>> \in employee_workstation

\* An employee who is only moved by transitions has one seat at most: whoever
\* looks up the employee's old seat holds the employee, until the new one is
\* committed.
MovedHaveOneSeat ==
    \A v, w \in WorkstationIds :
        (/\ v # w /\ employee_id[v] # NULL
         /\ \A r \in Requests : kind(r) = "assign" => employee_id[v] \notin Batch(r))
        => employee_id[v] # employee_id[w]

\* Every request ends: what waits for locks in a circle is broken up.
EveryRequestEnds == \A r \in Requests : <>(pc[r] = "done")

\* INTEGRATION_COMPLETE.md: "Concurrent transitions (database locks prevent
\* conflicts)".  A batch leaves a workstation empty only if one of its own
\* employees sat there.
OnlyOwnSeatsReleased ==
    [][\A r \in Requests : (pc[r] = "commit" /\ pc'[r] = "done" /\ kind(r) = "transition") =>
          \A w \in WorkstationIds :
             (employee_id[w] # NULL /\ employee_id'[w] = NULL) => employee_id[w] \in Batch(r)]_vars

=============================================================================
