----------------------------- MODULE Transitions -----------------------------
(***************************************************************************)
(* Batches of employee moves: POST employees/branch-transition and         *)
(* employees/employee-transition.  The form request validates the batch    *)
(* against the committed tables; later, and in a transaction of its own,   *)
(* the service works through the rows in the order they were sent.  Other  *)
(* requests may run between the two.  The transaction keeps its writes in  *)
(* `wc` until it commits, or loses them.                                   *)
(***************************************************************************)
EXTENDS Workstations, Sequences, Integers

CONSTANT MaxRows    \* bound on the number of rows in a batch

ASSUME MaxRowsPositive == MaxRows \in Nat \ {0}

VARIABLES
    stage,    \* "idle", "accepted" (validated, not begun) or "running"
    kind,     \* "branch" or "employee": which of the two services
    rows,     \* the transitions of the request
    k,        \* the row the foreach loop is at
    wc,       \* the tables as the open transaction sees them
    moved,    \* the employees in the response
    new_workstation_id    \* the workstation the response gives for each of them

batch == <<stage, kind, rows, k, wc, moved, new_workstation_id>>
vars  == <<db, stage, kind, rows, k, wc, moved, new_workstation_id>>

Row == [employee_id       : Employees,
        to_branch_id      : Branches,
        to_position_id    : Positions \cup {NULL},
        to_workstation_id : WorkstationIds \cup {NULL}]

Batches == UNION {[1..n -> Row] : n \in 1..MaxRows}

NoGoal == [e \in Employees |-> NULL]

BatchInit ==
    /\ stage = "idle" /\ kind = "branch" /\ rows = <<>> /\ k = 1
    /\ wc = NULL /\ moved = {} /\ new_workstation_id = NoGoal

TInit == Init /\ BatchInit

-----------------------------------------------------------------------------
(* BranchTransitionRequest and EmployeeTransitionRequest *)

\* The validators read a missing position as the employee's current one.
Destination(t, r) ==
    [branch_id   |-> r.to_branch_id,
     position_id |-> IF r.to_position_id = NULL
                     THEN t.post[r.employee_id].position_id
                     ELSE r.to_position_id]

\* The rules(): ids exist, and employee_id is distinct.
WellFormed(t, rs) ==
    /\ \A i \in DOMAIN rs : /\ rs[i].employee_id \in t.employee
                            /\ rs[i].to_workstation_id \in t.workstations \cup {NULL}
    /\ \A i, j \in DOMAIN rs : rs[i].employee_id = rs[j].employee_id => i = j

\* The current workstation is the first of those loaded, in no given order.
SomethingChanges(t, r) ==
    \/ t.post[r.employee_id] # Destination(t, r)
    \/ \E current \in AnyFirst(HeldBy(t, r.employee_id)) : current # r.to_workstation_id

OthersAt(t, r) ==
    {o \in t.employee \ {r.employee_id} : t.post[o] = Destination(t, r)}

MovesAway(t, rs, o) ==
    \E i \in DOMAIN rs : rs[i].employee_id = o /\ Destination(t, rs[i]) # t.post[o]

\* occupyingEmployee is ->first(): one of the others at the destination.
VacantOrSwap(t, rs, r) ==
    OthersAt(t, r) # {} => \E o \in OthersAt(t, r) : MovesAway(t, rs, o)

\* Mutant of Passes: the loop over the rows stops after the first.
PassesFirstRow(t, kd, rs) ==
    /\ WellFormed(t, rs)
    /\ SomethingChanges(t, rs[1])
    /\ kd = "branch" => VacantOrSwap(t, rs, rs[1])

Passes(t, kd, rs) ==
    /\ WellFormed(t, rs)
    /\ \A i \in DOMAIN rs : /\ SomethingChanges(t, rs[i])
                            /\ kd = "branch" => VacantOrSwap(t, rs, rs[i])

Accept(kd, rs) ==
    /\ stage = "idle"
    /\ Passes(db, kd, rs)
    /\ stage' = "accepted" /\ kind' = kd /\ rows' = rs
    /\ UNCHANGED <<db, k, wc, moved, new_workstation_id>>

-----------------------------------------------------------------------------
(* BranchTransitionService::execute and EmployeeTransitionService::execute *)

\* DB::transaction opens and the employees are locked for update.
Begin ==
    /\ stage = "accepted"
    /\ stage' = "running" /\ k' = 1 /\ wc' = db
    /\ moved' = {} /\ new_workstation_id' = NoGoal
    /\ UNCHANGED <<db, kind, rows>>

\* An employee deleted since validation is skipped (continue).
SkipRow ==
    /\ stage = "running" /\ k \in DOMAIN rows
    /\ rows[k].employee_id \notin wc.employee
    /\ k' = k + 1
    /\ UNCHANGED <<db, stage, kind, rows, wc, moved, new_workstation_id>>

\* The branch service uses to_position_id as sent; only the employee service
\* falls back on the current position.
NewPost(t, kd, r) ==
    IF kd = "employee" THEN Destination(t, r)
    ELSE [branch_id |-> r.to_branch_id, position_id |-> r.to_position_id]

\* Mutant of Released: the post is saved with the vacated workstation only.
ReleasedIfSeated(t, e, post, old) ==
    IF old = NULL THEN t ELSE Vacate([t EXCEPT !.post[e] = post], old)

\* The employee row moves and the old workstation, if any, is vacated.
Released(t, e, post, old) ==
    LET posted == [t EXCEPT !.post[e] = post]
    IN  IF old = NULL THEN posted ELSE Vacate(posted, old)

\* Mutant of Goals: the explicit workstation is trusted since validation.
GoalsUnchecked(t, r, post) ==
    IF r.to_workstation_id = NULL THEN GetOrCreate(t, post.branch_id, post.position_id)
    ELSE {<<r.to_workstation_id, t>>}

\* An explicit workstation must exist (findOrFail); otherwise getOrCreate.
Goals(t, r, post) ==
    IF r.to_workstation_id = NULL THEN GetOrCreate(t, post.branch_id, post.position_id)
    ELSE ({r.to_workstation_id} \cap t.workstations) \X {t}

\* Mutant of OldWorkstation: looked up for all rows before the loop.
OldWorkstationAtBegin(t, e) == AnyFirst(HeldBy(db, e))

\* Looked up in its row's turn: what the rows before it wrote is seen.
OldWorkstation(t, e) == AnyFirst(HeldBy(t, e))

\* One turn of the loop.  employee.position_id is NOT NULL: a row without a
\* position makes the branch service fail, and the batch can only roll back.
MoveRow ==
    /\ stage = "running" /\ k \in DOMAIN rows
    /\ LET r    == rows[k]
           e    == r.employee_id
           post == NewPost(wc, kind, r)
       IN /\ e \in wc.employee
          /\ post.position_id # NULL
          /\ \E old \in OldWorkstation(wc, e) :
             \E goal \in Goals(Released(wc, e, post, old), r, post) :
                /\ wc' = AssignEmployee(goal[2], goal[1], e, TRUE)
                /\ moved' = moved \cup {e}
                /\ new_workstation_id' = [new_workstation_id EXCEPT ![e] =
                      IF AssignRefused(goal[2], goal[1], e, TRUE) THEN NULL ELSE goal[1]]
    /\ k' = k + 1
    /\ UNCHANGED <<db, stage, kind, rows>>

Commit ==
    /\ stage = "running" /\ k > Len(rows)
    /\ db' = wc
    /\ stage' = "idle" /\ rows' = <<>> /\ k' = 1 /\ wc' = NULL
    /\ UNCHANGED <<kind, moved, new_workstation_id>>

\* Any exception, of a row or of the database, undoes the whole batch.
Rollback ==
    /\ stage = "running"
    /\ stage' = "idle" /\ rows' = <<>> /\ k' = 1 /\ wc' = NULL
    /\ moved' = {} /\ new_workstation_id' = NoGoal
    /\ UNCHANGED <<db, kind>>

-----------------------------------------------------------------------------
BatchStep ==
    \/ stage = "idle" /\ \E kd \in {"branch", "employee"}, rs \in Batches : Accept(kd, rs)
    \/ Begin
    \/ SkipRow
    \/ MoveRow
    \/ Commit
    \/ Rollback

OtherRequest == stage # "running" /\ Request /\ UNCHANGED batch

Next == BatchStep \/ OtherRequest

TSpec == TInit /\ [][Next]_vars

-----------------------------------------------------------------------------
(* What the loop has done so far: the invariant behind the properties.      *)

\* No employee has two rows.
DistinctRows ==
    \A i, j \in DOMAIN rows : rows[i].employee_id = rows[j].employee_id => i = j

\* The employees whose rows the loop has finished.
Finished == {rows[i].employee_id : i \in 1..(k - 1)}

\* The workstations the finished rows have filled.
Filled == {new_workstation_id[e] : e \in moved} \ {NULL}

\* A filled workstation holds an employee who was sent to it; any other is as
\* it was, or vacated by a moved employee, who has left a seat held alone.
SeatsSoFar ==
    /\ moved \subseteq Finished
    /\ \A w \in Filled : /\ wc.employee_id[w] \in moved
                         /\ new_workstation_id[wc.employee_id[w]] = w
    /\ \A w \in WorkstationIds \ Filled :
          \/ wc.employee_id[w] = db.employee_id[w]
          \/ db.employee_id[w] \in moved /\ wc.employee_id[w] = NULL
    /\ \A e \in moved : \A w \in WorkstationIds \ Filled :
          (\A v \in WorkstationIds : db.employee_id[v] = e <=> v = w)
             => wc.employee_id[w] = NULL

\* Finished employees stand at the post of their row, the others where they were.
PostsSoFar ==
    /\ wc.employee = db.employee
    /\ \A i \in DOMAIN rows : LET e == rows[i].employee_id IN
          e \in db.employee =>
             wc.post[e] = IF i < k THEN NewPost(db, kind, rows[i]) ELSE db.post[e]
    /\ \A e \in db.employee :
          (\A i \in DOMAIN rows : rows[i].employee_id # e) => wc.post[e] = db.post[e]

BatchInvariant ==
    /\ stage # "idle" => DistinctRows
    /\ stage = "running" =>
          /\ SeatsSoFar
          /\ PostsSoFar
          /\ \A w \in WorkstationIds, e \in Employees :
                ListedAt(db, w, e) => ListedAt(wc, w, e)

-----------------------------------------------------------------------------
(* Properties *)

TransitionsTypeOK ==
    /\ TypeOK
    /\ stage \in {"idle", "accepted", "running"}
    /\ kind \in {"branch", "employee"}
    /\ rows \in IF stage = "idle" THEN {<<>>} ELSE Batches
    /\ k \in 1..(Len(rows) + 1)
    /\ IF stage = "running" THEN wc \in Tables /\ ReferencesResolve(wc) ELSE wc = NULL
    /\ moved \subseteq Employees
    /\ new_workstation_id \in [Employees -> WorkstationIds \cup {NULL}]

\* Working through the rows in order, each row looking up its old workstation
\* among what the earlier rows left, is the same as moving everyone at once:
\* swaps, rotations and chains come out whatever the order, and the response
\* names the workstation each employee really got.
Plan == INSTANCE SeatingPlan
            WITH seat <- db.employee_id, moved <- moved, goal <- new_workstation_id
ImplementsSeatingPlan == Plan!Spec

\* Nobody shares a post.
PostsExclusive(emps, post) ==
    \A e, f \in emps : post[e] = post[f] => e = f

DistinctDestinations(t, rs) ==
    \A i, j \in DOMAIN rs : Destination(t, rs[i]) = Destination(t, rs[j]) => i = j

\* A branch batch that would still pass validation when it commits, that names
\* no post twice and meets tables in which nobody shares a post, leaves nobody
\* sharing one: checking each row alone against the present holder of its
\* destination is enough for swaps and longer rotations.
BranchBatchKeepsPostsExclusive ==
    [][(/\ stage = "running" /\ stage' = "idle" /\ kind = "branch"
        /\ Passes(db, kind, rows)
        /\ DistinctDestinations(db, rows)
        /\ PostsExclusive(db.employee, db.post))
       => PostsExclusive(db'.employee, db'.post)]_vars

=============================================================================
