-------------------------- MODULE WorkstationTables --------------------------
(***************************************************************************)
(* The PostgreSQL tables behind the workstation feature, as one record,    *)
(* and what each method of WorkstationService does to them.  A method that *)
(* runs inside one database transaction is an operator from the tables     *)
(* before it to the tables after it, so the single requests (module        *)
(* Workstations) and the row-by-row transition batch (module Transitions)  *)
(* use the same definitions.                                               *)
(***************************************************************************)
CONSTANTS
    Employees,       \* ids of the employee table
    WorkstationIds,  \* ids the workstations sequence can hand out
    Branches,        \* ids of the branch table
    Positions,       \* ids of the position table
    NULL             \* SQL NULL

ASSUME NullIsNoId ==
    NULL \notin Employees \cup WorkstationIds \cup Branches \cup Positions

-----------------------------------------------------------------------------
(* Row shapes.  An employee row has both a branch and a position (columns   *)
(* NOT NULL); a workstation row always has a branch.                        *)

Post    == [branch_id: Branches, position_id: Positions]
Spot    == [branch_id: Branches, position_id: Positions \cup {NULL}]
Nowhere == [branch_id |-> NULL, position_id |-> NULL]   \* of an absent row

Tables ==
    [employee             : SUBSET Employees,
     post                 : [Employees -> Post \cup {Nowhere}],
     workstations         : SUBSET WorkstationIds,
     spot                 : [WorkstationIds -> Spot \cup {Nowhere}],
     employee_id          : [WorkstationIds -> Employees \cup {NULL}],
     employee_workstation : SUBSET (Employees \X WorkstationIds)]

\* Workstation::where('employee_id', $employee->id): there may be several.
HeldBy(t, e) == {w \in t.workstations : t.employee_id[w] = e}

\* What ->first() without an ORDER BY may return: any row of the result, or null.
AnyFirst(S) == IF S = {} THEN {NULL} ELSE S

-----------------------------------------------------------------------------
(* WorkstationService *)

\* createFromBranchPosition: the row, with employee_ids[0] (`primary`) as its
\* employee, and a pivot row for every id of the list (`members`).
CreateFromBranchPosition(t, w, b, p, primary, members) ==
    [t EXCEPT !.workstations         = @ \cup {w},
              !.spot[w]              = [branch_id |-> b, position_id |-> p],
              !.employee_id[w]       = primary,
              !.employee_workstation = @ \cup (members \X {w})]

\* Mutant of AssignRefused: without the check that somebody sits there.
AssignRefusedIfSeated(t, w, e, force) == t.employee_id[w] = e

\* assignEmployee answers success => false and writes nothing.
AssignRefused(t, w, e, force) ==
    \/ t.employee_id[w] = e
    \/ ~force /\ t.employee_id[w] # NULL

\* Mutant of Seat: without the pivot row.
SeatColumnOnly(t, w, e) == [t EXCEPT !.employee_id[w] = e]

\* The writes of assignEmployee: the column, and syncWithoutDetaching, which
\* adds the pair and leaves the pairs of earlier occupants where they are.
Seat(t, w, e) ==
    [t EXCEPT !.employee_id[w]       = e,
              !.employee_workstation = @ \cup {<<e, w>>}]

AssignEmployee(t, w, e, force) ==
    IF AssignRefused(t, w, e, force) THEN t ELSE Seat(t, w, e)

\* $workstation->employee_id = null; save().  The transition services stop
\* here and keep the pivot row; unassignEmployee also detaches it.
Vacate(t, w) == [t EXCEPT !.employee_id[w] = NULL]

UnassignEmployee(t, w, e) ==
    [Vacate(t, w) EXCEPT !.employee_workstation = @ \ {<<e, w>>}]

\* getOrCreate: the pairs <<workstation returned, tables afterwards>> that are
\* possible.  A created workstation gets an unused id and no employee.
GetOrCreate(t, b, p) ==
    LET matches == {w \in t.workstations :
                        t.spot[w] = [branch_id |-> b, position_id |-> p]}
    IN  IF matches # {}
        THEN matches \X {t}
        ELSE {<<w, CreateFromBranchPosition(t, w, b, p, NULL, {})>> :
                w \in WorkstationIds \ t.workstations}

=============================================================================
