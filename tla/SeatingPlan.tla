----------------------------- MODULE SeatingPlan -----------------------------
(***************************************************************************)
(* What the transition services promise, stated without tables, rows or    *)
(* order: a batch reseats all its employees at once, and the response says *)
(* who was moved where.  Module Transitions implements it by working       *)
(* through the batch one row after another.                                *)
(***************************************************************************)
CONSTANTS Employees, WorkstationIds, NULL

VARIABLES
    seat,     \* who sits at each workstation
    moved,    \* the employees in the last response
    goal      \* the workstation it gives each of them

response == <<moved, goal>>

Seats == [WorkstationIds -> Employees \cup {NULL}]
Goals == [Employees -> WorkstationIds \cup {NULL}]

Init == seat \in Seats /\ moved \in SUBSET Employees /\ goal \in Goals

\* Ordinary requests fill vacant seats or clear occupied ones.
Fill ==
    /\ seat' \in Seats
    /\ \A w \in WorkstationIds : seat'[w] # seat[w] => seat[w] = NULL
    /\ UNCHANGED response

Clear ==
    /\ seat' \in Seats
    /\ \A w \in WorkstationIds : seat'[w] # seat[w] => seat'[w] = NULL
    /\ UNCHANGED response

\* A response is prepared.  Nobody has moved yet.
Compose ==
    /\ moved' \in SUBSET Employees /\ goal' \in Goals
    /\ UNCHANGED seat

\* The batch moves the employees in `moved`, each to the workstation goal[e]
\* (NULL: e keeps a seat held already).  A workstation that is somebody's goal
\* is occupied by such an employee; any other workstation keeps its occupant,
\* or loses one who moved.  Whoever moved from their only seat has left it.
Reseat ==
    LET targets == {goal[e] : e \in moved} \ {NULL}
    IN  /\ seat' \in Seats
        /\ \A w \in targets : seat'[w] \in moved /\ goal[seat'[w]] = w
        /\ \A w \in WorkstationIds \ targets :
              \/ seat'[w] = seat[w]
              \/ seat[w] \in moved /\ seat'[w] = NULL
        /\ \A e \in moved : \A w \in WorkstationIds \ targets :
              (\A v \in WorkstationIds : seat[v] = e <=> v = w) => seat'[w] = NULL
        /\ UNCHANGED response

Next == Fill \/ Clear \/ Compose \/ Reseat

Spec == Init /\ [][Next]_<<seat, moved, goal>>

=============================================================================
