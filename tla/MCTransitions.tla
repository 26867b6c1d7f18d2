---------------------------- MODULE MCTransitions ----------------------------
(* Model-checking instance of Transitions: one batch.  A behaviour starts    *)
(* with no workstations and everyone anywhere, or with the workstations      *)
(* InitialWorkstations, and then uses two branches only.  It starts either   *)
(* with all the employees, when only the batch runs, or with one fewer, when *)
(* MaxRequests other requests may run between its validation and its         *)
(* transaction.                                                              *)
EXTENDS Transitions, FiniteSets, TLC

CONSTANTS InitialWorkstations, MaxRequests

VARIABLES requests, batches

\* The branches that the tables and a batch name.
Named(t, rs) ==
    {t.post[e].branch_id : e \in t.employee} \cup {t.spot[w].branch_id : w \in t.workstations}
    \cup {rs[i].to_branch_id : i \in DOMAIN rs}

TwoBranches(t, rs) == t.workstations # {} => Cardinality(Named(t, rs)) <= 2

MCInit ==
    /\ \E emps \in SUBSET Employees, ws \in {{}, InitialWorkstations} :
       \E posts \in [emps -> Post],
          spots \in [ws -> Post],
          occupant \in [ws -> emps \cup {NULL}] :
          /\ \A v, w \in ws : spots[v] = spots[w] => v = w
          /\ ws = {} => emps = Employees
          /\ db = Migrated(emps, posts, ws, spots, occupant)
    /\ TwoBranches(db, <<>>)
    /\ Cardinality(db.employee) \in {Cardinality(Employees), Cardinality(Employees) - 1}
    /\ BatchInit
    /\ requests = IF db.employee = Employees THEN MaxRequests ELSE 0
    /\ batches = 0

MCNext ==
    \/ /\ stage = "idle" => batches = 0
       /\ BatchStep
       /\ TwoBranches(db, rows')
       /\ batches' = 1
       /\ UNCHANGED requests
    \/ /\ stage = "accepted" /\ requests < MaxRequests
       /\ OtherRequest
       /\ TwoBranches(db', rows)
       /\ requests' = requests + 1
       /\ UNCHANGED batches
    \/ /\ stage = "idle" /\ batches = 1
       /\ UNCHANGED <<vars, requests, batches>>

MCSpec == MCInit /\ [][MCNext]_<<vars, requests, batches>>

Symmetry ==
    Permutations(Employees) \cup Permutations(InitialWorkstations)
    \cup Permutations(WorkstationIds \ InitialWorkstations) \cup Permutations(Branches)

=============================================================================
