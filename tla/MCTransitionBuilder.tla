------------------------- MODULE MCTransitionBuilder -------------------------
(* Model-checking instance of TransitionBuilder: a workstation in each       *)
(* branch, everyone who has a seat standing at its post, and one batch, sent *)
(* after the last edit.  Either nobody else changes the tables and the       *)
(* modifications change MaxEdits times; or one employee fewer is there, one  *)
(* seat is at another post than its employee or has no position, one change  *)
(* is made and MaxRequests other requests come in, before or after it.       *)
EXTENDS TransitionBuilder, TLC

CONSTANTS InitialWorkstations, MaxEdits, MaxRequests

VARIABLES edits, requests, batches

bounds == <<edits, requests, batches>>

MCInit ==
    /\ \E emps \in SUBSET Employees :
       \E posts \in [emps -> Post],
          spots \in [InitialWorkstations -> Spot],
          occupant \in [InitialWorkstations -> emps \cup {NULL}] :
          LET unplaced == {w \in InitialWorkstations : spots[w].position_id = NULL}
              astray   == {w \in InitialWorkstations :
                              occupant[w] # NULL /\ posts[occupant[w]] # spots[w]}
          IN /\ Cardinality(emps) \in {Cardinality(Employees), Cardinality(Employees) - 1}
             /\ \A v, w \in InitialWorkstations :
                   (\/ spots[v].branch_id = spots[w].branch_id
                    \/ occupant[v] = occupant[w] /\ occupant[v] # NULL) => v = w
             /\ Cardinality(unplaced \cup astray) <= Cardinality(Employees \ emps)
             /\ db = Migrated(emps, posts, InitialWorkstations, spots, occupant)
    /\ BatchInit
    /\ \E equipped \in SUBSET Employees : BuilderInit(equipped)
    /\ batches = 0
    /\ \/ db.employee = Employees /\ edits = MaxEdits /\ requests = 0
       \/ db.employee # Employees /\ edits = 1 /\ requests = MaxRequests

MCNext ==
    \/ /\ edits > 0 /\ batches = 0
       /\ EditModifications
       /\ edits' = edits - 1
       /\ UNCHANGED <<vars, requests, batches>>
    \/ /\ edits > 0 /\ batches = 0
       /\ EditChain
       /\ UNCHANGED <<vars, bounds>>
    \/ /\ edits > 0 /\ batches = 0
       /\ \E m \in {"branch", "employee"} : SelectMode(m)
       /\ UNCHANGED <<vars, bounds>>
    \/ /\ batches = 0
       /\ ResetAll
       /\ edits' = 0
       /\ UNCHANGED <<vars, requests, batches>>
    \/ /\ batches = 0
       /\ HandleSubmit
       /\ batches' = 1
       /\ UNCHANGED <<vars, edits, requests>>
    \/ Server /\ UNCHANGED bounds
    \/ /\ batches = 0 /\ ~Current(data)
       /\ Fetch
       /\ UNCHANGED <<vars, bounds>>
    \/ /\ requests > 0 /\ mode # NULL
       /\ SomebodyElse
       /\ requests' = requests - 1
       /\ UNCHANGED <<edits, batches>>

MCSpec == MCInit /\ [][MCNext]_<<vars, page, bounds>>

Symmetry ==
    Permutations(Employees) \cup Permutations(InitialWorkstations)
    \cup Permutations(WorkstationIds \ InitialWorkstations) \cup Permutations(Branches)

=============================================================================
