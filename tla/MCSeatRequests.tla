--------------------------- MODULE MCSeatRequests ---------------------------
(* Model-checking instance of SeatRequests: every choice of a program for    *)
(* each request, from seats nobody has two of.  Programs are batches of up   *)
(* to MaxRows moves of distinct employees, single assignments and single     *)
(* unassignments; Kinds says which.                                          *)
EXTENDS SeatRequests, FiniteSets, TLC

CONSTANTS MaxRows, Kinds

DistinctMoves(n) ==
    {s \in [1..n -> Move] : \A i, j \in 1..n : s[i].employee = s[j].employee => i = j}

MCPrograms ==
    {[kind |-> kd, rows |-> s] :
        kd \in Kinds \ {"transition"}, s \in DistinctMoves(1)}
    \cup
    {[kind |-> kd, rows |-> s] :
        kd \in Kinds \cap {"transition"}, s \in UNION {DistinctMoves(n) : n \in 1..MaxRows}}

MCInit ==
    \E seats \in [WorkstationIds -> Employees \cup {NULL}],
       programs \in [Requests -> MCPrograms] :
       OneSeatEach(seats) /\ InitWith(seats, programs)

MCSpec == MCInit /\ [][Next]_vars /\ \A r \in Requests : WF_vars(Step(r))

Symmetry ==
    Permutations(Employees) \cup Permutations(WorkstationIds) \cup Permutations(Requests)

=============================================================================
