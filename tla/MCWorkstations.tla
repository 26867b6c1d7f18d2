--------------------------- MODULE MCWorkstations ---------------------------
(* Model-checking instance of Workstations: the employees and the           *)
(* workstation ids are interchangeable.                                     *)
EXTENDS Workstations, TLC

Symmetry == Permutations(Employees) \cup Permutations(WorkstationIds)

=============================================================================
