---------------------------- MODULE MCAssetLedger ----------------------------
(* Instance of AssetLedger: one asset with at most one repair, or one item  *)
(* in stock and no asset yet.                                               *)
EXTENDS AssetLedger, TLC

Existing(table) == {x \in DOMAIN table : table[x] # NULL}

MCInit ==
    /\ Init
    /\ Cardinality(items) + Cardinality(Existing(row)) = 1
    /\ Cardinality(Existing(repair)) <= 1

MCSpec == MCInit /\ [][Next]_vars

Symmetric == Permutations(Workstations) \cup Permutations(Requests)
               \cup Permutations(Repairs) \cup Permutations(Assets) \cup Permutations(Employees)
=============================================================================
