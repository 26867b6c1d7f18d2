---------------------------- MODULE MCAssetForms ----------------------------
(* Two records, which the pages never tell apart. *)
EXTENDS AssetForms, TLC

Symmetry == Permutations(Rows)
=============================================================================
