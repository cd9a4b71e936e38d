--------------------------- MODULE MCAppLifecycle ---------------------------
(* AppLifecycle for TLC: the symmetries of its sets of model values. *)
EXTENDS AppProperties, TLC

Symmetry  == Permutations(Cids) \cup Permutations(Tasks)
Symmetry2 == Symmetry \cup Permutations(Apps) \cup Permutations(Names)
SymmetryNames == Symmetry \cup Permutations(Names)
=============================================================================
