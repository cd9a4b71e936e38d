----------------------------- MODULE MCAppData -----------------------------
(* AppData for TLC: the symmetries of its model values. *)
EXTENDS AppData, TLC

Symmetry == Permutations(Names) \cup Permutations(Apps \ Archived)
=============================================================================
