------------------------------ MODULE MCOAuth ------------------------------
(* OAuth for TLC: one key with the code flow, one with the device flow. *)
EXTENDS OAuth, TLC

CONSTANTS c, d, g, h, x, y, t1, t2

Symmetry == Permutations(Apps) \cup Permutations(Accounts) \cup Permutations(Tasks)
=============================================================================
