------------------------------ MODULE MCAccess ------------------------------
(* Access for TLC: the default apps in order, and the symmetries. *)
EXTENDS Access, TLC

CONSTANTS p1, p2, s1, s2, ada, bob

Apps1 == <<"catalog">>
Symmetry == Permutations(Posts) \cup Permutations(Sids) \cup Permutations(Names)
=============================================================================
