------------------------- MODULE MCArchiveMigration -------------------------
(* ArchiveMigration for TLC: the symmetries of its sets of model values. *)
EXTENDS ArchiveMigration, TLC

Symmetry == Permutations(Buckets) \cup Permutations(Files) \cup Permutations(Apps)
=============================================================================
