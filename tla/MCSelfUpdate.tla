---------------------------- MODULE MCSelfUpdate ----------------------------
(* SelfUpdate for TLC: a small history of the repository.                     *)
(*                                                                            *)
(*     1 (v1) -- 2 (v2) -- 3 (v3)                                             *)
(*                  \----- 4 (dev)                                            *)
EXTENDS SelfUpdate

MCParent   == <<0, 1, 2, 2>>
MCRelease  == <<1, 2, 3>>
MCRegistry == <<1, 2, 2, 3>>
=============================================================================
