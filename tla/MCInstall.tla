----------------------------- MODULE MCInstall -----------------------------
(* Install for TLC: two repositories that provide the same service, and the *)
(* symmetry of the tasks.                                                   *)
EXTENDS Install, TLC

CONSTANTS notes, mail, t1, t2

P(label, host) == [label |-> label, container |-> label, host |-> host]
C(perms) == [shortname |-> "s", grants |-> perms]
M(consumes, provides, ports) == [consumes |-> consumes, provides |-> provides, ports |-> ports]

Repositories ==
     notes :> <<M(<<C({"p"})>>, {}, <<P("web", 0)>>),
              M(<<C({"p", "q"})>>, {"s"}, <<P("web", 4), P("alt", 3)>>)>>
    @@ mail :> <<M(<< >>, {"s"}, <<P("web", 3)>>), M(<< >>, {"s"}, <<P("web", 3), P("web", 1)>>)>>

Symmetry == Permutations(Tasks)
=============================================================================
