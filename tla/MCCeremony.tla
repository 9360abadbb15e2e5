----------------------------- MODULE MCCeremony -----------------------------
(* Model checking of Ceremony: two tokens, a ceremony and a re-issue with    *)
(* the roles one way round, and a command with the roles and labels swapped. *)
EXTENDS Ceremony, TLC

CONSTANTS w1, w2, l1, l2, l3

MCWorkspaces == {w1, w2}
MCLabels == {l1, l2, l3}

MCRequests ==
    {[rootWs |-> w1, interWs |-> w2, rootLabel |-> l1, label |-> l2, validity |-> 1],
     [rootWs |-> w1, interWs |-> w2, rootLabel |-> l1, label |-> l3, validity |-> 1],
     [rootWs |-> w2, interWs |-> w1, rootLabel |-> l3, label |-> l2, validity |-> 1]}

Symmetry ==
    Permutations(Operators) \cup Permutations(Spaces)
=============================================================================
