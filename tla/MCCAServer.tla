----------------------------- MODULE MCCAServer -----------------------------
(* Model checking of CAServer: the symmetries of its sets of model values. *)
EXTENDS CAServer, TLC

Symmetry ==
    Permutations(Serials) \cup Permutations(CRLClients)
        \cup Permutations(OCSPClients) \cup Permutations(Writers)
=============================================================================
