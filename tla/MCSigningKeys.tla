--------------------------- MODULE MCSigningKeys ---------------------------
(* Model checking of SigningKeys: labels, generations and points are        *)
(* interchangeable.                                                         *)
EXTENDS SigningKeys, TLC

Symmetry ==
    Permutations(Operators) \cup Permutations(Labels) \cup Permutations(Pairs)
        \cup Permutations(Points)
=============================================================================
