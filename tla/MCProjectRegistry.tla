------------------------- MODULE MCProjectRegistry -------------------------
(* Small sets of requests; requests of a kind, names and identifiers are    *)
(* interchangeable.                                                         *)
EXTENDS ProjectRegistry, TLC

Symmetry ==
    Permutations(Opens) \cup Permutations(Closes) \cup Permutations(Names)
        \cup Permutations(Ids)

=============================================================================
