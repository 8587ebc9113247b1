------------------------------ MODULE MCReader -------------------------------
(* Small instances of Reader: two callers of one subject and one of another. *)
EXTENDS Reader, TLC

CONSTANTS p1, p2, p3, s1, s2, h1, h2, d1, f1

MCScopeOf == [p \in Callers |-> IF p = p3 THEN s2 ELSE s1]

Symmetry == Permutations(Handles) \cup Permutations(Files) \cup Permutations(Callers \ {p3})
=============================================================================
