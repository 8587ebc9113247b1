------------------------------- MODULE MCWriter -------------------------------
(* Small instances of Writer: one subject, up to two request keys, objects  *)
(* of one chunk.                                                            *)
EXTENDS WriterInvariant, TLC

CONSTANTS p1, p2, h1, h2, h3, d1, d2, k1, k2, s1, a

MCContent1 == d1 :> <<a>>
MCContent2 == d1 :> <<a>> @@ d2 :> <<>>
MCScopeOf == [k \in Keys |-> s1]
Ask(k, d, n) == [key |-> k, digest |-> d, size |-> n]
OneRequest == {Ask(k1, d1, 1)}
SameObject == {Ask(k1, d1, 1), Ask(k2, d1, 1)}
TwoObjects == {Ask(k1, d1, 1), Ask(k2, d2, 0)}
OtherSize == {Ask(k1, d1, 1), Ask(k1, d1, 2)}

\* Bound: a second request is made only before the clock moves.
OneKeyOnceTimePasses ==
    now > 0 => records[k2].digest = None /\ \A p \in Callers : call[p].key # k2

Symmetry == Permutations(Callers) \cup Permutations(Handles)
=============================================================================
