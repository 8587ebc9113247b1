----------------------------- MODULE MCInventory -----------------------------
(* Small instances of Inventory: two sources that share a store, two callers *)
(* of different subjects, of which the second may not read one digest.      *)
EXTENDS InventoryInvariant

CONSTANTS p1, p2, s1, s2, ta, tb, tc, d1, d2, t1, t2, t3

Other(attestation) == {[by |-> 0, attestation |-> attestation]}
Object(s, store, digests, attestation) ==
    [of |-> s, store |-> store, digests |-> digests, expected |-> None,
     holds |-> Other(attestation)]
Wanted(s, d) == [of |-> s, store |-> None, digests |-> {}, expected |-> d,
                 holds |-> Other("observed")]

MCScopeOf == [p \in Callers |-> IF p = p1 THEN s1 ELSE s2]
MCReadable == [s \in Scopes |-> IF s = s1 THEN Digests ELSE {d1}]
MCAccepted == [s \in Sources |-> IF s = 1 THEN {ta} ELSE {ta, tb}]
MCContents == [s \in Sources |->
    IF s = 1
    THEN {[stores |-> {ta}, records |-> <<Object(1, ta, {d2}, "observed"),
                                         Object(1, ta, {d1}, "declared")>>]}
    ELSE {[stores |-> {tb}, records |-> <<Object(2, tc, {d1}, "observed"), Wanted(2, d1)>>],
          [stores |-> {ta, tb}, records |-> <<Object(2, tb, {}, "observed"), Wanted(2, d2)>>]}]

\* Bound: Find and Holders, which retain nothing, run alone and before any listing.
LookupsAlone ==
    \A p \in Callers : call[p].op \in {"find", "holders"} =>
        drawn = {} /\ now = 0 /\ \A q \in Callers \ {p} : call[q] = Idle

Symmetry == Permutations(Tokens)
=============================================================================
