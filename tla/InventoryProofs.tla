--------------------------- MODULE InventoryProofs ---------------------------
(***************************************************************************)
(* How many compositions the service retains, for every number of callers, *)
(* sources, tokens and every limit: the limit is looked at before the      *)
(* sources are drained and not again, so that what bounds the snapshots is *)
(* the snapshots together with the calls that are composing. What a client *)
(* is shown: a token stands for one composition, wherever it is kept, and  *)
(* every page is a stretch of it, from the offset the client asked for.    *)
(* And what a composition is: of every source the call may hear, all that  *)
(* it froze of the stores it was given, in its order and nothing twice.    *)
(***************************************************************************)
EXTENDS InventoryInvariant, NaturalFacts, FiniteSetTheorems, SequenceTheorems, TLAPS

\* What the bound needs: the types of the snapshots and of the program counters,
\* and the bound itself.
Invariant ==
    /\ DOMAIN snapshots = Tokens
    /\ pc \in [Callers -> PCs]
    /\ RetainedBound

\* Retained snapshots and composing calls are finitely many.
LEMMA Finite ==
    /\ IsFiniteSet(Retained) /\ Cardinality(Retained) \in Nat
    /\ IsFiniteSet(Composing) /\ Cardinality(Composing) \in Nat
    /\ IsFiniteSet(Callers) /\ Cardinality(Callers) \in Nat
    /\ Cardinality(Composing) <= Cardinality(Callers)
<1>1. Retained \subseteq Tokens /\ Composing \subseteq Callers
  BY DEF Retained, Composing
<1>2. IsFiniteSet(Tokens) /\ IsFiniteSet(Callers)
  BY InventoryAssumption
<1> QED BY <1>1, <1>2, FS_Subset, FS_CardinalityType

\* A step that retains no more and composes no more keeps the bound.
LEMMA Shrinks ==
    ASSUME Invariant, Retained' \subseteq Retained, Composing' \subseteq Composing,
           closed' => closed
    PROVE  RetainedBound'
<1>1. Cardinality(Retained') <= Cardinality(Retained) /\ Cardinality(Retained') \in Nat
  BY Finite, FS_Subset, FS_CardinalityType
<1>2. Cardinality(Composing') <= Cardinality(Composing) /\ Cardinality(Composing') \in Nat
  BY Finite, FS_Subset, FS_CardinalityType
<1> QED BY <1>1, <1>2, Finite, InventoryAssumption DEF Invariant, RetainedBound

\* A call that goes anywhere but to compose does not add to those composing.
LEMMA GotoComposing ==
    ASSUME Invariant, NEW p \in Callers, NEW label \in PCs, Goto(p, label)
    PROVE  /\ pc' \in [Callers -> PCs]
           /\ label \notin {"drain", "insert"} => Composing' = Composing \ {p}
           /\ label \in {"drain", "insert"} => Composing' = Composing \cup {p}
  BY DEF Invariant, Goto, Composing, PCs

\* A call that returns stops composing.
LEMMA ReturnComposing ==
    ASSUME Invariant, NEW p \in Callers, Return(p)
    PROVE  pc' \in [Callers -> PCs] /\ Composing' = Composing \ {p}
  BY GotoComposing DEF Return, PCs

\* Sweeping retains nothing new.
LEMMA SweptRetains ==
    ASSUME Invariant, snapshots' = Swept
    PROVE  DOMAIN snapshots' = Tokens /\ Retained' \subseteq Retained
<1>1. \A t \in Tokens : snapshots'[t] = snapshots[t] \/ snapshots'[t] = NoSnapshot
  BY DEF Swept
<1>2. NoSnapshot.scope = None
  BY DEF NoSnapshot
<1> QED BY <1>1, <1>2 DEF Swept, Retained

\* A step of a call that leaves the snapshots alone and does not begin to compose.
LEMMA StepKeeps ==
    ASSUME Invariant, UNCHANGED <<snapshots, closed>>,
           pc' \in [Callers -> PCs], Composing' \subseteq Composing
    PROVE  Invariant'
<1>1. Retained' = Retained
  BY DEF Retained
<1> QED BY <1>1, Shrinks DEF Invariant

\* The first critical section: there was room, and every caller but the one that
\* begins may be composing.
LEMMA ComposeKeeps ==
    ASSUME Invariant, NEW p \in Callers, Compose(p)
    PROVE  Invariant'
<1>1. UNCHANGED <<snapshots, closed>> /\ Retained' = Retained
  BY DEF Compose, Retained
<1>2. CASE Return(p)
  BY <1>1, <1>2, ReturnComposing, StepKeeps
<1>3. CASE Goto(p, "read")
  BY <1>1, <1>3, GotoComposing, StepKeeps DEF PCs
<1>4. CASE ~closed /\ Room /\ Goto(p, "drain")
  <2>1. pc' \in [Callers -> PCs]
    BY <1>4, GotoComposing DEF PCs
  <2>2. Cardinality(Composing') <= Cardinality(Callers) /\ Cardinality(Composing') \in Nat
    <3>1. Composing' \subseteq Callers
      BY DEF Composing
    <3> QED BY <3>1, Finite, FS_Subset, FS_CardinalityType
  <2>3. RetainedBound'
    BY <1>1, <1>4, <2>2, Finite, InventoryAssumption DEF RetainedBound, Room
  <2> QED BY <1>1, <2>1, <2>3 DEF Invariant
<1> QED BY <1>2, <1>3, <1>4 DEF Compose

\* The second critical section: one snapshot more, one composing call less.
LEMMA FreezeKeeps ==
    ASSUME Invariant, NEW p \in Callers, Freeze(p)
    PROVE  Invariant'
<1>1. UNCHANGED closed /\ pc[p] = "insert" /\ p \in Composing
  BY DEF Freeze, Composing
<1>2. CASE Return(p) /\ UNCHANGED snapshots
  BY <1>1, <1>2, ReturnComposing, StepKeeps
<1>3. ASSUME ~closed, NEW t \in Tokens,
             snapshots' = [snapshots EXCEPT ![t] =
                 [scope |-> ScopeOf[p], store |-> call[p].store, stores |-> call[p].stores,
                  records |-> call[p].records]],
             Goto(p, "page")
      PROVE  Invariant'
  <2>1. DOMAIN snapshots' = Tokens
    BY <1>3 DEF Invariant
  <2>2. Retained' \subseteq Retained \cup {t}
    BY <1>3 DEF Retained, Invariant
  <2>3. pc' \in [Callers -> PCs] /\ Composing' = Composing \ {p}
    BY <1>3, GotoComposing DEF PCs
  <2>4. Cardinality(Retained') <= Cardinality(Retained) + 1 /\ Cardinality(Retained') \in Nat
    <3>1. IsFiniteSet(Retained \cup {t})
      BY Finite, FS_AddElement
    <3>2. Cardinality(Retained \cup {t}) <= Cardinality(Retained) + 1
      <4>1. CASE t \in Retained
        <5>1. Cardinality(Retained \cup {t}) = Cardinality(Retained)
          BY <4>1, Finite, FS_AddElement
        <5> QED BY <5>1, Finite
      <4>2. CASE t \notin Retained
        <5>1. Cardinality(Retained \cup {t}) = Cardinality(Retained) + 1
          BY <4>2, Finite, FS_AddElement
        <5> QED BY <5>1, Finite
      <4> QED BY <4>1, <4>2
    <3>3. Cardinality(Retained \cup {t}) \in Nat
      BY <3>1, FS_CardinalityType
    <3>4. IsFiniteSet(Retained') /\ Cardinality(Retained') <= Cardinality(Retained \cup {t})
      BY <2>2, <3>1, FS_Subset
    <3> QED BY <3>2, <3>3, <3>4, FS_CardinalityType, Finite
  <2>5. Cardinality(Composing') = Cardinality(Composing) - 1
    BY <1>1, <2>3, Finite, FS_RemoveElement
  <2>6. RetainedBound'
    BY <1>1, <1>3, <2>4, <2>5, Finite, InventoryAssumption DEF Invariant, RetainedBound
  <2> QED BY <2>1, <2>3, <2>6 DEF Invariant
<1> QED BY <1>2, <1>3 DEF Freeze, StillOpen

\* Every step keeps the bound.
LEMMA Step ==
    ASSUME Invariant, [Next]_vars
    PROVE  Invariant'
<1>1. ASSUME NEW p \in Callers, List(p) \/ ListNext(p) \/ Lookup(p)
      PROVE  Invariant'
  <2>1. UNCHANGED <<snapshots, closed>> /\ (Goto(p, "sweep") \/ Goto(p, "enter"))
    BY <1>1 DEF List, ListNext, Lookup
  <2> QED BY <2>1, GotoComposing, StepKeeps DEF PCs
<1>2. ASSUME NEW p \in Callers, Sweep(p)
      PROVE  Invariant'
  <2>1. Goto(p, "enter") /\ snapshots' = Swept /\ UNCHANGED closed
    BY <1>2 DEF Sweep
  <2>2. pc' \in [Callers -> PCs] /\ Composing' \subseteq Composing
    BY <2>1, GotoComposing DEF PCs
  <2> QED BY <2>1, <2>2, SweptRetains, Shrinks DEF Invariant
<1>3. ASSUME NEW p \in Callers, DrainPage(p)
      PROVE  Invariant'
  <2>1. UNCHANGED <<snapshots, closed>> /\ (Return(p) \/ UNCHANGED pc)
    BY <1>3 DEF DrainPage
  <2>2. UNCHANGED pc => Composing' = Composing /\ pc' \in [Callers -> PCs]
    BY DEF Composing, Invariant
  <2> QED BY <2>1, <2>2, ReturnComposing, StepKeeps
<1>4. ASSUME NEW p \in Callers,
             DrainFails(p) \/ FillFails(p) \/ Listed(p) \/ ListedNot(p) \/ LookedUp(p)
      PROVE  Invariant'
  <2>1. UNCHANGED <<snapshots, closed>> /\ Return(p)
    BY <1>4 DEF DrainFails, Unanswered, FillFails, Listed, ListedNot, LookedUp
  <2> QED BY <2>1, ReturnComposing, StepKeeps
<1>5. ASSUME NEW p \in Callers, Drained(p)
      PROVE  Invariant'
  <2>1. UNCHANGED <<snapshots, closed>>
    BY <1>5 DEF Drained
  <2>2. CASE Return(p)
    BY <2>1, <2>2, ReturnComposing, StepKeeps
  <2>3. CASE pc[p] = "drain" /\ Goto(p, "insert")
    <3>1. Composing' = Composing \cup {p} /\ p \in Composing /\ pc' \in [Callers -> PCs]
      BY <2>3, GotoComposing DEF PCs, Composing
    <3> QED BY <2>1, <3>1, StepKeeps
  <2>4. CASE Goto(p, "page")
    BY <2>1, <2>4, GotoComposing, StepKeeps DEF PCs
  <2> QED BY <1>5, <2>2, <2>3, <2>4 DEF Drained
<1>6. ASSUME NEW p \in Callers, Continue(p)
      PROVE  Invariant'
  <2>1. UNCHANGED <<snapshots, closed>> /\ (Return(p) \/ Goto(p, "page"))
    BY <1>6 DEF Continue
  <2> QED BY <2>1, GotoComposing, ReturnComposing, StepKeeps DEF PCs
<1>7. ASSUME NEW p \in Callers, Fill(p)
      PROVE  Invariant'
  <2>1. UNCHANGED <<snapshots, closed>> /\ (Goto(p, "gate") \/ Goto(p, "reply"))
    BY <1>7 DEF Fill
  <2> QED BY <2>1, GotoComposing, StepKeeps DEF PCs
<1>8. CASE TickerSweeps
  <2>1. snapshots' = Swept /\ UNCHANGED <<closed, pc>>
    BY <1>8 DEF TickerSweeps
  <2>2. Composing' = Composing
    BY <2>1 DEF Composing
  <2> QED BY <2>1, <2>2, SweptRetains, Shrinks DEF Invariant
<1>9. CASE Close
  <2>1. snapshots' = [t \in Tokens |-> NoSnapshot] /\ UNCHANGED pc
    BY <1>9 DEF Close
  <2>2. NoSnapshot.scope = None
    BY DEF NoSnapshot
  <2>3. Retained' = {} /\ Composing' = Composing
    BY <2>1, <2>2 DEF Retained, Composing
  <2>4. Cardinality(Retained') = 0
    BY <2>3, FS_EmptySet
  <2>5. RetainedBound'
    BY <2>3, <2>4, Finite, InventoryAssumption DEF RetainedBound
  <2> QED BY <2>1, <2>5 DEF Invariant
<1>10. CASE SourceChanges \/ Tick \/ UNCHANGED vars
  <2>1. UNCHANGED <<snapshots, closed, pc>>
    BY <1>10 DEF SourceChanges, Tick, vars
  <2>2. Composing' = Composing
    BY <2>1 DEF Composing
  <2> QED BY <2>1, <2>2, StepKeeps DEF Invariant
<1> QED
  BY <1>1, <1>2, <1>3, <1>4, <1>5, <1>6, <1>7, <1>8, <1>9, <1>10, ComposeKeeps, FreezeKeeps
  DEF Next

\* The service retains at most MaxSnapshots - 1 compositions plus one per caller, those
\* in progress included, and none once it closed (inventory.go:405-445).
THEOREM RetainedBoundHolds == Spec => []RetainedBound
<1>1. Init => Invariant
  <2> SUFFICES ASSUME Init PROVE Invariant
    OBVIOUS
  <2>1. NoSnapshot.scope = None
    BY DEF NoSnapshot
  <2>2. Retained = {} /\ Composing = {}
    BY <2>1 DEF Init, Retained, Composing
  <2>3. Cardinality(Retained) = 0 /\ Cardinality(Composing) = 0
    BY <2>2, FS_EmptySet
  <2>4. RetainedBound
    BY <2>2, <2>3, Finite, InventoryAssumption DEF RetainedBound
  <2> QED BY <2>4 DEF Init, Invariant, PCs
<1>2. Invariant /\ [Next]_vars => Invariant'
  BY Step
<1>3. Invariant => RetainedBound
  BY DEF Invariant
<1> QED BY <1>1, <1>2, <1>3, PTL DEF Spec

-----------------------------------------------------------------------------
(* Loops that keep some of the items.                                      *)

\* Positions are positive numbers.
LEMMA Positions ==
    ASSUME NEW n \in Nat, NEW at \in SUBSET (1..n)
    PROVE  /\ IsFiniteSet(at) /\ Cardinality(at) \in Nat
           /\ \A i \in at : i \in Nat /\ 1 <= i /\ i <= n /\ i - 1 \in Nat /\ (i - 1) + 1 = i
<1>1. at \subseteq 1..n /\ IsFiniteSet(1..n)
  BY FS_Interval
<1>2. \A i \in at : i \in 1..n
  BY <1>1
<1>3. IsFiniteSet(at) /\ Cardinality(at) \in Nat
  BY <1>1, FS_Subset, FS_CardinalityType
<1>4. \A i \in 1..n : i \in Nat /\ 1 <= i /\ i <= n /\ i - 1 \in Nat /\ (i - 1) + 1 = i
  OBVIOUS
<1> QED BY <1>2, <1>3, <1>4

\* How the rank grows along the positions.
LEMMA RankGrows ==
    ASSUME NEW n \in Nat, NEW at \in SUBSET (1..n)
    PROVE  /\ IsFiniteSet(at) /\ Cardinality(at) \in Nat
           /\ Rank(at, 0) = 0 /\ Rank(at, n) = Cardinality(at)
           /\ \A i \in Nat : /\ Rank(at, i) \in Nat
                             /\ Rank(at, i + 1) = Rank(at, i) + (IF i + 1 \in at THEN 1 ELSE 0)
           /\ \A i, j \in Nat : i <= j => Rank(at, i) <= Rank(at, j)
<1> DEFINE upto(i) == {j \in at : j <= i}
<1>1. \A i \in at : i \in Nat /\ 1 <= i /\ i <= n
  BY Positions
<1>2. IsFiniteSet(at) /\ Cardinality(at) \in Nat
  BY Positions
<1>3. ASSUME NEW i \in Nat PROVE IsFiniteSet(upto(i)) /\ Cardinality(upto(i)) \in Nat
  <2>1. upto(i) \subseteq at
    OBVIOUS
  <2> QED BY <1>2, <2>1, FS_Subset, FS_CardinalityType
<1>4. Rank(at, 0) = 0
  <2>1. \A j \in at : ~(j <= 0)
    BY <1>1
  <2>2. upto(0) = {}
    BY <2>1
  <2> QED BY <2>2, FS_EmptySet DEF Rank
<1>5. Rank(at, n) = Cardinality(at)
  <2>1. upto(n) = at
    BY <1>1
  <2> QED BY <2>1 DEF Rank
<1>6. ASSUME NEW i \in Nat
      PROVE  Rank(at, i + 1) = Rank(at, i) + (IF i + 1 \in at THEN 1 ELSE 0)
  <2>1. CASE i + 1 \in at
    <3>1. \A j \in at : j <= i + 1 <=> j <= i \/ j = i + 1
      BY <1>1
    <3>2. upto(i + 1) = upto(i) \cup {i + 1}
      BY <2>1, <3>1
    <3>3. i + 1 \notin upto(i)
      OBVIOUS
    <3>4. Cardinality(upto(i) \cup {i + 1}) = Cardinality(upto(i)) + 1
      BY <1>3, <3>3, FS_AddElement
    <3> QED BY <2>1, <3>2, <3>4 DEF Rank
  <2>2. CASE i + 1 \notin at
    <3>1. \A j \in at : j <= i + 1 <=> j <= i
      BY <1>1, <2>2
    <3>2. upto(i + 1) = upto(i)
      BY <3>1
    <3>3. Cardinality(upto(i)) + 0 = Cardinality(upto(i))
      BY <1>3
    <3> QED BY <2>2, <3>2, <3>3 DEF Rank
  <2> QED BY <2>1, <2>2
<1>7. ASSUME NEW i \in Nat, NEW j \in Nat, i <= j
      PROVE  Rank(at, i) <= Rank(at, j)
  <2>1. \A k \in at : k <= i => k <= j
    BY <1>1, <1>7
  <2>2. upto(i) \subseteq upto(j)
    BY <2>1
  <2>3. Cardinality(upto(i)) <= Cardinality(upto(j))
    BY <1>3, <2>2, FS_Subset
  <2> QED BY <2>3 DEF Rank
<1> QED BY <1>2, <1>3, <1>4, <1>5, <1>6, <1>7 DEF Rank

\* Of each rank there is exactly one position.
LEMMA Ranked ==
    ASSUME NEW n \in Nat, NEW at \in SUBSET (1..n)
    PROVE  /\ \A k \in 1..Cardinality(at) : \E i \in at : Rank(at, i) = k
           /\ \A i \in at : Rank(at, i) \in 1..Cardinality(at)
           /\ \A i, j \in at : Rank(at, i) = Rank(at, j) => i = j
<1>1. ASSUME NEW k \in 1..Cardinality(at) PROVE \E i \in at : Rank(at, i) = k
  <2> DEFINE S == {i \in Nat : Rank(at, i) >= k}
  <2>1. n \in S
    BY RankGrows
  <2>2. PICK i \in S : \A j \in S : i <= j
    BY <2>1, Least
  <2>3. i # 0
    BY <2>2, RankGrows
  <2>4. i - 1 \in Nat /\ i - 1 \notin S
    BY <2>2, <2>3
  <2>5. Rank(at, i - 1) < k /\ Rank(at, i - 1) \in Nat
    <3>1. Rank(at, i - 1) \in Nat /\ k \in Nat
      BY <2>4, RankGrows
    <3>2. ~(Rank(at, i - 1) >= k)
      BY <2>4
    <3> QED BY <3>1, <3>2
  <2>6. Rank(at, (i - 1) + 1) = Rank(at, i - 1) + (IF (i - 1) + 1 \in at THEN 1 ELSE 0)
    BY <2>4, RankGrows
  <2>7. (i - 1) + 1 = i
    BY <2>2
  <2> QED BY <2>2, <2>5, <2>6, <2>7
<1>2. ASSUME NEW i \in at
      PROVE  /\ i \in Nat /\ i - 1 \in Nat /\ i <= n
             /\ Rank(at, i) = Rank(at, i - 1) + 1 /\ Rank(at, i - 1) \in Nat
  <2>1. i \in Nat /\ i - 1 \in Nat /\ (i - 1) + 1 = i /\ i <= n
    BY Positions
  <2>2. Rank(at, (i - 1) + 1) = Rank(at, i - 1) + (IF (i - 1) + 1 \in at THEN 1 ELSE 0)
    BY <2>1, RankGrows
  <2> QED BY <2>1, <2>2, RankGrows
<1>3. ASSUME NEW i \in at PROVE Rank(at, i) \in 1..Cardinality(at)
  <2>1. Rank(at, i) <= Rank(at, n)
    BY <1>2, RankGrows
  <2> QED BY <1>2, <2>1, RankGrows
<1>4. ASSUME NEW i \in at, NEW j \in at, i < j PROVE Rank(at, i) < Rank(at, j)
  <2>1. i <= j - 1 /\ j - 1 \in Nat /\ i \in Nat
    BY <1>2, <1>4
  <2>2. Rank(at, i) <= Rank(at, j - 1) /\ Rank(at, i) \in Nat
    BY <2>1, RankGrows
  <2> QED BY <1>2, <2>2
<1>5. ASSUME NEW i \in at, NEW j \in at, Rank(at, i) = Rank(at, j) PROVE i = j
  <2>1. i \in Nat /\ j \in Nat /\ Rank(at, i) \in Nat
    BY <1>2, RankGrows
  <2>2. ~(i < j) /\ ~(j < i)
    BY <1>4, <1>5, <2>1
  <2> QED BY <2>1, <2>2
<1> QED BY <1>1, <1>3, <1>5

\* The loop keeps one item for each position, in their order.
LEMMA ItemAt ==
    ASSUME NEW n \in Nat, NEW at \in SUBSET (1..n), NEW s
    PROVE  \A i \in at : ItemsAt(s, at)[Rank(at, i)] = s[i]
<1> DEFINE pos(k) == CHOOSE i \in at : Rank(at, i) = k
<1>1. ASSUME NEW k \in 1..Cardinality(at) PROVE pos(k) \in at /\ Rank(at, pos(k)) = k
  BY Ranked
<1>2. ASSUME NEW i \in at PROVE pos(Rank(at, i)) = i /\ Rank(at, i) \in 1..Cardinality(at)
  BY <1>1, Ranked
<1>3. \A k \in 1..Cardinality(at) : ItemsAt(s, at)[k] = s[pos(k)]
  BY DEF ItemsAt
<1> HIDE DEF pos
<1> QED BY <1>1, <1>2, <1>3

\* They are items of its input.
LEMMA ItemsOf ==
    ASSUME NEW n \in Nat, NEW at \in SUBSET (1..n), NEW s, NEW S, \A i \in at : s[i] \in S
    PROVE  /\ ItemsAt(s, at) \in Seq(S)
           /\ Len(ItemsAt(s, at)) = Cardinality(at) /\ Cardinality(at) \in Nat
           /\ DOMAIN ItemsAt(s, at) = 1..Cardinality(at)
<1>1. ASSUME NEW k \in 1..Cardinality(at) PROVE ItemsAt(s, at)[k] \in S
  <2>1. \E i \in at : Rank(at, i) = k
    BY Ranked
  <2>2. PICK i \in at : Rank(at, i) = k
    BY <2>1
  <2>3. ItemsAt(s, at)[k] = s[i]
    BY <2>2, ItemAt
  <2> QED BY <2>3
<1> DEFINE q == ItemsAt(s, at)  c == Cardinality(at)
<1>2. c \in Nat
  BY Positions
<1>3. q = [k \in 1..c |-> q[k]]
  BY DEF ItemsAt
<1>4. \A k \in 1..c : q[k] \in S
  BY <1>1
<1> HIDE DEF q, c
<1>5. q \in Seq(S) /\ Len(q) = c /\ DOMAIN q = 1..c
  BY <1>2, <1>3, <1>4
<1> QED BY <1>2, <1>5 DEF q, c

\* What is kept of two stretches is what is kept of the first and then of the second.
LEMMA ItemsJoin ==
    ASSUME NEW n \in Nat, NEW at \in SUBSET (1..n), NEW m \in Nat, NEW s, NEW S,
           \A i \in at : s[i] \in S
    PROVE  ItemsAt(s, at) = ItemsAt(s, {i \in at : i <= m}) \o ItemsAt(s, {i \in at : i > m})
<1> DEFINE A == {i \in at : i <= m}  B == {i \in at : i > m}
           a == Cardinality(A)  b == Cardinality(B)  c == Cardinality(at)
<1>0. \A i \in at : i \in Nat /\ (i <= m \/ i > m) /\ ~(i <= m /\ i > m)
  BY Positions
<1>1. A \in SUBSET (1..n) /\ B \in SUBSET (1..n) /\ A \cup B = at /\ A \cap B = {}
  BY <1>0
<1> HIDE DEF A, B
<1>2. IsFiniteSet(A) /\ IsFiniteSet(B) /\ a \in Nat /\ b \in Nat
  BY <1>1, Positions
<1>3. c = a + b /\ c \in Nat
  <2>1. c = a + b - Cardinality(A \cap B)
    BY <1>1, <1>2, FS_Union
  <2>2. Cardinality(A \cap B) = 0
    BY <1>1, FS_EmptySet
  <2> QED BY <1>2, <2>1, <2>2
<1>4. ASSUME NEW i \in A PROVE Rank(at, i) = Rank(A, i)
  <2>1. \A j \in at : j <= i => j <= m
    BY <1>0 DEF A
  <2>2. {j \in at : j <= i} = {j \in A : j <= i}
    BY <2>1 DEF A
  <2> QED BY <2>2 DEF Rank
<1>5. ASSUME NEW i \in B PROVE Rank(at, i) = a + Rank(B, i)
  <2> DEFINE Bi == {j \in B : j <= i}
  <2>1. \A j \in A : j <= i
    BY <1>0 DEF A, B
  <2>2. {j \in at : j <= i} = A \cup Bi /\ A \cap Bi = {} /\ Bi \subseteq B
    BY <1>1, <2>1
  <2>3. IsFiniteSet(Bi) /\ Cardinality(Bi) \in Nat
    BY <1>2, <2>2, FS_Subset, FS_CardinalityType
  <2>4. Cardinality(A \cup Bi) = a + Cardinality(Bi) - Cardinality(A \cap Bi)
    BY <1>2, <2>3, FS_Union
  <2>5. Cardinality(A \cap Bi) = 0
    BY <2>2, FS_EmptySet
  <2> HIDE DEF Bi
  <2>6. Cardinality(A \cup Bi) = a + Cardinality(Bi)
    BY <1>2, <2>3, <2>4, <2>5
  <2> QED BY <2>2, <2>6 DEF Rank, Bi
<1> DEFINE x == ItemsAt(s, A)  y == ItemsAt(s, B)  z == ItemsAt(s, at)
<1>6. /\ x \in Seq(S) /\ Len(x) = a
      /\ \A i \in A : x[Rank(A, i)] = s[i]
  <2>1. \A i \in A : s[i] \in S
    BY DEF A
  <2> HIDE DEF x, a
  <2>2. A \in SUBSET (1..n)
    BY <1>1
  <2>3. ItemsAt(s, A) \in Seq(S) /\ Len(ItemsAt(s, A)) = Cardinality(A)
    BY <2>1, <2>2, ItemsOf
  <2>4. \A i \in A : ItemsAt(s, A)[Rank(A, i)] = s[i]
    BY <2>2, ItemAt
  <2> QED BY <2>3, <2>4 DEF x, a
<1>7. /\ y \in Seq(S) /\ Len(y) = b
      /\ \A i \in B : y[Rank(B, i)] = s[i]
  <2>1. \A i \in B : s[i] \in S
    BY DEF B
  <2> HIDE DEF y, b
  <2>2. B \in SUBSET (1..n)
    BY <1>1
  <2>3. ItemsAt(s, B) \in Seq(S) /\ Len(ItemsAt(s, B)) = Cardinality(B)
    BY <2>1, <2>2, ItemsOf
  <2>4. \A i \in B : ItemsAt(s, B)[Rank(B, i)] = s[i]
    BY <2>2, ItemAt
  <2> QED BY <2>3, <2>4 DEF y, b
<1>8. /\ z \in Seq(S) /\ Len(z) = c
      /\ \A i \in at : z[Rank(at, i)] = s[i]
  <2>1. z \in Seq(S) /\ Len(z) = c
    BY ItemsOf
  <2>2. \A i \in at : z[Rank(at, i)] = s[i]
    BY ItemAt
  <2> QED BY <2>1, <2>2
<1>9. /\ \A k \in 1..a : \E i \in A : Rank(A, i) = k
      /\ \A k \in 1..b : \E i \in B : Rank(B, i) = k
  BY <1>1, Ranked
<1> HIDE DEF x, y, z, a, b, c
<1>10. ASSUME NEW k \in 1..c PROVE z[k] = (x \o y)[k]
  <2>0. k \in Nat /\ k <= c /\ 1 <= k
    BY <1>3
  <2>1. CASE k <= a
    <3>1. PICK i \in A : Rank(A, i) = k
      BY <1>2, <1>9, <2>0, <2>1
    <3>2. z[k] = s[i] /\ x[k] = s[i]
      BY <1>1, <1>4, <1>6, <1>8, <3>1
    <3> QED BY <1>2, <1>6, <1>7, <2>0, <2>1, <3>2
  <2>2. CASE k > a
    <3>1. k - a \in 1..b
      BY <1>2, <1>3, <2>0, <2>2
    <3>2. PICK i \in B : Rank(B, i) = k - a
      BY <1>9, <3>1
    <3>3. Rank(at, i) = k
      BY <1>2, <1>5, <2>0, <3>2
    <3>4. z[k] = s[i] /\ y[k - a] = s[i]
      BY <1>1, <1>7, <1>8, <3>2, <3>3
    <3> QED BY <1>2, <1>3, <1>6, <1>7, <2>0, <2>2, <3>4
  <2>3. k <= a \/ k > a
    BY <1>2, <2>0
  <2> QED BY <2>1, <2>2, <2>3
<1>11. x \o y \in Seq(S) /\ Len(x \o y) = c
  BY <1>2, <1>3, <1>6, <1>7
<1>12. DOMAIN z = 1..c /\ DOMAIN (x \o y) = 1..c
  BY <1>8, <1>11
<1>13. z = x \o y
  BY <1>8, <1>10, <1>11, <1>12, SeqEqual
<1> QED BY <1>13 DEF x, y, z, A, B

\* What is kept of a list, by position: a list of its items.
LEMMA Kept ==
    ASSUME NEW S, NEW s \in Seq(S), NEW at \in SUBSET DOMAIN s
    PROVE  /\ ItemsAt(s, at) \in Seq(S)
           /\ Len(ItemsAt(s, at)) = Cardinality(at) /\ Cardinality(at) \in Nat
           /\ \A k \in DOMAIN ItemsAt(s, at) : \E i \in at : ItemsAt(s, at)[k] = s[i]
<1>1. Len(s) \in Nat /\ at \in SUBSET (1..Len(s)) /\ \A i \in DOMAIN s : s[i] \in S
  OBVIOUS
<1>2. \A i \in at : s[i] \in S
  BY <1>1
<1>3. /\ ItemsAt(s, at) \in Seq(S)
      /\ Len(ItemsAt(s, at)) = Cardinality(at) /\ Cardinality(at) \in Nat
  BY <1>1, <1>2, ItemsOf
<1>4. DOMAIN ItemsAt(s, at) = 1..Cardinality(at)
  BY <1>1, <1>2, ItemsOf
<1>5. ASSUME NEW k \in 1..Cardinality(at)
      PROVE  \E i \in at : ItemsAt(s, at)[k] = s[i]
  <2>1. PICK i \in at : Rank(at, i) = k
    BY <1>1, Ranked
  <2>2. ItemsAt(s, at)[k] = s[i]
    BY <1>1, <2>1, ItemAt
  <2> QED BY <2>2
<1> QED BY <1>3, <1>4, <1>5

-----------------------------------------------------------------------------
(* Records.                                                                *)

\* The sources that a composition reads are designated ones, accepted for its store.
LEMMA SelectedSources ==
    ASSUME NEW store
    PROVE  Selected(store) \in Seq(Sources)
<1> DEFINE all == [s \in Sources |-> s]
           at == {s \in Sources : store = None \/ store \in Accepted[s]}
<1>1. all \in Seq(Sources) /\ DOMAIN all = Sources
  BY InventoryAssumption DEF Sources
<1>2. at \in SUBSET DOMAIN all
  BY <1>1
<1> HIDE DEF all, at
<1>3. ItemsAt(all, at) \in Seq(Sources)
  BY <1>1, <1>2, Kept
<1> QED BY <1>3 DEF Selected, all, at

\* A record taken from a source is attested, and of the store asked for.
LEMMA TakenRecord ==
    ASSUME NEW s \in Sources, NEW r \in Record, r.of = s
    PROVE  /\ Observed(s, r) \in Record /\ Verified(s, r) \in Record
           /\ Attested(Observed(s, r)) /\ Attested(Verified(s, r))
           /\ Observed(s, r).store = r.store /\ Verified(s, r).store = r.store
<1> DEFINE kept == {g \in r.holds : r.store = None \/ g.attestation = "observed"}
           holds == {[h EXCEPT !.by = s] : h \in kept}
           shown == {[h EXCEPT !.attestation = "verified"] : h \in holds}
           o == Observed(s, r)
<1>1. s \in 0..SourceCount
  BY InventoryAssumption DEF Sources
<1>2. \A h \in kept : /\ h \in Hold
                      /\ r.store # None => h.attestation # "declared"
  BY DEF Record
<1>3. \A h \in holds : /\ h \in Hold /\ h.by = s
                       /\ r.store # None => h.attestation # "declared"
  BY <1>1, <1>2 DEF Hold
<1>4. \A h \in shown : h \in Hold /\ h.by = s /\ h.attestation # "declared"
  BY <1>3 DEF Hold
<1>5. o = [r EXCEPT !.holds = holds]
  BY DEF Observed
<1> HIDE DEF kept, holds, o
<1>6. /\ o \in Record /\ o.holds = holds /\ o.of = s /\ o.store = r.store
  BY <1>3, <1>5 DEF Record
<1>7. Attested(o)
  BY <1>3, <1>6 DEF Attested
<1> DEFINE v == Verified(s, r)
<1>8. v = o \/ v = [o EXCEPT !.holds = shown]
  BY <1>6 DEF Verified, o
<1> HIDE DEF shown, v
<1>9. v \in Record /\ v.of = s /\ v.store = r.store /\ (v = o \/ v.holds = shown)
  BY <1>4, <1>6, <1>8 DEF Record
<1>10. Attested(v)
  BY <1>4, <1>7, <1>9 DEF Attested
<1> QED BY <1>6, <1>7, <1>9, <1>10 DEF o, v

\* What the call takes of a page of a source.
LEMMA TakenRecords ==
    ASSUME NEW c, NEW s \in Sources, NEW records \in Seq(Record),
           \A i \in DOMAIN records : records[i].of = s
    PROVE  Taken(c, s, records) \in Seq(Record) /\ AllFit(Taken(c, s, records), c.store)
<1> DEFINE at == {i \in DOMAIN records : Accepts(s, c.store, records[i])}
           of == ItemsAt(records, at)
           taken == [i \in DOMAIN of |-> IF c.op = "holders" THEN Verified(s, of[i])
                                         ELSE Observed(s, of[i])]
<1>1. taken = Taken(c, s, records)
  BY DEF Taken
<1>2. /\ of \in Seq(Record) /\ Len(of) \in Nat /\ DOMAIN of = 1..Len(of)
      /\ \A k \in DOMAIN of : \E i \in at : of[k] = records[i]
  <2>1. at \in SUBSET DOMAIN records
    OBVIOUS
  <2> HIDE DEF at
  <2>2. /\ of \in Seq(Record)
        /\ \A k \in DOMAIN of : \E i \in at : of[k] = records[i]
    BY <2>1, Kept
  <2> HIDE DEF of
  <2> QED BY <2>2
<1>3. \A i \in at : /\ records[i] \in Record /\ records[i].of = s
                    /\ c.store # None => records[i].store = c.store
  BY DEF Accepts
<1> HIDE DEF of, at
<1>4. \A k \in DOMAIN of : /\ of[k] \in Record /\ of[k].of = s
                           /\ c.store # None => of[k].store = c.store
  BY <1>2, <1>3
<1>5. \A k \in DOMAIN of : taken[k] = Verified(s, of[k]) \/ taken[k] = Observed(s, of[k])
  OBVIOUS
<1>6. DOMAIN taken = DOMAIN of
  OBVIOUS
<1>7. taken = [k \in 1..Len(of) |-> taken[k]]
  BY <1>2
<1> HIDE DEF taken
<1>8. \A k \in DOMAIN taken : taken[k] \in Record /\ Fits(taken[k], c.store)
  BY <1>4, <1>5, <1>6, TakenRecord DEF Fits
<1>9. taken \in Seq(Record)
  BY <1>2, <1>6, <1>7, <1>8
<1> QED BY <1>1, <1>8, <1>9 DEF AllFit

\* Lists of fitting records, joined and selected from.
LEMMA FitJoined ==
    ASSUME NEW store, NEW a \in Seq(Record), NEW b \in Seq(Record),
           AllFit(a, store), AllFit(b, store)
    PROVE  a \o b \in Seq(Record) /\ AllFit(a \o b, store)
<1>1. a \o b \in Seq(Record) /\ Len(a \o b) = Len(a) + Len(b)
  OBVIOUS
<1>2. ASSUME NEW i \in DOMAIN (a \o b) PROVE Fits((a \o b)[i], store)
  <2>1. CASE i <= Len(a)
    <3>1. i \in DOMAIN a /\ (a \o b)[i] = a[i]
      BY <2>1
    <3> QED BY <3>1 DEF AllFit
  <2>2. CASE ~(i <= Len(a))
    <3>1. i - Len(a) \in DOMAIN b /\ (a \o b)[i] = b[i - Len(a)]
      BY <2>2
    <3> QED BY <3>1 DEF AllFit
  <2> QED BY <2>1, <2>2
<1> QED BY <1>1, <1>2 DEF AllFit

\* What Find keeps is of what it was given.
LEMMA FitCarrying ==
    ASSUME NEW records \in Seq(Record), NEW d
    PROVE  /\ Carrying(records, d) \in Seq(Record)
           /\ \A k \in DOMAIN Carrying(records, d) : \E i \in DOMAIN records :
                  Carrying(records, d)[k] = records[i]
<1> DEFINE at == {i \in DOMAIN records : Carries(records[i], d)}
<1>1. at \in SUBSET DOMAIN records
  OBVIOUS
<1> HIDE DEF at
<1>2. /\ ItemsAt(records, at) \in Seq(Record)
      /\ \A k \in DOMAIN ItemsAt(records, at) : \E i \in at : ItemsAt(records, at)[k] = records[i]
  BY <1>1, Kept
<1>3. Carrying(records, d) = ItemsAt(records, at)
  BY DEF Carrying, at
<1> QED BY <1>1, <1>2, <1>3

-----------------------------------------------------------------------------
(* Pages.                                                                  *)

\* The positions that p may read of a stretch of a list.
LEMMA PermittedPositions ==
    ASSUME NEW p, NEW records \in Seq(Record), NEW from \in Nat, NEW upto \in Nat,
           upto <= Len(records)
    PROVE  /\ PermittedAt(p, records, from, upto) \in SUBSET (1..upto)
           /\ PermittedAt(p, records, from, upto) \in SUBSET DOMAIN records
           /\ \A i \in PermittedAt(p, records, from, upto) : from < i /\ i <= upto
<1>1. \A i \in from + 1..upto : i \in 1..upto /\ i \in DOMAIN records /\ from < i /\ i <= upto
  OBVIOUS
<1>2. PermittedAt(p, records, from, upto) \subseteq from + 1..upto
  BY DEF PermittedAt
<1> QED BY <1>1, <1>2

\* A page holds records of its stretch that p may read.
LEMMA PermittedRecords ==
    ASSUME NEW p, NEW records \in Seq(Record), NEW from \in Nat, NEW upto \in Nat,
           upto <= Len(records)
    PROVE  /\ Permitted(p, records, from, upto) \in Seq(Record)
           /\ Len(Permitted(p, records, from, upto)) =
                  Cardinality(PermittedAt(p, records, from, upto))
           /\ \A k \in DOMAIN Permitted(p, records, from, upto) : \E i \in DOMAIN records :
                  /\ Permitted(p, records, from, upto)[k] = records[i]
                  /\ Permits(p, records[i])
<1> DEFINE at == PermittedAt(p, records, from, upto)
<1>1. at \in SUBSET DOMAIN records
  BY PermittedPositions
<1>2. \A i \in at : Permits(p, records[i])
  BY DEF PermittedAt
<1> HIDE DEF at
<1>3. /\ ItemsAt(records, at) \in Seq(Record)
      /\ Len(ItemsAt(records, at)) = Cardinality(at)
      /\ \A k \in DOMAIN ItemsAt(records, at) : \E i \in at : ItemsAt(records, at)[k] = records[i]
  BY <1>1, Kept
<1>4. Permitted(p, records, from, upto) = ItemsAt(records, at)
  BY DEF Permitted, at
<1>5. \A k \in DOMAIN ItemsAt(records, at) : \E i \in DOMAIN records :
          ItemsAt(records, at)[k] = records[i] /\ Permits(p, records[i])
  BY <1>1, <1>2, <1>3
<1> QED BY <1>3, <1>4, <1>5 DEF at

\* The same of one record of a page.
LEMMA PermittedRecord ==
    ASSUME NEW p, NEW records \in Seq(Record), NEW from \in Nat, NEW upto \in Nat,
           upto <= Len(records), NEW k \in DOMAIN Permitted(p, records, from, upto)
    PROVE  \E i \in DOMAIN records :
               Permitted(p, records, from, upto)[k] = records[i] /\ Permits(p, records[i])
  BY PermittedRecords

\* Two pages that meet are the page over both stretches.
LEMMA PermittedJoin ==
    ASSUME NEW p, NEW records \in Seq(Record), NEW a \in Nat, NEW b \in Nat,
           a <= b, b <= Len(records)
    PROVE  Permitted(p, records, 0, b) =
               Permitted(p, records, 0, a) \o Permitted(p, records, a, b)
<1> DEFINE at == PermittedAt(p, records, 0, b)
<1>1. at \in SUBSET (1..b) /\ \A i \in at : records[i] \in Record
  BY PermittedPositions
<1>2. \A i : i \in 0 + 1..b /\ i <= a <=> i \in 0 + 1..a
  OBVIOUS
<1>3. \A i : i \in 0 + 1..b /\ i > a <=> i \in a + 1..b
  OBVIOUS
<1>4. {i \in at : i <= a} = PermittedAt(p, records, 0, a)
  BY <1>2 DEF PermittedAt
<1>5. {i \in at : i > a} = PermittedAt(p, records, a, b)
  BY <1>3 DEF PermittedAt
<1> HIDE DEF at
<1>6. ItemsAt(records, at) =
          ItemsAt(records, {i \in at : i <= a}) \o ItemsAt(records, {i \in at : i > a})
  BY <1>1, ItemsJoin
<1>7. ItemsAt(records, at) = Permitted(p, records, 0, b)
  BY DEF at, Permitted
<1> QED BY <1>4, <1>5, <1>6, <1>7 DEF Permitted

\* Nothing is permitted of an empty stretch.
LEMMA PermittedNone ==
    ASSUME NEW p, NEW records, NEW a \in Nat
    PROVE  PermittedAt(p, records, a, a) = {} /\ Permitted(p, records, a, a) = <<>>
<1>1. PermittedAt(p, records, a, a) = {}
  <2>1. a + 1..a = {}
    OBVIOUS
  <2> QED BY <2>1 DEF PermittedAt
<1>2. Cardinality({}) = 0
  BY FS_EmptySet
<1>3. 1..0 = {}
  OBVIOUS
<1>4. ItemsAt(records, {}) = <<>>
  BY <1>2, <1>3 DEF ItemsAt
<1> QED BY <1>1, <1>4 DEF Permitted

\* How the number of permitted records grows with the stretch.
LEMMA PermittedGrows ==
    ASSUME NEW p, NEW records \in Seq(Record), NEW from \in Nat, NEW i \in Nat,
           i + 1 <= Len(records)
    PROVE  /\ Cardinality(PermittedAt(p, records, from, i)) \in Nat
           /\ Cardinality(PermittedAt(p, records, from, i + 1)) \in Nat
           /\ Cardinality(PermittedAt(p, records, from, i + 1)) <=
                  Cardinality(PermittedAt(p, records, from, i)) + 1
<1> DEFINE a == PermittedAt(p, records, from, i)  b == PermittedAt(p, records, from, i + 1)
<1>1. a \in SUBSET (1..i) /\ b \in SUBSET (1..i + 1)
  <2>1. i <= Len(records) /\ i + 1 \in Nat
    OBVIOUS
  <2> QED BY <2>1, PermittedPositions
<1>2. \A j \in from + 1..i + 1 : j \in from + 1..i \/ j = i + 1
  OBVIOUS
<1>3. b \subseteq a \cup {i + 1}
  BY <1>2 DEF PermittedAt
<1>4. i + 1 \notin a
  BY DEF PermittedAt
<1> HIDE DEF a, b
<1>5. IsFiniteSet(a) /\ Cardinality(a) \in Nat /\ Cardinality(b) \in Nat
  BY <1>1, Positions
<1>6. IsFiniteSet(a \cup {i + 1}) /\ Cardinality(a \cup {i + 1}) = Cardinality(a) + 1
  BY <1>4, <1>5, FS_AddElement
<1>7. Cardinality(b) <= Cardinality(a \cup {i + 1})
  BY <1>3, <1>6, FS_Subset
<1> QED BY <1>5, <1>6, <1>7 DEF a, b

\* A page ends in its list, holds no more than its limit, and moves on unless it is
\* the last.
LEMMA StopsWithin ==
    ASSUME NEW p, NEW records \in Seq(Record), NEW offset \in Nat, offset <= Len(records),
           NEW limit \in Nat, limit > 0
    PROVE  LET stop == Stop(p, records, offset, limit) IN
           /\ stop \in Nat /\ offset <= stop /\ stop <= Len(records)
           /\ Cardinality(PermittedAt(p, records, offset, stop)) <= limit
           /\ stop # Len(records) => offset < stop
<1> DEFINE count(i) == Cardinality(PermittedAt(p, records, offset, i))
           full == {i \in offset..Len(records) : limit = count(i)}
           stop == Stop(p, records, offset, limit)
<1>1. count(offset) = 0
  BY PermittedNone, FS_EmptySet
<1>2. Len(records) \in Nat
  OBVIOUS
<1>3. CASE full # {}
  <2>1. full \in SUBSET Nat
    BY <1>2
  <2>2. \E i \in full : \A j \in full : i <= j
    BY <1>3, <2>1, Least
  <2>3. stop \in full
    BY <1>3, <2>2 DEF Stop
  <2>4. stop \in Nat /\ offset <= stop /\ stop <= Len(records) /\ limit = count(stop)
    BY <1>2, <2>3
  <2>5. stop # offset
    BY <1>1, <2>4
  <2> HIDE DEF stop, full
  <2>6. count(stop) <= limit /\ offset < stop
    BY <2>4, <2>5
  <2> QED BY <2>4, <2>6 DEF stop
<1>4. CASE full = {}
  <2>1. stop = Len(records)
    BY <1>4 DEF Stop
  <2>2. count(Len(records)) <= limit
    <3> DEFINE S == {i \in Nat : i <= Len(records) => count(i) \in Nat /\ count(i) < limit}
    <3>1. offset \in S
      BY <1>1
    <3>2. ASSUME NEW i \in Nat, offset <= i, i \in S PROVE i + 1 \in S
      <4>1. ASSUME i + 1 <= Len(records) PROVE count(i + 1) \in Nat /\ count(i + 1) < limit
        <5>1. count(i) \in Nat /\ count(i + 1) \in Nat /\ count(i + 1) <= count(i) + 1
          BY <4>1, PermittedGrows
        <5>2. count(i) < limit
          BY <1>2, <3>2, <4>1
        <5>3. i + 1 \in offset..Len(records)
          BY <1>2, <3>2, <4>1
        <5>4. count(i + 1) # limit
          BY <1>4, <5>3
        <5> HIDE DEF count
        <5> QED BY <5>1, <5>2, <5>4
      <4> QED BY <4>1
    <3>3. \A j \in Nat : offset <= j => j \in S
      <4> HIDE DEF S
      <4> QED BY <3>1, <3>2, Climbs
    <3>4. count(Len(records)) \in Nat /\ count(Len(records)) < limit
      BY <1>2, <3>3
    <3> QED BY <3>4
  <2> QED BY <1>2, <2>1, <2>2
<1> QED BY <1>3, <1>4

-----------------------------------------------------------------------------
(* What every step keeps.                                                  *)

\* No call, no page, no snapshot and no view yet.
LEMMA Empties ==
    /\ NoStores \in [Stores -> Nat] /\ NoPage \in Page
    /\ Idle \in Call /\ NoView \in View /\ NoSnapshot \in Snapshot
    /\ \A store : AllFit(<<>>, store)
<1>1. NoStores \in [Stores -> Nat]
  BY DEF NoStores
<1>2. NoPage \in Page
  BY <1>1 DEF NoPage, Page
<1>3. Idle \in Call
  BY <1>1, <1>2 DEF Idle, Call
<1>4. NoView \in View
  BY DEF NoView, View
<1>5. NoSnapshot \in Snapshot
  BY <1>1 DEF NoSnapshot, Snapshot
<1>6. \A store : AllFit(<<>>, store)
  BY DEF AllFit
<1> QED BY <1>1, <1>2, <1>3, <1>4, <1>5, <1>6

\* A call that is none knows nothing.
LEMMA IdleKnows ==
    ASSUME NEW p
    PROVE  Knows(p, Idle, "idle")
<1>1. /\ Idle.records = <<>> /\ Idle.page.records = <<>>
  BY DEF Idle, NoPage
<1>2. DOMAIN <<>> = {}
  OBVIOUS
<1> QED BY <1>1, <1>2, Empties DEF Knows

\* One call moves and the others stay.
LEMMA Moved ==
    ASSUME InventoryInv, NEW p \in Callers, NEW at \in PCs, NEW c \in Call, Knows(p, c, at),
           pc' = [pc EXCEPT ![p] = at], call' = [call EXCEPT ![p] = c]
    PROVE  /\ pc' \in [Callers -> PCs] /\ call' \in [Callers -> Call] /\ CallsKnow'
           /\ pc'[p] = at /\ call'[p] = c
           /\ \A q \in Callers \ {p} : pc'[q] = pc[q] /\ call'[q] = call[q]
<1>1. pc \in [Callers -> PCs] /\ call \in [Callers -> Call]
  BY DEF InventoryInv, InventoryTypeOK
<1>2. pc' \in [Callers -> PCs] /\ call' \in [Callers -> Call]
  BY <1>1
<1>3. /\ pc'[p] = at /\ call'[p] = c
      /\ \A q \in Callers \ {p} : pc'[q] = pc[q] /\ call'[q] = call[q]
  BY <1>1
<1>4. \A q \in Callers : Knows(q, call'[q], pc'[q])
  BY <1>3 DEF InventoryInv, CallsKnow
<1> QED BY <1>2, <1>3, <1>4 DEF CallsKnow

\* What is frozen under a token is known to those who have it.
LEMMA FrozenBy ==
    ASSUME NEW t
    PROVE  /\ \A q \in Callers : Serving(q) /\ call[q].token = t => ByCall(q) \in Frozen(t)
           /\ \A q \in Callers : view[q].token = t => ByView(q) \in Frozen(t)
           /\ t \in Retained => BySnapshot(t) \in Frozen(t)
<1>1. \A q \in Callers : Serving(q) /\ call[q].token = t => ByCall(q) \in Frozen(t)
  BY DEF Frozen
<1>2. \A q \in Callers : view[q].token = t => ByView(q) \in Frozen(t)
  BY DEF Frozen
<1>3. t \in Retained => BySnapshot(t) \in Frozen(t)
  BY DEF Frozen
<1> QED BY <1>1, <1>2, <1>3

\* Nothing new is frozen under a token when everyone who has it had it before.
LEMMA FrozenKept ==
    ASSUME NEW t, NEW F,
           \A q \in Callers : Serving(q)' /\ call'[q].token = t => ByCall(q)' \in F,
           \A q \in Callers : view'[q].token = t => ByView(q)' \in F,
           t \in Retained' => BySnapshot(t)' \in F
    PROVE  Frozen(t)' \subseteq F
<1> SUFFICES ASSUME NEW x \in Frozen(t)' PROVE x \in F
  OBVIOUS
<1>1. \/ \E q \in Callers : Serving(q)' /\ call'[q].token = t /\ x = ByCall(q)'
      \/ \E q \in Callers : view'[q].token = t /\ x = ByView(q)'
      \/ t \in Retained' /\ x = BySnapshot(t)'
  BY DEF Frozen
<1> QED BY <1>1

\* The page of no view is of nothing.
LEMMA NoViewExact ==
    ASSUME NEW p
    PROVE  /\ NoView.next = 0 /\ NoView.whole = <<>> /\ Len(<<>>) = 0
           /\ NoView.seen = Permitted(p, <<>>, 0, 0)
  BY PermittedNone DEF NoView

\* A step that freezes nothing and shows a client nothing.
LEMMA Quiet ==
    ASSUME InventoryInv,
           pc' \in [Callers -> PCs], call' \in [Callers -> Call], CallsKnow',
           \A q \in Callers : Serving(q)' =>
               ByCall(q)' \in Frozen(call'[q].token),
           DOMAIN content' = Sources, \A s \in Sources : content'[s] \in Contents[s],
           expires' \in [Tokens -> Nat], drawn' = drawn, closed' \in BOOLEAN, now' \in Nat,
           DOMAIN snapshots' = Tokens, snapshots' = [t \in Tokens |-> snapshots'[t]],
           \A t \in Tokens : snapshots'[t] = snapshots[t] \/ snapshots'[t] = NoSnapshot,
           DOMAIN view' = Callers, view' = [q \in Callers |-> view'[q]],
           \A q \in Callers : view'[q] = view[q] \/ view'[q] = NoView
    PROVE  InventoryInv'
<1>1. InventoryTypeOK'
  <2>1. \A t \in Tokens : snapshots'[t] \in Snapshot
    BY Empties DEF InventoryInv, InventoryTypeOK
  <2>2. \A q \in Callers : view'[q] \in View
    BY Empties DEF InventoryInv, InventoryTypeOK
  <2>3. snapshots' \in [Tokens -> Snapshot] /\ view' \in [Callers -> View]
    BY <2>1, <2>2
  <2> QED BY <2>3 DEF InventoryInv, InventoryTypeOK
<1>2. FrozenOnce'
  <2>1. ASSUME NEW t \in Tokens PROVE Frozen(t)' \subseteq Frozen(t)
    <3>1. t # None
      BY InventoryAssumption
    <3>2. \A q \in Callers : Serving(q)' /\ call'[q].token = t => ByCall(q)' \in Frozen(t)
      OBVIOUS
    <3>3. ASSUME NEW q \in Callers, view'[q].token = t PROVE ByView(q)' \in Frozen(t)
      <4>1. view'[q] = view[q]
        BY <3>1, <3>3 DEF NoView
      <4> QED BY <3>3, <4>1, FrozenBy DEF ByView
    <3>4. ASSUME t \in Retained' PROVE BySnapshot(t)' \in Frozen(t)
      <4>1. snapshots'[t] = snapshots[t]
        BY <3>4 DEF Retained, NoSnapshot
      <4>2. t \in Retained
        BY <3>4, <4>1 DEF Retained
      <4> QED BY <4>1, <4>2, FrozenBy DEF BySnapshot
    <3> QED BY <3>2, <3>3, <3>4, FrozenKept
  <2> QED BY <2>1 DEF InventoryInv, FrozenOnce
<1>3. SnapshotsFit'
  <2>1. ASSUME NEW t \in Tokens PROVE AllFit(snapshots'[t].records, snapshots'[t].store)
    <3>1. CASE snapshots'[t] = snapshots[t]
      BY <3>1 DEF InventoryInv, SnapshotsFit
    <3>2. CASE snapshots'[t] = NoSnapshot
      BY <3>2, Empties DEF NoSnapshot
    <3> QED BY <3>1, <3>2
  <2> QED BY <2>1 DEF SnapshotsFit
<1>4. Followed'
  <2>1. ASSUME NEW q \in Callers
        PROVE  /\ view'[q].next <= Len(view'[q].whole)
               /\ view'[q].next > 0 => view'[q].token # None
    <3>1. CASE view'[q] = view[q]
      BY <3>1 DEF InventoryInv, Followed
    <3>2. CASE view'[q] = NoView
      BY <3>2, NoViewExact
    <3> QED BY <3>1, <3>2
  <2> QED BY <2>1 DEF Followed
<1>5. PagesExact'
  <2>1. ASSUME NEW q \in Callers
        PROVE  view'[q].seen = Permitted(q, view'[q].whole, 0,
                   IF view'[q].next = 0 THEN Len(view'[q].whole) ELSE view'[q].next)
    <3>1. CASE view'[q] = view[q]
      BY <3>1 DEF InventoryInv, PagesExact
    <3>2. CASE view'[q] = NoView
      BY <3>2, NoViewExact
    <3> QED BY <3>1, <3>2
  <2> QED BY <2>1 DEF PagesExact
<1> QED BY <1>1, <1>2, <1>3, <1>4, <1>5 DEF InventoryInv

\* Everything but the calls stays.
LEMMA OthersStay ==
    ASSUME InventoryInv, UNCHANGED <<content, snapshots, expires, drawn, closed, view, now>>
    PROVE  /\ DOMAIN content' = Sources /\ \A s \in Sources : content'[s] \in Contents[s]
           /\ expires' \in [Tokens -> Nat] /\ drawn' = drawn /\ closed' \in BOOLEAN
           /\ now' \in Nat
           /\ DOMAIN snapshots' = Tokens /\ snapshots' = [t \in Tokens |-> snapshots'[t]]
           /\ \A t \in Tokens : snapshots'[t] = snapshots[t] \/ snapshots'[t] = NoSnapshot
           /\ DOMAIN view' = Callers /\ view' = [q \in Callers |-> view'[q]]
           /\ \A q \in Callers : view'[q] = view[q] \/ view'[q] = NoView
  BY DEF InventoryInv, InventoryTypeOK

\* One call moves: what it serves, if anything, is what its token stands for.
LEMMA Serves ==
    ASSUME InventoryInv, NEW p \in Callers, NEW at \in PCs, NEW c \in Call, Knows(p, c, at),
           pc' = [pc EXCEPT ![p] = at], call' = [call EXCEPT ![p] = c],
           at \in {"page", "gate"} /\ c.op = "list" =>
               [scope |-> ScopeOf[p], store |-> c.store, records |-> c.records]
                   \in Frozen(c.token)
    PROVE  /\ pc' \in [Callers -> PCs] /\ call' \in [Callers -> Call] /\ CallsKnow'
           /\ \A q \in Callers : Serving(q)' => ByCall(q)' \in Frozen(call'[q].token)
<1>1. /\ pc' \in [Callers -> PCs] /\ call' \in [Callers -> Call] /\ CallsKnow'
      /\ pc'[p] = at /\ call'[p] = c
      /\ \A q \in Callers \ {p} : pc'[q] = pc[q] /\ call'[q] = call[q]
  BY Moved
<1>2. Serving(p)' => ByCall(p)' \in Frozen(call'[p].token)
  BY <1>1 DEF Serving, ByCall
<1>3. ASSUME NEW q \in Callers \ {p}, Serving(q)' PROVE ByCall(q)' \in Frozen(call'[q].token)
  <2>1. Serving(q) /\ call'[q].token = call[q].token /\ ByCall(q)' = ByCall(q)
    BY <1>1, <1>3 DEF Serving, ByCall
  <2> QED BY <2>1, FrozenBy
<1> QED BY <1>1, <1>2, <1>3

\* The step of a call that changes nothing else.
LEMMA Alone ==
    ASSUME InventoryInv, NEW p \in Callers, NEW at \in PCs, NEW c \in Call, Knows(p, c, at),
           pc' = [pc EXCEPT ![p] = at], call' = [call EXCEPT ![p] = c],
           at \in {"page", "gate"} /\ c.op = "list" =>
               [scope |-> ScopeOf[p], store |-> c.store, records |-> c.records]
                   \in Frozen(c.token),
           UNCHANGED <<content, snapshots, expires, drawn, closed, view, now>>
    PROVE  InventoryInv'
  BY Serves, OthersStay, Quiet

\* A call returns.
LEMMA Returns ==
    ASSUME InventoryInv, NEW p \in Callers, Return(p)
    PROVE  /\ pc' = [pc EXCEPT ![p] = "idle"] /\ call' = [call EXCEPT ![p] = Idle]
           /\ Idle \in Call /\ Knows(p, Idle, "idle") /\ "idle" \in PCs
  BY Empties, IdleKnows DEF Return, Goto, PCs

\* A call that returns changes nothing else.
LEMMA ReturnsAlone ==
    ASSUME InventoryInv, NEW p \in Callers, Return(p),
           UNCHANGED <<content, snapshots, expires, drawn, closed, view, now>>
    PROVE  InventoryInv'
<1>1. "idle" \notin {"page", "gate"}
  OBVIOUS
<1> QED BY <1>1, Returns, Alone

-----------------------------------------------------------------------------
(* One step of a call after the other.                                     *)

\* What the invariant says of one call.
LEMMA AtCall ==
    ASSUME InventoryInv, NEW p \in Callers
    PROVE  call[p] \in Call /\ pc[p] \in PCs /\ Knows(p, call[p], pc[p])
  BY DEF InventoryInv, InventoryTypeOK, CallsKnow

\* A call that begins has read nothing.
LEMMA Begins ==
    ASSUME NEW p, NEW c, NEW at \in {"sweep", "enter"}, c.limit > 0, c.first,
           c.records = <<>>, c.page = NoPage,
           \/ c.op = "list" /\ (c.token = None <=> c.offset = 0)
           \/ at = "enter" /\ c.op # "list" /\ c.store = None /\ c.token = None /\ c.offset = 0
    PROVE  Knows(p, c, at)
<1>1. c.page.records = <<>> /\ DOMAIN <<>> = {}
  BY DEF NoPage
<1>2. AllFit(c.records, c.store)
  BY Empties
<1> QED BY <1>1, <1>2 DEF Knows

\* A limit that a caller may ask for.
LEMMA Limit ==
    /\ MaxInventoryPage \in Nat /\ MaxInventoryPage > 0
    /\ \A limit \in 1..MaxInventoryPage : limit \in Nat /\ limit > 0
<1>1. MaxInventoryPage \in Nat \ {0}
  BY InventoryAssumption
<1> QED BY <1>1

\* A new listing forgets what its client followed.
LEMMA ListKeeps ==
    ASSUME InventoryInv, NEW p \in Callers, List(p)
    PROVE  InventoryInv'
<1>1. PICK store \in Stores \cup {None}, limit \in 1..MaxInventoryPage :
          call' = [call EXCEPT ![p] =
              [Idle EXCEPT !.op = "list", !.store = store, !.limit = limit]]
  BY DEF List
<1> DEFINE c == [Idle EXCEPT !.op = "list", !.store = store, !.limit = limit]
<1>2. limit \in Nat /\ limit > 0
  BY Limit
<1>3. c \in Call
  BY <1>2, Empties DEF Call
<1>4. /\ c.op = "list" /\ c.token = None /\ c.offset = 0 /\ c.limit > 0 /\ c.first
      /\ c.records = <<>> /\ c.page = NoPage
  BY <1>2 DEF Idle
<1> HIDE DEF c
<1>5. Knows(p, c, "sweep") /\ "sweep" \in PCs /\ "sweep" \notin {"page", "gate"}
  BY <1>4, Begins DEF PCs
<1>6. pc' = [pc EXCEPT ![p] = "sweep"] /\ call' = [call EXCEPT ![p] = c]
  BY <1>1 DEF List, Goto, c
<1>7. /\ pc' \in [Callers -> PCs] /\ call' \in [Callers -> Call] /\ CallsKnow'
      /\ \A q \in Callers : Serving(q)' => ByCall(q)' \in Frozen(call'[q].token)
  BY <1>3, <1>5, <1>6, Serves
<1>8. UNCHANGED <<content, snapshots, expires, drawn, closed, now>>
  BY DEF List
<1>9. view \in [Callers -> View] /\ view' = [view EXCEPT ![p] = NoView]
  BY DEF List, InventoryInv, InventoryTypeOK
<1>10. /\ DOMAIN view' = Callers /\ view' = [q \in Callers |-> view'[q]]
       /\ \A q \in Callers : view'[q] = view[q] \/ view'[q] = NoView
  BY <1>9
<1>11. /\ DOMAIN content' = Sources /\ \A s \in Sources : content'[s] \in Contents[s]
       /\ expires' \in [Tokens -> Nat] /\ drawn' = drawn /\ closed' \in BOOLEAN
       /\ now' \in Nat
       /\ DOMAIN snapshots' = Tokens /\ snapshots' = [t \in Tokens |-> snapshots'[t]]
       /\ \A t \in Tokens : snapshots'[t] = snapshots[t] \/ snapshots'[t] = NoSnapshot
  BY <1>8 DEF InventoryInv, InventoryTypeOK
<1> QED BY <1>7, <1>10, <1>11, Quiet

\* A continuation carries the token and the offset of a view.
LEMMA ListNextKeeps ==
    ASSUME InventoryInv, NEW p \in Callers, ListNext(p)
    PROVE  InventoryInv'
<1>1. PICK q \in Callers, store \in Stores \cup {None}, limit \in 1..MaxInventoryPage :
          /\ view[q].next > 0
          /\ call' = [call EXCEPT ![p] =
              [Idle EXCEPT !.op = "list", !.store = store, !.limit = limit,
                           !.token = view[q].token, !.offset = view[q].next]]
  BY DEF ListNext
<1> DEFINE c == [Idle EXCEPT !.op = "list", !.store = store, !.limit = limit,
                             !.token = view[q].token, !.offset = view[q].next]
<1>2. limit \in Nat /\ limit > 0
  BY Limit
<1>3. view[q] \in View /\ view[q].token # None
  BY <1>1 DEF InventoryInv, InventoryTypeOK, Followed
<1>4. view[q].token \in Tokens \cup {None} /\ view[q].next \in Nat
  BY <1>3 DEF View
<1>5. c \in Call
  BY <1>2, <1>4, Empties DEF Call
<1>6. /\ c.op = "list" /\ c.token # None /\ c.offset # 0 /\ c.limit > 0 /\ c.first
      /\ c.records = <<>> /\ c.page = NoPage
  BY <1>1, <1>2, <1>3, <1>4 DEF Idle
<1> HIDE DEF c
<1>7. Knows(p, c, "sweep") /\ "sweep" \in PCs /\ "sweep" \notin {"page", "gate"}
  BY <1>6, Begins DEF PCs
<1>8. pc' = [pc EXCEPT ![p] = "sweep"] /\ call' = [call EXCEPT ![p] = c]
  BY <1>1 DEF ListNext, Goto, c
<1>9. UNCHANGED <<content, snapshots, expires, drawn, closed, view, now>>
  BY DEF ListNext
<1> QED BY <1>5, <1>7, <1>8, <1>9, Alone

\* Find and Holders have neither.
LEMMA LookupKeeps ==
    ASSUME InventoryInv, NEW p \in Callers, Lookup(p)
    PROVE  InventoryInv'
<1>1. PICK op \in {"find", "holders"}, d \in Digests :
          call' = [call EXCEPT ![p] = [Idle EXCEPT !.op = op, !.digest = d,
                                                  !.limit = MaxInventoryPage]]
  BY DEF Lookup
<1> DEFINE c == [Idle EXCEPT !.op = op, !.digest = d, !.limit = MaxInventoryPage]
<1>2. c \in Call
  BY Limit, Empties DEF Call
<1>3. /\ c.op # "list" /\ c.token = None /\ c.offset = 0 /\ c.limit > 0 /\ c.first
      /\ c.store = None /\ c.records = <<>> /\ c.page = NoPage
  BY Limit DEF Idle
<1> HIDE DEF c
<1>4. Knows(p, c, "enter") /\ "enter" \in PCs /\ "enter" \notin {"page", "gate"}
  BY <1>3, Begins DEF PCs
<1>5. pc' = [pc EXCEPT ![p] = "enter"] /\ call' = [call EXCEPT ![p] = c]
  BY <1>1 DEF Lookup, Goto, c
<1>6. UNCHANGED <<content, snapshots, expires, drawn, closed, view, now>>
  BY DEF Lookup
<1> QED BY <1>2, <1>4, <1>5, <1>6, Alone

\* Sweeping forgets snapshots.
LEMMA SweptKeeps ==
    ASSUME InventoryInv, snapshots' = Swept
    PROVE  /\ DOMAIN snapshots' = Tokens /\ snapshots' = [t \in Tokens |-> snapshots'[t]]
           /\ \A t \in Tokens : snapshots'[t] = snapshots[t] \/ snapshots'[t] = NoSnapshot
<1>1. DOMAIN snapshots' = Tokens /\ snapshots' = [t \in Tokens |-> snapshots'[t]]
  BY DEF Swept
<1>2. \A t \in Tokens : snapshots'[t] = IF Lapsed(t) THEN NoSnapshot ELSE snapshots[t]
  BY DEF Swept
<1> QED BY <1>1, <1>2

\* A call that sweeps goes on without what it swept.
LEMMA SweepKeeps ==
    ASSUME InventoryInv, NEW p \in Callers, Sweep(p)
    PROVE  InventoryInv'
<1> DEFINE c == call[p]
<1>1. c \in Call /\ Knows(p, c, "sweep") /\ call \in [Callers -> Call]
  BY AtCall DEF Sweep, InventoryInv, InventoryTypeOK
<1>2. pc' = [pc EXCEPT ![p] = "enter"] /\ call' = [call EXCEPT ![p] = c]
  BY <1>1 DEF Sweep, Goto
<1> HIDE DEF c
<1>3. Knows(p, c, "enter") /\ "enter" \in PCs /\ "enter" \notin {"page", "gate"}
  BY <1>1 DEF Knows, PCs
<1>4. /\ pc' \in [Callers -> PCs] /\ call' \in [Callers -> Call] /\ CallsKnow'
      /\ \A q \in Callers : Serving(q)' => ByCall(q)' \in Frozen(call'[q].token)
  BY <1>1, <1>2, <1>3, Serves
<1>5. snapshots' = Swept /\ UNCHANGED <<content, expires, drawn, closed, view, now>>
  BY DEF Sweep
<1>6. /\ DOMAIN content' = Sources /\ \A s \in Sources : content'[s] \in Contents[s]
      /\ expires' \in [Tokens -> Nat] /\ drawn' = drawn /\ closed' \in BOOLEAN
      /\ now' \in Nat
      /\ DOMAIN view' = Callers /\ view' = [q \in Callers |-> view'[q]]
      /\ \A q \in Callers : view'[q] = view[q] \/ view'[q] = NoView
  BY <1>5 DEF InventoryInv, InventoryTypeOK
<1> QED BY <1>4, <1>5, <1>6, SweptKeeps, Quiet

\* The first critical section names the sources to read.
LEMMA ComposeStays ==
    ASSUME InventoryInv, NEW p \in Callers, Compose(p)
    PROVE  InventoryInv'
<1>1. UNCHANGED <<content, snapshots, expires, drawn, closed, view, now>>
  BY DEF Compose
<1>2. CASE Return(p)
  BY <1>1, <1>2, ReturnsAlone
<1>3. CASE ~Return(p)
  <2> DEFINE c == call[p]  at == IF c.op = "list" THEN "drain" ELSE "read"
             d == [c EXCEPT !.left = Selected(c.store)]
  <2>1. c \in Call /\ Knows(p, c, "enter") /\ c.token = None
    BY AtCall DEF Compose
  <2>2. Goto(p, at) /\ call' = [call EXCEPT ![p].left = Selected(c.store)]
    BY <1>3 DEF Compose
  <2>3. pc' = [pc EXCEPT ![p] = at] /\ call' = [call EXCEPT ![p] = d]
    BY <2>2 DEF Goto
  <2> HIDE DEF c
  <2>4. d \in Call
    BY <2>1, SelectedSources DEF Call
  <2>5. /\ d.op = c.op /\ d.store = c.store /\ d.token = c.token /\ d.offset = c.offset
        /\ d.limit = c.limit /\ d.first = c.first /\ d.records = c.records /\ d.page = c.page
    BY <2>1 DEF Call
  <2> HIDE DEF d
  <2>6. at \in {"drain", "read"} /\ (at = "drain" <=> c.op = "list")
    OBVIOUS
  <2> HIDE DEF at
  <2>7. Knows(p, d, at) /\ at \in PCs /\ at \notin {"page", "gate"}
    BY <2>1, <2>5, <2>6 DEF Knows, PCs
  <2> QED BY <1>1, <2>3, <2>4, <2>7, Alone
<1> QED BY <1>2, <1>3

\* A stretch of a list holds items of it.
LEMMA Stretch ==
    ASSUME NEW S, NEW s \in Seq(S), NEW m \in Nat, 1 <= m, NEW n \in Nat, n <= Len(s)
    PROVE  /\ SubSeq(s, m, n) \in Seq(S)
           /\ \A i \in DOMAIN SubSeq(s, m, n) : \E j \in DOMAIN s : SubSeq(s, m, n)[i] = s[j]
<1>1. \A i \in m..n : i \in DOMAIN s /\ s[i] \in S
  OBVIOUS
<1>2. m \in Int /\ n \in Int /\ \A i \in m..n : s[i] \in S
  BY <1>1
<1>3. /\ SubSeq(s, m, n) \in Seq(S)
      /\ Len(SubSeq(s, m, n)) = IF m <= n THEN n - m + 1 ELSE 0
      /\ \A i \in 1..n - m + 1 : SubSeq(s, m, n)[i] = s[m + i - 1]
  BY <1>2, SubSeqProperties
<1> DEFINE q == SubSeq(s, m, n)
<1> HIDE DEF q
<1>4. ASSUME NEW i \in DOMAIN q PROVE \E j \in DOMAIN s : q[i] = s[j]
  <2>1. i \in 1..Len(q)
    BY <1>3 DEF q
  <2>2. m <= n /\ i \in 1..n - m + 1
    BY <1>3, <2>1 DEF q
  <2>3. m + i - 1 \in m..n
    BY <2>2
  <2>4. q[i] = s[m + i - 1] /\ m + i - 1 \in DOMAIN s
    BY <1>1, <1>3, <2>2, <2>3 DEF q
  <2> QED BY <2>4
<1> QED BY <1>3, <1>4 DEF q

\* What a source has.
LEMMA ContentOf ==
    ASSUME InventoryInv, NEW s \in Sources
    PROVE  /\ content[s].records \in Seq(Record)
           /\ \A i \in DOMAIN content[s].records : content[s].records[i].of = s
<1>1. content[s] \in [stores : SUBSET Stores, records : Seq({r \in Record : r.of = s})]
  BY InventoryAssumption DEF InventoryInv, InventoryTypeOK
<1>2. content[s].records \in Seq({r \in Record : r.of = s})
  BY <1>1
<1>3. \A i \in DOMAIN content[s].records : content[s].records[i] \in {r \in Record : r.of = s}
  BY <1>2
<1>4. content[s].records \in Seq(Record)
  BY <1>2, <1>3
<1> QED BY <1>3, <1>4

\* A call after the first page of a source: what is left of it is of that source.
LEMMA BegunCall ==
    ASSUME InventoryInv, NEW c \in Call, c.left # <<>>,
           ~c.first => \A i \in DOMAIN c.rest : c.rest[i].of = Head(c.left)
    PROVE  LET s == Head(c.left)  b == Begun(c, s) IN
           /\ s \in Sources /\ Tail(c.left) \in Seq(Sources)
           /\ b \in Call /\ ~b.first
           /\ \A i \in DOMAIN b.rest : b.rest[i].of = s
           /\ b.op = c.op /\ b.store = c.store /\ b.token = c.token /\ b.offset = c.offset
           /\ b.limit = c.limit /\ b.left = c.left /\ b.records = c.records /\ b.page = c.page
<1> DEFINE s == Head(c.left)  b == Begun(c, s)
<1>1. c.left \in Seq(Sources) /\ c.rest \in Seq(Record) /\ c.first \in BOOLEAN
  BY DEF Call
<1>2. s \in Sources /\ Tail(c.left) \in Seq(Sources)
  BY <1>1
<1> HIDE DEF s
<1>3. CASE ~c.first
  <2>1. b = c
    BY <1>3 DEF Begun
  <2> QED BY <1>2, <1>3, <2>1 DEF s
<1>4. CASE c.first
  <2> DEFINE rest == Answered(c, s)  heard == Append(c.heard, rest)
             stores == [st \in Stores |->
                 c.stores[st] + IF st \in content[s].stores \cap Accepted[s]
                                   /\ c.store \in {None, st} THEN 1 ELSE 0]
  <2>1. rest \in Seq(Record) /\ \A i \in DOMAIN rest : rest[i].of = s
    <3>1. /\ content[s].records \in Seq(Record)
          /\ \A i \in DOMAIN content[s].records : content[s].records[i].of = s
      BY <1>2, ContentOf
    <3>2. /\ Carrying(content[s].records, c.digest) \in Seq(Record)
          /\ \A k \in DOMAIN Carrying(content[s].records, c.digest) :
                 Carrying(content[s].records, c.digest)[k].of = s
      BY <3>1, FitCarrying
    <3> QED BY <3>1, <3>2 DEF Answered
  <2>2. b = [c EXCEPT !.first = FALSE, !.rest = rest, !.heard = heard, !.stores = stores]
    BY <1>4 DEF Begun
  <2> HIDE DEF rest
  <2>3. heard \in Seq(Seq(Record))
    BY <2>1 DEF Call
  <2>4. stores \in [Stores -> Nat]
    <3>1. c.stores \in [Stores -> Nat]
      BY DEF Call
    <3>2. \A st \in Stores : stores[st] = c.stores[st] \/ stores[st] = c.stores[st] + 1
      BY <3>1
    <3>3. \A st \in Stores : stores[st] \in Nat
      BY <3>1, <3>2
    <3> QED BY <3>3
  <2> HIDE DEF heard, stores, b
  <2>5. /\ b \in Call /\ ~b.first /\ b.rest = rest
        /\ b.op = c.op /\ b.store = c.store /\ b.token = c.token /\ b.offset = c.offset
        /\ b.limit = c.limit /\ b.left = c.left /\ b.records = c.records /\ b.page = c.page
    BY <2>1, <2>2, <2>3, <2>4 DEF Call
  <2> QED BY <1>2, <2>1, <2>5 DEF b, s
<1> QED BY <1>1, <1>3, <1>4

\* How much of what is left of a source is a page.
LEMMA PageWithin ==
    ASSUME NEW c \in Call
    PROVE  PageSize(c) \in Nat /\ PageSize(c) <= Len(c.rest) /\ Len(c.rest) \in Nat
<1>1. Len(c.rest) \in Nat
  BY DEF Call
<1>2. \/ PageSize(c) = Len(c.rest)
      \/ PageSize(c) = MaxInventoryPage /\ ~(Len(c.rest) < MaxInventoryPage)
  BY DEF PageSize
<1> QED BY <1>1, <1>2, Limit

\* A page of a source adds records that fit, and leaves records of that source.
LEMMA DrainPageKeeps ==
    ASSUME InventoryInv, NEW p \in Callers, DrainPage(p)
    PROVE  InventoryInv'
<1> DEFINE a == call[p]  s == Head(a.left)  c == Begun(a, s)  n == PageSize(c)
           taken == Taken(c, s, SubSeq(c.rest, 1, n))
           records == c.records \o taken
           last == [c EXCEPT !.records = records, !.left = Tail(c.left), !.first = TRUE,
                             !.rest = <<>>]
           more == [c EXCEPT !.records = records, !.rest = SubSeq(c.rest, n + 1, Len(c.rest))]
<1>1. UNCHANGED <<content, snapshots, expires, drawn, closed, view, now>>
  BY DEF DrainPage
<1>2. /\ a \in Call /\ pc[p] \in {"drain", "read"} /\ Knows(p, a, pc[p]) /\ a.left # <<>>
  BY AtCall DEF DrainPage, Drains
<1>3. CASE Return(p)
  BY <1>1, <1>3, ReturnsAlone
<1>4. CASE /\ UNCHANGED pc
           /\ call' = [call EXCEPT ![p] =
                  IF n = Len(c.rest)
                  THEN [[c EXCEPT !.records = records]
                           EXCEPT !.left = Tail(@), !.first = TRUE, !.rest = <<>>]
                  ELSE [[c EXCEPT !.records = records]
                           EXCEPT !.rest = SubSeq(@, n + 1, Len(@))]]
  <2>1. /\ s \in Sources /\ Tail(a.left) \in Seq(Sources)
        /\ c \in Call /\ ~c.first
        /\ \A i \in DOMAIN c.rest : c.rest[i].of = s
        /\ c.op = a.op /\ c.store = a.store /\ c.token = a.token /\ c.offset = a.offset
        /\ c.limit = a.limit /\ c.left = a.left /\ c.records = a.records /\ c.page = a.page
    <3>1. ~a.first => \A i \in DOMAIN a.rest : a.rest[i].of = Head(a.left)
      BY <1>2 DEF Knows
    <3> HIDE DEF a
    <3> QED BY <1>2, <3>1, BegunCall
  <2>2. n \in Nat /\ n <= Len(c.rest) /\ Len(c.rest) \in Nat /\ c.rest \in Seq(Record)
    BY <2>1, PageWithin DEF Call
  <2> HIDE DEF c, n
  <2>3. /\ [[c EXCEPT !.records = records]
               EXCEPT !.left = Tail(@), !.first = TRUE, !.rest = <<>>] = last
        /\ [[c EXCEPT !.records = records] EXCEPT !.rest = SubSeq(@, n + 1, Len(@))] = more
    <3> HIDE DEF records
    <3> QED BY <2>1 DEF Call
  <2>4. pc' = [pc EXCEPT ![p] = pc[p]]
    BY <1>4 DEF InventoryInv, InventoryTypeOK
  <2>5. taken \in Seq(Record) /\ AllFit(taken, c.store)
    <3> DEFINE page == SubSeq(c.rest, 1, n)
    <3>1. /\ page \in Seq(Record)
          /\ \A i \in DOMAIN page : \E j \in DOMAIN c.rest : page[i] = c.rest[j]
      BY <2>2, Stretch
    <3> HIDE DEF page
    <3>2. \A i \in DOMAIN page : page[i].of = s
      BY <2>1, <3>1
    <3> QED BY <2>1, <3>1, <3>2, TakenRecords DEF page
  <2>6. c.records \in Seq(Record) /\ AllFit(c.records, c.store)
    BY <1>2, <2>1 DEF Knows, Call
  <2>7. records \in Seq(Record) /\ AllFit(records, c.store)
    <3> HIDE DEF taken
    <3> QED BY <2>5, <2>6, FitJoined
  <2> HIDE DEF records
  <2> DEFINE rest == SubSeq(c.rest, n + 1, Len(c.rest))
  <2>8. rest \in Seq(Record) /\ \A i \in DOMAIN rest : rest[i].of = s
    <3>1. n + 1 \in Nat /\ 1 <= n + 1
      BY <2>2
    <3>2. /\ rest \in Seq(Record)
          /\ \A i \in DOMAIN rest : \E j \in DOMAIN c.rest : rest[i] = c.rest[j]
      BY <2>2, <3>1, Stretch
    <3> HIDE DEF rest
    <3> QED BY <2>1, <3>2
  <2> HIDE DEF rest
  <2>9. more = [c EXCEPT !.records = records, !.rest = rest]
    BY DEF rest
  <2> HIDE DEF more, last, a, s
  <2>10. CASE n = Len(c.rest)
    <3>1. call' = [call EXCEPT ![p] = last]
      BY <1>4, <2>3, <2>10
    <3>2. Tail(c.left) \in Seq(Sources) /\ <<>> \in Seq(Record)
      BY <2>1
    <3>3. /\ last \in Call /\ last.first /\ last.records = records
          /\ last.op = c.op /\ last.store = c.store /\ last.token = c.token
          /\ last.offset = c.offset /\ last.limit = c.limit /\ last.page = c.page
      BY <2>1, <2>7, <3>2 DEF last, Call
    <3>4. Knows(p, last, pc[p]) /\ pc[p] \in PCs /\ pc[p] \notin {"page", "gate"}
      BY <1>2, <2>1, <2>7, <3>3 DEF Knows, PCs
    <3> QED BY <1>1, <2>4, <3>1, <3>3, <3>4, Alone
  <2>11. CASE n # Len(c.rest)
    <3>1. call' = [call EXCEPT ![p] = more]
      BY <1>4, <2>3, <2>11
    <3>2. /\ more \in Call /\ more.records = records /\ more.rest = rest
          /\ more.op = c.op /\ more.store = c.store /\ more.token = c.token
          /\ more.offset = c.offset /\ more.limit = c.limit /\ more.page = c.page
          /\ more.left = c.left
      BY <2>1, <2>7, <2>8, <2>9 DEF Call
    <3>3. more.left # <<>> /\ \A i \in DOMAIN more.rest : more.rest[i].of = Head(more.left)
      BY <1>2, <2>1, <2>8, <3>2 DEF s
    <3>4. Knows(p, more, pc[p]) /\ pc[p] \in PCs /\ pc[p] \notin {"page", "gate"}
      BY <1>2, <2>1, <2>7, <3>2, <3>3 DEF Knows, PCs
    <3> QED BY <1>1, <2>4, <3>1, <3>2, <3>4, Alone
  <2> QED BY <2>10, <2>11
<1> QED BY <1>3, <1>4 DEF DrainPage

\* What Find keeps fits, and nothing else is kept by the others.
LEMMA MatchingFits ==
    ASSUME NEW c \in Call, AllFit(c.records, c.store)
    PROVE  Matching(c) \in Seq(Record) /\ AllFit(Matching(c), c.store)
<1>1. c.records \in Seq(Record)
  BY DEF Call
<1>2. /\ Carrying(c.records, c.digest) \in Seq(Record)
      /\ \A k \in DOMAIN Carrying(c.records, c.digest) : \E i \in DOMAIN c.records :
             Carrying(c.records, c.digest)[k] = c.records[i]
  BY <1>1, FitCarrying
<1>3. AllFit(Carrying(c.records, c.digest), c.store)
  BY <1>2 DEF AllFit
<1> QED BY <1>1, <1>2, <1>3 DEF Matching

\* A composition goes on only with the one store record of its store.
LEMMA DrainedKeeps ==
    ASSUME InventoryInv, NEW p \in Callers, Drained(p)
    PROVE  InventoryInv'
<1> DEFINE c == call[p]  at == IF pc[p] = "drain" THEN "insert" ELSE "page"
           d == [c EXCEPT !.records = Matching(c)]
<1>1. UNCHANGED <<content, snapshots, expires, drawn, closed, view, now>>
  BY DEF Drained
<1>2. /\ c \in Call /\ pc[p] \in {"drain", "read"} /\ Knows(p, c, pc[p])
  BY AtCall DEF Drained, Drains
<1>3. CASE Return(p)
  BY <1>1, <1>3, ReturnsAlone
<1>4. CASE /\ OneStore(c) /\ Goto(p, at)
           /\ call' = [call EXCEPT ![p].records = Matching(c)]
  <2>1. pc' = [pc EXCEPT ![p] = at] /\ call' = [call EXCEPT ![p] = d]
    BY <1>4 DEF Goto
  <2> HIDE DEF c
  <2>2. AllFit(c.records, c.store)
    BY <1>2 DEF Knows
  <2>3. Matching(c) \in Seq(Record) /\ AllFit(Matching(c), c.store)
    BY <1>2, <2>2, MatchingFits
  <2>4. /\ d \in Call /\ d.records = Matching(c)
        /\ d.op = c.op /\ d.store = c.store /\ d.token = c.token /\ d.offset = c.offset
        /\ d.limit = c.limit /\ d.stores = c.stores /\ d.page = c.page
    BY <1>2, <2>3 DEF Call
  <2> HIDE DEF d
  <2>5. OneStore(d)
    BY <1>4, <2>4 DEF OneStore
  <2>6. Len(d.records) \in Nat /\ d.offset = 0
    BY <1>2, <2>3, <2>4 DEF Knows
  <2>7. \/ at = "insert" /\ d.op = "list"
        \/ at = "page" /\ d.op # "list" /\ d.store = None /\ d.token = None
    BY <1>2, <2>4 DEF Knows
  <2>8. /\ d.limit > 0 /\ AllFit(d.records, d.store)
        /\ \A i \in DOMAIN d.page.records :
               Fits(d.page.records[i], d.store) /\ Permits(p, d.page.records[i])
    BY <1>2, <2>3, <2>4 DEF Knows
  <2> HIDE DEF at
  <2>9. Knows(p, d, at) /\ at \in PCs
    BY <2>5, <2>6, <2>7, <2>8 DEF Knows, PCs
  <2>10. ~(at \in {"page", "gate"} /\ d.op = "list")
    BY <2>7
  <2> QED BY <1>1, <2>1, <2>4, <2>9, <2>10, Alone
<1> QED BY <1>3, <1>4 DEF Drained

\* The second critical section draws a token that nobody has.
LEMMA FreezeStays ==
    ASSUME InventoryInv, NEW p \in Callers, Freeze(p)
    PROVE  InventoryInv'
<1> DEFINE c == call[p]
<1>1. UNCHANGED <<content, closed, view, now>>
  BY DEF Freeze
<1>2. /\ c \in Call /\ pc[p] = "insert" /\ Knows(p, c, "insert")
  BY AtCall DEF Freeze
<1>3. CASE Return(p) /\ UNCHANGED <<snapshots, expires, drawn>>
  BY <1>1, <1>3, ReturnsAlone
<1>4. ASSUME NEW t \in Tokens \ drawn,
             drawn' = drawn \cup {t},
             snapshots' = [snapshots EXCEPT ![t] =
                 [scope |-> ScopeOf[p], store |-> c.store, stores |-> c.stores,
                  records |-> c.records]],
             expires' = [expires EXCEPT ![t] = now + SnapshotIdle],
             Goto(p, "page"), call' = [call EXCEPT ![p].token = t]
      PROVE  InventoryInv'
  <2> DEFINE d == [c EXCEPT !.token = t]
             new == [scope |-> ScopeOf[p], store |-> c.store, stores |-> c.stores,
                     records |-> c.records]
  <2>1. pc' = [pc EXCEPT ![p] = "page"] /\ call' = [call EXCEPT ![p] = d]
    BY <1>4 DEF Goto
  <2> HIDE DEF c
  <2>2. /\ d \in Call /\ d.token = t
        /\ d.op = c.op /\ d.store = c.store /\ d.records = c.records /\ d.offset = c.offset
        /\ d.limit = c.limit /\ d.stores = c.stores /\ d.page = c.page
    BY <1>2, <1>4 DEF Call
  <2> HIDE DEF d
  <2>3. t # None /\ t \in Tokens
    BY InventoryAssumption
  <2>4. Knows(p, d, "page") /\ "page" \in PCs
    <3>1. Len(d.records) \in Nat
      BY <2>2 DEF Call
    <3>2. OneStore(d)
      BY <1>2, <2>2 DEF Knows, OneStore
    <3>3. /\ d.op = "list" /\ d.offset = 0 /\ d.limit > 0 /\ AllFit(d.records, d.store)
          /\ \A i \in DOMAIN d.page.records :
                 Fits(d.page.records[i], d.store) /\ Permits(p, d.page.records[i])
      BY <1>2, <2>2 DEF Knows
    <3> QED BY <2>2, <2>3, <3>1, <3>2, <3>3 DEF Knows, PCs
  <2>5. /\ pc' \in [Callers -> PCs] /\ call' \in [Callers -> Call] /\ CallsKnow'
        /\ pc'[p] = "page" /\ call'[p] = d
        /\ \A q \in Callers \ {p} : pc'[q] = pc[q] /\ call'[q] = call[q]
    BY <2>1, <2>2, <2>4, Moved
  <2>6. /\ snapshots \in [Tokens -> Snapshot] /\ expires \in [Tokens -> Nat]
        /\ drawn \in SUBSET Tokens /\ now \in Nat
    BY DEF InventoryInv, InventoryTypeOK
  <2>7. new \in Snapshot
    <3>1. ScopeOf[p] \in Scopes
      BY InventoryAssumption
    <3> QED BY <1>2, <3>1 DEF Snapshot, Call
  <2>8. /\ snapshots' \in [Tokens -> Snapshot] /\ snapshots'[t] = new
        /\ \A u \in Tokens \ {t} : snapshots'[u] = snapshots[u]
    BY <1>4, <2>6, <2>7
  <2>9. InventoryTypeOK'
    <3>1. expires' \in [Tokens -> Nat]
      <4>1. now + SnapshotIdle \in Nat
        BY <2>6, InventoryAssumption
      <4> QED BY <1>4, <2>6, <4>1
    <3>2. drawn' \in SUBSET Tokens
      BY <1>4, <2>6
    <3> QED BY <1>1, <2>5, <2>8, <3>1, <3>2 DEF InventoryInv, InventoryTypeOK
  <2>10. Frozen(t) = {}
    BY <1>4 DEF InventoryInv, FrozenOnce
  <2> DEFINE x == [scope |-> ScopeOf[p], store |-> c.store, records |-> c.records]
  <2>11. Frozen(t)' \subseteq {x}
    <3>1. ASSUME NEW q \in Callers, Serving(q)', call'[q].token = t PROVE ByCall(q)' \in {x}
      <4>1. CASE q = p
        BY <2>2, <2>5, <4>1 DEF ByCall
      <4>2. CASE q # p
        <5>1. Serving(q) /\ call[q].token = t
          BY <2>5, <3>1, <4>2 DEF Serving
        <5> QED BY <2>10, <5>1, FrozenBy
      <4> QED BY <4>1, <4>2
    <3>2. ASSUME NEW q \in Callers, view'[q].token = t PROVE ByView(q)' \in {x}
      BY <1>1, <2>10, <3>2, FrozenBy
    <3>3. BySnapshot(t)' \in {x}
      BY <2>8 DEF BySnapshot
    <3> HIDE DEF x
    <3> QED BY <3>1, <3>2, <3>3, FrozenKept
  <2>12. ASSUME NEW u \in Tokens, u # t PROVE Frozen(u)' \subseteq Frozen(u)
    <3>1. ASSUME NEW q \in Callers, Serving(q)', call'[q].token = u
          PROVE  ByCall(q)' \in Frozen(u)
      <4>1. q # p
        BY <2>2, <2>5, <2>12, <3>1
      <4>2. Serving(q) /\ call[q].token = u /\ ByCall(q)' = ByCall(q)
        BY <2>5, <3>1, <4>1 DEF Serving, ByCall
      <4> QED BY <4>2, FrozenBy
    <3>2. ASSUME NEW q \in Callers, view'[q].token = u PROVE ByView(q)' \in Frozen(u)
      <4>1. view[q].token = u /\ ByView(q)' = ByView(q)
        BY <1>1, <3>2 DEF ByView
      <4> QED BY <4>1, FrozenBy
    <3>3. ASSUME u \in Retained' PROVE BySnapshot(u)' \in Frozen(u)
      <4>1. u \in Retained /\ BySnapshot(u)' = BySnapshot(u)
        BY <2>8, <2>12, <3>3 DEF Retained, BySnapshot
      <4> QED BY <4>1, FrozenBy
    <3> QED BY <3>1, <3>2, <3>3, FrozenKept
  <2>13. FrozenOnce'
    <3>1. ASSUME NEW u \in Tokens
          PROVE  /\ \A a, b \in Frozen(u)' : a = b
                 /\ u \in drawn' \/ Frozen(u)' = {}
      <4>1. CASE u = t
        BY <1>4, <2>11, <4>1
      <4>2. CASE u # t
        <5>1. Frozen(u)' \subseteq Frozen(u)
          BY <2>12, <4>2
        <5>2. /\ \A a, b \in Frozen(u) : a = b
              /\ u \in drawn \/ Frozen(u) = {}
          BY DEF InventoryInv, FrozenOnce
        <5> QED BY <1>4, <5>1, <5>2
      <4> QED BY <4>1, <4>2
    <3> QED BY <3>1 DEF FrozenOnce
  <2>14. SnapshotsFit'
    <3>1. AllFit(new.records, new.store)
      BY <1>2 DEF Knows
    <3> HIDE DEF new
    <3>2. ASSUME NEW u \in Tokens PROVE AllFit(snapshots'[u].records, snapshots'[u].store)
      <4>1. CASE u = t
        BY <2>8, <3>1, <4>1
      <4>2. CASE u # t
        BY <2>8, <4>2 DEF InventoryInv, SnapshotsFit
      <4> QED BY <4>1, <4>2
    <3> QED BY <3>2 DEF SnapshotsFit
  <2>15. Followed' /\ PagesExact'
    BY <1>1 DEF InventoryInv, Followed, PagesExact
  <2> QED BY <2>5, <2>9, <2>13, <2>14, <2>15 DEF InventoryInv
<1> QED BY <1>3, <1>4 DEF Freeze

\* A continuation finds what its token stands for.
LEMMA ContinueKeeps ==
    ASSUME InventoryInv, NEW p \in Callers, Continue(p)
    PROVE  InventoryInv'
<1> DEFINE c == call[p]  s == snapshots[c.token]
           d == [c EXCEPT !.stores = s.stores, !.records = s.records]
<1>1. UNCHANGED <<content, snapshots, drawn, closed, view, now>>
  BY DEF Continue
<1>2. /\ c \in Call /\ pc[p] = "enter" /\ Knows(p, c, "enter") /\ c.token # None
  BY AtCall DEF Continue
<1>3. CASE Return(p) /\ UNCHANGED expires
  BY <1>1, <1>3, ReturnsAlone
<1>4. CASE /\ c.token \in Retained /\ Bound(s, p) /\ ~(c.offset > Len(s.records))
           /\ expires' = [expires EXCEPT ![c.token] = now + SnapshotIdle]
           /\ Goto(p, "page")
           /\ call' = [call EXCEPT ![p].stores = s.stores, ![p].records = s.records]
  <2>1. c.token \in Tokens
    BY <1>4 DEF Retained
  <2>2. s \in Snapshot /\ AllFit(s.records, s.store)
    BY <2>1 DEF InventoryInv, InventoryTypeOK, SnapshotsFit
  <2>3. s.store = c.store /\ s.scope = ScopeOf[p]
    BY <1>4 DEF Bound
  <2>4. pc' = [pc EXCEPT ![p] = "page"] /\ call' = [call EXCEPT ![p] = d]
    BY <1>4 DEF Goto, InventoryInv, InventoryTypeOK
  <2>5. [scope |-> ScopeOf[p], store |-> s.store, records |-> s.records] \in Frozen(c.token)
    <3>1. BySnapshot(c.token) \in Frozen(c.token)
      BY <1>4, FrozenBy
    <3>2. BySnapshot(c.token) = [scope |-> s.scope, store |-> s.store, records |-> s.records]
      BY DEF BySnapshot
    <3> QED BY <2>3, <3>1, <3>2
  <2>6. now + SnapshotIdle \in Nat /\ expires \in [Tokens -> Nat]
    BY InventoryAssumption DEF InventoryInv, InventoryTypeOK
  <2>7. expires' \in [Tokens -> Nat]
    BY <1>4, <2>6
  <2>8. c.offset <= Len(s.records)
    <3>1. c.offset \in Nat /\ Len(s.records) \in Nat
      BY <1>2, <2>2 DEF Call, Snapshot
    <3> QED BY <1>4, <3>1
  <2> HIDE DEF c, s
  <2>9. /\ d \in Call /\ d.records = s.records /\ d.stores = s.stores
        /\ d.op = c.op /\ d.store = c.store /\ d.token = c.token /\ d.offset = c.offset
        /\ d.limit = c.limit /\ d.page = c.page
    BY <1>2, <2>2 DEF Call, Snapshot
  <2> HIDE DEF d
  <2>10. /\ d.op = "list" /\ d.token # None /\ d.offset # 0 /\ d.limit > 0
         /\ d.offset <= Len(d.records) /\ AllFit(d.records, d.store)
         /\ \A i \in DOMAIN d.page.records :
                Fits(d.page.records[i], d.store) /\ Permits(p, d.page.records[i])
    BY <1>2, <2>2, <2>3, <2>8, <2>9 DEF Knows
  <2>11. Knows(p, d, "page") /\ "page" \in PCs
    BY <2>10 DEF Knows, PCs
  <2>12. [scope |-> ScopeOf[p], store |-> d.store, records |-> d.records] \in Frozen(d.token)
    BY <2>3, <2>5, <2>9
  <2>13. /\ pc' \in [Callers -> PCs] /\ call' \in [Callers -> Call] /\ CallsKnow'
         /\ \A q \in Callers : Serving(q)' => ByCall(q)' \in Frozen(call'[q].token)
    BY <2>4, <2>9, <2>11, <2>12, Serves
  <2>14. /\ DOMAIN content' = Sources /\ \A u \in Sources : content'[u] \in Contents[u]
         /\ drawn' = drawn /\ closed' \in BOOLEAN /\ now' \in Nat
         /\ DOMAIN snapshots' = Tokens /\ snapshots' = [t \in Tokens |-> snapshots'[t]]
         /\ \A t \in Tokens : snapshots'[t] = snapshots[t] \/ snapshots'[t] = NoSnapshot
         /\ DOMAIN view' = Callers /\ view' = [q \in Callers |-> view'[q]]
         /\ \A q \in Callers : view'[q] = view[q] \/ view'[q] = NoView
    BY <1>1 DEF InventoryInv, InventoryTypeOK
  <2> QED BY <2>7, <2>13, <2>14, Quiet
<1> QED BY <1>3, <1>4 DEF Continue

\* A page ends where it is full or the list ends, and its next page begins there.
LEMMA FillKeeps ==
    ASSUME InventoryInv, NEW p \in Callers, Fill(p)
    PROVE  InventoryInv'
<1> DEFINE c == call[p]
           stop == Stop(p, c.records, c.offset, c.limit)
           complete == stop = Len(c.records)
           at == IF c.op = "list" THEN "gate" ELSE "reply"
           stores == IF c.op = "list" /\ FirstPage(c) THEN c.stores ELSE NoStores
           next == IF complete \/ c.op # "list" THEN 0 ELSE Index(p, c, stop)
           page == [stores |-> stores,
                    records |-> Permitted(p, c.records, c.offset, stop),
                    next |-> next, complete |-> complete]
           d == [c EXCEPT !.page = page]
<1>1. UNCHANGED <<content, snapshots, expires, drawn, closed, view, now>>
  BY DEF Fill
<1>2. c \in Call /\ pc[p] = "page" /\ Knows(p, c, "page")
  BY AtCall DEF Fill
<1>3. pc' = [pc EXCEPT ![p] = at] /\ call' = [call EXCEPT ![p] = d]
  BY DEF Fill, Goto
<1>4. c.op = "list" => ByCall(p) \in Frozen(c.token)
  BY <1>2, FrozenBy DEF Serving
<1>5. c.op = "list" =>
          [scope |-> ScopeOf[p], store |-> c.store, records |-> c.records] \in Frozen(c.token)
  BY <1>4 DEF ByCall
<1> HIDE DEF c
<1>6. /\ c.records \in Seq(Record) /\ c.offset \in Nat /\ c.limit \in Nat /\ c.limit > 0
      /\ c.offset <= Len(c.records) /\ Len(c.records) \in Nat
  BY <1>2 DEF Knows, Call
<1>7. /\ stop \in Nat /\ c.offset <= stop /\ stop <= Len(c.records)
      /\ Cardinality(PermittedAt(p, c.records, c.offset, stop)) <= c.limit
      /\ stop # Len(c.records) => c.offset < stop
  BY <1>6, StopsWithin
<1> HIDE DEF stop
<1>8. /\ page.records \in Seq(Record)
      /\ \A k \in DOMAIN page.records : \E i \in DOMAIN c.records :
             page.records[k] = c.records[i] /\ Permits(p, c.records[i])
  <2> DEFINE kept == Permitted(p, c.records, c.offset, stop)
  <2>1. /\ kept \in Seq(Record)
        /\ \A k \in DOMAIN kept : \E i \in DOMAIN c.records :
               kept[k] = c.records[i] /\ Permits(p, c.records[i])
    <3>1. /\ c.records \in Seq(Record) /\ c.offset \in Nat /\ stop \in Nat
          /\ stop <= Len(c.records)
      BY <1>6, <1>7
    <3>2. kept \in Seq(Record)
      BY <3>1, PermittedRecords
    <3>3. ASSUME NEW k \in DOMAIN kept
          PROVE  \E i \in DOMAIN c.records :
                     kept[k] = c.records[i] /\ Permits(p, c.records[i])
      BY <3>1, PermittedRecord
    <3> QED BY <3>2, <3>3
  <2>2. page.records = kept
    OBVIOUS
  <2> HIDE DEF kept, page
  <2> QED BY <2>1, <2>2
<1>9. stores \in [Stores -> Nat] /\ next \in Nat
  BY <1>2, <1>7, Empties DEF Call, Index
<1> HIDE DEF stores
<1>10. page \in Page
  BY <1>8, <1>9 DEF Page
<1>11. \A k \in DOMAIN page.records :
           Fits(page.records[k], c.store) /\ Permits(p, page.records[k])
  BY <1>2, <1>8 DEF Knows, AllFit
<1>12. c.op = "list" =>
           /\ page.complete # (page.next # 0)
           /\ stop = IF page.complete THEN Len(c.records) ELSE page.next
           /\ page.stores = IF c.offset = 0 THEN c.stores ELSE NoStores
  <2> SUFFICES ASSUME c.op = "list"
               PROVE  /\ page.complete # (page.next # 0)
                      /\ stop = IF page.complete THEN Len(c.records) ELSE page.next
                      /\ page.stores = IF c.offset = 0 THEN c.stores ELSE NoStores
    OBVIOUS
  <2>1. page.complete = (stop = Len(c.records)) /\ page.next = next /\ page.stores = stores
    OBVIOUS
  <2>2. stores = IF c.offset = 0 THEN c.stores ELSE NoStores
    BY DEF FirstPage, stores
  <2>3. next = IF stop = Len(c.records) THEN 0 ELSE stop
    BY DEF Index
  <2> HIDE DEF next, page
  <2>4. CASE stop = Len(c.records)
    BY <2>1, <2>2, <2>3, <2>4
  <2>5. CASE stop # Len(c.records)
    <3>1. stop # 0
      BY <1>6, <1>7, <2>5
    <3> QED BY <2>1, <2>2, <2>3, <2>5, <3>1
  <2> QED BY <2>4, <2>5
<1>13. page.records = Permitted(p, c.records, c.offset, stop)
  OBVIOUS
<1> HIDE DEF page
<1>14. /\ d \in Call /\ d.page = page
       /\ d.op = c.op /\ d.store = c.store /\ d.token = c.token /\ d.offset = c.offset
       /\ d.limit = c.limit /\ d.stores = c.stores /\ d.records = c.records
  BY <1>2, <1>10 DEF Call
<1> HIDE DEF d
<1>15. /\ d.limit > 0 /\ AllFit(d.records, d.store)
       /\ \A i \in DOMAIN d.page.records :
              Fits(d.page.records[i], d.store) /\ Permits(p, d.page.records[i])
  BY <1>2, <1>11, <1>14 DEF Knows
<1>16. CASE c.op = "list"
  <2>1. Pages(p, d)
    BY <1>7, <1>12, <1>13, <1>14, <1>16 DEF Pages
  <2>2. d.token # None /\ (d.offset = 0 => OneStore(d))
    BY <1>2, <1>14, <1>16 DEF Knows, OneStore
  <2>3. Knows(p, d, "gate") /\ "gate" \in PCs
    BY <1>14, <1>15, <1>16, <2>1, <2>2 DEF Knows, PCs
  <2>4. [scope |-> ScopeOf[p], store |-> d.store, records |-> d.records] \in Frozen(d.token)
    BY <1>5, <1>14, <1>16
  <2>5. pc' = [pc EXCEPT ![p] = "gate"]
    BY <1>3, <1>16
  <2> QED BY <1>1, <1>3, <1>14, <2>3, <2>4, <2>5, Alone
<1>17. CASE c.op # "list"
  <2>1. d.store = None /\ d.token = None /\ d.offset = 0
    BY <1>2, <1>14, <1>17 DEF Knows
  <2>2. Knows(p, d, "reply") /\ "reply" \in PCs /\ "reply" \notin {"page", "gate"}
    BY <1>14, <1>15, <1>17, <2>1 DEF Knows, PCs
  <2>3. pc' = [pc EXCEPT ![p] = "reply"]
    BY <1>3, <1>17
  <2> QED BY <1>1, <1>3, <1>14, <2>2, <2>3, Alone
<1> QED BY <1>16, <1>17

\* A client adds the page to what it has: the two meet at its continuation.
LEMMA ListedKeeps ==
    ASSUME InventoryInv, NEW p \in Callers, Listed(p)
    PROVE  InventoryInv'
<1> DEFINE c == call[p]  v == view[p]  w == view'[p]
           stop == IF c.page.complete THEN Len(c.records) ELSE c.page.next
           upto == IF v.next = 0 THEN Len(v.whole) ELSE v.next
           begun == [token |-> c.token, store |-> c.store, next |-> c.page.next,
                     seen |-> c.page.records, whole |-> c.records]
           more == [v EXCEPT !.next = c.page.next, !.seen = v.seen \o c.page.records]
<1>1. UNCHANGED <<content, snapshots, expires, drawn, closed, now>>
  BY DEF Listed
<1>2. c \in Call /\ pc[p] = "gate" /\ Knows(p, c, "gate")
  BY AtCall DEF Listed
<1>3. /\ pc' \in [Callers -> PCs] /\ call' \in [Callers -> Call] /\ CallsKnow'
      /\ pc'[p] = "idle"
      /\ \A q \in Callers \ {p} : pc'[q] = pc[q] /\ call'[q] = call[q]
  <2>1. Return(p)
    BY DEF Listed
  <2> QED BY <2>1, Returns, Moved
<1>4. view \in [Callers -> View] /\ v \in View
  BY DEF InventoryInv, InventoryTypeOK
<1>5. c.op = "list" /\ c.token # None /\ Pages(p, c) /\ AllFit(c.records, c.store)
  BY <1>2 DEF Knows
<1>6. ByCall(p) \in Frozen(c.token)
  BY <1>2, <1>5, FrozenBy DEF Serving
<1>7. c.token \in Tokens
  BY <1>2, <1>5 DEF Call
<1>8. /\ view' = [view EXCEPT ![p] = w]
      /\ \/ c.offset = 0 /\ w = begun
         \/ c.offset # 0 /\ c.token = v.token /\ c.offset = v.next /\ w = more
         \/ w = v
  <2>1. CASE c.offset = 0
    <3>1. view' = [view EXCEPT ![p] = begun]
      BY <2>1 DEF Listed
    <3> HIDE DEF begun
    <3> QED BY <1>4, <2>1, <3>1
  <2>2. CASE c.offset # 0 /\ c.token = v.token /\ c.offset = v.next
    <3>1. view' = [view EXCEPT ![p] = more]
      BY <2>2 DEF Listed
    <3> HIDE DEF more
    <3> QED BY <1>4, <2>2, <3>1
  <2>3. CASE c.offset # 0 /\ ~(c.token = v.token /\ c.offset = v.next)
    <3>1. view' = view
      BY <2>3 DEF Listed
    <3> QED BY <1>4, <3>1
  <2> QED BY <2>1, <2>2, <2>3
<1>9. \A q \in Callers \ {p} : view'[q] = view[q]
  BY <1>4, <1>8
<1> HIDE DEF w, c
<1>10. /\ c.records \in Seq(Record) /\ Len(c.records) \in Nat /\ c.offset \in Nat
       /\ c.page \in Page /\ c.page.records \in Seq(Record) /\ c.page.next \in Nat
       /\ c.page.complete \in BOOLEAN
       /\ c.token \in Tokens \cup {None} /\ c.store \in Stores \cup {None}
  BY <1>2 DEF Call, Page
<1>11. /\ c.offset <= stop /\ stop <= Len(c.records) /\ stop \in Nat
       /\ c.page.records = Permitted(p, c.records, c.offset, stop)
       /\ c.page.complete # (c.page.next # 0)
  BY <1>5, <1>10 DEF Pages
<1>12. /\ c.page.next <= Len(c.records)
       /\ stop = IF c.page.next = 0 THEN Len(c.records) ELSE c.page.next
  BY <1>10, <1>11
<1> HIDE DEF stop
\* What the client has afterwards.
<1>13. /\ w \in View /\ w.next <= Len(w.whole)
       /\ w.next > 0 => w.token # None
       /\ w.seen = Permitted(p, w.whole, 0, IF w.next = 0 THEN Len(w.whole) ELSE w.next)
       /\ w.token \in Tokens =>
              [scope |-> ScopeOf[p], store |-> w.store, records |-> w.whole] \in Frozen(w.token)
  <2>1. CASE c.offset = 0 /\ w = begun
    <3>1. begun \in View
      BY <1>10 DEF View
    <3>2. [scope |-> ScopeOf[p], store |-> c.store, records |-> c.records] \in Frozen(c.token)
      BY <1>6 DEF ByCall, c
    <3> QED BY <1>5, <1>11, <1>12, <2>1, <3>1, <3>2
  <2>2. CASE c.offset # 0 /\ c.token = v.token /\ c.offset = v.next /\ w = more
    <3>1. ByView(p) \in Frozen(c.token)
      BY <2>2, FrozenBy
    <3>2. ByView(p) = ByCall(p)
      BY <1>6, <1>7, <3>1 DEF InventoryInv, FrozenOnce
    <3>3. v.whole = c.records
      BY <3>2 DEF ByView, ByCall, c
    <3>4. v.seen = Permitted(p, c.records, 0, c.offset)
      BY <2>2, <3>3 DEF InventoryInv, PagesExact
    <3>5. v.seen \o c.page.records = Permitted(p, c.records, 0, stop)
      <4>1. Permitted(p, c.records, 0, stop) =
                Permitted(p, c.records, 0, c.offset) \o Permitted(p, c.records, c.offset, stop)
        BY <1>10, <1>11, PermittedJoin
      <4> QED BY <1>11, <3>4, <4>1
    <3>6. v.seen \in Seq(Record)
      BY <1>4 DEF View
    <3>7. v.seen \o c.page.records \in Seq(Record)
      BY <1>10, <3>6
    <3> HIDE DEF v
    <3>8. /\ more \in View /\ more.token = v.token /\ more.store = v.store
          /\ more.whole = v.whole /\ more.next = c.page.next
          /\ more.seen = v.seen \o c.page.records
      BY <1>4, <1>10, <3>7 DEF View
    <3>9. [scope |-> ScopeOf[p], store |-> v.store, records |-> v.whole] \in Frozen(c.token)
      BY <3>1 DEF ByView, v
    <3> HIDE DEF more
    <3> QED BY <1>5, <1>12, <2>2, <3>3, <3>5, <3>8, <3>9
  <2>3. CASE w = v
    <3>1. ByView(p) \in Frozen(v.token)
      BY FrozenBy
    <3>2. [scope |-> ScopeOf[p], store |-> v.store, records |-> v.whole] \in Frozen(v.token)
      BY <3>1 DEF ByView
    <3>3. /\ v.next <= Len(v.whole) /\ (v.next > 0 => v.token # None)
          /\ v.seen = Permitted(p, v.whole, 0, IF v.next = 0 THEN Len(v.whole) ELSE v.next)
      BY DEF InventoryInv, Followed, PagesExact
    <3> HIDE DEF v
    <3> QED BY <1>4, <2>3, <3>2, <3>3
  <2> HIDE DEF begun, more, v
  <2> QED BY <1>8, <2>1, <2>2, <2>3
<1> HIDE DEF v
<1>14. w = view'[p]
  BY DEF w
<1>15. InventoryTypeOK'
  <2>1. view' \in [Callers -> View]
    BY <1>4, <1>8, <1>13
  <2> QED BY <1>1, <1>3, <2>1 DEF InventoryInv, InventoryTypeOK
<1>16. FrozenOnce'
  <2>1. ASSUME NEW t \in Tokens PROVE Frozen(t)' \subseteq Frozen(t)
    <3>1. ASSUME NEW q \in Callers, Serving(q)', call'[q].token = t
          PROVE  ByCall(q)' \in Frozen(t)
      <4>1. q # p
        BY <1>3, <3>1 DEF Serving
      <4>2. Serving(q) /\ call[q].token = t /\ ByCall(q)' = ByCall(q)
        BY <1>3, <3>1, <4>1 DEF Serving, ByCall
      <4> QED BY <4>2, FrozenBy
    <3>2. ASSUME NEW q \in Callers, view'[q].token = t PROVE ByView(q)' \in Frozen(t)
      <4>1. CASE q = p
        BY <1>13, <1>14, <3>2, <4>1 DEF ByView
      <4>2. CASE q # p
        <5>1. view[q].token = t /\ ByView(q)' = ByView(q)
          BY <1>9, <3>2, <4>2 DEF ByView
        <5> QED BY <5>1, FrozenBy
      <4> QED BY <4>1, <4>2
    <3>3. ASSUME t \in Retained' PROVE BySnapshot(t)' \in Frozen(t)
      <4>1. t \in Retained /\ BySnapshot(t)' = BySnapshot(t)
        BY <1>1, <3>3 DEF Retained, BySnapshot
      <4> QED BY <4>1, FrozenBy
    <3> QED BY <3>1, <3>2, <3>3, FrozenKept
  <2> QED BY <1>1, <2>1 DEF InventoryInv, FrozenOnce
<1>17. SnapshotsFit'
  BY <1>1 DEF InventoryInv, SnapshotsFit
<1>18. Followed' /\ PagesExact'
  <2>1. ASSUME NEW q \in Callers
        PROVE  /\ view'[q].next <= Len(view'[q].whole)
               /\ view'[q].next > 0 => view'[q].token # None
               /\ view'[q].seen = Permitted(q, view'[q].whole, 0,
                      IF view'[q].next = 0 THEN Len(view'[q].whole) ELSE view'[q].next)
    <3>1. CASE q = p
      BY <1>13, <1>14, <3>1
    <3>2. CASE q # p
      BY <1>9, <3>2 DEF InventoryInv, Followed, PagesExact
    <3> QED BY <3>1, <3>2
  <2> QED BY <2>1 DEF Followed, PagesExact
<1> QED BY <1>3, <1>15, <1>16, <1>17, <1>18 DEF InventoryInv

\* The steps of the component and its sources move no call.
LEMMA EnvironmentKeeps ==
    ASSUME InventoryInv, TickerSweeps \/ Close \/ SourceChanges \/ Tick \/ UNCHANGED vars
    PROVE  InventoryInv'
<1>1. UNCHANGED <<pc, call, view, drawn>>
  BY DEF TickerSweeps, Close, SourceChanges, Tick, vars
<1>2. /\ pc' \in [Callers -> PCs] /\ call' \in [Callers -> Call] /\ CallsKnow'
      /\ DOMAIN view' = Callers /\ view' = [q \in Callers |-> view'[q]]
      /\ \A q \in Callers : view'[q] = view[q] \/ view'[q] = NoView
  BY <1>1 DEF InventoryInv, InventoryTypeOK, CallsKnow
<1>3. ASSUME NEW q \in Callers, Serving(q)' PROVE ByCall(q)' \in Frozen(call'[q].token)
  <2>1. Serving(q) /\ call'[q].token = call[q].token /\ ByCall(q)' = ByCall(q)
    BY <1>1, <1>3 DEF Serving, ByCall
  <2> QED BY <2>1, FrozenBy
<1>4. /\ DOMAIN snapshots' = Tokens /\ snapshots' = [t \in Tokens |-> snapshots'[t]]
      /\ \A t \in Tokens : snapshots'[t] = snapshots[t] \/ snapshots'[t] = NoSnapshot
  <2>1. CASE snapshots' = Swept
    BY <2>1, SweptKeeps
  <2>2. CASE snapshots' = [t \in Tokens |-> NoSnapshot]
    BY <2>2
  <2>3. CASE UNCHANGED snapshots
    BY <2>3 DEF InventoryInv, InventoryTypeOK
  <2> QED BY <2>1, <2>2, <2>3 DEF TickerSweeps, Close, SourceChanges, Tick, vars
<1>5. DOMAIN content' = Sources /\ \A s \in Sources : content'[s] \in Contents[s]
  <2>1. CASE SourceChanges
    <3>1. PICK s \in Sources : \E x \in Contents[s] \ {content[s]} :
              content' = [content EXCEPT ![s] = x]
      BY <2>1 DEF SourceChanges
    <3>2. PICK x \in Contents[s] : content' = [content EXCEPT ![s] = x]
      BY <3>1
    <3> QED BY <3>2 DEF InventoryInv, InventoryTypeOK
  <2>2. CASE UNCHANGED content
    BY <2>2 DEF InventoryInv, InventoryTypeOK
  <2> QED BY <2>1, <2>2 DEF TickerSweeps, Close, Tick, vars
<1>6. expires' \in [Tokens -> Nat] /\ closed' \in BOOLEAN /\ now' \in Nat
  <2>1. /\ expires' = expires /\ (closed' = closed \/ closed' = TRUE)
        /\ (now' = now \/ now' = now + 1)
    BY DEF TickerSweeps, Close, SourceChanges, Tick, vars
  <2>2. expires \in [Tokens -> Nat] /\ closed \in BOOLEAN /\ now \in Nat
    BY DEF InventoryInv, InventoryTypeOK
  <2>3. now' \in Nat
    BY <2>1, <2>2
  <2>4. closed' \in BOOLEAN
    BY <2>1, <2>2
  <2> QED BY <2>1, <2>2, <2>3, <2>4
<1> QED BY <1>1, <1>2, <1>3, <1>4, <1>5, <1>6, Quiet

\* Every step keeps the invariant.
LEMMA InventoryStep ==
    ASSUME InventoryInv, [Next]_vars
    PROVE  InventoryInv'
<1>1. ASSUME NEW p \in Callers,
             DrainFails(p) \/ FillFails(p) \/ ListedNot(p) \/ LookedUp(p)
      PROVE  InventoryInv'
  <2>1. Return(p) /\ UNCHANGED <<content, snapshots, expires, drawn, closed, view, now>>
    BY <1>1 DEF DrainFails, Unanswered, FillFails, ListedNot, LookedUp
  <2> QED BY <2>1, ReturnsAlone
<1>2. ASSUME NEW p \in Callers,
             \/ List(p) \/ ListNext(p) \/ Lookup(p) \/ Sweep(p) \/ Compose(p) \/ DrainPage(p)
             \/ Drained(p) \/ Freeze(p) \/ Continue(p) \/ Fill(p) \/ Listed(p)
      PROVE  InventoryInv'
  BY <1>2, ListKeeps, ListNextKeeps, LookupKeeps, SweepKeeps, ComposeStays, DrainPageKeeps,
     DrainedKeeps, FreezeStays, ContinueKeeps, FillKeeps, ListedKeeps
<1>3. CASE TickerSweeps \/ Close \/ SourceChanges \/ Tick \/ UNCHANGED vars
  BY <1>3, EnvironmentKeeps
<1> QED BY <1>1, <1>2, <1>3 DEF Next

\* The invariant holds at the start and of every step.
THEOREM InventoryInvHolds == Spec => []InventoryInv
<1>1. Init => InventoryInv
  <2> SUFFICES ASSUME Init PROVE InventoryInv
    OBVIOUS
  <2>1. InventoryTypeOK
    <3>1. "idle" \in PCs
      BY DEF PCs
    <3>2. /\ snapshots \in [Tokens -> Snapshot] /\ call \in [Callers -> Call]
          /\ view \in [Callers -> View] /\ pc \in [Callers -> PCs]
      BY <3>1, Empties DEF Init
    <3> QED BY <3>2 DEF Init, InventoryTypeOK
  <2>2. CallsKnow
    BY IdleKnows DEF Init, CallsKnow
  <2>3. FrozenOnce
    <3>1. \A t \in Tokens : t # None
      BY InventoryAssumption
    <3>2. \A q \in Callers : ~Serving(q) /\ view[q].token = None
      BY DEF Init, Serving, NoView
    <3>3. Retained = {}
      BY DEF Init, Retained, NoSnapshot
    <3>4. \A t \in Tokens : Frozen(t) = {}
      BY <3>1, <3>2, <3>3 DEF Frozen
    <3> QED BY <3>4 DEF FrozenOnce
  <2>4. SnapshotsFit
    BY Empties DEF Init, SnapshotsFit, NoSnapshot
  <2>5. Followed /\ PagesExact
    <3>1. \A q \in Callers : view[q] = NoView
      BY DEF Init
    <3> QED BY <3>1, NoViewExact DEF Followed, PagesExact
  <2> QED BY <2>1, <2>2, <2>3, <2>4, <2>5 DEF InventoryInv
<1>2. InventoryInv /\ [Next]_vars => InventoryInv'
  BY InventoryStep
<1> QED BY <1>1, <1>2, PTL DEF Spec

\* Following the continuations of a listing shows a client what it may read of the
\* composition that was frozen, each record once and in order
\* (inventory.go:358-384, :446-488).
THEOREM PagesExactHolds == Spec => []PagesExact
<1>1. InventoryInv => PagesExact
  BY DEF InventoryInv
<1> QED BY <1>1, InventoryInvHolds, PTL

\* A page continues a listing of the caller's own subject and store, hides what the
\* policy refuses, and shows only what its source observed
\* (inventory.go:177-188, :329-351, :462-469).
THEOREM PagesGuardedHolds == Spec => []PagesGuarded
<1>1. InventoryInv => PagesGuarded
  <2> SUFFICES ASSUME InventoryInv, NEW p \in Callers
               PROVE  /\ pc[p] = "gate" =>
                             \A q \in Callers : view[q].token = call[p].token =>
                                 ScopeOf[q] = ScopeOf[p] /\ view[q].store = call[p].store
                      /\ \A i \in DOMAIN call[p].page.records :
                            LET r == call[p].page.records[i] IN
                            /\ r.digests \subseteq Readable[ScopeOf[p]]
                            /\ \A h \in r.holds :
                                h.by = r.of /\ (r.store # None => h.attestation # "declared")
    BY DEF PagesGuarded
  <2>1. call[p] \in Call /\ Knows(p, call[p], pc[p])
    BY AtCall
  <2>2. ASSUME pc[p] = "gate", NEW q \in Callers, view[q].token = call[p].token
        PROVE  ScopeOf[q] = ScopeOf[p] /\ view[q].store = call[p].store
    <3>1. Serving(p) /\ call[p].token \in Tokens
      BY <2>1, <2>2 DEF Knows, Serving, Call
    <3>2. ByCall(p) \in Frozen(call[p].token) /\ ByView(q) \in Frozen(call[p].token)
      BY <2>2, <3>1, FrozenBy
    <3>3. ByCall(p) = ByView(q)
      BY <3>1, <3>2 DEF InventoryInv, FrozenOnce
    <3> QED BY <3>3 DEF ByCall, ByView
  <2>3. ASSUME NEW i \in DOMAIN call[p].page.records
        PROVE  LET r == call[p].page.records[i] IN
               /\ r.digests \subseteq Readable[ScopeOf[p]]
               /\ \A h \in r.holds :
                   h.by = r.of /\ (r.store # None => h.attestation # "declared")
    <3>1. /\ Fits(call[p].page.records[i], call[p].store)
          /\ Permits(p, call[p].page.records[i])
      BY <2>1 DEF Knows
    <3> QED BY <3>1 DEF Fits, Attested, Permits
  <2> QED BY <2>2, <2>3
<1> QED BY <1>1, InventoryInvHolds, PTL

\* A client that follows continuations refuses no page for its shape
\* (go/client/inventory.go:37-55, :84-106).
THEOREM ClientAcceptsHolds == Spec => []ClientAccepts
<1>1. InventoryInv => ClientAccepts
  <2> SUFFICES ASSUME InventoryInv, NEW p \in Callers, pc[p] = "gate"
               PROVE  /\ ValidInventoryPage(p)
                      /\ call[p].store # None => ValidStorePage(p)
    BY DEF ClientAccepts
  <2> DEFINE c == call[p]
             stop == IF c.page.complete THEN Len(c.records) ELSE c.page.next
  <2>1. c \in Call /\ Knows(p, c, "gate")
    BY AtCall
  <2>2. c.op = "list" /\ Pages(p, c)
    BY <2>1 DEF Knows
  <2> HIDE DEF c
  <2>3. /\ c.records \in Seq(Record) /\ Len(c.records) \in Nat /\ c.offset \in Nat
        /\ c.limit \in Nat /\ c.page.records \in Seq(Record) /\ c.page.next \in Nat
    BY <2>1 DEF Call, Page
  <2>4. /\ c.offset <= stop /\ stop <= Len(c.records) /\ stop \in Nat
        /\ c.page.records = Permitted(p, c.records, c.offset, stop)
        /\ Cardinality(PermittedAt(p, c.records, c.offset, stop)) <= c.limit
        /\ c.page.complete # (c.page.next # 0)
        /\ c.page.stores = IF c.offset = 0 THEN c.stores ELSE NoStores
    BY <2>2, <2>3 DEF Pages
  <2> HIDE DEF stop
  <2>5. Len(c.page.records) <= c.limit /\ Len(c.page.records) \in Nat
    BY <2>3, <2>4, PermittedRecords
  <2>6. ValidInventoryPage(p)
    <3> DEFINE at == {i \in DOMAIN c.page.records : c.page.records[i].store # None}
    <3>1. at \subseteq 1..Len(c.page.records)
      BY <2>3
    <3>2. /\ IsFiniteSet(1..Len(c.page.records))
          /\ Cardinality(1..Len(c.page.records)) = Len(c.page.records)
      <4> DEFINE m == Len(c.page.records)
      <4> HIDE DEF m
      <4>1. m \in Nat
        BY <2>5 DEF m
      <4>2. IsFiniteSet(1..m) /\ Cardinality(1..m) = IF 1 > m THEN 0 ELSE m - 1 + 1
        BY <4>1, FS_Interval
      <4>3. Cardinality(1..m) = m
        BY <4>1, <4>2
      <4> QED BY <4>2, <4>3 DEF m
    <3> HIDE DEF at
    <3>3. Cardinality(at) <= Len(c.page.records) /\ Cardinality(at) \in Nat
      BY <3>1, <3>2, FS_Subset, FS_CardinalityType
    <3>4. Cardinality(at) <= c.limit
      BY <2>3, <2>5, <3>3
    <3>5. c.offset # 0 => c.page.stores = NoStores
      BY <2>4
    <3> QED BY <2>4, <3>4, <3>5 DEF ValidInventoryPage, c, at
  <2>7. ASSUME c.store # None PROVE ValidStorePage(p)
    <3>1. c.store \in Stores
      BY <2>1, <2>7 DEF Call
    <3>2. c.offset = 0 => c.page.stores = [NoStores EXCEPT ![c.store] = 1]
      BY <2>1, <2>2, <2>4, <2>7 DEF Knows, OneStore
    <3>3. c.offset # 0 => c.page.stores = NoStores
      BY <2>4
    <3>4. \A s \in Stores : c.page.stores[s] > 0 => s = c.store
      BY <3>1, <3>2, <3>3 DEF NoStores
    <3>5. c.offset = 0 => c.page.stores[c.store] = 1
      BY <3>1, <3>2 DEF NoStores
    <3>6. \A i \in DOMAIN c.page.records : c.page.records[i].store = c.store
      BY <2>1, <2>7 DEF Knows, Fits
    <3> QED BY <3>4, <3>5, <3>6 DEF ValidStorePage, c
  <2> QED BY <2>6, <2>7 DEF c
<1> QED BY <1>1, InventoryInvHolds, PTL

-----------------------------------------------------------------------------
(* Loops that keep items of a list, one after the other and of two lists.  *)

\* A one-to-one correspondence between two finite sets.
LEMMA SameSize ==
    ASSUME NEW A, NEW B, IsFiniteSet(A), NEW f \in [A -> B],
           \A i, j \in A : f[i] = f[j] => i = j,
           \A j \in B : \E i \in A : f[i] = j
    PROVE  IsFiniteSet(B) /\ Cardinality(B) = Cardinality(A)
<1>1. f \in Bijection(A, B)
  BY DEF Bijection, Injection, Surjection, IsInjective
<1>2. ExistsBijection(A, B)
  BY <1>1 DEF ExistsBijection
<1> QED BY <1>2, FS_Bijection

\* A one-to-one correspondence, in the same order, between positions of two lists that
\* have the same items.
Corresponds(f, t, at, n, s, to, m) ==
    /\ n \in Nat /\ at \in SUBSET (1..n) /\ m \in Nat /\ to \in SUBSET (1..m)
    /\ f \in [at -> to] /\ \A j \in to : \E i \in at : f[i] = j
    /\ \A i, j \in at : i <= j <=> f[i] <= f[j]
    /\ \A i \in at : t[i] = s[f[i]]

\* What is kept of a list is what is kept of another that has the same items at
\* positions in the same order.
LEMMA ItemsMapped ==
    ASSUME NEW n, NEW at, NEW m, NEW to, NEW f, NEW s, NEW t,
           Corresponds(f, t, at, n, s, to, m)
    PROVE  ItemsAt(t, at) = ItemsAt(s, to)
<1>0. /\ n \in Nat /\ at \in SUBSET (1..n) /\ m \in Nat /\ to \in SUBSET (1..m)
      /\ f \in [at -> to] /\ \A j \in to : \E i \in at : f[i] = j
      /\ \A i, j \in at : i <= j <=> f[i] <= f[j]
  BY DEF Corresponds
<1>a. n \in Nat /\ at \in SUBSET (1..n)
  BY <1>0
<1>b. m \in Nat /\ to \in SUBSET (1..m)
  BY <1>0
<1>1. /\ IsFiniteSet(at) /\ Cardinality(at) \in Nat /\ \A i \in at : i \in Nat
      /\ IsFiniteSet(to) /\ \A j \in to : j \in Nat
  BY <1>0, Positions
<1>2. \A i, j \in at : f[i] = f[j] => i = j
  BY <1>0, <1>1
<1>3. Cardinality(to) = Cardinality(at)
  BY <1>0, <1>1, <1>2, SameSize
<1>4. ASSUME NEW i \in at PROVE Rank(to, f[i]) = Rank(at, i)
  <2> DEFINE A == {j \in at : j <= i}  B == {j \in to : j <= f[i]}
             g == [j \in A |-> f[j]]
  <2>1. A \subseteq at /\ \A j \in A : f[j] \in B
    BY <1>0
  <2>2. g \in [A -> B] /\ \A j \in A : g[j] = f[j]
    BY <2>1
  <2>3. \A k \in B : \E j \in A : f[j] = k
    BY <1>0
  <2>4. IsFiniteSet(A)
    BY <1>1, <2>1, FS_Subset
  <2> HIDE DEF A, B, g
  <2>5. /\ \A j, k \in A : g[j] = g[k] => j = k
        /\ \A k \in B : \E j \in A : g[j] = k
    BY <1>2, <2>1, <2>2, <2>3
  <2>6. Cardinality(B) = Cardinality(A)
    BY <2>2, <2>4, <2>5, SameSize
  <2> QED BY <2>6 DEF Rank, A, B
<1> DEFINE c == Cardinality(at)  x == ItemsAt(t, at)  y == ItemsAt(s, to)
<1>5. ASSUME NEW k \in 1..c PROVE x[k] = y[k]
  <2>1. PICK i \in at : Rank(at, i) = k
    BY <1>0, Ranked
  <2>2. \A j \in at : x[Rank(at, j)] = t[j]
    BY <1>a, ItemAt
  <2>3. \A j \in to : y[Rank(to, j)] = s[j]
    BY <1>b, ItemAt
  <2>4. f[i] \in to /\ t[i] = s[f[i]]
    BY <2>1 DEF Corresponds
  <2> QED BY <1>4, <2>1, <2>2, <2>3, <2>4
<1>6. x = [k \in 1..c |-> x[k]] /\ y = [k \in 1..c |-> y[k]]
  BY <1>3 DEF ItemsAt
<1> HIDE DEF x, y, c
<1>7. x = y
  BY <1>5, <1>6
<1> QED BY <1>7 DEF x, y

\* Positions further on, where s has the items that t has.
Further(m, at) == {m + i : i \in at}

Continues(s, m, t, at) == \A i \in at : t[i] = s[m + i]

\* What is kept of a list that continues another further on.
LEMMA ItemsShifted ==
    ASSUME NEW n \in Nat, NEW at \in SUBSET (1..n), NEW m \in Nat, NEW s, NEW t,
           Continues(s, m, t, at)
    PROVE  ItemsAt(t, at) = ItemsAt(s, Further(m, at))
<1> DEFINE to == Further(m, at)
           f == [i \in at |-> m + i]
           last == m + n
<1>1. \A i \in at : i \in Nat /\ 1 <= i /\ i <= n /\ m + i \in 1..m + n
  BY Positions
<1>2. to \in SUBSET (1..last) /\ last \in Nat
  BY <1>1 DEF Further
<1>3. f \in [at -> to] /\ \A i \in at : f[i] = m + i
  BY DEF Further
<1>4. \A j \in to : \E i \in at : f[i] = j
  BY DEF Further
<1>5. \A i, j \in at : m + i <= m + j <=> i <= j
  BY <1>1
<1>6. \A i \in at : t[i] = s[f[i]]
  BY DEF Continues
<1> HIDE DEF to, f, last
<1>7. \A i, j \in at : i <= j <=> f[i] <= f[j]
  BY <1>3, <1>5
<1>8. Corresponds(f, t, at, n, s, to, last)
  BY <1>2, <1>3, <1>4, <1>6, <1>7 DEF Corresponds
<1>9. ItemsAt(t, at) = ItemsAt(s, to)
  BY <1>8, ItemsMapped
<1> QED BY <1>9 DEF to

\* What is kept keeps its order.
LEMMA KeptInOrder ==
    ASSUME NEW S, NEW s \in Seq(S), NEW at \in SUBSET DOMAIN s
    PROVE  \A k, l \in DOMAIN ItemsAt(s, at) : k <= l =>
               \E i, j \in at : i <= j /\ ItemsAt(s, at)[k] = s[i] /\ ItemsAt(s, at)[l] = s[j]
<1>1. Len(s) \in Nat /\ at \in SUBSET (1..Len(s)) /\ \A i \in at : s[i] \in S
  OBVIOUS
<1>2. DOMAIN ItemsAt(s, at) = 1..Cardinality(at) /\ Cardinality(at) \in Nat
  BY <1>1, ItemsOf
<1>3. ASSUME NEW k \in 1..Cardinality(at), NEW l \in 1..Cardinality(at), k <= l
      PROVE  \E i, j \in at : i <= j /\ ItemsAt(s, at)[k] = s[i] /\ ItemsAt(s, at)[l] = s[j]
  <2>1. PICK i \in at : Rank(at, i) = k
    BY <1>1, Ranked
  <2>2. PICK j \in at : Rank(at, j) = l
    BY <1>1, Ranked
  <2>3. i \in Nat /\ j \in Nat /\ k \in Nat /\ l \in Nat
    BY <1>1, <1>2, Positions
  <2>4. j <= i => l <= k
    BY <1>1, <2>1, <2>2, <2>3, RankGrows
  <2>5. k = l => i = j
    BY <1>1, <2>1, <2>2, Ranked
  <2>6. i <= j
    BY <1>3, <2>3, <2>4, <2>5
  <2> QED BY <1>1, <2>1, <2>2, <2>6, ItemAt
<1> QED BY <1>2, <1>3

\* The items of s that are in P, and those of them at some positions.
KeptOf(s, P) == ItemsAt(s, {i \in DOMAIN s : s[i] \in P})

KeptAt(s, at, P) == ItemsAt(s, {i \in at : s[i] \in P})

\* What is kept of what was kept.
LEMMA ItemsKeptTwice ==
    ASSUME NEW S, NEW s \in Seq(S), NEW at \in SUBSET DOMAIN s, NEW P
    PROVE  KeptOf(ItemsAt(s, at), P) = KeptAt(s, at, P)
<1> DEFINE t == ItemsAt(s, at)  c == Cardinality(at)
           A == {i \in at : s[i] \in P}  B == {k \in DOMAIN t : t[k] \in P}
           f == [i \in A |-> Rank(at, i)]
<1>1. Len(s) \in Nat /\ at \in SUBSET (1..Len(s)) /\ \A i \in at : s[i] \in S
  OBVIOUS
<1>2. DOMAIN t = 1..c /\ c \in Nat
  BY <1>1, ItemsOf
<1>3. \A i \in at : Rank(at, i) \in 1..c /\ t[Rank(at, i)] = s[i] /\ i \in Nat
  <2>1. \A i \in at : Rank(at, i) \in 1..c
    BY <1>1, Ranked
  <2>2. \A i \in at : t[Rank(at, i)] = s[i]
    BY <1>1, ItemAt
  <2>3. \A i \in at : i \in Nat
    BY <1>1, Positions
  <2> QED BY <2>1, <2>2, <2>3
<1>4. \A k \in 1..c : \E i \in at : Rank(at, i) = k
  BY <1>1, Ranked
<1> HIDE DEF t, c
<1>5. B \in SUBSET (1..c) /\ A \in SUBSET (1..Len(s))
  BY <1>1, <1>2
<1>6. f \in [A -> B] /\ \A k \in B : \E i \in A : f[i] = k
  BY <1>2, <1>3, <1>4
<1>7. \A i, j \in at : i <= j <=> Rank(at, i) <= Rank(at, j)
  <2> SUFFICES ASSUME NEW i \in at, NEW j \in at
               PROVE  i <= j <=> Rank(at, i) <= Rank(at, j)
    OBVIOUS
  <2>1. i \in Nat /\ j \in Nat /\ Rank(at, i) \in Nat /\ Rank(at, j) \in Nat
    BY <1>1, <1>3, RankGrows
  <2>2. i <= j => Rank(at, i) <= Rank(at, j)
    BY <1>1, <2>1, RankGrows
  <2>3. j <= i => Rank(at, j) <= Rank(at, i)
    BY <1>1, <2>1, RankGrows
  <2>4. Rank(at, i) = Rank(at, j) => i = j
    BY <1>1, Ranked
  <2> QED BY <2>1, <2>2, <2>3, <2>4
<1>8. \A i, j \in A : i <= j <=> f[i] <= f[j]
  BY <1>7
<1>9. \A i \in A : s[i] = t[f[i]]
  BY <1>3
<1> HIDE DEF A, B, f
<1>10. Corresponds(f, s, A, Len(s), t, B, c)
  BY <1>1, <1>2, <1>5, <1>6, <1>8, <1>9 DEF Corresponds
<1>11. ItemsAt(s, A) = ItemsAt(t, B)
  BY <1>10, ItemsMapped
<1> QED BY <1>11 DEF A, B, t, KeptOf, KeptAt

\* The records of a source in two lists, one after the other.
LEMMA OfJoined ==
    ASSUME NEW a \in Seq(Record), NEW b \in Seq(Record), NEW s
    PROVE  OfSource(a \o b, s) = OfSource(a, s) \o OfSource(b, s)
<1> DEFINE j == a \o b  m == Len(a)  size == Len(b)  last == Len(j)
           A == {i \in DOMAIN a : a[i].of = s}  B == {i \in DOMAIN b : b[i].of = s}
           at == {i \in DOMAIN j : j[i].of = s}
           first == Further(0, A)  then == Further(m, B)
<1>1. /\ j \in Seq(Record) /\ Len(j) = m + Len(b) /\ m \in Nat /\ Len(b) \in Nat
      /\ DOMAIN j = 1..Len(j) /\ DOMAIN a = 1..m /\ DOMAIN b = 1..Len(b) /\ Len(j) \in Nat
      /\ \A i \in 1..m : j[i] = a[i]
      /\ \A i \in 1..Len(b) : j[m + i] = b[i]
  OBVIOUS
<1> HIDE DEF j, m, size, last
<1>2. at \in SUBSET (1..Len(j)) /\ A \in SUBSET (1..m) /\ B \in SUBSET (1..Len(b))
  BY <1>1
<1>3. Continues(j, 0, a, A)
  BY <1>1 DEF Continues
<1>4. Continues(j, m, b, B)
  BY <1>1 DEF Continues
<1>5. {i \in at : i <= m} = first
  <2>1. \A i \in at : i <= m => i \in A /\ i = 0 + i
    BY <1>1
  <2>2. \A i \in A : 0 + i = i /\ i \in at /\ i <= m
    BY <1>1
  <2> HIDE DEF at, A
  <2>3. ASSUME NEW i \in at, i <= m PROVE i \in first
    BY <2>1, <2>3 DEF Further
  <2>4. ASSUME NEW i \in first PROVE i \in at /\ i <= m
    BY <2>2, <2>4 DEF Further
  <2> HIDE DEF first
  <2> QED BY <2>3, <2>4
<1>6. {i \in at : i > m} = then
  <2>1. \A i \in at : i > m => i - m \in B /\ i = m + (i - m)
    <3> SUFFICES ASSUME NEW i \in at, i > m PROVE i - m \in B /\ i = m + (i - m)
      OBVIOUS
    <3>1. i \in 1..Len(j) /\ j[i].of = s
      BY <1>1
    <3>2. i - m \in 1..Len(b) /\ i = m + (i - m)
      BY <1>1, <3>1
    <3>3. j[i] = b[i - m]
      BY <1>1, <3>2
    <3> QED BY <1>1, <3>1, <3>2, <3>3
  <2>2. \A i \in B : m + i \in at /\ m + i > m
    <3> SUFFICES ASSUME NEW i \in B PROVE m + i \in at /\ m + i > m
      OBVIOUS
    <3>1. i \in 1..Len(b) /\ b[i].of = s
      BY <1>1
    <3>2. m + i \in 1..Len(j) /\ m + i > m /\ j[m + i] = b[i]
      BY <1>1, <3>1
    <3> QED BY <1>1, <3>1, <3>2
  <2> HIDE DEF at, B
  <2>3. ASSUME NEW i \in at, i > m PROVE i \in then
    BY <2>1, <2>3 DEF Further
  <2>4. ASSUME NEW i \in then PROVE i \in at /\ i > m
    BY <2>2, <2>4 DEF Further
  <2> HIDE DEF then
  <2> QED BY <2>3, <2>4
<1>7. \A i \in at : j[i] \in Record
  BY <1>1
<1> HIDE DEF at, A, B
<1>8. ItemsAt(j, at) = ItemsAt(j, {i \in at : i <= m}) \o ItemsAt(j, {i \in at : i > m})
  <2>1. last \in Nat /\ at \in SUBSET (1..last) /\ m \in Nat
    BY <1>1, <1>2 DEF last
  <2> QED BY <1>7, <2>1, ItemsJoin
<1>9. ItemsAt(a, A) = ItemsAt(j, first)
  <2>1. m \in Nat /\ A \in SUBSET (1..m) /\ 0 \in Nat
    BY <1>1, <1>2
  <2> QED BY <1>3, <2>1, ItemsShifted
<1>10. ItemsAt(b, B) = ItemsAt(j, then)
  <2>1. m \in Nat /\ size \in Nat /\ B \in SUBSET (1..size)
    BY <1>1, <1>2 DEF size
  <2> QED BY <1>4, <2>1, ItemsShifted
<1> HIDE DEF first, then
<1>11. ItemsAt(j, at) = ItemsAt(a, A) \o ItemsAt(b, B)
  BY <1>5, <1>6, <1>8, <1>9, <1>10
<1> QED BY <1>11 DEF OfSource, at, A, B, j

\* Records without their holds.
LEMMA BareOf ==
    ASSUME NEW a \in Seq(Record)
    PROVE  /\ Bare(a) \in Seq(Record) /\ Len(Bare(a)) = Len(a) /\ DOMAIN Bare(a) = DOMAIN a
           /\ \A i \in DOMAIN a : Bare(a)[i] = [a[i] EXCEPT !.holds = {}]
<1>1. \A i \in DOMAIN a : a[i] \in Record
  OBVIOUS
<1>2. \A r \in Record : [r EXCEPT !.holds = {}] \in Record
  BY DEF Record
<1>3. /\ DOMAIN a = 1..Len(a) /\ Len(a) \in Nat
      /\ \A i \in DOMAIN a : [a[i] EXCEPT !.holds = {}] \in Record
  BY <1>1, <1>2
<1> QED BY <1>3 DEF Bare

\* Two lists, one after the other.
LEMMA Joined ==
    ASSUME NEW S, NEW a \in Seq(S), NEW b \in Seq(S)
    PROVE  /\ a \o b \in Seq(S) /\ Len(a \o b) = Len(a) + Len(b)
           /\ \A i \in 1..Len(a) : (a \o b)[i] = a[i]
           /\ \A i \in 1..Len(b) : (a \o b)[Len(a) + i] = b[i]
  OBVIOUS

\* Two lists, one after the other, without their holds.
LEMMA BareJoined ==
    ASSUME NEW a \in Seq(Record), NEW b \in Seq(Record)
    PROVE  Bare(a \o b) = Bare(a) \o Bare(b)
<1> DEFINE j == a \o b  u == Bare(a)  v == Bare(b)  x == Bare(j)  y == u \o v
           m == Len(a)  n == Len(b)
<1>1. /\ j \in Seq(Record) /\ Len(j) = m + n /\ m \in Nat /\ n \in Nat
      /\ DOMAIN j = 1..m + n /\ DOMAIN a = 1..m /\ DOMAIN b = 1..n
      /\ \A i \in 1..m : j[i] = a[i]
      /\ \A i \in 1..n : j[m + i] = b[i]
  OBVIOUS
<1>2. /\ u \in Seq(Record) /\ Len(u) = m /\ \A i \in 1..m : u[i] = [a[i] EXCEPT !.holds = {}]
      /\ v \in Seq(Record) /\ Len(v) = n /\ \A i \in 1..n : v[i] = [b[i] EXCEPT !.holds = {}]
  BY <1>1, BareOf
<1> HIDE DEF j, u, v, m, n
<1>3. /\ x \in Seq(Record) /\ Len(x) = m + n
      /\ \A i \in 1..m + n : x[i] = [j[i] EXCEPT !.holds = {}]
  BY <1>1, BareOf
<1>4. /\ y \in Seq(Record) /\ Len(y) = m + n
      /\ \A i \in 1..m : y[i] = u[i]
      /\ \A i \in 1..n : y[m + i] = v[i]
  <2>1. u \in Seq(Record) /\ v \in Seq(Record)
    BY <1>2
  <2>2. /\ y \in Seq(Record) /\ Len(y) = Len(u) + Len(v)
        /\ \A i \in 1..Len(u) : y[i] = u[i]
        /\ \A i \in 1..Len(v) : y[Len(u) + i] = v[i]
    BY <2>1, Joined
  <2>3. Len(u) = m /\ Len(v) = n
    BY <1>2
  <2> HIDE DEF y
  <2> QED BY <2>2, <2>3
<1> HIDE DEF x, y
<1>5. ASSUME NEW i \in 1..m + n PROVE x[i] = y[i]
  <2>1. CASE i <= m
    <3>1. i \in 1..m
      BY <1>1, <2>1
    <3>2. y[i] = [a[i] EXCEPT !.holds = {}]
      BY <1>2, <1>4, <3>1
    <3>3. j[i] = a[i]
      BY <1>1, <3>1
    <3> QED BY <1>3, <3>2, <3>3
  <2>2. CASE ~(i <= m)
    <3>1. i - m \in 1..n /\ m + (i - m) = i
      BY <1>1, <2>2
    <3> DEFINE k == i - m
    <3> HIDE DEF k
    <3>2. k \in 1..n /\ m + k = i
      BY <3>1 DEF k
    <3>3. y[m + k] = [b[k] EXCEPT !.holds = {}]
      BY <1>2, <1>4, <3>2
    <3>4. j[m + k] = b[k]
      BY <1>1, <3>2
    <3> QED BY <1>3, <3>2, <3>3, <3>4
  <2> QED BY <2>1, <2>2
<1>6. DOMAIN x = 1..m + n /\ DOMAIN y = 1..m + n
  BY <1>3, <1>4
<1>7. x = y
  BY <1>3, <1>4, <1>5, <1>6, SeqEqual
<1> QED BY <1>7 DEF x, y, j, u, v

\* What is kept of a list, without holds, is kept of the list without holds.
LEMMA BareKept ==
    ASSUME NEW a \in Seq(Record), NEW at \in SUBSET DOMAIN a
    PROVE  Bare(ItemsAt(a, at)) = ItemsAt(Bare(a), at)
<1> DEFINE c == Cardinality(at)  q == ItemsAt(a, at)  x == Bare(q)  y == ItemsAt(Bare(a), at)
<1>1. Len(a) \in Nat /\ at \in SUBSET (1..Len(a)) /\ \A i \in at : a[i] \in Record
  OBVIOUS
<1>2. q \in Seq(Record) /\ DOMAIN q = 1..c
  BY <1>1, ItemsOf
<1>3. \A i \in at : q[Rank(at, i)] = a[i]
  BY <1>1, ItemAt
<1>4. \A i \in at : y[Rank(at, i)] = Bare(a)[i]
  BY <1>1, ItemAt
<1>5. \A k \in 1..c : \E i \in at : Rank(at, i) = k
  BY <1>1, Ranked
<1>6. y = [k \in 1..c |-> y[k]]
  BY DEF ItemsAt
<1> HIDE DEF q, y, c
<1>7. \A k \in 1..c : x[k] = [q[k] EXCEPT !.holds = {}]
  BY <1>2, BareOf
<1>8. x = [k \in 1..c |-> x[k]]
  BY <1>2 DEF Bare
<1>9. \A i \in at : Bare(a)[i] = [a[i] EXCEPT !.holds = {}]
  BY BareOf
<1> HIDE DEF x
<1>10. ASSUME NEW k \in 1..c PROVE x[k] = y[k]
  <2>1. PICK i \in at : Rank(at, i) = k
    BY <1>5
  <2>2. q[k] = a[i]
    BY <1>3, <2>1
  <2>3. y[k] = [a[i] EXCEPT !.holds = {}]
    BY <1>4, <1>9, <2>1
  <2>4. x[k] = [q[k] EXCEPT !.holds = {}]
    BY <1>7
  <2> QED BY <2>2, <2>3, <2>4
<1>11. x = y
  BY <1>6, <1>8, <1>10
<1> QED BY <1>11 DEF x, y, q

\* What Find looks for does not depend on the holds.
LEMMA BareCarrying ==
    ASSUME NEW a \in Seq(Record), NEW b \in Seq(Record), Bare(a) = Bare(b), NEW d
    PROVE  Bare(Carrying(a, d)) = Bare(Carrying(b, d))
<1> DEFINE A == {i \in DOMAIN a : Carries(a[i], d)}  B == {i \in DOMAIN b : Carries(b[i], d)}
<1>1. DOMAIN a = DOMAIN b
  BY BareOf
<1>2. ASSUME NEW i \in DOMAIN a PROVE Carries(a[i], d) <=> Carries(b[i], d)
  <2>1. [a[i] EXCEPT !.holds = {}] = [b[i] EXCEPT !.holds = {}]
    BY <1>1, BareOf
  <2>2. a[i] \in Record /\ b[i] \in Record
    BY <1>1
  <2> DEFINE r == a[i]  t == b[i]
  <2> HIDE DEF r, t
  <2>3. [r EXCEPT !.holds = {}] = [t EXCEPT !.holds = {}] /\ r \in Record /\ t \in Record
    BY <2>1, <2>2 DEF r, t
  <2>4. /\ [r EXCEPT !.holds = {}].digests = r.digests /\ [r EXCEPT !.holds = {}].expected = r.expected
        /\ [t EXCEPT !.holds = {}].digests = t.digests /\ [t EXCEPT !.holds = {}].expected = t.expected
    BY <2>3 DEF Record
  <2>5. r.digests = t.digests /\ r.expected = t.expected
    BY <2>3, <2>4
  <2> QED BY <2>5 DEF Carries, r, t
<1>3. A = B /\ A \in SUBSET DOMAIN a /\ B \in SUBSET DOMAIN b
  BY <1>1, <1>2
<1> HIDE DEF A, B
<1>4. Bare(ItemsAt(a, A)) = Bare(ItemsAt(b, B))
  BY <1>3, BareKept
<1> QED BY <1>4 DEF Carrying, A, B

\* What is taken of a page is what is given, with other holds.
LEMMA TakenBare ==
    ASSUME NEW c, NEW s \in Sources, NEW records \in Seq(Record),
           \A i \in DOMAIN records : records[i].of = s
    PROVE  /\ Bare(Taken(c, s, records))
                = Bare(GivenOf(c, s, records, Len(records)))
           /\ \A k \in DOMAIN Taken(c, s, records) : Taken(c, s, records)[k].of = s
<1> DEFINE at == {i \in DOMAIN records : Accepts(s, c.store, records[i])}
           of == ItemsAt(records, at)
           taken == [i \in DOMAIN of |-> IF c.op = "holders" THEN Verified(s, of[i])
                                         ELSE Observed(s, of[i])]
<1>1. taken = Taken(c, s, records)
  BY DEF Taken
<1>2. ItemsAt(records, at) = GivenOf(c, s, records, Len(records))
  <2>1. DOMAIN records = 1..Len(records)
    OBVIOUS
  <2> QED BY <2>1 DEF Accepts, Given, GivenOf
<1>3. at \in SUBSET DOMAIN records
  OBVIOUS
<1> HIDE DEF at
<1>4. /\ of \in Seq(Record)
      /\ \A k \in DOMAIN of : \E i \in at : of[k] = records[i]
  BY <1>3, Kept
<1>5. \A k \in DOMAIN of : of[k] \in Record /\ of[k].of = s
  BY <1>3, <1>4
<1>6. /\ DOMAIN taken = DOMAIN of
      /\ \A k \in DOMAIN of : taken[k] = Verified(s, of[k]) \/ taken[k] = Observed(s, of[k])
  OBVIOUS
<1> HIDE DEF of, taken
<1>7. ASSUME NEW r \in Record, NEW v, v = Verified(s, r) \/ v = Observed(s, r)
      PROVE  [v EXCEPT !.holds = {}] = [r EXCEPT !.holds = {}] /\ v.of = r.of
  <2>1. \E h : v = [r EXCEPT !.holds = h]
    <3>1. \E h : Observed(s, r) = [r EXCEPT !.holds = h]
      BY DEF Observed
    <3>2. PICK h : Observed(s, r) = [r EXCEPT !.holds = h]
      BY <3>1
    <3> DEFINE o == Observed(s, r)
    <3>3. o = [r EXCEPT !.holds = h]
      BY <3>2
    <3>4. Verified(s, r) = o \/ \E g : Verified(s, r) = [o EXCEPT !.holds = g]
      BY DEF Verified
    <3> HIDE DEF o
    <3>5. \A g : [o EXCEPT !.holds = g] = [r EXCEPT !.holds = g]
      BY <3>3 DEF Record
    <3>6. Verified(s, r) = o \/ \E g : Verified(s, r) = [r EXCEPT !.holds = g]
      BY <3>4, <3>5
    <3>7. CASE v = o
      BY <3>3, <3>7
    <3>8. CASE v = Verified(s, r)
      BY <3>6, <3>7, <3>8
    <3> QED BY <1>7, <3>7, <3>8 DEF o
  <2>2. PICK h : v = [r EXCEPT !.holds = h]
    BY <2>1
  <2> QED BY <2>2 DEF Record
<1>8. \A k \in DOMAIN of : /\ [taken[k] EXCEPT !.holds = {}] = [of[k] EXCEPT !.holds = {}]
                           /\ taken[k].of = s
  BY <1>5, <1>6, <1>7
<1>9. Bare(taken) = Bare(of)
  BY <1>6, <1>8 DEF Bare
<1> QED BY <1>1, <1>2, <1>6, <1>8, <1>9 DEF of

\* The sources that a composition reads are in their order, each once.
LEMMA SelectedGrows ==
    ASSUME NEW store
    PROVE  LET from == Selected(store) IN
           /\ from \in Seq(Sources)
           /\ \A k, l \in DOMAIN from : k < l => from[k] < from[l]
           /\ \A k, l \in DOMAIN from : from[k] = from[l] => k = l
           /\ \A k \in DOMAIN from : from[k] \in Nat
<1> DEFINE all == [s \in Sources |-> s]
           at == {s \in Sources : store = None \/ store \in Accepted[s]}
           from == Selected(store)
<1>1. all \in Seq(Sources) /\ DOMAIN all = Sources /\ SourceCount \in Nat
  BY InventoryAssumption DEF Sources
<1>2. at \in SUBSET (1..SourceCount) /\ from = ItemsAt(all, at) /\ \A i \in at : all[i] = i
  BY DEF Selected, Sources
<1>3. from \in Seq(Sources)
  BY SelectedSources
<1> HIDE DEF from, all, at
<1>4. \A i \in at : all[i] \in Sources
  BY <1>2 DEF Sources
<1>5. DOMAIN from = 1..Cardinality(at) /\ Cardinality(at) \in Nat
  BY <1>1, <1>2, <1>4, ItemsOf
<1>6. \A k \in 1..Cardinality(at) : \E i \in at : Rank(at, i) = k
  BY <1>1, <1>2, Ranked
<1>7. ASSUME NEW k \in DOMAIN from PROVE from[k] \in at /\ Rank(at, from[k]) = k
  <2>1. SourceCount \in Nat /\ at \in SUBSET (1..SourceCount) /\ k \in 1..Cardinality(at)
    BY <1>1, <1>2, <1>5
  <2>2. PICK i \in at : Rank(at, i) = k
    BY <1>6, <2>1
  <2>3. from[k] = all[i]
    BY <1>2, <2>1, <2>2, ItemAt
  <2> QED BY <1>2, <2>2, <2>3
<1>8. \A k \in DOMAIN from : from[k] \in Nat
  BY <1>1, <1>2, <1>7, Positions
<1>9. ASSUME NEW k \in DOMAIN from, NEW l \in DOMAIN from, k < l PROVE from[k] < from[l]
  <2>1. from[l] <= from[k] => Rank(at, from[l]) <= Rank(at, from[k])
    BY <1>1, <1>2, <1>8, RankGrows
  <2>2. k \in Nat /\ l \in Nat
    BY <1>5
  <2> QED BY <1>7, <1>8, <1>9, <2>1, <2>2
<1>10. \A k, l \in DOMAIN from : from[k] = from[l] => k = l
  BY <1>7
<1> QED BY <1>3, <1>8, <1>9, <1>10 DEF from

\* Nothing is kept at no position, and everything at all of them.
LEMMA ItemsAtNone ==
    ASSUME NEW s
    PROVE  ItemsAt(s, {}) = <<>>
<1>1. Cardinality({}) = 0
  BY FS_EmptySet
<1> QED BY <1>1 DEF ItemsAt

LEMMA ItemsAtAll ==
    ASSUME NEW S, NEW s \in Seq(S)
    PROVE  ItemsAt(s, DOMAIN s) = s
<1> DEFINE n == Len(s)  at == DOMAIN s  q == ItemsAt(s, at)
<1>1. n \in Nat /\ at = 1..n /\ at \in SUBSET (1..n) /\ \A i \in at : s[i] \in S
  OBVIOUS
<1> HIDE DEF at, n
<1>2. Cardinality(at) = n
  BY <1>1, FS_Interval
<1>3. q \in Seq(S) /\ Len(q) = n
  BY <1>1, <1>2, ItemsOf
<1>4. ASSUME NEW i \in 1..n PROVE Rank(at, i) = i
  <2>1. {j \in 1..n : j <= i} = 1..i
    BY <1>1
  <2>2. i \in Nat /\ Cardinality(1..i) = i
    BY FS_Interval
  <2> QED BY <1>1, <2>1, <2>2 DEF Rank
<1>5. \A i \in at : q[Rank(at, i)] = s[i]
  BY <1>1, ItemAt
<1> HIDE DEF q
<1>6. \A i \in 1..n : q[i] = s[i]
  BY <1>1, <1>4, <1>5
<1>7. q = s
  BY <1>3, <1>6, SeqEqual DEF n
<1> QED BY <1>7 DEF q, at

\* The records of a source in a list that has none of it, and in one that has no other.
LEMMA OfOne ==
    ASSUME NEW a \in Seq(Record), NEW s
    PROVE  /\ (\A i \in DOMAIN a : a[i].of # s) => OfSource(a, s) = <<>>
           /\ (\A i \in DOMAIN a : a[i].of = s) => OfSource(a, s) = a
<1>1. ASSUME \A i \in DOMAIN a : a[i].of # s PROVE OfSource(a, s) = <<>>
  <2>1. {i \in DOMAIN a : a[i].of = s} = {}
    BY <1>1
  <2> QED BY <2>1, ItemsAtNone DEF OfSource
<1>2. ASSUME \A i \in DOMAIN a : a[i].of = s PROVE OfSource(a, s) = a
  <2>1. {i \in DOMAIN a : a[i].of = s} = DOMAIN a
    BY <1>2
  <2> QED BY <2>1, ItemsAtAll DEF OfSource
<1> QED BY <1>1, <1>2

\* What is kept of a list up to a position and after it.
LEMMA KeptSplit ==
    ASSUME NEW s \in Seq(Record), NEW at \in SUBSET DOMAIN s, NEW m \in Nat
    PROVE  ItemsAt(s, at) = ItemsAt(s, {i \in at : i <= m}) \o ItemsAt(s, {i \in at : i > m})
<1> DEFINE last == Len(s)
<1>1. last \in Nat /\ at \in SUBSET (1..last) /\ \A i \in at : s[i] \in Record
  OBVIOUS
<1> HIDE DEF last
<1> QED BY <1>1, ItemsJoin

\* The page of n records that follows the first m of a list.
PageOf(page, n, records, m) ==
    /\ page \in Seq(Record) /\ Len(page) = n /\ m + n <= Len(records)
    /\ Continues(records, m, page, DOMAIN page)

\* last is where a page of n records that follows the first m ends.
PageEnds(last, m, n) == last = m + n

Follows(whole, before, after) == whole = before \o after

\* What is given of a list up to the end of a page is what was given before, and of
\* the page.
LEMMA GivenGrows ==
    ASSUME NEW c, NEW s, NEW records \in Seq(Record), NEW m \in Nat,
           NEW page, NEW n \in Nat, PageOf(page, n, records, m), NEW last, PageEnds(last, m, n)
    PROVE  Follows(GivenOf(c, s, records, last), GivenOf(c, s, records, m),
                   GivenOf(c, s, page, n))
<1> DEFINE at == {i \in 1..last : Given(c, s, records[i])}
           A == {i \in 1..m : Given(c, s, records[i])}
           B == {i \in 1..n : Given(c, s, page[i])}
           then == Further(m, B)
<1>1. /\ last \in Nat /\ DOMAIN page = 1..n /\ last <= Len(records)
      /\ last = m + n
  BY DEF PageOf, PageEnds
<1>2. at \in SUBSET (1..last) /\ B \in SUBSET (1..n)
  BY <1>1
<1>3. at \in SUBSET DOMAIN records
  BY <1>1
<1>4. Continues(records, m, page, B)
  BY <1>1 DEF Continues, PageOf
<1>5. {i \in at : i <= m} = A
  <2>1. \A i \in 1..m : i \in 1..last /\ i <= m
    BY <1>1
  <2>2. \A i \in 1..last : i <= m => i \in 1..m
    BY <1>1
  <2> QED BY <2>1, <2>2
<1>6. {i \in at : i > m} = then
  <2>1. ASSUME NEW i \in at, i > m PROVE i \in then
    <3> DEFINE k == i - m
    <3>1. k \in 1..n /\ m + k = i
      BY <1>1, <2>1
    <3> HIDE DEF k
    <3>2. page[k] = records[m + k] /\ k \in DOMAIN page
      BY <1>1, <3>1 DEF Continues, PageOf
    <3>3. Given(c, s, records[i])
      OBVIOUS
    <3>4. k \in B
      BY <3>1, <3>2, <3>3
    <3> QED BY <3>1, <3>4 DEF Further
  <2>2. ASSUME NEW i \in then PROVE i \in at /\ i > m
    <3>1. PICK k \in B : i = m + k
      BY DEF Further
    <3>2. k \in 1..n /\ page[k] = records[m + k] /\ Given(c, s, page[k])
      BY <1>1 DEF Continues, PageOf
    <3>3. i \in 1..last /\ i > m
      BY <1>1, <3>1, <3>2
    <3> QED BY <3>1, <3>2, <3>3
  <2> HIDE DEF at, then
  <2> QED BY <2>1, <2>2
<1> HIDE DEF at, A, B, then
<1>7. ItemsAt(records, at) =
          ItemsAt(records, {i \in at : i <= m}) \o ItemsAt(records, {i \in at : i > m})
  BY <1>3, KeptSplit
<1>8. ItemsAt(page, B) = ItemsAt(records, Further(m, B))
  BY <1>1, <1>2, <1>4, ItemsShifted
<1>9. ItemsAt(records, at) = ItemsAt(records, A) \o ItemsAt(page, B)
  BY <1>5, <1>6, <1>7, <1>8 DEF then
<1> QED BY <1>9 DEF GivenOf, Follows, at, A, B

\* What is given is of the list.
LEMMA GivenRecords ==
    ASSUME NEW c, NEW s, NEW records \in Seq(Record), NEW upto \in Nat, upto <= Len(records)
    PROVE  GivenOf(c, s, records, upto) \in Seq(Record)
<1> DEFINE at == {i \in 1..upto : Given(c, s, records[i])}
<1>1. at \in SUBSET (1..upto) /\ \A i \in at : records[i] \in Record
  OBVIOUS
<1> HIDE DEF at
<1>2. ItemsAt(records, at) \in Seq(Record)
  BY <1>1, ItemsOf
<1> QED BY <1>2 DEF GivenOf, at

\* The records of a source in a list are of the list.
LEMMA OfRecords ==
    ASSUME NEW a \in Seq(Record), NEW s
    PROVE  OfSource(a, s) \in Seq(Record)
<1> DEFINE at == {i \in DOMAIN a : a[i].of = s}
<1>1. at \in SUBSET DOMAIN a
  OBVIOUS
<1> HIDE DEF at
<1>2. ItemsAt(a, at) \in Seq(Record)
  BY <1>1, Kept
<1> QED BY <1>2 DEF OfSource, at

-----------------------------------------------------------------------------
(* What a call has of its sources while it reads them.                     *)

\* The next source of what is left of them.
LEMMA SourceLeft ==
    ASSUME NEW from \in Seq(Sources), NEW left \in Seq(Sources), NEW e \in Nat,
           Len(left) = Len(from) - e, Remains(left, from), left # <<>>
    PROVE  /\ e + 1 \in DOMAIN from /\ Head(left) = from[e + 1]
           /\ Len(Tail(left)) = Len(from) - (e + 1) /\ Remains(Tail(left), from)
<1>1. /\ Len(left) \in Nat /\ Len(from) \in Nat /\ Len(left) > 0
      /\ Head(left) = left[1] /\ Tail(left) \in Seq(Sources)
      /\ Len(Tail(left)) = Len(left) - 1
      /\ \A i \in 1..Len(left) - 1 : Tail(left)[i] = left[i + 1]
  OBVIOUS
<1>2. e + 1 \in DOMAIN from /\ Head(left) = from[e + 1]
  <2>1. Head(left) = from[Len(from) - Len(left) + 1]
    BY <1>1 DEF Remains
  <2>2. Len(from) - Len(left) + 1 = e + 1 /\ e + 1 \in 1..Len(from)
    BY <1>1
  <2> QED BY <2>1, <2>2
<1>3. \A i \in 1..Len(left) : left[i] = from[Len(from) - Len(left) + i]
  <2>1. DOMAIN left = 1..Len(left)
    OBVIOUS
  <2> QED BY <2>1 DEF Remains
<1> DEFINE t == Tail(left)  n == Len(from)  k == Len(left)
<1>4. /\ t \in Seq(Sources) /\ Len(t) = k - 1 /\ k \in Nat /\ n \in Nat /\ k > 0 /\ k <= n
      /\ \A i \in 1..k - 1 : t[i] = left[i + 1]
      /\ \A i \in 1..k : left[i] = from[n - k + i]
  BY <1>1, <1>3 DEF Remains
<1> HIDE DEF t, n, k
<1>5. ASSUME NEW i \in DOMAIN t PROVE t[i] = from[n - Len(t) + i]
  <2>1. i \in 1..k - 1 /\ i + 1 \in 1..k
    <3>1. i \in 1..Len(t)
      <4>1. t \in Seq(Sources)
        BY <1>4
      <4> QED BY <4>1
    <3>2. Len(t) = k - 1 /\ k \in Nat /\ k > 0
      BY <1>4
    <3> QED BY <3>1, <3>2
  <2>2. t[i] = from[n - k + (i + 1)]
    BY <1>4, <2>1
  <2>3. n - k + (i + 1) = n - Len(t) + i
    BY <1>4, <2>1
  <2> QED BY <2>2, <2>3
<1>6. Remains(t, from)
  BY <1>4, <1>5 DEF Remains, n
<1> QED BY <1>1, <1>2, <1>6 DEF t

\* The next page of what is left of a list, and what is left after it.
LEMMA PageLeft ==
    ASSUME NEW s \in Seq(Record), NEW rest \in Seq(Record), Remains(rest, s),
           NEW n \in Nat, n <= Len(rest), NEW m, m = Len(s) - Len(rest)
    PROVE  LET page == SubSeq(rest, 1, n)
               more == SubSeq(rest, n + 1, Len(rest))
           IN /\ m \in Nat /\ m <= Len(s) /\ PageOf(page, n, s, m)
              /\ more \in Seq(Record) /\ Len(more) = Len(rest) - n /\ Remains(more, s)
<1> DEFINE page == SubSeq(rest, 1, n)
           more == SubSeq(rest, n + 1, Len(rest))
           r == Len(rest)
           l == Len(s)
<1>1. /\ r \in Nat /\ l \in Nat /\ m = l - r /\ r <= l /\ n <= r /\ DOMAIN rest = 1..r
      /\ \A i \in DOMAIN rest : rest[i] = s[Len(s) - Len(rest) + i]
  BY DEF Remains
<1>2. m \in Nat /\ m + n <= l /\ l - (r - n) = m + n /\ r - n \in Nat /\ r - n <= l
  BY <1>1
<1>3. \A i \in 1..r : rest[i] = s[m + i] /\ rest[i] \in Record
  <2>1. \A i \in DOMAIN rest : rest[i] \in Record
    OBVIOUS
  <2> HIDE DEF r, l
  <2>2. l = Len(s) /\ r = Len(rest)
    BY DEF l, r
  <2> QED BY <1>1, <2>1, <2>2
<1>4. /\ page \in Seq(Record) /\ Len(page) = n
      /\ \A i \in 1..n : page[i] = rest[i]
  <2>1. 1 \in Int /\ n \in Int /\ \A i \in 1..n : rest[i] \in Record
    BY <1>1, <1>3
  <2>2. /\ page \in Seq(Record)
        /\ Len(page) = IF 1 <= n THEN n - 1 + 1 ELSE 0
        /\ \A i \in 1..n - 1 + 1 : page[i] = rest[1 + i - 1]
    BY <2>1, SubSeqProperties
  <2> HIDE DEF page
  <2> QED BY <2>2
<1>5. /\ more \in Seq(Record) /\ Len(more) = r - n
      /\ \A i \in 1..r - n : more[i] = rest[n + i]
  <2>1. n + 1 \in Int /\ r \in Int /\ \A i \in n + 1..r : rest[i] \in Record
    BY <1>1, <1>3
  <2>2. /\ more \in Seq(Record)
        /\ Len(more) = IF n + 1 <= r THEN r - (n + 1) + 1 ELSE 0
        /\ \A i \in 1..r - (n + 1) + 1 : more[i] = rest[(n + 1) + i - 1]
    BY <2>1, SubSeqProperties
  <2> HIDE DEF more
  <2>3. \A i \in 1..r - n : i \in 1..r - (n + 1) + 1 /\ (n + 1) + i - 1 = n + i
    BY <1>1
  <2> HIDE DEF r
  <2>4. Len(more) = r - n
    BY <1>1, <2>2
  <2> QED BY <2>2, <2>3, <2>4
<1> HIDE DEF page, more, r, l
<1>6. ASSUME NEW i \in DOMAIN page PROVE page[i] = s[m + i]
  <2>1. i \in 1..n
    BY <1>4
  <2>2. i \in 1..r
    BY <1>1, <2>1
  <2> QED BY <1>3, <1>4, <2>1, <2>2
<1>7. ASSUME NEW i \in DOMAIN more PROVE more[i] = s[Len(s) - Len(more) + i]
  <2>1. i \in 1..r - n
    BY <1>5
  <2>2. n + i \in 1..r /\ m + (n + i) = (m + n) + i
    <3>1. r \in Nat /\ n <= r /\ m \in Nat
      BY <1>1, <1>2
    <3>2. n + i \in 1..r
      BY <2>1, <3>1
    <3>3. i \in Nat
      BY <2>1, <3>1
    <3> QED BY <3>1, <3>2, <3>3
  <2>3. more[i] = s[(m + n) + i]
    BY <1>3, <1>5, <2>1, <2>2
  <2>4. Len(s) - Len(more) = m + n
    BY <1>2, <1>5 DEF l
  <2> QED BY <2>3, <2>4
<1>8. Remains(more, s)
  BY <1>2, <1>5, <1>7 DEF Remains, l
<1>9. m <= Len(s) /\ m + n <= Len(s) /\ Len(more) = Len(rest) - n
  BY <1>1, <1>2, <1>5 DEF l, r
<1>10. PageOf(page, n, s, m)
  BY <1>4, <1>6, <1>9 DEF PageOf, Continues
<1> QED BY <1>2, <1>5, <1>8, <1>9, <1>10 DEF page, more

\* A call that begins to read has nothing of no source.
LEMMA ComposesNothing ==
    ASSUME NEW c, c.heard = <<>>, c.records = <<>>, c.first, c.left = Selected(c.store)
    PROVE  Composes(c)
<1>1. Len(c.heard) = 0 /\ DOMAIN c.records = {} /\ Ended(c) = 0
  BY DEF Ended
<1>2. Selected(c.store) \in Seq(Sources)
  BY SelectedSources
<1>3. Len(c.left) = Len(Selected(c.store)) - 0 /\ Remains(c.left, Selected(c.store))
  BY <1>2 DEF Remains
<1>4. 1..0 = {}
  OBVIOUS
<1> QED BY <1>1, <1>3, <1>4 DEF Composes

\* What a page adds: records of the source that is being read, those given.
LEMMA PageGiven ==
    ASSUME NEW c \in Call, Composes(c), ~c.first, c.left # <<>>,
           \A i \in DOMAIN c.rest : c.rest[i].of = Head(c.left), NEW n \in Nat, n <= Len(c.rest)
    PROVE  LET from == Selected(c.store)
               h == Len(c.heard)
               records == c.records \o Taken(c, Head(c.left), SubSeq(c.rest, 1, n))
               m == Len(c.heard[h]) - Len(c.rest)
           IN /\ records \in Seq(Record) /\ h \in DOMAIN from /\ m \in Nat
              /\ Len(Tail(c.left)) = Len(from) - h /\ Remains(Tail(c.left), from)
              /\ \A i \in DOMAIN records : \E k \in 1..h : records[i].of = from[k]
              /\ \A i, j \in DOMAIN records : i <= j => records[i].of <= records[j].of
              /\ \A k \in 1..h - 1 :
                    Bare(OfSource(records, from[k]))
                        = Bare(GivenOf(c, from[k], c.heard[k], Len(c.heard[k])))
              /\ Bare(OfSource(records, from[h]))
                    = Bare(GivenOf(c, from[h], c.heard[h], m + n))
<1> DEFINE from == Selected(c.store)
           h == Len(c.heard)
           s == Head(c.left)
           page == SubSeq(c.rest, 1, n)
           taken == Taken(c, s, page)
           records == c.records \o taken
           read == c.heard[h]
           m == Len(read) - Len(c.rest)
<1>1. /\ c.records \in Seq(Record) /\ c.heard \in Seq(Seq(Record)) /\ c.left \in Seq(Sources)
      /\ c.rest \in Seq(Record) /\ h \in Nat
  BY DEF Call
<1>2. /\ from \in Seq(Sources)
      /\ \A k, l \in DOMAIN from : k < l => from[k] < from[l]
      /\ \A k, l \in DOMAIN from : from[k] = from[l] => k = l
      /\ \A k \in DOMAIN from : from[k] \in Nat
  BY SelectedGrows
<1>3. /\ h > 0 /\ h - 1 \in Nat /\ Ended(c) = h - 1
      /\ Len(c.left) = Len(from) - (h - 1) /\ Remains(c.left, from) /\ Remains(c.rest, read)
  BY <1>1 DEF Composes, Ended
<1>4. /\ h \in DOMAIN from /\ s = from[h]
      /\ Len(Tail(c.left)) = Len(from) - h /\ Remains(Tail(c.left), from)
  <2> DEFINE e == h - 1
  <2>1. e \in Nat /\ Len(c.left) = Len(from) - e /\ e + 1 = h
    BY <1>1, <1>3
  <2> HIDE DEF e, from, h
  <2> QED BY <1>1, <1>2, <1>3, <2>1, SourceLeft
<1>5. read \in Seq(Record) /\ Len(read) \in Nat
  BY <1>1, <1>3
<1>6. s \in Sources /\ Len(from) \in Nat /\ DOMAIN from = 1..Len(from) /\ h <= Len(from)
  BY <1>2, <1>4
<1>7. m \in Nat /\ m <= Len(read) /\ page \in Seq(Record) /\ PageOf(page, n, read, m)
  <2> DEFINE rest == c.rest
  <2>1. rest \in Seq(Record) /\ Remains(rest, read) /\ n <= Len(rest) /\ m = Len(read) - Len(rest)
    BY <1>1, <1>3
  <2> HIDE DEF read, m, rest
  <2>2. m \in Nat /\ m <= Len(read) /\ PageOf(SubSeq(rest, 1, n), n, read, m)
    BY <1>5, <2>1, PageLeft
  <2> QED BY <2>2 DEF rest, PageOf
<1>8. \A i \in DOMAIN page : page[i].of = s
  <2>1. 1 \in Nat /\ n <= Len(c.rest)
    OBVIOUS
  <2>2. \A i \in DOMAIN page : \E j \in DOMAIN c.rest : page[i] = c.rest[j]
    BY <1>1, <2>1, Stretch
  <2> HIDE DEF page
  <2> QED BY <2>2
<1>9. /\ \A i \in DOMAIN c.records : \E k \in 1..h : c.records[i].of = from[k]
      /\ \A i, j \in DOMAIN c.records : i <= j => c.records[i].of <= c.records[j].of
  BY DEF Composes
<1>10. \A k \in 1..h : Bare(OfSource(c.records, from[k]))
                          = Bare(GivenOf(c, from[k], c.heard[k], Taking(c, k)))
  BY DEF Composes
<1>11. /\ \A k \in 1..h - 1 : Taking(c, k) = Len(c.heard[k])
       /\ Taking(c, h) = m
  <2>1. h \in Nat /\ Ended(c) = h - 1
    BY <1>1, <1>3
  <2> HIDE DEF h
  <2>2. (\A k \in 1..h - 1 : k <= Ended(c)) /\ ~(h <= Ended(c))
    BY <2>1
  <2> QED BY <2>2 DEF Taking
<1> HIDE DEF from, h, s, page, read
<1> HIDE DEF m
<1>12. taken \in Seq(Record)
  BY <1>6, <1>7, <1>8, TakenRecords
<1>13. /\ Bare(taken) = Bare(GivenOf(c, s, page, n))
       /\ \A k \in DOMAIN taken : taken[k].of = s
  <2>1. Len(page) = n
    BY <1>7 DEF PageOf
  <2>2. /\ Bare(taken) = Bare(GivenOf(c, s, page, Len(page)))
        /\ \A k \in DOMAIN taken : taken[k].of = s
    BY <1>6, <1>7, <1>8, TakenBare
  <2> QED BY <2>1, <2>2
<1> HIDE DEF taken
<1>14. /\ records \in Seq(Record) /\ Len(records) = Len(c.records) + Len(taken)
       /\ \A i \in DOMAIN c.records : records[i] = c.records[i]
       /\ \A i \in DOMAIN taken : records[Len(c.records) + i] = taken[i]
       /\ Len(c.records) \in Nat /\ DOMAIN c.records = 1..Len(c.records)
       /\ Len(taken) \in Nat /\ DOMAIN taken = 1..Len(taken)
  <2> DEFINE a == c.records
  <2>1. a \in Seq(Record)
    BY <1>1
  <2> HIDE DEF a
  <2>2. /\ a \o taken \in Seq(Record) /\ Len(a \o taken) = Len(a) + Len(taken)
        /\ \A i \in 1..Len(a) : (a \o taken)[i] = a[i]
        /\ \A i \in 1..Len(taken) : (a \o taken)[Len(a) + i] = taken[i]
    BY <1>12, <2>1, Joined
  <2>3. DOMAIN a = 1..Len(a) /\ DOMAIN taken = 1..Len(taken) /\ Len(a) \in Nat /\ Len(taken) \in Nat
    BY <1>12, <2>1
  <2> QED BY <2>2, <2>3 DEF a
<1> HIDE DEF records
<1>15. ASSUME NEW i \in DOMAIN records
       PROVE  /\ i \in Nat
              /\ \/ i <= Len(c.records) /\ i \in DOMAIN c.records /\ records[i] = c.records[i]
                 \/ i > Len(c.records) /\ records[i].of = s
  <2> DEFINE a == Len(c.records)  b == Len(taken)
  <2>1. i \in 1..a + b /\ a \in Nat /\ b \in Nat
    BY <1>14
  <2>2. DOMAIN c.records = 1..a /\ DOMAIN taken = 1..b
    BY <1>14
  <2>3. CASE i <= a
    <3> HIDE DEF a
    <3>1. i \in 1..a /\ i \in Nat
      BY <2>1, <2>3
    <3> QED BY <1>14, <2>2, <2>3, <3>1 DEF a
  <2>4. CASE i > a
    <3> DEFINE k == i - a
    <3> HIDE DEF a, b
    <3>1. k \in 1..b /\ a + k = i /\ i \in Nat
      BY <2>1, <2>4
    <3> HIDE DEF k
    <3>2. records[a + k] = taken[k] /\ k \in DOMAIN taken
      BY <1>14, <2>2, <3>1 DEF a
    <3>3. records[i].of = s
      BY <1>13, <3>1, <3>2
    <3> QED BY <2>4, <3>1, <3>3 DEF a
  <2> HIDE DEF a, b
  <2>5. i <= a \/ i > a
    BY <2>1
  <2> QED BY <2>3, <2>4, <2>5
<1>16. ASSUME NEW i \in DOMAIN records PROVE \E k \in 1..h : records[i].of = from[k]
  <2>1. h \in 1..h
    BY <1>1, <1>3
  <2> QED BY <1>4, <1>9, <1>15, <2>1
<1>17. \A k \in 1..h : k \in DOMAIN from /\ from[k] \in Nat /\ from[k] <= s
  <2> SUFFICES ASSUME NEW k \in 1..h PROVE k \in DOMAIN from /\ from[k] \in Nat /\ from[k] <= s
    OBVIOUS
  <2>1. k \in DOMAIN from /\ k \in Nat /\ (k = h \/ k < h)
    BY <1>1, <1>6
  <2>2. from[k] \in Nat /\ from[h] \in Nat
    BY <1>2, <1>4, <2>1
  <2>3. k < h => from[k] < from[h]
    BY <1>2, <1>4, <2>1
  <2> QED BY <1>4, <2>1, <2>2, <2>3
<1>18. ASSUME NEW i \in DOMAIN records, NEW j \in DOMAIN records, i <= j
       PROVE  records[i].of <= records[j].of
  <2>1. i \in Nat /\ j \in Nat /\ Len(c.records) \in Nat /\ s \in Nat
    BY <1>1, <1>2, <1>4, <1>15
  <2>2. CASE j <= Len(c.records)
    <3>1. i <= Len(c.records)
      BY <1>18, <2>1, <2>2
    <3>2. /\ i \in DOMAIN c.records /\ records[i] = c.records[i]
          /\ j \in DOMAIN c.records /\ records[j] = c.records[j]
      BY <1>15, <2>1, <2>2, <3>1
    <3> QED BY <1>9, <1>18, <3>2
  <2>3. CASE j > Len(c.records)
    <3>1. records[j].of = s
      BY <1>15, <2>1, <2>3
    <3>2. records[i].of <= s
      BY <1>16, <1>17
    <3> QED BY <3>1, <3>2
  <2> QED BY <2>1, <2>2, <2>3
<1>19. \A t : OfSource(records, t) = OfSource(c.records, t) \o OfSource(taken, t)
  <2> DEFINE a == c.records
  <2>1. a \in Seq(Record) /\ records = a \o taken
    BY <1>1 DEF records
  <2> HIDE DEF a
  <2>2. \A t : OfSource(a \o taken, t) = OfSource(a, t) \o OfSource(taken, t)
    BY <1>12, <2>1, OfJoined
  <2> QED BY <2>1, <2>2 DEF a
<1>20. ASSUME NEW k \in 1..h - 1
       PROVE  Bare(OfSource(records, from[k]))
                  = Bare(GivenOf(c, from[k], c.heard[k], Len(c.heard[k])))
  <2>1. k \in 1..h /\ k # h
    <3>1. h \in Nat
      BY <1>1
    <3> QED BY <3>1
  <2>2. from[k] # s
    BY <1>2, <1>4, <1>17, <2>1
  <2>3. OfSource(taken, from[k]) = <<>>
    BY <1>12, <1>13, <2>2, OfOne
  <2>4. OfSource(records, from[k]) = OfSource(c.records, from[k]) \o <<>>
    BY <1>19, <2>3
  <2>5. OfSource(c.records, from[k]) \in Seq(Record)
    BY <1>1, OfRecords
  <2> DEFINE a == OfSource(c.records, from[k])
  <2> HIDE DEF a
  <2>6. a \o <<>> = a
    BY <2>5 DEF a
  <2>7. OfSource(records, from[k]) = OfSource(c.records, from[k])
    BY <2>4, <2>6 DEF a
  <2>8. Bare(OfSource(c.records, from[k])) = Bare(GivenOf(c, from[k], c.heard[k], Taking(c, k)))
    BY <1>10, <2>1
  <2>9. Taking(c, k) = Len(c.heard[k])
    BY <1>11
  <2> QED BY <2>7, <2>8, <2>9
<1>21. Bare(OfSource(records, from[h])) = Bare(GivenOf(c, from[h], read, m + n))
  <2> DEFINE a == OfSource(c.records, s)  b == GivenOf(c, s, read, m)
             g == GivenOf(c, s, page, n)
  <2>1. OfSource(taken, s) = taken
    BY <1>12, <1>13, OfOne
  <2>2. OfSource(records, s) = a \o taken /\ a \in Seq(Record)
    BY <1>1, <1>19, <2>1, OfRecords
  <2>3. Bare(a) = Bare(b)
    <3>1. h \in 1..h
      BY <1>1, <1>3
    <3>2. Bare(OfSource(c.records, from[h])) = Bare(GivenOf(c, from[h], c.heard[h], Taking(c, h)))
      BY <1>10, <3>1
    <3>3. Taking(c, h) = m
      BY <1>11
    <3> QED BY <1>4, <3>2, <3>3 DEF read
  <2>4. GivenOf(c, s, read, m + n) = b \o g
    <3> DEFINE last == m + n
    <3>1. PageEnds(last, m, n)
      BY DEF PageEnds
    <3> HIDE DEF last
    <3>2. read \in Seq(Record) /\ m \in Nat /\ n \in Nat /\ PageOf(page, n, read, m)
      BY <1>5, <1>7
    <3>3. Follows(GivenOf(c, s, read, last), GivenOf(c, s, read, m), GivenOf(c, s, page, n))
      BY <3>1, <3>2, GivenGrows
    <3> QED BY <3>3 DEF last, Follows
  <2>5. b \in Seq(Record)
    BY <1>5, <1>7, GivenRecords
  <2>6. g \in Seq(Record)
    <3>1. n <= Len(page) /\ page \in Seq(Record)
      BY <1>7 DEF PageOf
    <3> QED BY <3>1, GivenRecords
  <2> HIDE DEF a, b, g
  <2>7. Bare(a \o taken) = Bare(a) \o Bare(taken) /\ Bare(b \o g) = Bare(b) \o Bare(g)
    BY <1>12, <2>2, <2>5, <2>6, BareJoined
  <2>8. Bare(taken) = Bare(g)
    BY <1>13 DEF g
  <2> QED BY <1>4, <2>2, <2>3, <2>4, <2>7, <2>8
<1>22. h \in DOMAIN from /\ m \in Nat /\ records \in Seq(Record)
  BY <1>4, <1>7, <1>14
<1> QED BY <1>4, <1>16, <1>18, <1>20, <1>21, <1>22 DEF from, h, s, page, taken, records, read, m

\* What is given depends on the store a call asks for, and on nothing else of it.
LEMMA GivenSame ==
    ASSUME NEW c, NEW d, c.store = d.store, NEW s, NEW records, NEW upto
    PROVE  GivenOf(c, s, records, upto) = GivenOf(d, s, records, upto)
  BY DEF GivenOf, Given

\* A list is the end of itself.
LEMMA RemainsAll ==
    ASSUME NEW S, NEW s \in Seq(S)
    PROVE  Remains(s, s)
<1>1. Len(s) \in Nat /\ DOMAIN s = 1..Len(s)
  OBVIOUS
<1>2. \A i \in DOMAIN s : Len(s) - Len(s) + i = i
  BY <1>1
<1> QED BY <1>1, <1>2 DEF Remains

\* A source that begins has given nothing yet.
LEMMA FirstComposes ==
    ASSUME NEW c \in Call, Composes(c), c.first, c.left # <<>>, NEW rest \in Seq(Record), NEW b,
           b.store = c.store, b.left = c.left, b.records = c.records, ~b.first, b.rest = rest,
           b.heard = Append(c.heard, rest)
    PROVE  Composes(b)
<1> DEFINE from == Selected(c.store)  h == Len(c.heard)  last == h + 1
<1>1. /\ c.heard \in Seq(Seq(Record)) /\ c.left \in Seq(Sources) /\ c.records \in Seq(Record)
      /\ h \in Nat
  BY DEF Call
<1>2. /\ Len(b.heard) = last /\ b.heard[last] = rest /\ last \in Nat /\ last > 0
      /\ \A k \in 1..h : b.heard[k] = c.heard[k] /\ k \in 1..last /\ k # last
      /\ \A k \in 1..last : k = last \/ k \in 1..h
  <2> DEFINE old == c.heard
  <2>1. old \in Seq(Seq(Record)) /\ h = Len(old) /\ b.heard = Append(old, rest)
    BY <1>1
  <2> HIDE DEF old
  <2>2. /\ Len(Append(old, rest)) = Len(old) + 1 /\ Append(old, rest)[Len(old) + 1] = rest
        /\ \A k \in 1..Len(old) : Append(old, rest)[k] = old[k]
    BY <2>1
  <2> HIDE DEF h
  <2>3. /\ last \in Nat /\ last > 0 /\ \A k \in 1..h : k \in 1..last /\ k # last
        /\ \A k \in 1..last : k = last \/ k \in 1..h
    BY <1>1
  <2> QED BY <2>1, <2>2, <2>3 DEF old
<1>3. Ended(c) = h /\ Ended(b) = h
  BY <1>1, <1>2 DEF Ended
<1>4. /\ from \in Seq(Sources) /\ Len(from) \in Nat /\ DOMAIN from = 1..Len(from)
      /\ \A k, l \in DOMAIN from : from[k] = from[l] => k = l
  BY SelectedGrows
<1>5. /\ Len(c.left) = Len(from) - h /\ Remains(c.left, from)
      /\ \A i \in DOMAIN c.records : \E k \in 1..h : c.records[i].of = from[k]
      /\ \A i, j \in DOMAIN c.records : i <= j => c.records[i].of <= c.records[j].of
  BY <1>3 DEF Composes
<1>6. \A k \in 1..h : Bare(OfSource(c.records, from[k]))
                          = Bare(GivenOf(c, from[k], c.heard[k], Taking(c, k)))
  BY DEF Composes
<1>7. \A k \in 1..h : Taking(b, k) = Taking(c, k)
  <2>1. \A k \in 1..h : k <= Ended(c) /\ k <= Ended(b)
    BY <1>1, <1>3
  <2> HIDE DEF h
  <2> QED BY <1>2, <2>1 DEF Taking
<1>8. Taking(b, last) = 0
  <2>1. ~(last <= Ended(b))
    BY <1>1, <1>3
  <2>2. Len(rest) \in Nat /\ Len(rest) - Len(rest) = 0
    OBVIOUS
  <2> HIDE DEF last
  <2> QED BY <1>2, <2>1, <2>2 DEF Taking
<1>9. last \in DOMAIN from
  <2> DEFINE left == c.left
  <2>1. left \in Seq(Sources) /\ left # <<>> /\ Len(left) = Len(from) - h /\ Remains(left, from)
    BY <1>1, <1>5
  <2> HIDE DEF from, h, left
  <2>2. h + 1 \in DOMAIN from
    BY <1>1, <1>4, <2>1, SourceLeft
  <2> QED BY <2>2
<1>10. \A k \in 1..h : k \in DOMAIN from /\ from[k] # from[last]
  <2>1. \A k \in 1..h : k \in 1..Len(from)
    BY <1>1, <1>4, <1>9
  <2> HIDE DEF from, last
  <2> QED BY <1>2, <1>4, <1>9, <2>1
<1> HIDE DEF from, h, last
<1>11. ASSUME NEW k \in 1..h
       PROVE  Bare(OfSource(b.records, from[k]))
                  = Bare(GivenOf(b, from[k], b.heard[k], Taking(b, k)))
  <2>1. /\ Bare(OfSource(c.records, from[k]))
            = Bare(GivenOf(c, from[k], c.heard[k], Taking(c, k)))
        /\ b.heard[k] = c.heard[k] /\ Taking(b, k) = Taking(c, k)
    BY <1>2, <1>6, <1>7
  <2>2. GivenOf(c, from[k], c.heard[k], Taking(c, k))
            = GivenOf(b, from[k], c.heard[k], Taking(c, k))
    BY GivenSame
  <2> QED BY <2>1, <2>2
<1>12. Bare(OfSource(b.records, from[last]))
           = Bare(GivenOf(b, from[last], b.heard[last], Taking(b, last)))
  <2> DEFINE a == c.records
  <2>1. a \in Seq(Record) /\ b.records = a /\ \A i \in DOMAIN a : a[i].of # from[last]
    BY <1>1, <1>5, <1>10
  <2> HIDE DEF a
  <2>2. OfSource(b.records, from[last]) = <<>>
    BY <2>1, OfOne
  <2>3. GivenOf(b, from[last], rest, 0) = <<>>
    <3>1. {i \in 1..0 : Given(b, from[last], rest[i])} = {}
      OBVIOUS
    <3> QED BY <3>1, ItemsAtNone DEF GivenOf
  <2> QED BY <1>2, <1>8, <2>2, <2>3
<1>13. \A k \in 1..last : Bare(OfSource(b.records, from[k]))
                              = Bare(GivenOf(b, from[k], b.heard[k], Taking(b, k)))
  BY <1>2, <1>11, <1>12
<1>14. \A i \in DOMAIN b.records : \E k \in 1..last : b.records[i].of = from[k]
  BY <1>2, <1>5
<1>15. Remains(b.rest, b.heard[last])
  BY <1>2, RemainsAll
<1>16. from = Selected(b.store) /\ last = Len(b.heard) /\ last > 0
  BY <1>2 DEF from
<1>17. Len(b.left) = Len(from) - Ended(b) /\ Remains(b.left, from)
  BY <1>3, <1>5
<1>18. \A i, j \in DOMAIN b.records : i <= j => b.records[i].of <= b.records[j].of
  BY <1>5
<1> QED BY <1>13, <1>14, <1>15, <1>16, <1>17, <1>18 DEF Composes

\* The source a page is read of has given nothing, or what it gave before.
LEMMA BegunComposes ==
    ASSUME InventoryInv, NEW c \in Call, Composes(c), c.left # <<>>
    PROVE  Composes(Begun(c, Head(c.left)))
<1> DEFINE s == Head(c.left)  b == Begun(c, s)
<1>1. c.left \in Seq(Sources) /\ c.rest \in Seq(Record) /\ c.first \in BOOLEAN
  BY DEF Call
<1>2. s \in Sources
  BY <1>1
<1> HIDE DEF s
<1>3. CASE ~c.first
  BY <1>3 DEF Begun, s
<1>4. CASE c.first
  <2> DEFINE rest == Answered(c, s)  heard == Append(c.heard, rest)
             stores == [st \in Stores |->
                 c.stores[st] + IF st \in content[s].stores \cap Accepted[s]
                                   /\ c.store \in {None, st} THEN 1 ELSE 0]
  <2>1. rest \in Seq(Record)
    <3>1. content[s].records \in Seq(Record)
      BY <1>2, ContentOf
    <3>2. Carrying(content[s].records, c.digest) \in Seq(Record)
      BY <3>1, FitCarrying
    <3> QED BY <3>1, <3>2 DEF Answered
  <2>2. b = [c EXCEPT !.first = FALSE, !.rest = rest, !.heard = heard, !.stores = stores]
    BY <1>4 DEF Begun
  <2> HIDE DEF rest, heard, stores, b
  <2>3. /\ ~b.first /\ b.rest = rest /\ b.heard = heard
        /\ b.store = c.store /\ b.left = c.left /\ b.records = c.records
    BY <2>2 DEF Call
  <2>4. b.heard = Append(c.heard, rest)
    BY <2>3 DEF heard
  <2>5. Composes(b)
    BY <1>4, <2>1, <2>3, <2>4, FirstComposes
  <2> QED BY <2>5 DEF b, s
<1> QED BY <1>1, <1>3, <1>4

\* A page of the source that is being read, its last or one before.
LEMMA PageComposes ==
    ASSUME NEW c \in Call, Composes(c), ~c.first, c.left # <<>>,
           \A i \in DOMAIN c.rest : c.rest[i].of = Head(c.left),
           NEW n \in Nat, n <= Len(c.rest), NEW b, b.store = c.store, b.heard = c.heard,
           b.records = c.records \o Taken(c, Head(c.left), SubSeq(c.rest, 1, n)),
           \/ n = Len(c.rest) /\ b.first /\ b.left = Tail(c.left)
           \/ ~b.first /\ b.left = c.left /\ b.rest = SubSeq(c.rest, n + 1, Len(c.rest))
    PROVE  Composes(b)
<1> DEFINE from == Selected(c.store)
           h == Len(c.heard)
           read == c.heard[h]
           m == Len(read) - Len(c.rest)
<1>1. /\ b.records \in Seq(Record) /\ h \in DOMAIN from /\ m \in Nat
      /\ Len(Tail(c.left)) = Len(from) - h /\ Remains(Tail(c.left), from)
      /\ \A i \in DOMAIN b.records : \E k \in 1..h : b.records[i].of = from[k]
      /\ \A i, j \in DOMAIN b.records : i <= j => b.records[i].of <= b.records[j].of
      /\ \A k \in 1..h - 1 :
            Bare(OfSource(b.records, from[k]))
                = Bare(GivenOf(c, from[k], c.heard[k], Len(c.heard[k])))
      /\ Bare(OfSource(b.records, from[h])) = Bare(GivenOf(c, from[h], read, m + n))
  <2> DEFINE records == c.records \o Taken(c, Head(c.left), SubSeq(c.rest, 1, n))
  <2>1. /\ records \in Seq(Record) /\ h \in DOMAIN from /\ m \in Nat
        /\ Len(Tail(c.left)) = Len(from) - h /\ Remains(Tail(c.left), from)
        /\ \A i \in DOMAIN records : \E k \in 1..h : records[i].of = from[k]
        /\ \A i, j \in DOMAIN records : i <= j => records[i].of <= records[j].of
        /\ \A k \in 1..h - 1 :
              Bare(OfSource(records, from[k]))
                  = Bare(GivenOf(c, from[k], c.heard[k], Len(c.heard[k])))
        /\ Bare(OfSource(records, from[h])) = Bare(GivenOf(c, from[h], read, m + n))
    BY PageGiven
  <2>2. b.records = records
    OBVIOUS
  <2> HIDE DEF records, from, h, read, m
  <2> QED BY <2>1, <2>2
<1>2. /\ c.heard \in Seq(Seq(Record)) /\ h \in Nat /\ c.rest \in Seq(Record)
      /\ from \in Seq(Sources)
  BY SelectedSources DEF Call
<1>3. h > 0 /\ read \in Seq(Record) /\ Len(read) \in Nat /\ Len(c.rest) \in Nat
  BY <1>1, <1>2
<1>4. /\ Len(c.left) = Len(from) - (h - 1) /\ Remains(c.left, from) /\ Remains(c.rest, read)
  BY <1>2, <1>3 DEF Composes, Ended
<1> HIDE DEF from
<1>5. /\ \A k \in 1..h : k = h \/ k \in 1..h - 1
      /\ \A k \in 1..h - 1 : k \in 1..h /\ k # h /\ k <= h - 1 /\ k <= h
      /\ ~(h <= h - 1) /\ h <= h /\ h \in 1..h
  <2>1. h \in Nat /\ h > 0
    BY <1>2, <1>3
  <2> HIDE DEF h
  <2> QED BY <2>1
<1>6. ASSUME NEW e \in 1..h, Taking(b, e) = IF e = h THEN m + n ELSE Len(c.heard[e])
      PROVE  Bare(OfSource(b.records, from[e]))
                 = Bare(GivenOf(b, from[e], b.heard[e], Taking(b, e)))
  <2>1. CASE e = h
    <3> DEFINE upto == m + n
    <3>1. Bare(OfSource(b.records, from[h])) = Bare(GivenOf(c, from[h], read, upto))
      BY <1>1
    <3>2. Taking(b, h) = upto
      BY <1>6, <2>1
    <3> HIDE DEF upto
    <3>3. GivenOf(c, from[h], read, upto) = GivenOf(b, from[h], read, upto)
      BY GivenSame
    <3> HIDE DEF h
    <3> QED BY <2>1, <3>1, <3>2, <3>3
  <2>2. CASE e # h
    <3>1. Bare(OfSource(b.records, from[e]))
              = Bare(GivenOf(c, from[e], c.heard[e], Len(c.heard[e])))
      BY <1>1, <1>5, <2>2
    <3>2. Taking(b, e) = Len(c.heard[e])
      BY <1>6, <2>2
    <3>3. GivenOf(c, from[e], c.heard[e], Taking(b, e))
              = GivenOf(b, from[e], c.heard[e], Taking(b, e))
      BY GivenSame
    <3> QED BY <3>1, <3>2, <3>3
  <2> QED BY <2>1, <2>2
<1>7. CASE n = Len(c.rest) /\ b.first /\ b.left = Tail(c.left)
  <2>1. Ended(b) = h
    BY <1>2, <1>7 DEF Ended
  <2>2. m + n = Len(read)
    BY <1>3, <1>7
  <2>3. ASSUME NEW e \in 1..h
        PROVE  Taking(b, e) = IF e = h THEN m + n ELSE Len(c.heard[e])
    <3>1. e <= Ended(b)
      BY <1>2, <2>1
    <3>2. Taking(b, e) = Len(c.heard[e])
      BY <3>1 DEF Taking
    <3> QED BY <2>2, <3>2
  <2>4. \A e \in 1..h : Bare(OfSource(b.records, from[e]))
                            = Bare(GivenOf(b, from[e], b.heard[e], Taking(b, e)))
    BY <1>6, <2>3
  <2> HIDE DEF h, m, read
  <2>5. Selected(b.store) = from /\ Len(b.heard) = h
    BY DEF from, h
  <2> QED BY <1>1, <1>7, <2>1, <2>4, <2>5 DEF Composes
<1>8. CASE ~b.first /\ b.left = c.left /\ b.rest = SubSeq(c.rest, n + 1, Len(c.rest))
  <2>1. Ended(b) = h - 1
    BY <1>2, <1>8 DEF Ended
  <2>2. Len(b.rest) = Len(c.rest) - n /\ Remains(b.rest, read)
    <3> DEFINE rest == c.rest
    <3>1. rest \in Seq(Record) /\ Remains(rest, read) /\ n <= Len(rest) /\ m = Len(read) - Len(rest)
      BY <1>2, <1>4
    <3> HIDE DEF read, m, rest
    <3>2. /\ Len(SubSeq(rest, n + 1, Len(rest))) = Len(rest) - n
          /\ Remains(SubSeq(rest, n + 1, Len(rest)), read)
      BY <1>3, <3>1, PageLeft
    <3> QED BY <1>8, <3>2 DEF rest
  <2>3. ASSUME NEW e \in 1..h
        PROVE  Taking(b, e) = IF e = h THEN m + n ELSE Len(c.heard[e])
    <3>1. CASE e = h
      <4>1. ~(e <= Ended(b))
        BY <1>2, <2>1, <3>1
      <4>2. Taking(b, e) = Len(read) - Len(b.rest)
        BY <3>1, <4>1 DEF Taking
      <4>3. Len(read) - (Len(c.rest) - n) = m + n
        BY <1>3
      <4> QED BY <2>2, <3>1, <4>2, <4>3
    <3>2. CASE e # h
      <4>1. e <= Ended(b)
        BY <1>2, <2>1, <3>2
      <4> QED BY <3>2, <4>1 DEF Taking
    <3> QED BY <3>1, <3>2
  <2>4. \A e \in 1..h : Bare(OfSource(b.records, from[e]))
                            = Bare(GivenOf(b, from[e], b.heard[e], Taking(b, e)))
    BY <1>6, <2>3
  <2>5. Remains(b.rest, b.heard[h])
    BY <2>2
  <2> HIDE DEF m, read
  <2>6. Selected(b.store) = from /\ Len(b.heard) = h
    BY DEF from, h
  <2> HIDE DEF h
  <2> QED BY <1>1, <1>3, <1>4, <1>8, <2>1, <2>4, <2>5, <2>6 DEF Composes
<1> QED BY <1>7, <1>8

-----------------------------------------------------------------------------
(* What a call keeps when its sources are read.                            *)

\* What a source is to give of what it froze.
Due(c, s, records) ==
    ItemsAt(records, {i \in DOMAIN records : Given(c, s, records[i]) /\ Sought(c, records[i])})

\* To keep what carries a digest and then what is of a source is to keep both.
LEMMA CarryingOf ==
    ASSUME NEW a \in Seq(Record), NEW s, NEW d
    PROVE  OfSource(Carrying(a, d), s) = Carrying(OfSource(a, s), d)
<1> DEFINE P == {r \in Record : r.of = s}  Q == {r \in Record : Carries(r, d)}
           A == {i \in DOMAIN a : Carries(a[i], d)}  B == {i \in DOMAIN a : a[i].of = s}
           t == ItemsAt(a, A)  u == ItemsAt(a, B)
<1>1. \A i \in DOMAIN a : a[i] \in Record
  OBVIOUS
<1>2. A \in SUBSET DOMAIN a /\ B \in SUBSET DOMAIN a
  OBVIOUS
<1>3. {i \in A : a[i] \in P} = {i \in B : a[i] \in Q}
  BY <1>1
<1>4. t = Carrying(a, d) /\ u = OfSource(a, s)
  BY DEF Carrying, OfSource
<1>5. t \in Seq(Record) /\ u \in Seq(Record)
  BY <1>4, FitCarrying, OfRecords
<1> HIDE DEF A, B, t, u
<1>6. KeptOf(t, P) = KeptAt(a, A, P) /\ KeptOf(u, Q) = KeptAt(a, B, Q)
  <2> HIDE DEF P, Q
  <2> QED BY <1>2, ItemsKeptTwice DEF t, u
<1>7. KeptAt(a, A, P) = KeptAt(a, B, Q)
  BY <1>3 DEF KeptAt
<1>8. /\ {k \in DOMAIN t : t[k] \in P} = {k \in DOMAIN t : t[k].of = s}
      /\ {k \in DOMAIN u : u[k] \in Q} = {k \in DOMAIN u : Carries(u[k], d)}
  <2>1. (\A k \in DOMAIN t : t[k] \in Record) /\ (\A k \in DOMAIN u : u[k] \in Record)
    BY <1>5
  <2> QED BY <2>1
<1>9. OfSource(t, s) = KeptOf(t, P) /\ Carrying(u, d) = KeptOf(u, Q)
  BY <1>8 DEF OfSource, Carrying, KeptOf
<1> QED BY <1>4, <1>6, <1>7, <1>9

\* What is due of a source that was read to the end.
LEMMA DueGiven ==
    ASSUME NEW c, NEW s, NEW records \in Seq(Record)
    PROVE  LET given == GivenOf(c, s, records, Len(records)) IN
           Due(c, s, records) = IF c.op = "find" THEN Carrying(given, c.digest) ELSE given
<1> DEFINE at == {i \in 1..Len(records) : Given(c, s, records[i])}
           Q == {r \in Record : Carries(r, c.digest)}
           t == ItemsAt(records, at)
           due == {i \in DOMAIN records : Given(c, s, records[i]) /\ Sought(c, records[i])}
<1>1. Len(records) \in Nat /\ DOMAIN records = 1..Len(records)
      /\ \A i \in DOMAIN records : records[i] \in Record
  OBVIOUS
<1>2. t = GivenOf(c, s, records, Len(records)) /\ Due(c, s, records) = ItemsAt(records, due)
  BY DEF GivenOf, Due
<1>3. CASE c.op # "find"
  <2>1. due = at
    BY <1>1, <1>3 DEF Sought
  <2> HIDE DEF at, due
  <2> QED BY <1>2, <1>3, <2>1
<1>4. CASE c.op = "find"
  <2>1. due = {i \in at : records[i] \in Q}
    BY <1>1, <1>4 DEF Sought
  <2>2. at \in SUBSET DOMAIN records
    BY <1>1
  <2>3. t \in Seq(Record)
    BY <1>1, <1>2, GivenRecords
  <2> HIDE DEF at, due, t
  <2>4. KeptOf(t, Q) = KeptAt(records, at, Q)
    <3> HIDE DEF Q
    <3> QED BY <2>2, ItemsKeptTwice DEF t
  <2>5. {k \in DOMAIN t : t[k] \in Q} = {k \in DOMAIN t : Carries(t[k], c.digest)}
    <3>1. \A k \in DOMAIN t : t[k] \in Record
      BY <2>3
    <3> QED BY <3>1
  <2>6. Carrying(t, c.digest) = ItemsAt(records, due)
    BY <2>1, <2>4, <2>5 DEF Carrying, KeptOf, KeptAt
  <2> QED BY <1>2, <1>4, <2>6
<1> QED BY <1>3, <1>4

\* What carries a digest is in the order of the list it is kept from.
LEMMA CarryingInOrder ==
    ASSUME NEW a \in Seq(Record), NEW d, NEW from, InOrder(a, from)
    PROVE  InOrder(Carrying(a, d), from)
<1> DEFINE A == {i \in DOMAIN a : Carries(a[i], d)}  t == ItemsAt(a, A)
<1>1. A \in SUBSET DOMAIN a
  OBVIOUS
<1>2. t = Carrying(a, d)
  BY DEF Carrying
<1> HIDE DEF A, t
<1>3. \A k, l \in DOMAIN t : k <= l => \E i, j \in A : i <= j /\ t[k] = a[i] /\ t[l] = a[j]
  BY <1>1, KeptInOrder DEF t
<1>4. \A k \in DOMAIN t : \E i \in DOMAIN a : t[k] = a[i]
  BY <1>2, FitCarrying
<1>5. \A i \in DOMAIN a : a[i].of \in Range(from)
  BY DEF InOrder
<1>6. \A i, j \in A : i <= j => a[i].of <= a[j].of
  BY <1>1 DEF InOrder
<1>7. \A k \in DOMAIN t : t[k].of \in Range(from)
  BY <1>4, <1>5
<1>8. \A k, l \in DOMAIN t : k <= l => t[k].of <= t[l].of
  BY <1>3, <1>6
<1> QED BY <1>2, <1>7, <1>8 DEF InOrder

\* What a call composed of its sources, once none is left, is whole.
LEMMA MatchingWhole ==
    ASSUME NEW c \in Call, Composes(c), c.left = <<>>, c.first, NEW b,
           b.op = c.op, b.store = c.store, b.digest = c.digest, b.heard = c.heard,
           b.records = Matching(c)
    PROVE  Whole(b)
<1> DEFINE from == Selected(c.store)  h == Len(c.heard)
           given(k) == GivenOf(c, from[k], c.heard[k], Len(c.heard[k]))
           of(k) == OfSource(c.records, from[k])
<1>1. /\ c.heard \in Seq(Seq(Record)) /\ h \in Nat /\ c.records \in Seq(Record)
      /\ from \in Seq(Sources) /\ Len(from) \in Nat /\ DOMAIN from = 1..Len(from)
  BY SelectedSources DEF Call
<1>2. Ended(c) = h
  BY <1>1 DEF Ended
<1>3. Len(from) = h
  <2>1. Len(c.left) = Len(from) - h
    BY <1>2 DEF Composes
  <2>2. Len(c.left) = 0
    OBVIOUS
  <2> DEFINE n == Len(from)
  <2>3. 0 = n - h /\ n \in Nat /\ h \in Nat
    BY <1>1, <2>1, <2>2
  <2> HIDE DEF n, h
  <2>4. n = h
    BY <2>3
  <2> QED BY <2>4 DEF n
<1>4. ASSUME NEW k \in 1..h
      PROVE  /\ c.heard[k] \in Seq(Record) /\ given(k) \in Seq(Record) /\ of(k) \in Seq(Record)
             /\ Bare(of(k)) = Bare(given(k))
  <2>1. c.heard[k] \in Seq(Record) /\ Len(c.heard[k]) \in Nat
    BY <1>1
  <2>2. Taking(c, k) = Len(c.heard[k])
    <3>1. k <= Ended(c)
      BY <1>1, <1>2
    <3> QED BY <3>1 DEF Taking
  <2>3. Bare(OfSource(c.records, from[k]))
            = Bare(GivenOf(c, from[k], c.heard[k], Taking(c, k)))
    BY DEF Composes
  <2>4. given(k) \in Seq(Record)
    <3> DEFINE read == c.heard[k]  upto == Len(read)
    <3>1. read \in Seq(Record) /\ upto \in Nat /\ upto <= Len(read)
      BY <2>1
    <3> HIDE DEF read, upto, from
    <3>2. GivenOf(c, from[k], read, upto) \in Seq(Record)
      BY <3>1, GivenRecords
    <3> QED BY <3>2 DEF read, upto
  <2>5. of(k) \in Seq(Record)
    BY <1>1, OfRecords
  <2> QED BY <2>1, <2>2, <2>3, <2>4, <2>5
<1>5. InOrder(c.records, from)
  <2>1. \A i \in DOMAIN c.records : \E k \in 1..h : c.records[i].of = from[k]
    BY DEF Composes
  <2>2. \A i, j \in DOMAIN c.records : i <= j => c.records[i].of <= c.records[j].of
    BY DEF Composes
  <2>3. \A k \in 1..h : from[k] \in Range(from)
    BY <1>1, <1>3 DEF Range
  <2> HIDE DEF from, h
  <2> QED BY <2>1, <2>2, <2>3 DEF InOrder
<1>6. InOrder(b.records, from)
  <2>1. InOrder(Carrying(c.records, c.digest), from)
    BY <1>1, <1>5, CarryingInOrder
  <2> HIDE DEF from
  <2> QED BY <1>5, <2>1 DEF Matching
<1>7. ASSUME NEW k \in 1..h
      PROVE  Bare(OfSource(b.records, from[k])) = Bare(Due(b, from[k], c.heard[k]))
  <2> DEFINE s == from[k]  read == c.heard[k]  d == c.digest
  <2>1. /\ read \in Seq(Record) /\ given(k) \in Seq(Record) /\ of(k) \in Seq(Record)
        /\ Bare(of(k)) = Bare(given(k))
    BY <1>4
  <2>2. Due(b, s, read) = Due(c, s, read)
    BY DEF Due, Given, Sought
  <2>3. Due(c, s, read) = IF c.op = "find" THEN Carrying(given(k), d) ELSE given(k)
    <3> HIDE DEF s, read
    <3>1. Due(c, s, read)
              = IF c.op = "find" THEN Carrying(GivenOf(c, s, read, Len(read)), c.digest)
                ELSE GivenOf(c, s, read, Len(read))
      BY <2>1, DueGiven
    <3> QED BY <3>1 DEF s, read
  <2>4. OfSource(b.records, s) = IF c.op = "find" THEN Carrying(of(k), d) ELSE of(k)
    <3>1. OfSource(Carrying(c.records, d), s) = Carrying(of(k), d)
      <4> DEFINE a == c.records
      <4>1. a \in Seq(Record)
        BY <1>1
      <4> HIDE DEF a, s, d
      <4>2. OfSource(Carrying(a, d), s) = Carrying(OfSource(a, s), d)
        BY <4>1, CarryingOf
      <4> QED BY <4>2 DEF a, s
    <3>2. b.records = IF c.op = "find" THEN Carrying(c.records, d) ELSE c.records
      BY DEF Matching
    <3> HIDE DEF d
    <3> QED BY <3>1, <3>2
  <2> DEFINE x == of(k)  y == given(k)
  <2>5. x \in Seq(Record) /\ y \in Seq(Record) /\ Bare(x) = Bare(y)
    BY <2>1
  <2> HIDE DEF of, given, d, x, y
  <2>6. Bare(Carrying(x, d)) = Bare(Carrying(y, d))
    BY <2>5, BareCarrying
  <2> QED BY <2>2, <2>3, <2>4, <2>5, <2>6 DEF x, y
<1>8. /\ Selected(b.store) = from /\ Len(b.heard) = Len(from) /\ b.heard = c.heard
      /\ DOMAIN from = 1..h
  BY <1>1, <1>3
<1> HIDE DEF from, h
<1>9. \A k \in DOMAIN from :
          Bare(OfSource(b.records, from[k])) = Bare(Due(b, from[k], b.heard[k]))
  BY <1>7, <1>8
<1> QED BY <1>6, <1>8, <1>9 DEF Whole, Due

-----------------------------------------------------------------------------
(* What every call composes.                                               *)

\* What a call at a program counter has of its sources.
CallComposes(c, at) ==
    /\ at \in {"sweep", "enter"} => c.heard = <<>> /\ c.records = <<>>
    /\ at \in {"drain", "read"} => Composes(c)
    /\ at = "insert" \/ (at = "page" /\ c.op # "list") => Whole(c)

LEMMA ComposedAt ==
    ASSUME ComposedInv, NEW p \in Callers
    PROVE  CallComposes(call[p], pc[p])
  BY DEF ComposedInv, CallsCompose, ComposedWhole, HasComposed, CallComposes

\* One call moves and the others have what they had.
LEMMA ComposedMoves ==
    ASSUME InventoryInv, ComposedInv, NEW p \in Callers, NEW at, NEW c, CallComposes(c, at),
           pc' = [pc EXCEPT ![p] = at], call' = [call EXCEPT ![p] = c]
    PROVE  ComposedInv'
<1>1. pc \in [Callers -> PCs] /\ call \in [Callers -> Call]
  BY DEF InventoryInv, InventoryTypeOK
<1>2. /\ pc'[p] = at /\ call'[p] = c
      /\ \A q \in Callers \ {p} : pc'[q] = pc[q] /\ call'[q] = call[q]
  BY <1>1
<1>3. \A q \in Callers : CallComposes(call'[q], pc'[q])
  BY <1>2, ComposedAt
<1>4. CallsCompose'
  BY <1>3 DEF CallsCompose, CallComposes
<1>5. ComposedWhole'
  BY <1>3 DEF ComposedWhole, HasComposed, CallComposes
<1> QED BY <1>4, <1>5 DEF ComposedInv

\* A call that is none has nothing.
LEMMA ComposedReturns ==
    ASSUME InventoryInv, ComposedInv, NEW p \in Callers, Return(p)
    PROVE  ComposedInv'
<1>1. pc' = [pc EXCEPT ![p] = "idle"] /\ call' = [call EXCEPT ![p] = Idle]
  BY DEF Return, Goto
<1>2. CallComposes(Idle, "idle")
  BY DEF CallComposes
<1> QED BY <1>1, <1>2, ComposedMoves

\* A call that begins has heard of no source.
LEMMA ComposedBegins ==
    ASSUME InventoryInv, ComposedInv, NEW p \in Callers, NEW at \in {"sweep", "enter"},
           NEW c, c.heard = <<>>, c.records = <<>>, Goto(p, at), call' = [call EXCEPT ![p] = c]
    PROVE  ComposedInv'
<1>1. CallComposes(c, at)
  BY DEF CallComposes
<1>2. pc' = [pc EXCEPT ![p] = at]
  BY DEF Goto
<1> QED BY <1>1, <1>2, ComposedMoves

\* No call, and one that a client begins, have heard of none.
LEMMA HeardNone == Idle.heard = <<>> /\ Idle.records = <<>>
  BY DEF Idle

LEMMA ListBegins ==
    ASSUME NEW p \in Callers, List(p)
    PROVE  \E c : c.heard = <<>> /\ c.records = <<>> /\ Goto(p, "sweep")
                /\ call' = [call EXCEPT ![p] = c]
<1>1. PICK store \in Stores \cup {None}, limit \in 1..MaxInventoryPage :
          call' = [call EXCEPT ![p] =
              [Idle EXCEPT !.op = "list", !.store = store, !.limit = limit]]
  BY DEF List
<1> DEFINE c == [Idle EXCEPT !.op = "list", !.store = store, !.limit = limit]
<1>2. c.heard = <<>> /\ c.records = <<>>
  BY HeardNone DEF Idle
<1> HIDE DEF c
<1>3. Goto(p, "sweep") /\ call' = [call EXCEPT ![p] = c]
  BY <1>1 DEF List, c
<1> QED BY <1>2, <1>3

LEMMA ListNextBegins ==
    ASSUME NEW p \in Callers, ListNext(p)
    PROVE  \E c : c.heard = <<>> /\ c.records = <<>> /\ Goto(p, "sweep")
                /\ call' = [call EXCEPT ![p] = c]
<1>1. PICK q \in Callers, store \in Stores \cup {None}, limit \in 1..MaxInventoryPage :
          call' = [call EXCEPT ![p] =
              [Idle EXCEPT !.op = "list", !.store = store, !.limit = limit,
                           !.token = view[q].token, !.offset = view[q].next]]
  BY DEF ListNext
<1> DEFINE c == [Idle EXCEPT !.op = "list", !.store = store, !.limit = limit,
                             !.token = view[q].token, !.offset = view[q].next]
<1>2. c.heard = <<>> /\ c.records = <<>>
  BY HeardNone DEF Idle
<1> HIDE DEF c
<1>3. Goto(p, "sweep") /\ call' = [call EXCEPT ![p] = c]
  BY <1>1 DEF ListNext, c
<1> QED BY <1>2, <1>3

LEMMA LookupBegins ==
    ASSUME NEW p \in Callers, Lookup(p)
    PROVE  \E c : c.heard = <<>> /\ c.records = <<>> /\ Goto(p, "enter")
                /\ call' = [call EXCEPT ![p] = c]
<1>1. PICK op \in {"find", "holders"}, d \in Digests :
          call' = [call EXCEPT ![p] = [Idle EXCEPT !.op = op, !.digest = d,
                                                  !.limit = MaxInventoryPage]]
  BY DEF Lookup
<1> DEFINE c == [Idle EXCEPT !.op = op, !.digest = d, !.limit = MaxInventoryPage]
<1>2. c.heard = <<>> /\ c.records = <<>>
  BY HeardNone DEF Idle
<1> HIDE DEF c
<1>3. Goto(p, "enter") /\ call' = [call EXCEPT ![p] = c]
  BY <1>1 DEF Lookup, c
<1> QED BY <1>2, <1>3

\* So it is of every call that begins.
LEMMA CallBegins ==
    ASSUME InventoryInv, ComposedInv, NEW p \in Callers, List(p) \/ ListNext(p) \/ Lookup(p)
    PROVE  ComposedInv'
<1>1. PICK at \in {"sweep", "enter"} : \E c : c.heard = <<>> /\ c.records = <<>> /\ Goto(p, at)
                                         /\ call' = [call EXCEPT ![p] = c]
  BY ListBegins, ListNextBegins, LookupBegins
<1> QED BY <1>1, ComposedBegins

\* Sweeping reads no source.
LEMMA SweepComposes ==
    ASSUME InventoryInv, ComposedInv, NEW p \in Callers, Sweep(p)
    PROVE  ComposedInv'
<1> DEFINE c == call[p]
<1>1. c.heard = <<>> /\ c.records = <<>>
  BY ComposedAt DEF Sweep, CallComposes
<1>2. call' = [call EXCEPT ![p] = c]
  BY DEF Sweep, InventoryInv, InventoryTypeOK
<1>3. Goto(p, "enter")
  BY DEF Sweep
<1> HIDE DEF c
<1> QED BY <1>1, <1>2, <1>3, ComposedBegins

\* A call that is to read its sources has read none.
LEMMA ComposeComposes ==
    ASSUME InventoryInv, ComposedInv, NEW p \in Callers, Compose(p)
    PROVE  ComposedInv'
<1>1. CASE Return(p)
  BY <1>1, ComposedReturns
<1>2. CASE ~Return(p)
  <2> DEFINE c == call[p]  at == IF c.op = "list" THEN "drain" ELSE "read"
             d == [c EXCEPT !.left = Selected(c.store)]
  <2>1. c \in Call /\ Knows(p, c, "enter") /\ CallComposes(c, "enter")
    BY AtCall, ComposedAt DEF Compose
  <2>2. Goto(p, at) /\ call' = [call EXCEPT ![p].left = Selected(c.store)]
    BY <1>2 DEF Compose
  <2>3. pc' = [pc EXCEPT ![p] = at] /\ call' = [call EXCEPT ![p] = d]
    BY <2>2 DEF Goto
  <2> HIDE DEF c
  <2>4. c.first /\ c.heard = <<>> /\ c.records = <<>>
    BY <2>1 DEF Knows, CallComposes
  <2>5. /\ d.heard = <<>> /\ d.records = <<>> /\ d.first /\ d.store = c.store
        /\ d.left = Selected(d.store)
    BY <2>1, <2>4 DEF Call
  <2> HIDE DEF d
  <2>6. Composes(d)
    BY <2>5, ComposesNothing
  <2>7. at \in {"drain", "read"}
    OBVIOUS
  <2> HIDE DEF at
  <2>8. CallComposes(d, at)
    BY <2>6, <2>7 DEF CallComposes
  <2> QED BY <2>3, <2>8, ComposedMoves
<1> QED BY <1>1, <1>2

\* A page is of the source that is being read, and what was given before stays.
LEMMA DrainPageComposes ==
    ASSUME InventoryInv, ComposedInv, NEW p \in Callers, DrainPage(p)
    PROVE  ComposedInv'
<1> DEFINE a == call[p]  s == Head(a.left)  c == Begun(a, s)  n == PageSize(c)
           records == c.records \o Taken(c, s, SubSeq(c.rest, 1, n))
           last == [c EXCEPT !.records = records, !.left = Tail(c.left), !.first = TRUE,
                             !.rest = <<>>]
           more == [c EXCEPT !.records = records, !.rest = SubSeq(c.rest, n + 1, Len(c.rest))]
<1>1. /\ a \in Call /\ pc[p] \in {"drain", "read"} /\ Knows(p, a, pc[p]) /\ a.left # <<>>
      /\ Composes(a)
  BY AtCall, ComposedAt DEF DrainPage, Drains, CallComposes
<1>2. CASE Return(p)
  BY <1>2, ComposedReturns
<1>3. CASE /\ UNCHANGED pc
           /\ call' = [call EXCEPT ![p] =
                  IF n = Len(c.rest)
                  THEN [[c EXCEPT !.records = records]
                           EXCEPT !.left = Tail(@), !.first = TRUE, !.rest = <<>>]
                  ELSE [[c EXCEPT !.records = records]
                           EXCEPT !.rest = SubSeq(@, n + 1, Len(@))]]
  <2>1. /\ c \in Call /\ ~c.first /\ c.left = a.left
        /\ \A i \in DOMAIN c.rest : c.rest[i].of = s
    <3>1. ~a.first => \A i \in DOMAIN a.rest : a.rest[i].of = Head(a.left)
      BY <1>1 DEF Knows
    <3> HIDE DEF a
    <3> QED BY <1>1, <3>1, BegunCall
  <2>2. Composes(c)
    <3> HIDE DEF a
    <3> QED BY <1>1, BegunComposes
  <2>3. n \in Nat /\ n <= Len(c.rest)
    <3> HIDE DEF c
    <3> QED BY <2>1, PageWithin
  <2>4. c.left # <<>> /\ s = Head(c.left)
    BY <1>1, <2>1
  <2> HIDE DEF c, n, s, a
  <2>5. /\ [[c EXCEPT !.records = records]
               EXCEPT !.left = Tail(@), !.first = TRUE, !.rest = <<>>] = last
        /\ [[c EXCEPT !.records = records] EXCEPT !.rest = SubSeq(@, n + 1, Len(@))] = more
    <3> HIDE DEF records
    <3> QED BY <2>1 DEF Call
  <2>6. pc' = [pc EXCEPT ![p] = pc[p]]
    BY <1>3 DEF InventoryInv, InventoryTypeOK
  <2>7. records = c.records \o Taken(c, Head(c.left), SubSeq(c.rest, 1, n))
    BY <2>4
  <2> HIDE DEF records
  <2>8. ASSUME NEW b, Composes(b), call' = [call EXCEPT ![p] = b] PROVE ComposedInv'
    <3>1. CallComposes(b, pc[p])
      BY <1>1, <2>8 DEF CallComposes
    <3> QED BY <2>6, <2>8, <3>1, ComposedMoves
  <2>9. CASE n = Len(c.rest)
    <3>1. call' = [call EXCEPT ![p] = last]
      BY <1>3, <2>5, <2>9
    <3>2. /\ last.store = c.store /\ last.heard = c.heard /\ last.records = records
          /\ last.first /\ last.left = Tail(c.left)
      BY <2>1 DEF Call
    <3> HIDE DEF last
    <3>3. Composes(last)
      BY <2>1, <2>2, <2>3, <2>4, <2>7, <2>9, <3>2, PageComposes
    <3> QED BY <2>8, <3>1, <3>3
  <2>10. CASE n # Len(c.rest)
    <3>1. call' = [call EXCEPT ![p] = more]
      BY <1>3, <2>5, <2>10
    <3>2. /\ more.store = c.store /\ more.heard = c.heard /\ more.records = records
          /\ ~more.first /\ more.left = c.left
          /\ more.rest = SubSeq(c.rest, n + 1, Len(c.rest))
      BY <2>1 DEF Call
    <3> HIDE DEF more
    <3>3. Composes(more)
      BY <2>1, <2>2, <2>3, <2>4, <2>7, <3>2, PageComposes
    <3> QED BY <2>8, <3>1, <3>3
  <2> QED BY <2>9, <2>10
<1> QED BY <1>2, <1>3 DEF DrainPage

\* A composition goes on when no source is left.
LEMMA DrainedComposes ==
    ASSUME InventoryInv, ComposedInv, NEW p \in Callers, Drained(p)
    PROVE  ComposedInv'
<1> DEFINE c == call[p]  at == IF pc[p] = "drain" THEN "insert" ELSE "page"
           d == [c EXCEPT !.records = Matching(c)]
<1>1. /\ c \in Call /\ pc[p] \in {"drain", "read"} /\ Knows(p, c, pc[p]) /\ Composes(c)
      /\ c.left = <<>>
  BY AtCall, ComposedAt DEF Drained, Drains, CallComposes
<1>2. CASE Return(p)
  BY <1>2, ComposedReturns
<1>3. CASE Goto(p, at) /\ call' = [call EXCEPT ![p].records = Matching(c)]
  <2>1. pc' = [pc EXCEPT ![p] = at] /\ call' = [call EXCEPT ![p] = d]
    BY <1>3 DEF Goto
  <2>2. at \in {"insert", "page"}
    OBVIOUS
  <2> HIDE DEF c, at
  <2>3. c.first
    BY <1>1 DEF Knows, Call
  <2>4. /\ d.op = c.op /\ d.store = c.store /\ d.digest = c.digest /\ d.heard = c.heard
        /\ d.records = Matching(c)
    BY <1>1 DEF Call
  <2> HIDE DEF d
  <2>5. Whole(d)
    BY <1>1, <2>3, <2>4, MatchingWhole
  <2>6. CallComposes(d, at)
    BY <2>2, <2>5 DEF CallComposes
  <2> QED BY <2>1, <2>6, ComposedMoves
<1> QED BY <1>2, <1>3 DEF Drained

\* A call that serves a page of a listing, or has its page, composes nothing.
LEMMA ServedComposes ==
    ASSUME InventoryInv, ComposedInv, NEW p \in Callers, Freeze(p) \/ Continue(p) \/ Fill(p)
    PROVE  ComposedInv'
<1>1. ASSUME NEW at, NEW d, CallComposes(d, at), Goto(p, at), call' = [call EXCEPT ![p] = d]
      PROVE  ComposedInv'
  <2>1. pc' = [pc EXCEPT ![p] = at]
    BY <1>1 DEF Goto
  <2> QED BY <1>1, <2>1, ComposedMoves
<1>2. CASE Return(p)
  BY <1>2, ComposedReturns
<1>3. CASE Freeze(p) /\ ~Return(p)
  <2> DEFINE c == call[p]
  <2>1. c \in Call /\ c.op = "list"
    BY <1>3, AtCall DEF Freeze, Knows
  <2>2. PICK t \in Tokens : Goto(p, "page") /\ call' = [call EXCEPT ![p].token = t]
    BY <1>3 DEF Freeze
  <2> DEFINE d == [c EXCEPT !.token = t]
  <2>3. call' = [call EXCEPT ![p] = d]
    BY <2>2
  <2> HIDE DEF c
  <2>4. d.op = "list"
    BY <2>1 DEF Call
  <2> HIDE DEF d
  <2>5. CallComposes(d, "page")
    BY <2>4 DEF CallComposes
  <2> QED BY <1>1, <2>2, <2>3, <2>5
<1>4. CASE Continue(p) /\ ~Return(p)
  <2> DEFINE c == call[p]  s == snapshots[c.token]
             d == [c EXCEPT !.stores = s.stores, !.records = s.records]
  <2>1. c \in Call /\ c.op = "list"
    BY <1>4, AtCall DEF Continue, Knows
  <2>2. Goto(p, "page") /\ call' = [call EXCEPT ![p].stores = s.stores, ![p].records = s.records]
    BY <1>4 DEF Continue
  <2>3. call' = [call EXCEPT ![p] = d]
    BY <2>2 DEF InventoryInv, InventoryTypeOK
  <2> HIDE DEF c, s
  <2>4. d.op = "list"
    BY <2>1 DEF Call
  <2> HIDE DEF d
  <2>5. CallComposes(d, "page")
    BY <2>4 DEF CallComposes
  <2> QED BY <1>1, <2>2, <2>3, <2>5
<1>5. CASE Fill(p)
  <2> DEFINE at == IF call[p].op = "list" THEN "gate" ELSE "reply"
  <2>1. PICK d : call' = [call EXCEPT ![p] = d]
    BY <1>5 DEF Fill
  <2>2. Goto(p, at)
    BY <1>5 DEF Fill
  <2>3. at \in {"gate", "reply"}
    OBVIOUS
  <2> HIDE DEF at
  <2>4. CallComposes(d, at)
    BY <2>3 DEF CallComposes
  <2> QED BY <1>1, <2>1, <2>2, <2>4
<1> QED BY <1>2, <1>3, <1>4, <1>5

\* Every step keeps what the calls compose.
LEMMA ComposedStep ==
    ASSUME InventoryInv, ComposedInv, [Next]_vars
    PROVE  ComposedInv'
<1>1. ASSUME NEW p \in Callers,
             \/ DrainFails(p) \/ FillFails(p) \/ Listed(p) \/ ListedNot(p) \/ LookedUp(p)
      PROVE  ComposedInv'
  <2>1. Return(p)
    BY <1>1 DEF DrainFails, Unanswered, FillFails, Listed, ListedNot, LookedUp
  <2> QED BY <2>1, ComposedReturns
<1>2. ASSUME NEW p \in Callers,
             \/ List(p) \/ ListNext(p) \/ Lookup(p) \/ Sweep(p) \/ Compose(p) \/ DrainPage(p)
             \/ Drained(p) \/ Freeze(p) \/ Continue(p) \/ Fill(p)
      PROVE  ComposedInv'
  BY <1>2, CallBegins, SweepComposes, ComposeComposes, DrainPageComposes, DrainedComposes,
     ServedComposes
<1>3. CASE TickerSweeps \/ Close \/ SourceChanges \/ Tick \/ UNCHANGED vars
  <2>1. UNCHANGED <<pc, call>>
    BY <1>3 DEF TickerSweeps, Close, SourceChanges, Tick, vars
  <2> QED BY <2>1 DEF ComposedInv, CallsCompose, ComposedWhole, HasComposed
<1> QED BY <1>1, <1>2, <1>3 DEF Next

\* While a call reads its sources it has of each what was given of it so far, and what
\* it composed of them is whole (inventory.go:194-291, :513-551, :598-617).
THEOREM ComposedInvHolds == Spec => []ComposedInv
<1>1. Init => ComposedInv
  <2> SUFFICES ASSUME Init PROVE ComposedInv
    OBVIOUS
  <2>1. \A p \in Callers : pc[p] = "idle"
    BY DEF Init
  <2> QED BY <2>1 DEF ComposedInv, CallsCompose, ComposedWhole, HasComposed
<1>2. InventoryInv /\ ComposedInv /\ [Next]_vars => ComposedInv'
  BY ComposedStep
<1> QED BY <1>1, <1>2, InventoryInvHolds, PTL DEF Spec

\* What a call composed is every record that the sources it asked for reported of the
\* stores they were given, in order and nothing twice, however their pages were cut,
\* whatever changed and failed in between (inventory.go:194-291, :513-551, :598-617).
THEOREM ComposedWholeHolds == Spec => []ComposedWhole
<1>1. ComposedInv => ComposedWhole
  BY DEF ComposedInv
<1> QED BY <1>1, ComposedInvHolds, PTL

=============================================================================
