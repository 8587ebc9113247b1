--------------------------- MODULE ChangesProofs ---------------------------
(***************************************************************************)
(* Proofs about the change journal and its clients, for any number of      *)
(* objects, writers, clients and tokens and any limits.                    *)
(*                                                                         *)
(* The inductive invariant ChangesInv ties everything to the one history   *)
(* of known objects of a lifetime: the log leads from each state to the    *)
(* next, the ring is the log's tail, a snapshot froze the state its cursor *)
(* names, and so does every client's view.  The step that carries it is    *)
(* Replays: the changes a client may read between two sequences, applied   *)
(* at once, take what it may read of the one state to what it may read of  *)
(* the other, by induction over the sequence numbers between (Climbs).     *)
(* From it follow the invariants the runs check and, at the end, that the  *)
(* journal implements ChangeFeed, one lemma for each kind of step.         *)
(***************************************************************************)
EXTENDS Changes, NaturalFacts, FiniteSetTheorems, SequenceTheorems

\* Sorted lists a finite set: every element at one place.
LEMMA SortedLists ==
    ASSUME NEW S \in SUBSET Nat, IsFiniteSet(S)
    PROVE  /\ Cardinality(S) \in Nat
           /\ Sorted(S) \in Seq(S) /\ Len(Sorted(S)) = Cardinality(S)
           /\ \A d \in S : \E i \in 1 .. Cardinality(S) : Sorted(S)[i] = d
           /\ \A i, j \in 1 .. Cardinality(S) : Sorted(S)[i] = Sorted(S)[j] => i = j
<1> DEFINE n == Cardinality(S)
           Below(d) == {e \in S : e < d}
           rank == [d \in S |-> Cardinality(Below(d)) + 1]
<1>1. n \in Nat
  BY FS_CardinalityType
<1>2. ASSUME NEW d \in S
      PROVE  Cardinality(Below(d)) \in Nat /\ Cardinality(Below(d)) < n /\ IsFiniteSet(Below(d))
  <2>1. Below(d) \in SUBSET S /\ d \in S \ Below(d)
    OBVIOUS
  <2> QED BY <1>1, <2>1, FS_Subset, FS_CardinalityType
<1>3. ASSUME NEW d \in S, NEW e \in S, d < e
      PROVE  Cardinality(Below(d)) < Cardinality(Below(e))
  <2>1. \A x \in Below(d) : x \in Below(e)
    BY <1>3
  <2>2. d \in Below(e) /\ d \notin Below(d)
    BY <1>3
  <2>3. Below(d) \in SUBSET Below(e) /\ Below(d) # Below(e)
    BY <2>1, <2>2
  <2> QED BY <1>2, <2>3, FS_Subset
<1>4. rank \in Injection(S, 1 .. n)
  <2>1. rank \in [S -> 1 .. n]
    BY <1>1, <1>2
  <2>2. ASSUME NEW d \in S, NEW e \in S, rank[d] = rank[e]
        PROVE  d = e
    <3>1. ~(d < e) /\ ~(e < d)
      BY <1>2, <1>3, <2>2
    <3> QED BY <3>1
  <2> QED BY <2>1, <2>2 DEF Injection, IsInjective
<1>5. rank \in Surjection(S, 1 .. n)
  <2>1. IsFiniteSet(1 .. n) /\ Cardinality(1 .. n) = n
    BY <1>1, FS_Interval
  <2> QED BY <1>4, <2>1, FS_Injection
<1>6. ASSUME NEW i \in 1 .. n
      PROVE  /\ Sorted(S)[i] \in S
             /\ Cardinality(Below(Sorted(S)[i])) = i - 1
  <2>1. PICK d \in S : rank[d] = i
    BY <1>5 DEF Surjection
  <2>2. Cardinality(Below(d)) = i - 1
    BY <1>2, <2>1
  <2> QED BY <2>2 DEF Sorted
<1>7. Sorted(S) \in [1 .. n -> S]
  BY <1>6 DEF Sorted
<1>8. Sorted(S) \in Seq(S) /\ Len(Sorted(S)) = n
  BY <1>1, <1>7
<1>9. ASSUME NEW d \in S
      PROVE  \E i \in 1 .. n : Sorted(S)[i] = d
  <2> DEFINE i == rank[d]
  <2>1. i \in 1 .. n
    BY <1>4 DEF Injection
  <2>2. rank[Sorted(S)[i]] = i /\ Sorted(S)[i] \in S
    BY <1>6, <2>1
  <2> QED BY <1>4, <2>1, <2>2 DEF Injection, IsInjective
<1>10. ASSUME NEW i \in 1 .. n, NEW j \in 1 .. n, Sorted(S)[i] = Sorted(S)[j]
       PROVE  i = j
  <2>1. Below(Sorted(S)[i]) = Below(Sorted(S)[j])
    BY <1>10
  <2> HIDE DEF Below
  <2>2. i - 1 = j - 1
    BY <1>6, <2>1
  <2> QED BY <2>2
<1> QED BY <1>1, <1>8, <1>9, <1>10

\* Where the elements of two sequences are in their concatenation.
Joined(st, s, t) ==
    /\ Len(s) \in Nat /\ Len(t) \in Nat /\ Len(st) = Len(s) + Len(t)
    /\ \A i \in 1 .. Len(s) : st[i] = s[i]
    /\ \A i \in 1 .. Len(t) : st[Len(s) + i] = t[i]

LEMMA Concat ==
    ASSUME NEW S, NEW s \in Seq(S), NEW t \in Seq(S)
    PROVE  s \o t \in Seq(S) /\ Joined(s \o t, s, t)
<1>1. Len(s) \in Nat /\ Len(t) \in Nat
  BY LenProperties
<1>2. /\ s \o t \in Seq(S) /\ Len(s \o t) = Len(s) + Len(t)
      /\ \A i \in 1 .. Len(s) + Len(t) :
            (s \o t)[i] = IF i <= Len(s) THEN s[i] ELSE t[i - Len(s)]
  BY ConcatProperties
<1> DEFINE st == s \o t
<1> HIDE DEF st
<1>3. ASSUME NEW i \in 1 .. Len(s)
      PROVE  st[i] = s[i]
  BY <1>1, <1>2 DEF st
<1>4. ASSUME NEW i \in 1 .. Len(t)
      PROVE  st[Len(s) + i] = t[i]
  <2> DEFINE k == Len(s) + i
  <2>1. k \in 1 .. Len(s) + Len(t) /\ ~(k <= Len(s)) /\ k - Len(s) = i
    BY <1>1
  <2> HIDE DEF k
  <2>2. st[k] = t[k - Len(s)]
    BY <1>2, <2>1 DEF st
  <2> QED BY <2>1, <2>2 DEF k
<1> QED BY <1>1, <1>2, <1>3, <1>4 DEF st, Joined

\* A page of one change.
LEMMA AppliedOne ==
    ASSUME NEW objects \in SUBSET Digests, NEW ch \in Change
    PROVE  Applied(objects, {ch}) = IF ch.kind = "added" THEN objects \cup {ch.digest}
                                    ELSE objects \ {ch.digest}
<1> DEFINE latest == {x \in {ch} : \A other \in {ch} :
                        other.digest = x.digest => other.sequence <= x.sequence}
<1>1. ch.sequence \in Nat /\ ch.kind \in Kinds
  BY DEF Change
<1>2. latest = {ch}
  BY <1>1
<1> HIDE DEF latest
<1>3. {y.digest : y \in {x \in latest : x.kind = "added"}}
        = IF ch.kind = "added" THEN {ch.digest} ELSE {}
  BY <1>2
<1>4. Applied(objects, {ch})
        = {d \in objects : ch.digest # d}
            \cup {y.digest : y \in {x \in latest : x.kind = "added"}}
  BY DEF Applied, latest
<1> QED BY <1>3, <1>4

\* What Journal appends: digests of removed and then of added, each once.
InOrder(digests, removed, added) ==
    /\ digests \in Seq(Digests) /\ Len(digests) \in Nat /\ Cardinality(removed) \in Nat
    /\ \A i \in 1 .. Len(digests) : /\ i <= Cardinality(removed) => digests[i] \in removed
                                    /\ i > Cardinality(removed) => digests[i] \in added
    /\ \A i, j \in 1 .. Len(digests) : digests[i] = digests[j] => i = j
    /\ {digests[i] : i \in 1 .. Len(digests)} = removed \cup added

LEMMA OrderedInOrder ==
    ASSUME NEW removed \in SUBSET Digests, NEW added \in SUBSET Digests,
           removed \cap added = {}
    PROVE  InOrder(Ordered(removed, added), removed, added)
<1> DEFINE r == Sorted(removed)
           a == Sorted(added)
           digests == Ordered(removed, added)
           n == Len(digests)
<1>0. digests = r \o a
  BY DEF Ordered
<1> HIDE DEF digests
<1>1. /\ removed \in SUBSET Nat /\ added \in SUBSET Nat
      /\ IsFiniteSet(removed) /\ IsFiniteSet(added)
  BY ChangesAssumption, FS_Subset
<1>2. /\ Cardinality(removed) \in Nat /\ Cardinality(added) \in Nat
      /\ r \in Seq(removed) /\ Len(r) = Cardinality(removed)
      /\ a \in Seq(added) /\ Len(a) = Cardinality(added)
  BY <1>1, SortedLists
<1>3. /\ \A d \in removed : \E i \in 1 .. Len(r) : r[i] = d
      /\ \A d \in added : \E i \in 1 .. Len(a) : a[i] = d
      /\ \A i, j \in 1 .. Len(r) : r[i] = r[j] => i = j
      /\ \A i, j \in 1 .. Len(a) : a[i] = a[j] => i = j
  BY <1>1, <1>2, SortedLists
<1> HIDE DEF r, a
<1>3a. /\ Len(r) \in Nat /\ Len(a) \in Nat
       /\ \A i \in 1 .. Len(r) : r[i] \in removed
       /\ \A i \in 1 .. Len(a) : a[i] \in added
  BY <1>2, ElementOfSeq
<1>4. r \in Seq(Digests) /\ a \in Seq(Digests)
  BY <1>2, SeqMonotonic
<1>5. /\ digests \in Seq(Digests) /\ n = Len(r) + Len(a)
      /\ \A i \in 1 .. n : digests[i] = IF i <= Len(r) THEN r[i] ELSE a[i - Len(r)]
  BY <1>0, <1>4, ConcatProperties
<1>5a. n \in Nat
  BY <1>3a, <1>5
<1>6. ASSUME NEW i \in 1 .. n
      PROVE  /\ i <= Len(r) => digests[i] = r[i] /\ digests[i] \in removed
             /\ i > Len(r) => /\ i - Len(r) \in 1 .. Len(a)
                              /\ digests[i] = a[i - Len(r)] /\ digests[i] \in added
  BY <1>3a, <1>5, <1>5a
<1>7. ASSUME NEW i \in 1 .. n, NEW j \in 1 .. n, digests[i] = digests[j]
      PROVE  i = j
  <2>1. (i <= Len(r)) <=> (j <= Len(r))
    BY <1>2, <1>6, <1>7
  <2>2. CASE i <= Len(r)
    BY <1>3, <1>3a, <1>6, <1>7, <2>1, <2>2
  <2>3. CASE i > Len(r)
    <3>1. i - Len(r) = j - Len(r)
      <4>1. j > Len(r) /\ i \in Nat /\ j \in Nat
        BY <1>3a, <1>5a, <2>1, <2>3
      <4>2. a[i - Len(r)] = a[j - Len(r)]
        BY <1>6, <1>7, <2>3, <4>1
      <4> QED BY <1>3, <1>6, <2>3, <4>1, <4>2
    <3> QED BY <1>3a, <1>5a, <3>1
  <2> QED BY <1>2, <2>2, <2>3
<1>8. \A d \in removed \cup added : \E i \in 1 .. n : digests[i] = d
  <2>1. ASSUME NEW d \in removed
        PROVE  \E i \in 1 .. n : digests[i] = d
    <3>1. PICK i \in 1 .. Len(r) : r[i] = d
      BY <1>3
    <3> QED BY <1>3a, <1>5, <3>1
  <2>2. ASSUME NEW d \in added
        PROVE  \E i \in 1 .. n : digests[i] = d
    <3>1. PICK i \in 1 .. Len(a) : a[i] = d
      BY <1>3
    <3> DEFINE k == i + Len(r)
    <3>2. k \in 1 .. n /\ ~(k <= Len(r)) /\ k - Len(r) = i
      BY <1>3a, <1>5, <1>5a
    <3> HIDE DEF k
    <3>3. digests[k] = a[k - Len(r)]
      BY <1>5, <3>2
    <3> QED BY <3>1, <3>2, <3>3
  <2> QED BY <2>1, <2>2
<1>9. {digests[i] : i \in 1 .. n} = removed \cup added
  <2>1. \A i \in 1 .. n : digests[i] \in removed \cup added
    BY <1>3a, <1>5a, <1>6
  <2> QED BY <1>8, <2>1
<1>10. \A i \in 1 .. n : /\ i <= Cardinality(removed) => digests[i] \in removed
                         /\ i > Cardinality(removed) => digests[i] \in added
  BY <1>2, <1>6
<1>11. InOrder(digests, removed, added)
  BY <1>2, <1>5, <1>5a, <1>7, <1>9, <1>10 DEF InOrder
<1> QED BY <1>11 DEF digests

\* What the journal holds is of its types.
JournalTypes ==
    /\ known \in SUBSET Digests /\ last \in Nat /\ ring \in Seq(Change) /\ notify \in Nat
    /\ log \in Seq(Change) /\ history \in Seq(SUBSET Digests) /\ seen \in SUBSET Digests

\* The journal only grows, and wakes who waits when it does.
JournalGrows ==
    /\ last <= last' /\ notify <= notify'
    /\ last' = last => notify' = notify /\ history' = history
    /\ last' > last => notify' > notify
    /\ \A i \in 1 .. last : log'[i] = log[i]
    /\ \A i \in 1 .. last + 1 : history'[i] = history[i]

\* One call of the code's loops over appendLocked keeps the journal exact.
LEMMA JournalKeeps ==
    ASSUME JournalTypes, store \in SUBSET Digests, JournalExact,
           NEW removed \in SUBSET Digests, NEW added \in SUBSET Digests,
           removed \subseteq known, added \cap known = {}, Journal(removed, added)
    PROVE  JournalTypes' /\ JournalExact' /\ JournalGrows
<1> DEFINE digests == Ordered(removed, added)
           n == Len(digests)
           r == Cardinality(removed)
           change(i) == [sequence |-> last + i, digest |-> digests[i],
                         kind |-> IF i <= r THEN "removed" ELSE "added"]
           changes == [i \in 1 .. n |-> change(i)]
           done(i) == {digests[k] : k \in 1 .. i}
           state(i) == (known \ done(i)) \cup (added \cap done(i))
           states == [i \in 1 .. n |-> state(i)]
<1>1. /\ known' = (known \ removed) \cup added
      /\ last' = last + Len(changes)
      /\ ring' = Trimmed(ring \o changes)
      /\ log' = log \o changes
      /\ history' = history \o states
      /\ notify' = notify + Len(changes)
      /\ seen' = (seen \ removed) \cup (added \cap store)
  BY DEF Journal, Woken
<1>2. /\ digests \in Seq(Digests) /\ n \in Nat /\ r \in Nat
      /\ \A i \in 1 .. n : /\ i <= r => digests[i] \in removed
                           /\ i > r => digests[i] \in added
      /\ \A i, j \in 1 .. n : digests[i] = digests[j] => i = j
      /\ {digests[i] : i \in 1 .. n} = removed \cup added
  <2>1. removed \cap added = {}
    OBVIOUS
  <2>2. InOrder(digests, removed, added)
    BY <2>1, OrderedInOrder
  <2> HIDE DEF digests
  <2> QED BY <2>2 DEF InOrder
<1> HIDE DEF digests, n, r
<1>3. ASSUME NEW i \in 1 .. n
      PROVE  change(i) \in Change /\ digests[i] \in Digests
  BY <1>2 DEF Change, Kinds, JournalTypes
<1>4. changes \in Seq(Change) /\ Len(changes) = n /\ \A i \in 1 .. n : changes[i] = change(i)
  BY <1>2, <1>3
<1>5. ASSUME NEW i \in 0 .. n
      PROVE  state(i) \in SUBSET Digests
  BY DEF JournalTypes
<1>6. states \in Seq(SUBSET Digests) /\ Len(states) = n /\ \A i \in 1 .. n : states[i] = state(i)
  BY <1>2, <1>5
<1> HIDE DEF change, changes, state, states
<1>7. /\ log' \in Seq(Change) /\ Len(log') = last + n /\ last' = last + n
      /\ \A i \in 1 .. last : log'[i] = log[i]
      /\ \A i \in 1 .. n : log'[last + i] = change(i)
  <2>1. log \in Seq(Change) /\ last = Len(log)
    BY DEF JournalTypes, JournalExact
  <2>2. log' \in Seq(Change) /\ Joined(log', log, changes)
    BY <1>1, <1>4, <2>1, Concat
  <2> QED BY <1>1, <1>4, <2>1, <2>2 DEF Joined
<1>8. /\ history' \in Seq(SUBSET Digests) /\ Len(history') = (last + 1) + n
      /\ \A i \in 1 .. last + 1 : history'[i] = history[i]
      /\ \A i \in 1 .. n : history'[(last + 1) + i] = state(i)
  <2>1. history \in Seq(SUBSET Digests) /\ Len(history) = last + 1
    BY DEF JournalTypes, JournalExact
  <2>2. history' \in Seq(SUBSET Digests) /\ Joined(history', history, states)
    BY <1>1, <1>6, <2>1, Concat
  <2> QED BY <1>6, <2>1, <2>2 DEF Joined
<1>8a. last \in Nat /\ last' \in Nat
  BY <1>2, <1>7 DEF JournalTypes
<1>9. state(0) = known /\ state(n) = known'
  BY <1>1, <1>2 DEF state
<1>10. ASSUME NEW i \in 0 .. n
       PROVE  history'[(last + 1) + i] = state(i)
  <2>1. CASE i = 0
    <3>1. last + 1 \in 1 .. last + 1 /\ (last + 1) + 0 = last + 1
      BY <1>8a
    <3>2. history'[last + 1] = history[last + 1]
      BY <1>8, <3>1
    <3>3. history[last + 1] = known
      BY DEF JournalExact
    <3> QED BY <1>9, <2>1, <3>1, <3>2, <3>3
  <2>2. CASE i \in 1 .. n
    BY <1>8, <2>2
  <2> QED BY <1>2, <2>1, <2>2
<1>11. ASSUME NEW i \in 1 .. n
       PROVE  /\ change(i).kind = "added" <=> change(i).digest \notin state(i - 1)
              /\ state(i) = Applied(state(i - 1), {change(i)})
  <2>1. done(i) = done(i - 1) \cup {digests[i]} /\ digests[i] \notin done(i - 1)
    BY <1>2
  <2> HIDE DEF done
  <2>2. change(i) \in Change /\ change(i).digest = digests[i]
        /\ change(i).kind = IF i <= r THEN "removed" ELSE "added"
    BY <1>3 DEF change
  <2>3. state(i - 1) \in SUBSET Digests
    BY <1>2, <1>5
  <2>4. CASE i <= r
    <3>1. digests[i] \in removed /\ digests[i] \in known /\ digests[i] \notin added
      BY <1>2, <2>4
    <3>2. digests[i] \in state(i - 1) /\ state(i) = state(i - 1) \ {digests[i]}
      BY <2>1, <3>1 DEF state
    <3> QED BY <2>2, <2>3, <2>4, <3>2, AppliedOne
  <2>5. CASE i > r
    <3>1. digests[i] \in added /\ digests[i] \notin known
      BY <1>2, <2>5
    <3>2. digests[i] \notin state(i - 1) /\ state(i) = state(i - 1) \cup {digests[i]}
      BY <2>1, <3>1 DEF state
    <3>3. change(i).kind = "added"
      BY <1>2, <2>2, <2>5
    <3> QED BY <2>2, <2>3, <3>2, <3>3, AppliedOne
  <2> QED BY <1>2, <2>4, <2>5
<1>12. ASSUME NEW i \in 1 .. last'
       PROVE  /\ log'[i].sequence = i
              /\ log'[i].kind = "added" <=> log'[i].digest \notin history'[i]
              /\ history'[i + 1] = Applied(history'[i], {log'[i]})
  <2>1. CASE i <= last
    <3>1. i \in 1 .. last /\ i \in 1 .. last + 1 /\ i + 1 \in 1 .. last + 1
      BY <1>8a, <2>1
    <3>2. log'[i] = log[i] /\ history'[i] = history[i] /\ history'[i + 1] = history[i + 1]
      BY <1>7, <1>8, <3>1
    <3> QED BY <3>1, <3>2 DEF JournalExact
  <2>2. CASE i > last
    <3> DEFINE k == i - last
    <3>1. k \in 1 .. n /\ k - 1 \in 0 .. n /\ k \in 0 .. n /\ last + k = i
          /\ (last + 1) + k = i + 1 /\ (last + 1) + (k - 1) = i
      BY <1>2, <1>7, <1>8a, <2>2
    <3> HIDE DEF k
    <3>2. log'[i] = change(k) /\ history'[i + 1] = state(k) /\ history'[i] = state(k - 1)
      BY <1>7, <1>10, <3>1
    <3>3. change(k).sequence = i
      BY <3>1 DEF change
    <3> QED BY <1>11, <3>1, <3>2, <3>3
  <2> QED BY <1>2, <1>7, <2>1, <2>2 DEF JournalTypes
<1> DEFINE all == ring \o changes
<1>13. /\ all \in Seq(Change) /\ Len(ring) \in Nat /\ Len(all) = Len(ring) + n
       /\ Len(ring) <= last
       /\ \A i \in 1 .. Len(all) : all[i] = log'[(last' - Len(all)) + i]
  <2>1. /\ all \in Seq(Change) /\ Len(ring) \in Nat /\ Len(all) = Len(ring) + n
        /\ \A i \in 1 .. Len(ring) : all[i] = ring[i]
        /\ \A i \in 1 .. n : all[Len(ring) + i] = changes[i]
    <3>1. ring \in Seq(Change)
      BY DEF JournalTypes
    <3>2. all \in Seq(Change) /\ Joined(all, ring, changes)
      BY <1>4, <3>1, Concat
    <3> HIDE DEF all
    <3> QED BY <1>4, <3>2 DEF Joined
  <2> HIDE DEF all
  <2>2. Len(ring) <= last
    BY <2>1, ChangesAssumption DEF JournalExact, JournalTypes
  <2>3. ASSUME NEW i \in 1 .. Len(all)
        PROVE  all[i] = log'[(last' - Len(all)) + i]
    <3>1. (last' - Len(all)) + i = (last - Len(ring)) + i
      BY <1>2, <1>7, <2>1 DEF JournalTypes
    <3>2. CASE i <= Len(ring)
      <4>1. (last - Len(ring)) + i \in 1 .. last
        BY <1>2, <2>1, <2>2, <3>2 DEF JournalTypes
      <4>2. ring[i] = log[(last - Len(ring)) + i]
        BY <1>2, <2>1, <3>2 DEF JournalExact
      <4> QED BY <1>7, <2>1, <3>1, <3>2, <4>1, <4>2
    <3>3. CASE i > Len(ring)
      <4> DEFINE k == i - Len(ring)
      <4>1. k \in 1 .. n /\ (last - Len(ring)) + i = last + k /\ Len(ring) + k = i
        BY <1>2, <1>8a, <2>1, <3>3
      <4> HIDE DEF k
      <4>2. all[i] = changes[k]
        BY <2>1, <4>1
      <4>3. changes[k] = change(k) /\ log'[last + k] = change(k)
        BY <1>4, <1>7, <4>1
      <4> QED BY <3>1, <4>1, <4>2, <4>3
    <3> QED BY <1>2, <2>1, <3>2, <3>3
  <2> QED BY <2>1, <2>2, <2>3
<1> HIDE DEF all
<1>14. /\ ring' \in Seq(Change)
       /\ Len(ring') = IF last' < Capacity THEN last' ELSE Capacity
       /\ \A i \in 1 .. Len(ring') : ring'[i] = log'[last' - Len(ring') + i]
  <2>0. /\ Capacity \in Nat \ {0} /\ last \in Nat /\ last' = last + n /\ n \in Nat
        /\ Len(ring) = IF last < Capacity THEN last ELSE Capacity
    BY <1>2, <1>7, ChangesAssumption DEF JournalExact, JournalTypes
  <2>1. CASE Len(all) > Capacity
    <3> DEFINE from == Len(all) - Capacity + 1
    <3>1. /\ from \in Int /\ Len(all) \in Int /\ from >= 1 /\ from <= Len(all)
          /\ Len(all) - from + 1 = Capacity /\ ~(last' < Capacity)
      BY <1>13, <2>0, <2>1
    <3>2. \A i \in from .. Len(all) : all[i] \in Change
      BY <1>13, <3>1, ElementOfSeq
    <3>3. ring' = SubSeq(all, from, Len(all))
      BY <1>1, <2>1 DEF Trimmed, all
    <3> HIDE DEF from
    <3>4. /\ ring' \in Seq(Change) /\ Len(ring') = Capacity
          /\ \A i \in 1 .. Capacity : ring'[i] = all[from + i - 1]
      BY <3>1, <3>2, <3>3, SubSeqProperties
    <3>5. ASSUME NEW i \in 1 .. Capacity
          PROVE  ring'[i] = log'[last' - Len(ring') + i]
      <4>1. from + i - 1 \in 1 .. Len(all)
        BY <2>0, <3>1
      <4>2. (last' - Len(all)) + (from + i - 1) = last' - Len(ring') + i
        BY <1>13, <2>0, <3>1, <3>4
      <4>3. all[from + i - 1] = log'[(last' - Len(all)) + (from + i - 1)]
        BY <1>13, <4>1
      <4> QED BY <3>4, <4>2, <4>3
    <3> QED BY <3>1, <3>4, <3>5
  <2>2. CASE ~(Len(all) > Capacity)
    <3>1. ring' = all
      BY <1>1, <2>2 DEF Trimmed, all
    <3>2. Len(all) = IF last' < Capacity THEN last' ELSE Capacity
      BY <1>13, <2>0, <2>2
    <3> QED BY <1>13, <3>1, <3>2
  <2> QED BY <2>1, <2>2
<1>15. Len(history') = last' + 1 /\ known' = history'[last' + 1]
  <2>1. n \in 0 .. n /\ last' + 1 = (last + 1) + n
    BY <1>2, <1>7, <1>8a
  <2> QED BY <1>8, <1>9, <1>10, <2>1 DEF JournalTypes
<1>16. JournalExact'
  BY <1>7, <1>12, <1>14, <1>15 DEF JournalExact
<1>17. /\ JournalTypes'
       /\ last <= last' /\ notify <= notify'
       /\ last' = last => notify' = notify
       /\ last' > last => notify' > notify
  BY <1>1, <1>2, <1>4, <1>7, <1>8, <1>14 DEF JournalTypes
<1>18. last' = last => history' = history
  BY <1>7, <1>8, <1>2, SeqEqual DEF JournalTypes, JournalExact
<1> QED BY <1>7, <1>8, <1>16, <1>17, <1>18 DEF JournalGrows

-----------------------------------------------------------------------------
(* What a page of changes brings a client.                                 *)

\* Whether an object is known changes only with a change of it.
LEMMA Untouched ==
    ASSUME JournalTypes, JournalExact, NEW d, NEW a \in Nat, NEW b \in Nat,
           a <= b, b <= last, \A i \in a + 1 .. b : log[i].digest # d
    PROVE  d \in history[a + 1] <=> d \in history[b + 1]
<1> DEFINE S == {k \in Nat : k <= b => (d \in history[k + 1] <=> d \in history[a + 1])}
<1>1. a \in S
  OBVIOUS
<1>2. ASSUME NEW k \in Nat, a <= k, k \in S
      PROVE  k + 1 \in S
  <2> SUFFICES ASSUME k + 1 <= b
               PROVE  d \in history[(k + 1) + 1] <=> d \in history[a + 1]
    OBVIOUS
  <2>1. /\ k + 1 \in 1 .. last /\ k + 1 \in 1 .. last + 1 /\ k + 1 \in a + 1 .. b
        /\ last \in Nat /\ last = Len(log) /\ last + 1 = Len(history)
    BY <1>2 DEF JournalTypes, JournalExact
  <2>2. log[k + 1] \in Change /\ history[k + 1] \in SUBSET Digests
    BY <2>1, ElementOfSeq DEF JournalTypes
  <2>3. history[(k + 1) + 1] = Applied(history[k + 1], {log[k + 1]})
    BY <2>1 DEF JournalExact
  <2>4. d \in history[(k + 1) + 1] <=> d \in history[k + 1]
    <3>1. Applied(history[k + 1], {log[k + 1]})
            = IF log[k + 1].kind = "added" THEN history[k + 1] \cup {log[k + 1].digest}
              ELSE history[k + 1] \ {log[k + 1].digest}
      BY <2>2, AppliedOne
    <3>2. log[k + 1].digest # d
      BY <2>1
    <3> QED BY <2>3, <3>1, <3>2
  <2> QED BY <1>2, <2>1, <2>4
<1>3. b \in S
  BY <1>1, <1>2, Climbs
<1> QED BY <1>3

\* Applied to what a client may read of one state, the changes it may read since
\* give what it may read of the later state.
LEMMA Replays ==
    ASSUME JournalTypes, JournalExact, NEW R \in SUBSET Digests,
           NEW a \in Nat, NEW b \in Nat, a <= b, b <= last
    PROVE  Applied(history[a + 1] \cap R,
                   {log[i] : i \in {k \in a + 1 .. b : log[k].digest \in R}})
             = history[b + 1] \cap R
<1> DEFINE changes == {log[i] : i \in {k \in a + 1 .. b : log[k].digest \in R}}
           view == history[a + 1] \cap R
           latest == {ch \in changes : \A other \in changes :
                         other.digest = ch.digest => other.sequence <= ch.sequence}
           result == Applied(view, changes)
<1>1. \A d : d \in result <=> \/ d \in view /\ \A ch \in changes : ch.digest # d
                              \/ \E ch \in latest : ch.kind = "added" /\ ch.digest = d
  BY DEF Applied
<1>2. ASSUME NEW i \in a + 1 .. b
      PROVE  /\ i \in 1 .. last /\ i \in Nat /\ log[i] \in Change /\ log[i].sequence = i
             /\ log[i].digest \in Digests
             /\ history[i] \in SUBSET Digests
  <2>1. /\ i \in 1 .. last /\ i \in 1 .. Len(log) /\ i \in 1 .. Len(history) /\ i \in Nat
    BY DEF JournalTypes, JournalExact
  <2>2. log \in Seq(Change) /\ history \in Seq(SUBSET Digests)
    BY DEF JournalTypes
  <2>3. log[i] \in Change /\ history[i] \in SUBSET Digests
    BY <2>1, <2>2, ElementOfSeq
  <2>4. log[i].sequence = i
    BY <2>1 DEF JournalExact
  <2>5. log[i].digest \in Digests
    BY <2>3 DEF Change
  <2> QED BY <2>1, <2>3, <2>4, <2>5
<1> HIDE DEF result
<1>3. ASSUME NEW d \in R
      PROVE  d \in result <=> d \in history[b + 1]
  <2> DEFINE touched == {i \in a + 1 .. b : log[i].digest = d}
  <2>1. CASE touched = {}
    <3>1. \A i \in a + 1 .. b : log[i].digest # d
      BY <2>1
    <3>2. \A ch \in changes : ch.digest # d
      BY <3>1
    <3>3. d \in history[a + 1] <=> d \in history[b + 1]
      BY <3>1, Untouched
    <3> QED BY <1>1, <3>2, <3>3
  <2>2. CASE touched # {}
    <3>1. PICK m \in touched : \A i \in touched : i <= m
      <4>1. touched \in SUBSET Nat /\ \A i \in touched : i <= b
        BY <1>2
      <4> QED BY <2>2, <4>1, Greatest
    <3>2. m \in a + 1 .. b /\ log[m].digest = d /\ log[m] \in changes
      BY <3>1
    <3>3. ASSUME NEW ch \in changes, ch.digest = d
          PROVE  ch.sequence <= log[m].sequence /\ (ch.sequence = m => ch = log[m])
      <4>1. PICK i \in a + 1 .. b : ch = log[i]
        BY <3>3
      <4>2. i \in touched
        BY <3>3, <4>1
      <4> QED BY <1>2, <3>1, <3>2, <4>1, <4>2
    <3>4. log[m] \in latest
      BY <3>2, <3>3
    <3>5. ASSUME NEW ch \in latest, ch.digest = d
          PROVE  ch = log[m]
      <4>1. PICK i \in a + 1 .. b : ch = log[i]
        BY <3>5
      <4>2. ch.sequence = i /\ log[m].sequence = m /\ log[m].sequence <= ch.sequence
        BY <1>2, <3>2, <3>5, <4>1
      <4>3. ch.sequence <= m
        BY <3>3, <3>5, <4>2
      <4>4. i = m
        BY <1>2, <3>2, <4>2, <4>3
      <4> QED BY <4>1, <4>4
    <3>6. d \in result <=> log[m].kind = "added"
      <4>1. ~(\A ch \in changes : ch.digest # d)
        BY <3>2
      <4> HIDE DEF changes, latest
      <4> QED BY <1>1, <3>2, <3>4, <3>5, <4>1
    <3>7. d \in history[m + 1] <=> log[m].kind = "added"
      <4>1. history[m + 1] = Applied(history[m], {log[m]})
        BY <1>2, <3>2 DEF JournalExact
      <4>2. Applied(history[m], {log[m]})
              = IF log[m].kind = "added" THEN history[m] \cup {log[m].digest}
                ELSE history[m] \ {log[m].digest}
        BY <1>2, <3>2, AppliedOne
      <4> QED BY <3>2, <4>1, <4>2
    <3>8. d \in history[m + 1] <=> d \in history[b + 1]
      <4>1. m \in Nat /\ m <= b /\ \A i \in m + 1 .. b : log[i].digest # d
        <5>1. m \in Nat /\ m <= b /\ m >= a + 1
          BY <3>2
        <5>2. ASSUME NEW i \in m + 1 .. b, log[i].digest = d
              PROVE  FALSE
          <6>1. i \in touched /\ i > m
            BY <5>1, <5>2
          <6> QED BY <3>1, <5>1, <6>1
        <5> QED BY <5>1, <5>2
      <4> QED BY <4>1, Untouched
    <3> QED BY <3>6, <3>7, <3>8
  <2> QED BY <2>1, <2>2
<1>4. ASSUME NEW d, d \notin R
      PROVE  d \notin result
  <2>1. \A ch \in changes : ch.digest # d
    BY <1>4
  <2>2. \A ch \in latest : ch.digest # d
    BY <2>1
  <2> QED BY <1>1, <1>4, <2>2
<1>5. result = history[b + 1] \cap R
  BY <1>3, <1>4
<1> QED BY <1>5 DEF result

\* A page ends where it began or further on, and not past the last entry.
LEMMA ExaminedBetween ==
    ASSUME NEW digests, Len(digests) \in Nat, NEW from \in 0 .. Len(digests), NEW c
    PROVE  Examined(digests, from, c) \in from .. Len(digests)
<1> DEFINE full == {i \in from .. Len(digests) :
                      Cardinality({k \in from + 1 .. i : digests[k] \in Readable[c]}) = PageSize}
<1>1. full \in SUBSET Nat /\ full \subseteq from .. Len(digests)
  OBVIOUS
<1>2. full # {} => Min(full) \in full
  BY <1>1, Least DEF Min
<1> HIDE DEF full
<1>3. Examined(digests, from, c) = IF full = {} THEN Len(digests) ELSE Min(full)
  BY DEF Examined, full
<1>4. Len(digests) \in from .. Len(digests)
  OBVIOUS
<1> QED BY <1>1, <1>2, <1>3, <1>4

\* What the ring has, at which place.
LEMMA RingHolds ==
    ASSUME JournalTypes, JournalExact
    PROVE  /\ Len(ring) \in Nat /\ Len(ring) <= last /\ (ring = <<>> => last = 0)
           /\ \A i \in 1 .. Len(ring) : /\ (last - Len(ring)) + i \in 1 .. last
                                        /\ ring[i] = log[(last - Len(ring)) + i]
                                        /\ ring[i].sequence = (last - Len(ring)) + i
<1>1. /\ Len(ring) \in Nat /\ last \in Nat /\ Capacity \in Nat \ {0}
      /\ Len(ring) = IF last < Capacity THEN last ELSE Capacity
  BY ChangesAssumption DEF JournalTypes, JournalExact
<1>2. Len(ring) <= last
  BY <1>1
<1>3. ring = <<>> => last = 0
  <2>1. ring = <<>> => Len(ring) = 0
    OBVIOUS
  <2> QED BY <1>1, <2>1
<1>4. ASSUME NEW i \in 1 .. Len(ring)
      PROVE  /\ (last - Len(ring)) + i \in 1 .. last
             /\ ring[i] = log[(last - Len(ring)) + i]
             /\ ring[i].sequence = (last - Len(ring)) + i
  <2>1. (last - Len(ring)) + i \in 1 .. last
    BY <1>1, <1>2
  <2>2. ring[i] = log[(last - Len(ring)) + i]
    BY DEF JournalExact
  <2> QED BY <2>1, <2>2 DEF JournalExact
<1> QED BY <1>1, <1>2, <1>3, <1>4

\* A cursor that is not lost has examined a prefix of the ring.
LEMMA SkippedPrefix ==
    ASSUME JournalTypes, JournalExact,
           NEW cursor \in Cursor, cursor.sequence <= last, ~Lost(cursor)
    PROVE  /\ Skipped(cursor.sequence) \in 0 .. Len(ring)
           /\ cursor.sequence = (last - Len(ring)) + Skipped(cursor.sequence)
<1> DEFINE len == Len(ring)
           s == cursor.sequence
           k == s - (last - len)
<1>1. len \in Nat /\ len <= last /\ last \in Nat /\ s \in Nat /\ s <= last
  BY RingHolds DEF JournalTypes, Cursor
<1>2. last - len <= s
  <2>1. CASE ring = <<>>
    BY <1>1, <2>1, RingHolds
  <2>2. CASE ring # <<>>
    <3>1. len \in Nat \ {0}
      BY <2>2, EmptySeq DEF JournalTypes
    <3>2. 1 \in 1 .. len
      BY <3>1
    <3>3. ring[1].sequence = (last - len) + 1
      BY <3>2, RingHolds
    <3>4. ~(s < ring[1].sequence - 1)
      BY <2>2 DEF Lost
    <3> HIDE DEF s, len
    <3> QED BY <1>1, <3>3, <3>4
  <2> QED BY <2>1, <2>2
<1>3. k \in 0 .. len
  BY <1>1, <1>2
<1>4. {i \in 1 .. len : ring[i].sequence <= s} = 1 .. k
  <2>1. \A i \in 1 .. len : ring[i].sequence = (last - len) + i
    BY RingHolds
  <2> HIDE DEF len, s
  <2>2. \A i \in 1 .. len : ring[i].sequence <= s <=> i <= k
    BY <1>1, <2>1
  <2> QED BY <1>1, <1>3, <2>2
<1>5. Cardinality(1 .. k) = k
  BY <1>1, <1>3, FS_Interval
<1>6. Skipped(cursor.sequence) = k
  BY <1>4, <1>5 DEF Skipped
<1> QED BY <1>1, <1>3, <1>6

\* A page of collect holds what its caller may read of the changes from its
\* cursor to the next one.
PageExact(page, c, cursor) ==
    /\ page.next \in Cursor /\ page.next.epoch = cursor.epoch
    /\ cursor.sequence <= page.next.sequence /\ page.next.sequence <= last
    /\ page.atEnd <=> page.next.sequence = last
    /\ page.changes = {log[i] : i \in {k \in cursor.sequence + 1 .. page.next.sequence :
                                         log[k].digest \in Readable[c]}}

LEMMA PagesExact ==
    ASSUME JournalTypes, JournalExact, NEW c \in Clients,
           NEW cursor \in Cursor, cursor.sequence <= last, ~Lost(cursor)
    PROVE  PageExact(Page(c, cursor), c, cursor)
<1> DEFINE len == Len(ring)
           from == last - len
           skipped == Skipped(cursor.sequence)
           digests == [i \in 1 .. len |-> ring[i].digest]
           end == PageEnd(c, cursor)
           page == Page(c, cursor)
<1>1. /\ len \in Nat /\ from \in Nat /\ last \in Nat /\ cursor.sequence \in Nat
      /\ skipped \in 0 .. len /\ cursor.sequence = from + skipped
  BY RingHolds, SkippedPrefix DEF JournalTypes, Cursor
<1>2. end \in skipped .. len
  <2>1. Len(digests) = len
    BY <1>1
  <2> HIDE DEF digests, skipped
  <2>2. Examined(digests, skipped, c) \in skipped .. Len(digests)
    BY <1>1, <2>1, ExaminedBetween
  <2> QED BY <2>1, <2>2 DEF PageEnd, digests, skipped
<1> HIDE DEF skipped, end
<1>3. /\ page.changes = {ring[i] : i \in {k \in skipped + 1 .. end :
                                            ring[k].digest \in Readable[c]}}
      /\ page.next = IF end = skipped THEN cursor
                     ELSE [cursor EXCEPT !.sequence = ring[end].sequence]
      /\ page.atEnd <=> end = len
  BY DEF Page, PageTo, skipped, end
<1> HIDE DEF page
<1>4. \A i \in 1 .. len : /\ from + i \in 1 .. last
                          /\ ring[i] = log[from + i] /\ ring[i].sequence = from + i
  BY RingHolds
<1>5. page.next \in Cursor /\ page.next.epoch = cursor.epoch /\ page.next.sequence = from + end
  <2>1. CASE end = skipped
    BY <1>1, <1>3, <2>1
  <2>2. CASE end # skipped
    <3>1. end \in 1 .. len /\ from + end \in Nat
      BY <1>1, <1>2, <2>2
    <3>2. ring[end].sequence = from + end
      BY <1>4, <3>1
    <3> QED BY <1>3, <2>2, <3>1, <3>2 DEF Cursor
  <2> QED BY <2>1, <2>2
<1>6. /\ cursor.sequence <= from + end /\ from + end <= last
      /\ (end = len <=> from + end = last)
  BY <1>1, <1>2
<1> HIDE DEF from, len
<1> DEFINE kept == {k \in skipped + 1 .. end : ring[k].digest \in Readable[c]}
           wanted == {k \in cursor.sequence + 1 .. from + end : log[k].digest \in Readable[c]}
<1>7. ASSUME NEW i \in kept
      PROVE  from + i \in wanted /\ ring[i] = log[from + i]
  <2>1. i \in 1 .. len /\ from + i \in cursor.sequence + 1 .. from + end
    BY <1>1, <1>2
  <2> QED BY <1>4, <2>1
<1>8. ASSUME NEW j \in wanted
      PROVE  \E i \in kept : from + i = j
  <2> DEFINE i == j - from
  <2>1. i \in skipped + 1 .. end /\ from + i = j /\ i \in 1 .. len
    BY <1>1, <1>2
  <2> HIDE DEF i
  <2>2. ring[i] = log[j]
    BY <1>4, <2>1
  <2> QED BY <2>1, <2>2
<1>9. {ring[i] : i \in kept} = {log[j] : j \in wanted}
  <2> HIDE DEF kept, wanted
  <2>1. \A i \in kept : \E j \in wanted : ring[i] = log[j]
    BY <1>7
  <2>2. \A j \in wanted : \E i \in kept : log[j] = ring[i]
    BY <1>7, <1>8
  <2> QED BY <2>1, <2>2
<1>10. PageExact(page, c, cursor)
  BY <1>3, <1>5, <1>6, <1>9 DEF PageExact
<1> QED BY <1>10 DEF page

\* So what a client may read of the state at its cursor becomes what it may read
\* of the state at the next one; a page without changes makes no difference.
LEMMA PageAdvances ==
    ASSUME JournalTypes, JournalExact, NEW c \in Clients, NEW page,
           NEW cursor \in Cursor, cursor.sequence <= last, PageExact(page, c, cursor)
    PROVE  /\ Applied(AsOf(c, cursor.sequence), page.changes) = AsOf(c, page.next.sequence)
           /\ page.changes = {} => AsOf(c, cursor.sequence) = AsOf(c, page.next.sequence)
<1>1. Readable[c] \in SUBSET Digests
  BY ChangesAssumption
<1>2. /\ cursor.sequence \in Nat /\ page.next.sequence \in Nat
      /\ cursor.sequence <= page.next.sequence /\ page.next.sequence <= last
  BY DEF PageExact, Cursor
<1>3. Applied(AsOf(c, cursor.sequence), page.changes) = AsOf(c, page.next.sequence)
  <2> DEFINE a == cursor.sequence
             b == page.next.sequence
             R == Readable[c]
  <2>1. a \in Nat /\ b \in Nat /\ a <= b /\ b <= last /\ R \in SUBSET Digests
    BY <1>1, <1>2
  <2>2. page.changes = {log[i] : i \in {k \in a + 1 .. b : log[k].digest \in R}}
    BY DEF PageExact
  <2> HIDE DEF a, b, R
  <2>3. Applied(history[a + 1] \cap R,
                {log[i] : i \in {k \in a + 1 .. b : log[k].digest \in R}})
          = history[b + 1] \cap R
    BY <2>1, Replays
  <2> QED BY <2>2, <2>3 DEF AsOf, a, b, R
<1>4. \A S : Applied(S, {}) = S
  BY DEF Applied
<1> QED BY <1>3, <1>4

-----------------------------------------------------------------------------
(* The inductive invariant.                                                *)

OtherTypes ==
    /\ store \in SUBSET Digests
    /\ committing \in [Writers -> Digests \cup {None}]
    /\ poller \in [pc : {"idle", "info", "diff"}, listed : SUBSET Digests]
    /\ listing \in BOOLEAN /\ closed \in BOOLEAN
    /\ epoch \in 0 .. MaxEpoch /\ now \in 0 .. MaxTime /\ steps \in 0 .. MaxSteps

SharedTypes ==
    snapshots \in [Tokens -> Snapshot \cup {None}] /\ client \in [Clients -> Client]

ClientExact(c) == PagesGathered(c) /\ CursorExact(c) /\ CallExact(c) /\ Attentive(c)

ChangesInv ==
    /\ OtherTypes /\ JournalTypes /\ SharedTypes
    /\ JournalExact /\ SnapshotsFrozen /\ SlotsHeld
    /\ \A c \in Clients : ClientExact(c)

\* It is the conjunction of what the runs check.
LEMMA InvariantMeans ==
    ChangesInv <=> ViewsExact /\ JournalExact /\ NoLostWakeup /\ SlotsHeld
<1>1. SlotsHeld => waiters \in Nat
  <2>1. IsFiniteSet({c \in Clients : client[c].pc = "waiting"})
    BY ChangesAssumption, FS_Subset
  <2> QED BY <2>1, FS_CardinalityType DEF SlotsHeld
<1>2. ChangesTypeOK <=> OtherTypes /\ JournalTypes /\ SharedTypes /\ waiters \in Nat
  BY DEF ChangesTypeOK, OtherTypes, JournalTypes, SharedTypes
<1> QED BY <1>1, <1>2 DEF ChangesInv, ViewsExact, NoLostWakeup, ClientExact

\* A journal that nothing is appended to.
LEMMA JournalStays ==
    ASSUME JournalTypes, UNCHANGED <<last, notify, log, history>>
    PROVE  JournalGrows
  BY DEF JournalGrows, JournalTypes

\* Snapshots go, or keep what they froze.
SnapshotsStay ==
    \A t \in Tokens : snapshots'[t] = None \/ /\ snapshots[t] # None
                                              /\ snapshots'[t].objects = snapshots[t].objects
                                              /\ snapshots'[t].cursor = snapshots[t].cursor

\* Entries of the history that a sequence number points to.
LEMMA WithinHistory ==
    ASSUME JournalTypes, JournalGrows, NEW k \in Nat, k <= last
    PROVE  k + 1 \in 1 .. last + 1 /\ history'[k + 1] = history[k + 1]
<1>1. k + 1 \in 1 .. last + 1
  BY DEF JournalTypes
<1> QED BY <1>1 DEF JournalGrows

LEMMA FrozenStays ==
    ASSUME ChangesInv, JournalGrows, SnapshotsStay, last' \in Nat
    PROVE  SnapshotsFrozen'
<1> SUFFICES ASSUME NEW t \in Tokens, snapshots'[t] # None
             PROVE  /\ snapshots'[t].cursor <= last'
                    /\ {snapshots'[t].objects[k] : k \in 1 .. Len(snapshots'[t].objects)}
                         = history'[snapshots'[t].cursor + 1]
  BY DEF SnapshotsFrozen
<1>1. /\ snapshots[t] # None /\ snapshots'[t].objects = snapshots[t].objects
      /\ snapshots'[t].cursor = snapshots[t].cursor
  BY DEF SnapshotsStay
<1>2. snapshots[t].cursor \in Nat /\ snapshots[t].cursor <= last
  BY <1>1 DEF ChangesInv, SharedTypes, Snapshot, SnapshotsFrozen
<1>3. history'[snapshots[t].cursor + 1] = history[snapshots[t].cursor + 1]
  BY <1>2, WithinHistory DEF ChangesInv
<1>4. last \in Nat /\ last <= last'
  BY DEF ChangesInv, JournalTypes, JournalGrows
<1> QED BY <1>1, <1>2, <1>3, <1>4 DEF ChangesInv, SnapshotsFrozen

\* A client that does not move stays exact while the journal grows.
LEMMA ClientStays ==
    ASSUME ChangesInv, JournalGrows, last' \in Nat, notify' \in Nat,
           NEW c \in Clients, client'[c] = client[c],
           epoch' = epoch, closed => closed',
           client[c].token # None =>
               LET t == client[c].token
               IN  \/ snapshots'[t] = None
                   \/ /\ snapshots[t] # None
                      /\ snapshots'[t].objects = snapshots[t].objects
    PROVE  ClientExact(c)'
<1>1. /\ last \in Nat /\ last <= last' /\ notify \in Nat /\ notify <= notify'
      /\ last' = last => notify' = notify
      /\ last' > last => notify' > notify
      /\ client[c] \in Client /\ ClientExact(c)
      /\ epoch \in Nat
  BY ChangesAssumption DEF ChangesInv, JournalTypes, JournalGrows, SharedTypes, OtherTypes
<1>2. PagesGathered(c)'
  BY <1>1 DEF PagesGathered, ClientExact
<1>3. CursorExact(c)'
  <2>1. client[c].cursor # None =>
           /\ client[c].cursor \in Cursor
           /\ client[c].cursor.sequence \in Nat /\ client[c].cursor.epoch \in Nat
    BY <1>1 DEF Client, Cursor
  <2>2. client[c].cursor # None /\ client[c].cursor.epoch = epoch =>
           history'[client[c].cursor.sequence + 1] = history[client[c].cursor.sequence + 1]
    BY <1>1, <2>1, WithinHistory DEF ChangesInv, ClientExact, CursorExact
  <2> QED BY <1>1, <2>1, <2>2 DEF ClientExact, CursorExact, AsOf
<1>4. CallExact(c)'
  <2> SUFFICES ASSUME client[c].pc # "idle"
               PROVE  CallExact(c)'
    BY DEF CallExact
  <2>1. /\ client[c].from # None /\ client[c].from.sequence \in Nat
        /\ client[c].from.sequence <= last /\ client[c].channel \in Nat
        /\ client[c].pc \in {"slot", "waiting"} => client[c].channel <= notify
    BY <1>1 DEF ClientExact, CallExact, Client, Cursor
  <2>2. history'[client[c].from.sequence + 1] = history[client[c].from.sequence + 1]
    BY <2>1, WithinHistory DEF ChangesInv
  <2> QED BY <1>1, <2>1, <2>2 DEF ClientExact, CallExact, AsOf
<1>5. Attentive(c)'
  <2> SUFFICES ASSUME client[c].pc \in {"slot", "waiting"}, ~Signalled(c)'
               PROVE  client'[c].from = [epoch |-> epoch', sequence |-> last']
    BY DEF Attentive
  <2>1. client[c].channel \in Nat /\ client[c].channel <= notify
    BY <1>1 DEF ClientExact, CallExact, Client
  <2>2. ~(client[c].channel < notify') /\ ~closed'
    BY DEF Signalled
  <2>3. notify' = notify /\ last' = last
    BY <1>1, <2>1, <2>2
  <2>4. ~Signalled(c)
    BY <2>2, <2>3 DEF Signalled
  <2> QED BY <1>1, <2>3, <2>4 DEF ClientExact, Attentive
<1> QED BY <1>2, <1>3, <1>4, <1>5 DEF ClientExact

\* A step of the store, the poller or the clock, or one that only sweeps.
LEMMA OthersKeep ==
    ASSUME ChangesInv, UNCHANGED <<known, last, ring, notify, log, history, waiters,
                                   epoch, client>>,
           OtherTypes', seen' \in SUBSET Digests, closed => closed',
           snapshots' \in [Tokens -> Snapshot \cup {None}], SnapshotsStay
    PROVE  ChangesInv'
<1>1. JournalTypes' /\ JournalGrows /\ last' \in Nat /\ notify' \in Nat
  BY JournalStays DEF ChangesInv, JournalTypes
<1>2. SnapshotsFrozen'
  BY <1>1, FrozenStays
<1>3. JournalExact' /\ SlotsHeld' /\ SharedTypes'
  BY DEF ChangesInv, JournalExact, SlotsHeld, SharedTypes
<1>4. ASSUME NEW c \in Clients
      PROVE  ClientExact(c)'
  <2>1. client[c].token \in Tokens \cup {None}
    BY DEF ChangesInv, SharedTypes, Client
  <2> QED BY <1>1, <2>1, ClientStays DEF SnapshotsStay
<1> QED BY <1>1, <1>2, <1>3, <1>4 DEF ChangesInv

\* Snapshots that nothing happens to, or that are swept, stay.
LEMMA SweptStay ==
    ASSUME snapshots \in [Tokens -> Snapshot \cup {None}]
    PROVE  /\ snapshots' = snapshots \/ snapshots' = Swept =>
                snapshots' \in [Tokens -> Snapshot \cup {None}] /\ SnapshotsStay
           /\ Swept \in [Tokens -> Snapshot \cup {None}]
           /\ \A t \in Tokens : Swept[t] = None \/ Swept[t] = snapshots[t]
  BY DEF Swept, SnapshotsStay

\* A step that journals what was not known and what is gone.
LEMMA JournalingKeeps ==
    ASSUME ChangesInv, NEW removed \in SUBSET Digests, NEW added \in SUBSET Digests,
           removed \subseteq known, added \cap known = {}, Journal(removed, added),
           UNCHANGED <<closed, snapshots, waiters, epoch, client>>, OtherTypes'
    PROVE  ChangesInv'
<1>1. JournalTypes' /\ JournalExact' /\ JournalGrows
  BY JournalKeeps DEF ChangesInv, OtherTypes
<1>2. last' \in Nat /\ notify' \in Nat
  BY <1>1 DEF JournalTypes
<1>3. SnapshotsStay /\ SharedTypes'
  BY SweptStay DEF ChangesInv, SharedTypes
<1>4. SnapshotsFrozen'
  BY <1>1, <1>2, <1>3, FrozenStays
<1>5. ASSUME NEW c \in Clients
      PROVE  ClientExact(c)'
  <2>1. client[c].token \in Tokens \cup {None}
    BY DEF ChangesInv, SharedTypes, Client
  <2> QED BY <1>1, <1>2, <1>3, <2>1, ClientStays DEF SnapshotsStay
<1> QED BY <1>1, <1>3, <1>4, <1>5 DEF ChangesInv, SlotsHeld

-----------------------------------------------------------------------------
(* Steps of one client.                                                    *)

\* Which slots are in use after a step of c.
LEMMA SlotsAfter ==
    ASSUME SlotsHeld, client \in [Clients -> Client], NEW c \in Clients,
           \A x \in Clients \ {c} : client'[x] = client[x],
           \/ (client'[c].pc = "waiting" <=> client[c].pc = "waiting") /\ waiters' = waiters
           \/ /\ client'[c].pc = "waiting" /\ client[c].pc # "waiting"
              /\ waiters < MaxChangeWaiters /\ waiters' = waiters + 1
           \/ /\ client'[c].pc # "waiting" /\ client[c].pc = "waiting"
              /\ waiters' = waiters - 1
    PROVE  SlotsHeld'
<1> DEFINE W == {x \in Clients : client[x].pc = "waiting"}
           V == {x \in Clients : client'[x].pc = "waiting"}
<1>1. IsFiniteSet(W) /\ Cardinality(W) \in Nat /\ MaxChangeWaiters \in Nat
      /\ waiters = Cardinality(W) /\ waiters <= MaxChangeWaiters
  BY ChangesAssumption, FS_Subset, FS_CardinalityType DEF SlotsHeld
<1>2. Cardinality(V) = waiters' /\ waiters' <= MaxChangeWaiters
  <2>1. CASE (client'[c].pc = "waiting" <=> client[c].pc = "waiting") /\ waiters' = waiters
    <3>1. V = W
      BY <2>1
    <3> QED BY <1>1, <2>1, <3>1
  <2>2. CASE /\ client'[c].pc = "waiting" /\ client[c].pc # "waiting"
             /\ waiters < MaxChangeWaiters /\ waiters' = waiters + 1
    <3>1. V = W \cup {c} /\ c \notin W
      BY <2>2
    <3>2. Cardinality(V) = Cardinality(W) + 1
      <4> HIDE DEF V, W
      <4> QED BY <1>1, <3>1, FS_AddElement
    <3>3. \A m, n \in Nat : n < m => n + 1 <= m
      OBVIOUS
    <3> HIDE DEF V, W
    <3>4. /\ Cardinality(V) = waiters' /\ waiters' = Cardinality(W) + 1
          /\ Cardinality(W) < MaxChangeWaiters
      BY <1>1, <2>2, <3>2
    <3> QED BY <1>1, <3>3, <3>4
  <2>3. CASE /\ client'[c].pc # "waiting" /\ client[c].pc = "waiting"
             /\ waiters' = waiters - 1
    <3>1. V = W \ {c} /\ c \in W
      BY <2>3
    <3>2. Cardinality(V) = Cardinality(W) - 1
      <4> HIDE DEF V, W
      <4> QED BY <1>1, <3>1, FS_RemoveElement
    <3>3. \A m, n \in Nat : n <= m => n - 1 <= m
      OBVIOUS
    <3> HIDE DEF V, W
    <3>4. /\ Cardinality(V) = waiters' /\ waiters' = Cardinality(W) - 1
          /\ Cardinality(W) <= MaxChangeWaiters
      BY <1>1, <2>3, <3>2
    <3> QED BY <1>1, <3>3, <3>4
  <2> QED BY <2>1, <2>2, <2>3
<1> QED BY <1>2 DEF SlotsHeld

\* A step of c keeps the invariant if it leaves c exact; the others only see
\* snapshots go.
LEMMA ClientStepKeeps ==
    ASSUME ChangesInv, NEW c \in Clients,
           UNCHANGED <<store, committing, poller, journal, listing, closed, epoch, now, steps>>,
           SharedTypes', SnapshotsFrozen', SlotsHeld',
           \A x \in Clients \ {c} : client'[x] = client[x],
           \A t \in Tokens : (\E x \in Clients \ {c} : client[x].token = t) =>
               \/ snapshots'[t] = None
               \/ snapshots[t] # None /\ snapshots'[t].objects = snapshots[t].objects,
           ClientExact(c)'
    PROVE  ChangesInv'
<1>1. OtherTypes' /\ JournalTypes' /\ JournalExact'
  BY DEF ChangesInv, OtherTypes, JournalTypes, JournalExact, journal
<1>2. JournalGrows /\ last' \in Nat /\ notify' \in Nat
  BY JournalStays DEF ChangesInv, JournalTypes, journal
<1>3. ASSUME NEW x \in Clients, x # c
      PROVE  ClientExact(x)'
  <2>1. client[x].token \in Tokens \cup {None} /\ client'[x] = client[x]
    BY <1>3 DEF ChangesInv, SharedTypes, Client
  <2> QED BY <1>2, <1>3, <2>1, ClientStays
<1> QED BY <1>1, <1>3 DEF ChangesInv

\* The same for the steps of Observe, which leave the snapshots alone.
LEMMA ObserveStepKeeps ==
    ASSUME ChangesInv, ObserveFrame, NEW c \in Clients, NEW new \in Client,
           client' = [client EXCEPT ![c] = new],
           \/ (new.pc = "waiting" <=> client[c].pc = "waiting") /\ waiters' = waiters
           \/ /\ new.pc = "waiting" /\ client[c].pc # "waiting"
              /\ waiters < MaxChangeWaiters /\ waiters' = waiters + 1
           \/ /\ new.pc # "waiting" /\ client[c].pc = "waiting"
              /\ waiters' = waiters - 1,
           ClientExact(c)'
    PROVE  ChangesInv'
<1>1. /\ client' \in [Clients -> Client] /\ client'[c] = new
      /\ \A x \in Clients \ {c} : client'[x] = client[x]
  BY DEF ChangesInv, SharedTypes
<1>2. SharedTypes' /\ SnapshotsStay
  BY <1>1, SweptStay DEF ChangesInv, SharedTypes, ObserveFrame
<1>3. SnapshotsFrozen'
  <2>1. JournalGrows /\ last' \in Nat
    BY JournalStays DEF ChangesInv, JournalTypes, journal, ObserveFrame
  <2> QED BY <1>2, <2>1, FrozenStays
<1>4. SlotsHeld'
  BY <1>1, SlotsAfter DEF ChangesInv, SharedTypes
<1>5. \A t \in Tokens : \/ snapshots'[t] = None
                        \/ snapshots[t] # None /\ snapshots'[t].objects = snapshots[t].objects
  BY DEF ObserveFrame
<1> QED BY <1>1, <1>2, <1>3, <1>4, <1>5, ClientStepKeeps DEF ObserveFrame

\* A client that begins again holds nothing.
LEMMA ForgetsExact ==
    ASSUME NEW c \in Clients, client'[c] = NewClient
    PROVE  ClientExact(c)'
  BY DEF ClientExact, PagesGathered, CursorExact, CallExact, Attentive, NewClient

LEMMA NewClientTyped == NewClient \in Client
  BY DEF NewClient, Client

\* A refused call leaves its client as it was before.
LEMMA RefusedExact ==
    ASSUME ChangesInv, ObserveFrame, NEW c \in Clients, Refused(c)
    PROVE  \E new \in Client : /\ client' = [client EXCEPT ![c] = new]
                               /\ new.pc = "idle" /\ ClientExact(c)'
<1> DEFINE new == [client[c] EXCEPT !.pc = "idle", !.from = None, !.channel = 0]
<1>1. client[c] \in Client /\ client \in [Clients -> Client] /\ ClientExact(c)
  BY DEF ChangesInv, SharedTypes
<1>2. new \in Client /\ client' = [client EXCEPT ![c] = new]
  BY <1>1 DEF Refused, Client
<1>3. client'[c] = new
  BY <1>1, <1>2
<1>4. /\ new.pc = "idle" /\ new.token = client[c].token /\ new.cursor = client[c].cursor
      /\ new.complete = client[c].complete /\ new.view = client[c].view
      /\ new.offset = client[c].offset
  BY <1>1 DEF Client
<1> HIDE DEF new
<1>5. ClientExact(c)'
  BY <1>1, <1>3, <1>4 DEF ClientExact, PagesGathered, CursorExact, CallExact, Attentive,
                          AsOf, ObserveFrame, journal
<1> QED BY <1>2, <1>4, <1>5

\* Where a collect begins.
LEMMA FromExact ==
    ASSUME ChangesInv, NEW c \in Clients, Collects(c)
    PROVE  /\ From(c) \in Cursor /\ client[c].token = None
           /\ client[c].pc \in {"idle", "end", "again"}
           /\ From(c).epoch = epoch =>
                /\ From(c).sequence <= last
                /\ client[c].cursor # None =>
                     /\ client[c].cursor.epoch = epoch
                     /\ client[c].cursor.sequence <= From(c).sequence
                /\ client[c].complete =>
                     client[c].cursor # None /\ client[c].view = AsOf(c, From(c).sequence)
<1>1. client[c] \in Client /\ ClientExact(c)
  BY DEF ChangesInv, SharedTypes
<1>2. CASE client[c].pc = "idle"
  <2>1. From(c) = client[c].cursor /\ client[c].cursor # None /\ client[c].cursor \in Cursor
    BY <1>1, <1>2 DEF From, Collects, Client
  <2>2. client[c].cursor.sequence <= client[c].cursor.sequence
    BY <2>1 DEF Cursor
  <2> QED BY <1>1, <1>2, <2>1, <2>2 DEF ClientExact, PagesGathered, CursorExact
<1>3. CASE client[c].pc # "idle"
  <2>1. From(c) = client[c].from /\ client[c].from # None /\ client[c].from \in Cursor
    BY <1>1, <1>3 DEF From, ClientExact, CallExact, Client
  <2> QED BY <1>1, <1>3, <2>1 DEF ClientExact, PagesGathered, CursorExact, CallExact, Collects
<1> QED BY <1>2, <1>3

LEMMA AppliedTyped ==
    ASSUME NEW objects \in SUBSET Digests, NEW changes \in SUBSET Change
    PROVE  Applied(objects, changes) \in SUBSET Digests
  BY DEF Applied, Change

LEMMA ObserveEndKeeps ==
    ASSUME ChangesInv, NEW c \in Clients, ObserveEnd(c)
    PROVE  ChangesInv'
<1> DEFINE new == [client[c] EXCEPT !.pc = "end", !.from = [epoch |-> epoch, sequence |-> last]]
<1>1. /\ client[c] \in Client /\ client \in [Clients -> Client] /\ ClientExact(c)
      /\ epoch \in Nat /\ last \in Nat
  BY ChangesAssumption DEF ChangesInv, SharedTypes, OtherTypes, JournalTypes
<1>2. new \in Client /\ client' = [client EXCEPT ![c] = new] /\ client'[c] = new
  BY <1>1 DEF ObserveEnd, Client, Cursor
<1>3. /\ new.pc = "end" /\ new.from.epoch = epoch /\ new.from.sequence = last
      /\ new.from # None /\ new.cursor = None /\ new.token = None /\ ~new.complete
  <2>1. ~client[c].complete
    BY <1>1 DEF ClientExact, CursorExact, ObserveEnd
  <2>2. [epoch |-> epoch, sequence |-> last] \in Cursor
    BY <1>1 DEF Cursor
  <2> QED BY <1>1, <2>1, <2>2, NoneAssumption DEF ObserveEnd, Client
<1> HIDE DEF new
<1>4. ClientExact(c)'
  <2>1. last' = last /\ epoch' = epoch /\ last <= last
    BY <1>1 DEF ObserveEnd, ObserveFrame, journal
  <2>2. PagesGathered(c)' /\ CursorExact(c)' /\ Attentive(c)'
    BY <1>2, <1>3 DEF PagesGathered, CursorExact, Attentive
  <2>3. CallExact(c)'
    BY <1>2, <1>3, <2>1 DEF CallExact
  <2> QED BY <2>2, <2>3 DEF ClientExact
<1>5. client[c].pc # "waiting" /\ waiters' = waiters /\ ObserveFrame
  BY DEF ObserveEnd
<1> QED BY <1>2, <1>3, <1>4, <1>5, ObserveStepKeeps

\* A page reaches the client.
LEMMA AnsweredExact ==
    ASSUME ChangesInv, ObserveFrame, NEW c \in Clients, Collects(c), ~Lost(From(c)),
           NEW page, page = Page(c, From(c)), Answered(c, page)
    PROVE  \E new \in Client : /\ client' = [client EXCEPT ![c] = new]
                               /\ new.pc = "idle" /\ ClientExact(c)'
<1> DEFINE new == [client[c] EXCEPT !.pc = "idle", !.from = None, !.channel = 0,
                                    !.cursor = page.next,
                                    !.view = Applied(client[c].view, page.changes)]
<1>1. /\ client[c] \in Client /\ client \in [Clients -> Client] /\ ClientExact(c)
      /\ JournalTypes /\ JournalExact
  BY DEF ChangesInv, SharedTypes
<1>2. /\ From(c) \in Cursor /\ client[c].token = None
      /\ From(c).epoch = epoch /\ From(c).sequence <= last
      /\ client[c].complete => client[c].view = AsOf(c, From(c).sequence)
  BY FromExact DEF Lost
<1>3. PageExact(page, c, From(c))
  BY <1>1, <1>2, PagesExact
<1>4. page.changes \in SUBSET Change
  <2>1. log \in Seq(Change) /\ last = Len(log) /\ last \in Nat
    BY <1>1 DEF JournalTypes, JournalExact
  <2>2. \A k \in From(c).sequence + 1 .. page.next.sequence : log[k] \in Change
    BY <1>2, <1>3, <2>1, ElementOfSeq DEF PageExact, Cursor
  <2> QED BY <1>3, <2>2 DEF PageExact
<1>5. new \in Client
  <2>1. Applied(client[c].view, page.changes) \in SUBSET Digests
    BY <1>1, <1>4, AppliedTyped DEF Client
  <2> QED BY <1>1, <1>3, <2>1 DEF Client, PageExact
<1>6. client' = [client EXCEPT ![c] = new] /\ client'[c] = new
  BY <1>1 DEF Answered
<1>7. /\ new.pc = "idle" /\ new.token = None /\ new.cursor = page.next
      /\ new.complete = client[c].complete
      /\ new.view = Applied(client[c].view, page.changes)
  BY <1>1, <1>2 DEF Client
<1>8. client[c].complete => new.view = AsOf(c, page.next.sequence)
  BY <1>1, <1>2, <1>3, <1>7, PageAdvances
<1>9. /\ page.next # None /\ page.next.epoch = epoch /\ page.next.sequence <= last
      /\ epoch \in Nat
  BY <1>2, <1>3, NoneAssumption, ChangesAssumption DEF PageExact, ChangesInv, OtherTypes
<1> HIDE DEF new
<1>10. ClientExact(c)'
  BY <1>6, <1>7, <1>8, <1>9 DEF ClientExact, PagesGathered, CursorExact, CallExact, Attentive,
                                AsOf, ObserveFrame, journal
<1> QED BY <1>5, <1>6, <1>7, <1>10

\* Nothing for the client in the whole journal: the call will wait.
LEMMA WaitsExact ==
    ASSUME ChangesInv, ObserveFrame, NEW c \in Clients, Collects(c), ~Lost(From(c)),
           NEW page, page = Page(c, From(c)), page.changes = {}, page.atEnd,
           client' = [client EXCEPT ![c].pc = "slot", ![c].from = page.next,
                                    ![c].channel = notify]
    PROVE  \E new \in Client : /\ client' = [client EXCEPT ![c] = new]
                               /\ new.pc = "slot" /\ ClientExact(c)'
<1> DEFINE new == [client[c] EXCEPT !.pc = "slot", !.from = page.next, !.channel = notify]
<1>1. /\ client[c] \in Client /\ client \in [Clients -> Client] /\ ClientExact(c)
      /\ JournalTypes /\ JournalExact
  BY DEF ChangesInv, SharedTypes
<1>2. /\ From(c) \in Cursor /\ client[c].token = None
      /\ From(c).epoch = epoch /\ From(c).sequence <= last
      /\ client[c].cursor # None =>
           client[c].cursor.epoch = epoch /\ client[c].cursor.sequence <= From(c).sequence
      /\ client[c].complete =>
           client[c].cursor # None /\ client[c].view = AsOf(c, From(c).sequence)
  BY FromExact DEF Lost
<1>3. PageExact(page, c, From(c))
  BY <1>1, <1>2, PagesExact
<1>4. new \in Client /\ client' = [client EXCEPT ![c] = new] /\ client'[c] = new
  BY <1>1, <1>3 DEF Client, PageExact, JournalTypes
<1>5. /\ new.pc = "slot" /\ new.token = None /\ new.cursor = client[c].cursor
      /\ new.complete = client[c].complete /\ new.view = client[c].view
      /\ new.from = page.next /\ new.channel = notify
  BY <1>1, <1>2 DEF Client
<1>6. /\ page.next # None /\ page.next.epoch = epoch /\ page.next.sequence = last
      /\ page.next = [epoch |-> epoch, sequence |-> last]
  BY <1>2, <1>3, NoneAssumption DEF PageExact, Cursor
<1>7. client[c].complete => new.view = AsOf(c, last)
  BY <1>1, <1>2, <1>3, <1>5, <1>6, PageAdvances
<1>8. client[c].cursor # None => /\ client[c].cursor \in Cursor
                                 /\ client[c].cursor.sequence <= last
  <2>1. From(c).sequence \in Nat /\ last \in Nat
    BY <1>1, <1>2 DEF Cursor, JournalTypes
  <2>2. client[c].cursor # None => client[c].cursor \in Cursor /\ client[c].cursor.sequence \in Nat
    BY <1>1 DEF Client, Cursor
  <2> QED BY <1>2, <2>1, <2>2
<1>9. last <= last /\ notify <= notify /\ epoch <= epoch
  <2>1. last \in Nat /\ notify \in Nat
    BY <1>1 DEF JournalTypes
  <2>2. epoch \in Nat
    BY ChangesAssumption DEF ChangesInv, OtherTypes
  <2> QED BY <2>1, <2>2
<1> HIDE DEF new
<1>10. PagesGathered(c)' /\ CursorExact(c)'
  BY <1>1, <1>2, <1>4, <1>5, <1>8, <1>9 DEF ClientExact, PagesGathered, CursorExact, AsOf,
                                           ObserveFrame, journal
<1>11. CallExact(c)' /\ Attentive(c)'
  BY <1>2, <1>4, <1>5, <1>6, <1>7, <1>8, <1>9 DEF CallExact, Attentive, AsOf, ObserveFrame, journal
<1> QED BY <1>4, <1>5, <1>10, <1>11 DEF ClientExact

LEMMA ObserveKeeps ==
    ASSUME ChangesInv, NEW c \in Clients, Observe(c)
    PROVE  ChangesInv'
<1> DEFINE page == Page(c, From(c))
<1>1. /\ Collects(c) /\ ~Lost(From(c)) /\ ObserveFrame /\ waiters' = waiters
      /\ client[c].pc # "waiting"
  BY FromExact DEF Observe
<1>2. \E new \in Client : /\ client' = [client EXCEPT ![c] = new]
                          /\ new.pc # "waiting" /\ ClientExact(c)'
  <2>1. CASE Answered(c, page)
    BY <1>1, <2>1, AnsweredExact
  <2>2. CASE /\ client[c].pc # "again" /\ page.changes = {} /\ page.atEnd
             /\ client' = [client EXCEPT ![c].pc = "slot", ![c].from = page.next,
                                         ![c].channel = notify]
    BY <1>1, <2>2, WaitsExact
  <2>3. CASE Refused(c)
    BY <1>1, <2>3, RefusedExact
  <2> QED BY <2>1, <2>2, <2>3 DEF Observe
<1> QED BY <1>1, <1>2, ObserveStepKeeps

LEMMA ObserveGapKeeps ==
    ASSUME ChangesInv, NEW c \in Clients, ObserveGap(c)
    PROVE  ChangesInv'
<1>1. /\ client' = [client EXCEPT ![c] = NewClient] /\ waiters' = waiters /\ ObserveFrame
      /\ client[c].pc # "waiting"
  BY FromExact DEF ObserveGap, Forgets
<1>2. client'[c] = NewClient /\ NewClient \in Client /\ NewClient.pc # "waiting"
  BY <1>1, NewClientTyped DEF NewClient, ChangesInv, SharedTypes
<1> QED BY <1>1, <1>2, ForgetsExact, ObserveStepKeeps

LEMMA ObserveRefusedKeeps ==
    ASSUME ChangesInv, NEW c \in Clients, ObserveRefused(c)
    PROVE  ChangesInv'
<1>1. waiters' = waiters /\ ObserveFrame /\ client[c].pc # "waiting" /\ Refused(c)
  BY FromExact DEF ObserveRefused
<1> QED BY <1>1, RefusedExact, ObserveStepKeeps

LEMMA ObserveSlotKeeps ==
    ASSUME ChangesInv, NEW c \in Clients, ObserveSlot(c)
    PROVE  ChangesInv'
<1>1. client[c].pc = "slot" /\ ObserveFrame
  BY DEF ObserveSlot
<1>2. CASE waiters < MaxChangeWaiters
  <2> DEFINE new == [client[c] EXCEPT !.pc = "waiting"]
  <2>1. client[c] \in Client /\ client \in [Clients -> Client] /\ ClientExact(c)
    BY DEF ChangesInv, SharedTypes
  <2>2. /\ new \in Client /\ client' = [client EXCEPT ![c] = new] /\ client'[c] = new
        /\ waiters' = waiters + 1
    BY <1>2, <2>1 DEF ObserveSlot, Client
  <2>3. /\ new.pc = "waiting" /\ new.token = client[c].token
        /\ new.cursor = client[c].cursor /\ new.complete = client[c].complete
        /\ new.view = client[c].view /\ new.from = client[c].from
        /\ new.channel = client[c].channel /\ client[c].token = None
    BY <1>1, <2>1 DEF Client, ClientExact, PagesGathered
  <2> HIDE DEF new
  <2>4. PagesGathered(c)' /\ CursorExact(c)' /\ CallExact(c)'
    BY <1>1, <2>1, <2>2, <2>3 DEF ClientExact, PagesGathered, CursorExact, CallExact, AsOf,
                                  ObserveFrame, journal
  <2>5. Attentive(c)'
    BY <1>1, <2>1, <2>2, <2>3 DEF ClientExact, Attentive, Signalled, ObserveFrame, journal
  <2> QED BY <1>1, <1>2, <2>2, <2>3, <2>4, <2>5, ObserveStepKeeps DEF ClientExact
<1>3. CASE ~(waiters < MaxChangeWaiters)
  <2>1. Refused(c) /\ waiters' = waiters
    BY <1>3 DEF ObserveSlot
  <2> QED BY <1>1, <2>1, RefusedExact, ObserveStepKeeps
<1> QED BY <1>2, <1>3

LEMMA ObserveWakesKeeps ==
    ASSUME ChangesInv, NEW c \in Clients, ObserveWakes(c)
    PROVE  ChangesInv'
<1> DEFINE new == [client[c] EXCEPT !.pc = "again", !.channel = 0]
<1>1. client[c] \in Client /\ client \in [Clients -> Client] /\ ClientExact(c)
  BY DEF ChangesInv, SharedTypes
<1>2. /\ new \in Client /\ client' = [client EXCEPT ![c] = new] /\ client'[c] = new
      /\ client[c].pc = "waiting" /\ waiters' = waiters - 1 /\ ObserveFrame
  BY <1>1 DEF ObserveWakes, Client
<1>3. /\ new.pc = "again" /\ new.token = client[c].token
      /\ new.cursor = client[c].cursor /\ new.complete = client[c].complete
      /\ new.view = client[c].view /\ new.from = client[c].from /\ client[c].token = None
  BY <1>1, <1>2 DEF Client, ClientExact, PagesGathered
<1> HIDE DEF new
<1>4. PagesGathered(c)' /\ CursorExact(c)' /\ CallExact(c)' /\ Attentive(c)'
  BY <1>1, <1>2, <1>3 DEF ClientExact, PagesGathered, CursorExact, CallExact, Attentive,
                          AsOf, ObserveFrame, journal
<1> QED BY <1>2, <1>3, <1>4, ObserveStepKeeps DEF ClientExact

LEMMA ObserveCancelledKeeps ==
    ASSUME ChangesInv, NEW c \in Clients, ObserveCancelled(c)
    PROVE  ChangesInv'
<1>1. /\ waiters' = waiters - 1 /\ ObserveFrame /\ client[c].pc = "waiting" /\ Refused(c)
  BY DEF ObserveCancelled, Freed
<1> QED BY <1>1, RefusedExact, ObserveStepKeeps

LEMMA ObservesKeeps ==
    ASSUME ChangesInv, NEW c \in Clients, Observes(c)
    PROVE  ChangesInv'
  BY ObserveEndKeeps, ObserveKeeps, ObserveGapKeeps, ObserveRefusedKeeps, ObserveSlotKeeps,
     ObserveWakesKeeps, ObserveCancelledKeeps DEF Observes

\* A page of a snapshot, which stays while the client has not all its pages.
LEMMA TakesPageExact ==
    ASSUME ChangesInv, ListFrame, NEW c \in Clients, NEW token \in Tokens, NEW s \in Snapshot,
           s.cursor <= last,
           {s.objects[k] : k \in 1 .. Len(s.objects)} = history[s.cursor + 1],
           NEW offset \in Nat, offset <= Len(s.objects),
           NEW view, view = {s.objects[k] : k \in 1 .. offset} \cap Readable[c],
           TakesPage(c, token, s, offset, view),
           snapshots'[token] # None, snapshots'[token].objects = s.objects
    PROVE  \E new \in Client : /\ client' = [client EXCEPT ![c] = new]
                               /\ new.pc = "idle" /\ ClientExact(c)'
<1> DEFINE len == Len(s.objects)
           end == Examined(s.objects, offset, c)
           page == {s.objects[k] : k \in offset + 1 .. end} \cap Readable[c]
           all == view \cup page
           new == [NewClient EXCEPT !.view = all,
                      !.cursor = IF end = len
                                 THEN [epoch |-> epoch, sequence |-> s.cursor] ELSE None,
                      !.complete = (end = len),
                      !.token = IF end = len THEN None ELSE token,
                      !.offset = IF end = len THEN 0 ELSE end]
<1>1. /\ s.objects \in Seq(Digests) /\ len \in Nat /\ s.cursor \in Nat /\ epoch \in Nat
      /\ last \in Nat /\ client \in [Clients -> Client]
  BY ChangesAssumption DEF Snapshot, ChangesInv, OtherTypes, JournalTypes, SharedTypes
<1>2. end \in offset .. len /\ end \in Nat
  <2>1. offset \in 0 .. Len(s.objects)
    BY <1>1
  <2> QED BY <1>1, <2>1, ExaminedBetween
<1> HIDE DEF end
<1>3. all = {s.objects[k] : k \in 1 .. end} \cap Readable[c]
  <2>1. 1 .. end = (1 .. offset) \cup (offset + 1 .. end)
    BY <1>2
  <2> QED BY <2>1
<1>4. all \in SUBSET Digests
  <2>1. \A k \in 1 .. len : s.objects[k] \in Digests
    BY <1>1, ElementOfSeq
  <2>2. \A k \in 1 .. end : s.objects[k] \in Digests
    BY <1>1, <1>2, <2>1
  <2> QED BY <1>3, <2>2
<1> HIDE DEF page, all
<1>5. client' = [client EXCEPT ![c] = new]
  BY DEF TakesPage, Resumes, all, page, end
<1>6. [epoch |-> epoch, sequence |-> s.cursor] \in Cursor
  BY <1>1 DEF Cursor
<1>7. /\ new.pc = "idle" /\ new.view = all /\ (new.complete <=> end = len)
      /\ new.cursor = IF end = len THEN [epoch |-> epoch, sequence |-> s.cursor] ELSE None
      /\ new.token = (IF end = len THEN None ELSE token)
      /\ new.offset = (IF end = len THEN 0 ELSE end)
  BY DEF NewClient
<1>8. new \in Client
  BY <1>2, <1>4, <1>6 DEF NewClient, Client
<1> HIDE DEF new
<1>9. client'[c] = new /\ last' = last /\ epoch' = epoch /\ history' = history
  BY <1>1, <1>5 DEF ListFrame, journal
<1>10. CASE end = len
  <2>1. /\ new.token = None /\ new.complete /\ new.cursor # None
        /\ new.cursor.epoch = epoch /\ new.cursor.sequence = s.cursor
    BY <1>6, <1>7, <1>10, NoneAssumption
  <2>2. new.view = history[s.cursor + 1] \cap Readable[c]
    BY <1>3, <1>7, <1>10
  <2>3. epoch <= epoch
    BY <1>1
  <2>4. ClientExact(c)'
    BY <1>7, <1>9, <2>1, <2>2, <2>3
       DEF ClientExact, PagesGathered, CursorExact, CallExact, Attentive, AsOf
  <2> QED BY <1>5, <1>7, <1>8, <2>4
<1>11. CASE end # len
  <2>1. /\ new.token = token /\ new.cursor = None /\ ~new.complete /\ new.offset = end
        /\ end <= len
    BY <1>1, <1>2, <1>7, <1>11
  <2>2. PagesGathered(c)'
    BY <1>3, <1>7, <1>9, <2>1 DEF PagesGathered
  <2>3. CursorExact(c)' /\ CallExact(c)' /\ Attentive(c)'
    BY <1>7, <1>9, <2>1 DEF CursorExact, CallExact, Attentive
  <2> QED BY <1>5, <1>7, <1>8, <2>2, <2>3 DEF ClientExact
<1> QED BY <1>10, <1>11

\* A step of List, whatever becomes of its page.
LEMMA ListStepKeeps ==
    ASSUME ChangesInv, ListFrame, NEW c \in Clients, client[c].pc = "idle",
           snapshots' \in [Tokens -> Snapshot \cup {None}], SnapshotsFrozen',
           \A t \in Tokens : (\E x \in Clients \ {c} : client[x].token = t) =>
               \/ snapshots'[t] = None
               \/ snapshots[t] # None /\ snapshots'[t].objects = snapshots[t].objects,
           \/ Forgets(c)
           \/ \E new \in Client : /\ client' = [client EXCEPT ![c] = new]
                                  /\ new.pc = "idle" /\ ClientExact(c)'
    PROVE  ChangesInv'
<1>1. PICK new \in Client : /\ client' = [client EXCEPT ![c] = new]
                            /\ new.pc = "idle" /\ ClientExact(c)'
  <2>1. CASE Forgets(c)
    <3>1. client' = [client EXCEPT ![c] = NewClient] /\ client'[c] = NewClient
      BY <2>1 DEF Forgets, ChangesInv, SharedTypes
    <3> QED BY <3>1, ForgetsExact, NewClientTyped DEF NewClient
  <2> QED BY <2>1
<1>2. /\ client' \in [Clients -> Client] /\ client'[c] = new
      /\ \A x \in Clients \ {c} : client'[x] = client[x]
  BY <1>1 DEF ChangesInv, SharedTypes
<1>3. SharedTypes' /\ waiters' = waiters
  BY <1>2 DEF SharedTypes, ListFrame
<1>4. SlotsHeld'
  BY <1>1, <1>2, <1>3, SlotsAfter DEF ChangesInv, SharedTypes
<1> QED BY <1>1, <1>2, <1>3, <1>4, ClientStepKeeps DEF ListFrame

\* Sorted(known) is what a snapshot freezes.
LEMMA SortedKnown ==
    ASSUME ChangesInv
    PROVE  /\ Sorted(known) \in Seq(Digests)
           /\ {Sorted(known)[k] : k \in 1 .. Len(Sorted(known))} = history[last + 1]
<1>1. known \in SUBSET Digests /\ known \in SUBSET Nat /\ IsFiniteSet(known)
      /\ known = history[last + 1]
  BY ChangesAssumption, FS_Subset DEF ChangesInv, JournalTypes, JournalExact
<1> DEFINE objects == Sorted(known)
<1>2. /\ objects \in Seq(known) /\ \A d \in known : \E k \in 1 .. Len(objects) : objects[k] = d
  BY <1>1, SortedLists
<1> HIDE DEF objects
<1>3. objects \in Seq(Digests) /\ \A k \in 1 .. Len(objects) : objects[k] \in known
  BY <1>1, <1>2, SeqMonotonic, ElementOfSeq
<1>4. {objects[k] : k \in 1 .. Len(objects)} = known
  BY <1>2, <1>3
<1> QED BY <1>1, <1>3, <1>4 DEF objects

LEMMA ListFirstKeeps ==
    ASSUME ChangesInv, NEW c \in Clients, ListFirst(c)
    PROVE  ChangesInv'
<1> DEFINE s == [objects |-> Sorted(known), cursor |-> last, expires |-> now + SnapshotIdle]
<1>1. /\ client[c].pc = "idle" /\ ListFrame
      /\ \E t \in Tokens : /\ Fresh(t) /\ snapshots' = [Swept EXCEPT ![t] = s]
                           /\ TakesPage(c, t, snapshots'[t], 0, {}) \/ Forgets(c)
  BY DEF ListFirst
<1>2. PICK t \in Tokens : /\ Fresh(t) /\ snapshots' = [Swept EXCEPT ![t] = s]
                          /\ TakesPage(c, t, snapshots'[t], 0, {}) \/ Forgets(c)
  BY <1>1
<1>3. /\ s \in Snapshot /\ s.objects = Sorted(known) /\ s.cursor = last
      /\ last \in Nat /\ last <= last
      /\ {s.objects[k] : k \in 1 .. Len(s.objects)} = history[last + 1]
  <2>1. /\ Sorted(known) \in Seq(Digests) /\ last \in Nat
        /\ {Sorted(known)[k] : k \in 1 .. Len(Sorted(known))} = history[last + 1]
    BY SortedKnown DEF ChangesInv, JournalTypes
  <2>2. now + SnapshotIdle \in Nat
    BY ChangesAssumption DEF ChangesInv, OtherTypes
  <2> QED BY <2>1, <2>2 DEF Snapshot
<1> HIDE DEF s
<1>4. /\ snapshots \in [Tokens -> Snapshot \cup {None}]
      /\ Swept \in [Tokens -> Snapshot \cup {None}]
      /\ \A x \in Tokens : Swept[x] = None \/ Swept[x] = snapshots[x]
  BY SweptStay DEF ChangesInv, SharedTypes
<1>5. /\ snapshots' \in [Tokens -> Snapshot \cup {None}] /\ snapshots'[t] = s
      /\ \A x \in Tokens \ {t} : snapshots'[x] = None \/ snapshots'[x] = snapshots[x]
  BY <1>2, <1>3, <1>4
<1>6. last' = last /\ history' = history
  BY <1>1 DEF ListFrame, journal
<1>7. SnapshotsFrozen'
  <2> SUFFICES ASSUME NEW x \in Tokens, snapshots'[x] # None
               PROVE  /\ snapshots'[x].cursor <= last
                      /\ {snapshots'[x].objects[k] : k \in 1 .. Len(snapshots'[x].objects)}
                           = history[snapshots'[x].cursor + 1]
    BY <1>6 DEF SnapshotsFrozen
  <2>1. CASE x = t
    BY <1>3, <1>5, <2>1
  <2>2. CASE x # t
    <3>1. snapshots'[x] = snapshots[x]
      BY <1>5, <2>2
    <3> QED BY <3>1 DEF ChangesInv, SnapshotsFrozen
  <2> QED BY <2>1, <2>2
<1>8. \A x \in Tokens : (\E y \in Clients \ {c} : client[y].token = x) =>
          \/ snapshots'[x] = None
          \/ snapshots[x] # None /\ snapshots'[x].objects = snapshots[x].objects
  BY <1>2, <1>5 DEF Fresh
<1>9. ASSUME TakesPage(c, t, snapshots'[t], 0, {})
      PROVE  \E new \in Client : /\ client' = [client EXCEPT ![c] = new]
                                 /\ new.pc = "idle" /\ ClientExact(c)'
  <2>1. {} = {s.objects[k] : k \in 1 .. 0} \cap Readable[c]
    OBVIOUS
  <2>2. 0 \in Nat /\ 0 <= Len(s.objects) /\ s # None
    <3>1. Len(s.objects) \in Nat
      BY <1>3 DEF Snapshot
    <3> QED BY <1>3, <3>1, NoneAssumption
  <2> QED BY <1>1, <1>3, <1>5, <1>9, <2>1, <2>2, TakesPageExact
<1> QED BY <1>1, <1>2, <1>5, <1>7, <1>8, <1>9, ListStepKeeps

LEMMA ListNextKeeps ==
    ASSUME ChangesInv, NEW c \in Clients, ListNext(c)
    PROVE  ChangesInv'
<1> DEFINE t == client[c].token
           s == Swept[t]
<1>1. /\ client[c].pc = "idle" /\ t # None /\ ListFrame /\ s # None
      /\ snapshots' = [Swept EXCEPT ![t].expires = now + SnapshotIdle]
      /\ \/ TakesPage(c, t, s, client[c].offset, client[c].view)
         \/ Forgets(c)
  BY DEF ListNext
<1>2. client[c] \in Client /\ ClientExact(c) /\ t \in Tokens
  BY <1>1 DEF ChangesInv, SharedTypes, Client
<1>3. /\ Swept \in [Tokens -> Snapshot \cup {None}]
      /\ \A x \in Tokens : Swept[x] = None \/ Swept[x] = snapshots[x]
  BY SweptStay DEF ChangesInv, SharedTypes
<1> DEFINE kept == [s EXCEPT !.expires = now + SnapshotIdle]
<1>4. /\ s \in Snapshot /\ s = snapshots[t]
      /\ kept \in Snapshot /\ kept.objects = s.objects /\ kept.cursor = s.cursor
      /\ kept # None
  <2>1. s \in Snapshot /\ s = snapshots[t]
    BY <1>1, <1>2, <1>3
  <2>2. now + SnapshotIdle \in Nat
    BY ChangesAssumption DEF ChangesInv, OtherTypes
  <2> HIDE DEF s
  <2>3. kept \in Snapshot /\ kept.objects = s.objects /\ kept.cursor = s.cursor
    BY <2>1, <2>2 DEF Snapshot
  <2> QED BY <2>1, <2>3, NoneAssumption
<1>5. snapshots' = [Swept EXCEPT ![t] = kept]
  BY <1>1
<1> HIDE DEF kept, s
<1>6. /\ snapshots' \in [Tokens -> Snapshot \cup {None}] /\ snapshots'[t] = kept
      /\ \A x \in Tokens \ {t} : snapshots'[x] = None \/ snapshots'[x] = snapshots[x]
  BY <1>2, <1>3, <1>4, <1>5
<1>7. SnapshotsStay
  BY <1>1, <1>4, <1>6 DEF SnapshotsStay
<1>8. SnapshotsFrozen'
  <2>1. JournalGrows /\ last' \in Nat
    BY <1>1, JournalStays DEF ChangesInv, JournalTypes, journal, ListFrame
  <2> QED BY <1>7, <2>1, FrozenStays
<1>9. ASSUME TakesPage(c, t, s, client[c].offset, client[c].view)
      PROVE  \E new \in Client : /\ client' = [client EXCEPT ![c] = new]
                                 /\ new.pc = "idle" /\ ClientExact(c)'
  <2>1. /\ s.cursor <= last
        /\ {s.objects[k] : k \in 1 .. Len(s.objects)} = history[s.cursor + 1]
    BY <1>1, <1>2, <1>4 DEF ChangesInv, SnapshotsFrozen
  <2>2. /\ client[c].offset \in Nat /\ client[c].offset <= Len(s.objects)
        /\ client[c].view = {s.objects[k] : k \in 1 .. client[c].offset} \cap Readable[c]
    BY <1>1, <1>2, <1>4 DEF ClientExact, PagesGathered, Client
  <2>3. snapshots'[t] # None /\ snapshots'[t].objects = s.objects
    BY <1>4, <1>6
  <2> QED BY <1>1, <1>2, <1>4, <1>9, <2>1, <2>2, <2>3, TakesPageExact
<1>10. \A x \in Tokens : \/ snapshots'[x] = None
                         \/ snapshots[x] # None /\ snapshots'[x].objects = snapshots[x].objects
  BY <1>7 DEF SnapshotsStay
<1> QED BY <1>1, <1>6, <1>8, <1>9, <1>10, ListStepKeeps

LEMMA ListRefusedKeeps ==
    ASSUME ChangesInv, NEW c \in Clients, ListRefused(c)
    PROVE  ChangesInv'
<1>1. client[c].pc = "idle" /\ ListFrame /\ snapshots' = Swept /\ Forgets(c)
  BY DEF ListRefused
<1>2. snapshots' \in [Tokens -> Snapshot \cup {None}] /\ SnapshotsStay
  BY <1>1, SweptStay DEF ChangesInv, SharedTypes
<1>3. SnapshotsFrozen'
  <2>1. JournalGrows /\ last' \in Nat
    BY <1>1, JournalStays DEF ChangesInv, JournalTypes, journal, ListFrame
  <2> QED BY <1>2, <2>1, FrozenStays
<1>4. \A x \in Tokens : \/ snapshots'[x] = None
                        \/ snapshots[x] # None /\ snapshots'[x].objects = snapshots[x].objects
  BY <1>2 DEF SnapshotsStay
<1> QED BY <1>1, <1>2, <1>3, <1>4, ListStepKeeps

-----------------------------------------------------------------------------
(* Steps of the provider, and a new lifetime.                              *)

LEMMA PublishedKeeps ==
    ASSUME ChangesInv, NEW w \in Writers, Published(w)
    PROVE  ChangesInv'
<1>1. OtherTypes' /\ seen' \in SUBSET Digests
  BY ChangesAssumption DEF ChangesInv, OtherTypes, JournalTypes, Published, journal
<1>2. SnapshotsStay /\ snapshots' \in [Tokens -> Snapshot \cup {None}]
  BY SweptStay DEF Published, ChangesInv, SharedTypes
<1> QED BY <1>1, <1>2, OthersKeep DEF Published, journal

LEMMA ExternalKeeps ==
    ASSUME ChangesInv, ExternalPublish \/ ExternalRemove \/ Tick
    PROVE  ChangesInv'
<1>1. OtherTypes' /\ seen' \in SUBSET Digests
  <2> USE DEF ChangesInv, OtherTypes, JournalTypes, journal
  <2>1. CASE ExternalPublish
    BY <2>1, ChangesAssumption DEF ExternalPublish
  <2>2. CASE ExternalRemove
    BY <2>2, ChangesAssumption DEF ExternalRemove
  <2>3. CASE Tick
    BY <2>3, ChangesAssumption DEF Tick
  <2> QED BY <2>1, <2>2, <2>3
<1>2. SnapshotsStay /\ snapshots' \in [Tokens -> Snapshot \cup {None}]
  BY SweptStay DEF ExternalPublish, ExternalRemove, Tick, ChangesInv, SharedTypes
<1>3. UNCHANGED <<known, last, ring, notify, log, history, waiters, epoch, client, closed>>
  BY DEF ExternalPublish, ExternalRemove, Tick, journal
<1> QED BY <1>1, <1>2, <1>3, OthersKeep

LEMMA PollingKeeps ==
    ASSUME ChangesInv, PollReads \/ PollInfo \/ PollFails \/ SweepSnapshots \/ Close
    PROVE  ChangesInv'
<1>1. OtherTypes' /\ seen' \in SUBSET Digests
  <2> USE DEF ChangesInv, OtherTypes, JournalTypes, journal
  <2>1. CASE PollReads
    BY <2>1 DEF PollReads
  <2>2. CASE PollInfo
    BY <2>2 DEF PollInfo
  <2>3. CASE PollFails
    BY <2>3 DEF PollFails
  <2>4. CASE SweepSnapshots
    BY <2>4 DEF SweepSnapshots, ListFrame
  <2>5. CASE Close
    BY <2>5 DEF Close
  <2> QED BY <2>1, <2>2, <2>3, <2>4, <2>5
<1>2. SnapshotsStay /\ snapshots' \in [Tokens -> Snapshot \cup {None}]
  BY SweptStay DEF PollReads, PollInfo, PollFails, SweepSnapshots, Close, ChangesInv,
                   SharedTypes, SnapshotsStay
<1>3. UNCHANGED <<known, last, ring, notify, log, history, waiters, epoch, client>>
      /\ (closed => closed')
  BY DEF PollReads, PollInfo, PollFails, SweepSnapshots, Close, ListFrame, journal
<1> QED BY <1>1, <1>2, <1>3, OthersKeep

LEMMA CommittedKeeps ==
    ASSUME ChangesInv, NEW w \in Writers, Committed(w)
    PROVE  ChangesInv'
<1>1. committing[w] \in Digests /\ known \in SUBSET Digests
  BY DEF ChangesInv, OtherTypes, JournalTypes, Committed
<1>2. OtherTypes' /\ UNCHANGED <<closed, snapshots, waiters, epoch, client>>
  BY DEF ChangesInv, OtherTypes, Committed
<1>3. CASE closed
  <2>1. UNCHANGED <<known, last, ring, notify, log, history, seen>>
    BY <1>3 DEF Committed, journal
  <2>2. SnapshotsStay /\ snapshots' \in [Tokens -> Snapshot \cup {None}]
    BY <1>2, SweptStay DEF ChangesInv, SharedTypes
  <2>3. seen' \in SUBSET Digests
    BY <2>1 DEF ChangesInv, JournalTypes
  <2> QED BY <1>2, <2>1, <2>2, <2>3, OthersKeep
<1>4. CASE ~closed
  <2>1. Journal({}, New(committing[w]))
    BY <1>4 DEF Committed
  <2>2. New(committing[w]) \in SUBSET Digests /\ New(committing[w]) \cap known = {}
    BY <1>1 DEF New
  <2> QED BY <1>2, <2>1, <2>2, JournalingKeeps
<1> QED BY <1>3, <1>4

LEMMA PollDiffKeeps ==
    ASSUME ChangesInv, PollDiff
    PROVE  ChangesInv'
<1>1. OtherTypes' /\ UNCHANGED <<closed, snapshots, waiters, epoch, client>>
  BY DEF ChangesInv, OtherTypes, PollDiff
<1>2. CASE closed
  <2>1. UNCHANGED <<known, last, ring, notify, log, history, seen>>
    BY <1>2 DEF PollDiff, journal
  <2>2. SnapshotsStay /\ snapshots' \in [Tokens -> Snapshot \cup {None}]
    BY <1>1, SweptStay DEF ChangesInv, SharedTypes
  <2>3. seen' \in SUBSET Digests
    BY <2>1 DEF ChangesInv, JournalTypes
  <2> QED BY <1>1, <2>1, <2>2, <2>3, OthersKeep
<1>3. CASE ~closed
  <2>1. Journal(Gone, poller.listed \ known)
    BY <1>3 DEF PollDiff
  <2>2. /\ Gone \in SUBSET Digests /\ Gone \subseteq known
        /\ poller.listed \ known \in SUBSET Digests /\ (poller.listed \ known) \cap known = {}
    BY DEF Gone, ChangesInv, OtherTypes, JournalTypes
  <2> QED BY <1>1, <2>1, <2>2, JournalingKeeps
<1> QED BY <1>2, <1>3

\* A new lifetime: what clients hold of the earlier one is of an earlier epoch.
LEMMA RestartKeeps ==
    ASSUME ChangesInv, Restart
    PROVE  ChangesInv'
<1>1. OtherTypes'
  <2>1. MaxEpoch \in Nat
    BY ChangesAssumption
  <2>2. epoch' \in 0 .. MaxEpoch
    <3>1. epoch \in 0 .. MaxEpoch
      BY DEF ChangesInv, OtherTypes
    <3>2. epoch < MaxEpoch /\ epoch' = epoch + 1
      BY DEF Restart
    <3> QED BY <2>1, <3>1, <3>2
  <2>3. poller' \in [pc : {"idle", "info", "diff"}, listed : SUBSET Digests]
    BY DEF Restart
  <2>4. /\ store' \in SUBSET Digests
        /\ committing' \in [Writers -> Digests \cup {None}]
        /\ listing' \in BOOLEAN /\ closed' \in BOOLEAN
        /\ now' \in 0 .. MaxTime /\ steps' \in 0 .. MaxSteps
    BY DEF ChangesInv, OtherTypes, Restart
  <2> QED BY <2>2, <2>3, <2>4 DEF OtherTypes
<1>2. /\ store \in SUBSET Digests /\ epoch \in Nat /\ epoch' = epoch + 1
      /\ known' = store /\ history' = <<store>> /\ last' = 0 /\ ring' = <<>> /\ log' = <<>>
      /\ notify' = 0 /\ waiters' = 0 /\ seen' = store
  <2>1. store \in SUBSET Digests /\ epoch \in 0 .. MaxEpoch
    BY DEF ChangesInv, OtherTypes
  <2>2. /\ epoch' = epoch + 1
        /\ known' = store /\ history' = <<store>> /\ last' = 0 /\ ring' = <<>> /\ log' = <<>>
        /\ notify' = 0 /\ waiters' = 0 /\ seen' = store
    BY DEF Restart
  <2> QED BY <2>1, <2>2
<1>3. JournalTypes' /\ JournalExact'
  <2>1. /\ JournalTypes'
        /\ Len(log') = 0 /\ Len(ring') = 0 /\ Len(history') = 1 /\ history'[1] = store
    BY <1>2 DEF JournalTypes
  <2>2. Capacity \in Nat \ {0}
    BY ChangesAssumption
  <2>3. last' = Len(log') /\ Len(history') = last' + 1 /\ known' = history'[last' + 1]
    BY <1>2, <2>1
  <2>4. \A i \in 1 .. last' : FALSE
    BY <1>2
  <2>5. /\ Len(ring') = IF last' < Capacity THEN last' ELSE Capacity
        /\ \A i \in 1 .. Len(ring') : FALSE
    BY <1>2, <2>1, <2>2
  <2> QED BY <2>1, <2>3, <2>4, <2>5 DEF JournalExact
<1>4. SharedTypes'
  <2>1. client \in [Clients -> Client]
    BY DEF ChangesInv, SharedTypes
  <2>2. ASSUME NEW c \in Clients
        PROVE  client'[c] \in Client
    <3>1. client[c] \in Client
      BY <2>1
    <3> HIDE DEF Client
    <3>2. client'[c] = [client[c] EXCEPT !.pc = "idle", !.from = None, !.channel = 0]
      BY <2>1 DEF Restart
    <3>3. [client[c] EXCEPT !.pc = "idle", !.from = None, !.channel = 0] \in Client
      BY <3>1 DEF Client
    <3> QED BY <3>2, <3>3
  <2>3. DOMAIN client' = Clients /\ client' = [c \in Clients |-> client'[c]]
    BY DEF Restart
  <2>4. snapshots' \in [Tokens -> Snapshot \cup {None}]
    BY DEF Restart
  <2> QED BY <2>2, <2>3, <2>4 DEF SharedTypes
<1>5. SnapshotsFrozen'
  BY DEF Restart, SnapshotsFrozen
<1>6. ASSUME NEW c \in Clients
      PROVE  /\ client'[c].pc = "idle" /\ client'[c].token = client[c].token
             /\ client'[c].cursor = client[c].cursor /\ client'[c].complete = client[c].complete
             /\ client'[c].view = client[c].view
  BY DEF Restart, ChangesInv, SharedTypes, Client
<1>7. SlotsHeld'
  <2>1. {c \in Clients : client'[c].pc = "waiting"} = {}
    BY <1>6
  <2>2. Cardinality({c \in Clients : client'[c].pc = "waiting"}) = 0
    BY <2>1, FS_EmptySet
  <2>3. MaxChangeWaiters \in Nat
    BY ChangesAssumption
  <2> QED BY <1>2, <2>2, <2>3 DEF SlotsHeld
<1>8. ASSUME NEW c \in Clients
      PROVE  ClientExact(c)'
  <2>1. ClientExact(c) /\ client[c] \in Client
    BY DEF ChangesInv, SharedTypes
  <2>2. PagesGathered(c)'
    <3>1. client[c].token # None => client[c].token \in Tokens
      BY <2>1 DEF Client
    <3>2. \A t \in Tokens : snapshots'[t] = None
      BY DEF Restart
    <3> QED BY <1>6, <2>1, <3>1, <3>2 DEF ClientExact, PagesGathered
  <2>3. CursorExact(c)'
    <3>1. client[c].cursor # None => client[c].cursor.epoch \in Nat /\ client[c].cursor.epoch <= epoch
      BY <2>1 DEF Client, Cursor, ClientExact, CursorExact
    <3>2. client[c].cursor # None =>
             client[c].cursor.epoch <= epoch + 1 /\ client[c].cursor.epoch # epoch + 1
      BY <1>2, <3>1
    <3> QED BY <1>2, <1>6, <2>1, <3>2 DEF ClientExact, CursorExact
  <2>4. CallExact(c)' /\ Attentive(c)'
    BY <1>6 DEF CallExact, Attentive
  <2> QED BY <2>2, <2>3, <2>4 DEF ClientExact
<1> QED BY <1>1, <1>3, <1>4, <1>5, <1>7, <1>8 DEF ChangesInv

LEMMA InitExact ==
    ASSUME Init
    PROVE  ChangesInv
<1>0. MaxEpoch \in Nat /\ MaxTime \in Nat /\ MaxSteps \in Nat /\ Capacity \in Nat \ {0}
      /\ MaxChangeWaiters \in Nat
  BY ChangesAssumption
<1>1. OtherTypes /\ JournalTypes /\ JournalExact
  <2>1. OtherTypes
    <3>1. poller \in [pc : {"idle", "info", "diff"}, listed : SUBSET Digests]
      BY DEF Init
    <3>2. epoch = 0 /\ now = 0 /\ steps = 0
      BY DEF Init
    <3>3. /\ store \in SUBSET Digests
          /\ committing \in [Writers -> Digests \cup {None}]
          /\ listing \in BOOLEAN /\ closed \in BOOLEAN
      BY DEF Init
    <3> QED BY <1>0, <3>1, <3>2, <3>3 DEF OtherTypes
  <2>2. JournalTypes
    BY DEF Init, JournalTypes
  <2>3. JournalExact
    BY <1>0 DEF Init, JournalExact
  <2> QED BY <2>1, <2>2, <2>3
<1>2. SharedTypes /\ SnapshotsFrozen
  BY NewClientTyped DEF Init, SharedTypes, SnapshotsFrozen
<1>3. \A c \in Clients : client[c] = NewClient
  BY DEF Init
<1>4. SlotsHeld
  <2>1. {c \in Clients : client[c].pc = "waiting"} = {}
    BY <1>3 DEF NewClient
  <2>2. Cardinality({c \in Clients : client[c].pc = "waiting"}) = 0
    BY <2>1, FS_EmptySet
  <2> QED BY <1>0, <2>2 DEF SlotsHeld, Init
<1>5. \A c \in Clients : ClientExact(c)
  BY <1>3 DEF ClientExact, PagesGathered, CursorExact, CallExact, Attentive, NewClient
<1> QED BY <1>1, <1>2, <1>4, <1>5 DEF ChangesInv

LEMMA StutterKeeps ==
    ASSUME ChangesInv, UNCHANGED vars
    PROVE  ChangesInv'
<1>1. /\ UNCHANGED <<known, last, ring, notify, log, history, waiters, epoch, client>>
      /\ (closed => closed') /\ seen' = seen
  BY DEF vars, journal
<1>2. OtherTypes'
  BY DEF ChangesInv, OtherTypes, vars
<1>3. SnapshotsStay /\ snapshots' \in [Tokens -> Snapshot \cup {None}]
  BY SweptStay DEF ChangesInv, SharedTypes, vars
<1> QED BY <1>1, <1>2, <1>3, OthersKeep DEF ChangesInv, JournalTypes

LEMMA StepKeeps ==
    ASSUME ChangesInv, [Next]_vars
    PROVE  ChangesInv'
<1>1. CASE Next
  <2>1. CASE \E w \in Writers : Published(w) \/ Committed(w)
    BY <2>1, PublishedKeeps, CommittedKeeps
  <2>2. CASE Poll \/ SweepSnapshots \/ Close
    BY <2>2, PollingKeeps, PollDiffKeeps DEF Poll
  <2>3. CASE \E c \in Clients : List(c)
    BY <2>3, ListFirstKeeps, ListNextKeeps, ListRefusedKeeps DEF List
  <2>4. CASE \E c \in Clients : Observes(c)
    BY <2>4, ObservesKeeps
  <2>5. CASE ExternalPublish \/ ExternalRemove \/ Tick
    BY <2>5, ExternalKeeps
  <2>6. CASE Restart
    BY <2>6, RestartKeeps
  <2> QED BY <1>1, <2>1, <2>2, <2>3, <2>4, <2>5, <2>6 DEF Next
<1>2. CASE UNCHANGED vars
  BY <1>2, StutterKeeps
<1> QED BY <1>1, <1>2

\* The invariant holds in every state: views, cursors, snapshots and calls of
\* every client agree with the one history of the lifetime (changes.go).
THEOREM ChangesInvHolds == Spec => []ChangesInv
<1>1. Init => ChangesInv
  BY InitExact
<1>2. ChangesInv /\ [Next]_vars => ChangesInv'
  BY StepKeeps
<1> QED BY <1>1, <1>2, PTL DEF Spec

\* What a client has gathered is what its policy lets it see of the state its
\* cursor names, whatever was journaled, trimmed, swept or restarted since.
THEOREM ViewsExactHolds == Spec => []ViewsExact
<1>1. ChangesInv => ViewsExact
  BY InvariantMeans
<1> QED BY <1>1, ChangesInvHolds, PTL

\* The journal explains every known object and retains its last changes in
\* sequence (STO-O1, STO-O2).
THEOREM JournalExactHolds == Spec => []JournalExact
<1>1. ChangesInv => JournalExact
  BY InvariantMeans
<1> QED BY <1>1, ChangesInvHolds, PTL

\* No change is slept through, for any number of clients and slots.
THEOREM NoLostWakeupHolds == Spec => []NoLostWakeup
<1>1. ChangesInv => NoLostWakeup
  BY InvariantMeans
<1> QED BY <1>1, ChangesInvHolds, PTL

\* Every slot in use is a call that waits, and they are at most the limit (STO-O4).
THEOREM SlotsHeldHolds == Spec => []SlotsHeld
<1>1. ChangesInv => SlotsHeld
  BY InvariantMeans
<1> QED BY <1>1, ChangesInvHolds, PTL

-----------------------------------------------------------------------------
(* The journal implements the change feed.                                 *)

\* What a client stands for, case by case.
LEMMA ReplicaCases ==
    ASSUME NEW c \in Clients
    PROVE  /\ client[c].complete =>
                ReplicaOf(c) = [stage |-> "following", epoch |-> client[c].cursor.epoch,
                                at |-> client[c].cursor.sequence + 1, view |-> client[c].view]
           /\ /\ ~client[c].complete /\ client[c].token # None
              /\ snapshots[client[c].token] # None
              => ReplicaOf(c) = [stage |-> "gathering", epoch |-> epoch,
                                 at |-> snapshots[client[c].token].cursor + 1, view |-> {}]
           /\ /\ ~client[c].complete
              /\ client[c].token = None \/ snapshots[client[c].token] = None
              => ReplicaOf(c) = None
  BY DEF ReplicaOf

LEMMA ReplicaCasesAfter ==
    ASSUME NEW c \in Clients
    PROVE  /\ client'[c].complete =>
                ReplicaOf(c)' = [stage |-> "following", epoch |-> client'[c].cursor.epoch,
                                 at |-> client'[c].cursor.sequence + 1, view |-> client'[c].view]
           /\ /\ ~client'[c].complete /\ client'[c].token # None
              /\ snapshots'[client'[c].token] # None
              => ReplicaOf(c)' = [stage |-> "gathering", epoch |-> epoch',
                                  at |-> snapshots'[client'[c].token].cursor + 1, view |-> {}]
           /\ /\ ~client'[c].complete
              /\ client'[c].token = None \/ snapshots'[client'[c].token] = None
              => ReplicaOf(c)' = None
  BY DEF ReplicaOf

\* A client with a page or more to come, and one that has them all, is not None.
LEMMA ReplicaThere ==
    ASSUME ChangesInv, NEW c \in Clients
    PROVE  /\ client[c].complete => ReplicaOf(c) # None /\ ReplicaOf(c).stage = "following"
           /\ /\ ~client[c].complete /\ client[c].token # None
              /\ snapshots[client[c].token] # None
              => ReplicaOf(c) # None /\ ReplicaOf(c).stage = "gathering"
<1>1. client[c] \in Client /\ ClientExact(c) /\ epoch \in Nat
  BY ChangesAssumption DEF ChangesInv, SharedTypes, OtherTypes
<1>2. ASSUME client[c].complete
      PROVE  ReplicaOf(c) # None /\ ReplicaOf(c).stage = "following"
  <2>1. client[c].cursor \in Cursor /\ client[c].view \in SUBSET Digests
    BY <1>1, <1>2 DEF Client, ClientExact, CursorExact
  <2>2. ReplicaOf(c) \in Feed!Replica /\ ReplicaOf(c).stage = "following"
    BY <1>2, <2>1, ReplicaCases DEF Feed!Replica, Cursor
  <2> QED BY <2>2, NoneAssumption
<1>3. ASSUME ~client[c].complete, client[c].token # None, snapshots[client[c].token] # None
      PROVE  ReplicaOf(c) # None /\ ReplicaOf(c).stage = "gathering"
  <2>1. snapshots[client[c].token].cursor \in Nat
    BY <1>1, <1>3 DEF Client, ChangesInv, SharedTypes, Snapshot
  <2>2. ReplicaOf(c) \in Feed!Replica /\ ReplicaOf(c).stage = "gathering"
    BY <1>1, <1>3, <2>1, ReplicaCases DEF Feed!Replica
  <2> QED BY <2>2, NoneAssumption
<1> QED BY <1>2, <1>3

\* What one client does in a step of the feed.
Moves(c) ==
    \/ ReplicaOf(c)' = ReplicaOf(c)
    \/ Feed!Asks(c) \/ Feed!Gathers(c) \/ Feed!Follows(c) \/ Feed!Loses(c)

LEMMA MovesMakeStep ==
    ASSUME UNCHANGED <<epoch, history>>, \A c \in Clients : Moves(c)
    PROVE  Feed!Next
<1>1. \A c \in Clients : \/ [x \in Clients |-> ReplicaOf(x)]'[c] = [x \in Clients |-> ReplicaOf(x)][c]
                         \/ Feed!Asks(c) \/ Feed!Gathers(c) \/ Feed!Follows(c) \/ Feed!Loses(c)
  BY DEF Moves
<1>2. DOMAIN [x \in Clients |-> ReplicaOf(x)]' = Clients
  OBVIOUS
<1> QED BY <1>1, <1>2 DEF Feed!Next, Feed!ClientsMove

LEMMA LosesAll ==
    ASSUME NEW c \in Clients, ReplicaOf(c)' = None
    PROVE  Moves(c)
  BY DEF Moves, Feed!Loses

\* A client that does not move may lose the snapshot it pages through.
LEMMA OthersMove ==
    ASSUME ChangesInv, NEW c \in Clients, client'[c] = client[c], epoch' = epoch,
           client[c].token # None =>
               LET t == client[c].token
               IN  \/ snapshots'[t] = None
                   \/ /\ snapshots[t] # None
                      /\ snapshots'[t].cursor = snapshots[t].cursor
    PROVE  ReplicaOf(c)' = ReplicaOf(c) \/ ReplicaOf(c)' = None
<1>1. CASE client[c].complete
  BY <1>1, ReplicaCases, ReplicaCasesAfter
<1>2. CASE ~client[c].complete /\ client[c].token # None /\ snapshots'[client[c].token] # None
  BY <1>2, ReplicaCases, ReplicaCasesAfter
<1>3. CASE ~client[c].complete /\ (client[c].token = None \/ snapshots'[client[c].token] = None)
  BY <1>3, ReplicaCasesAfter
<1> QED BY <1>1, <1>2, <1>3

\* Nothing of what a client stands for changes.
LEMMA ReplicasStay ==
    ASSUME UNCHANGED <<epoch, client, snapshots>>
    PROVE  [c \in Clients |-> ReplicaOf(c)]' = [c \in Clients |-> ReplicaOf(c)]
<1>1. ASSUME NEW c \in Clients
      PROVE  ReplicaOf(c)' = ReplicaOf(c)
  BY DEF ReplicaOf
<1> QED BY <1>1

LEMMA QuietStep ==
    ASSUME UNCHANGED <<epoch, client, snapshots, history>>
    PROVE  UNCHANGED Feed!feed
  BY ReplicasStay DEF Feed!feed

\* A change that is of its kind makes one difference.
LEMMA AppliedChangesOne ==
    ASSUME NEW S \in SUBSET Digests, NEW ch \in Change,
           ch.kind = "added" <=> ch.digest \notin S
    PROVE  Feed!OneChange(S, Applied(S, {ch}))
<1> DEFINE T == Applied(S, {ch})
<1>1. T = IF ch.kind = "added" THEN S \cup {ch.digest} ELSE S \ {ch.digest}
  BY AppliedOne
<1> HIDE DEF T
<1>2. (S \ T) \cup (T \ S) = {ch.digest} /\ ch.digest \in Digests
  BY <1>1 DEF Change
<1>3. Feed!OneChange(S, T)
  BY <1>2 DEF Feed!OneChange
<1> QED BY <1>3 DEF T

\* Whatever the journal appends is a series of changes of the feed.
LEMMA GrowingChanges ==
    ASSUME JournalTypes, JournalExact, JournalTypes', JournalExact', JournalGrows,
           UNCHANGED <<epoch, client, snapshots>>
    PROVE  Feed!Changes \/ UNCHANGED Feed!feed
<1>0. last \in Nat /\ last' \in Nat /\ last <= last'
  BY DEF JournalTypes, JournalGrows
<1>1. /\ Len(history) = last + 1 /\ Len(history') = last' + 1
      /\ history \in Seq(SUBSET Digests) /\ history' \in Seq(SUBSET Digests)
      /\ \A i \in 1 .. last + 1 : history'[i] = history[i]
  BY DEF JournalTypes, JournalExact, JournalGrows
<1>2. CASE last' = last
  <2>1. history' = history
    BY <1>2 DEF JournalGrows
  <2> QED BY <2>1, QuietStep
<1>3. CASE last' # last
  <2>1. Len(history') > Len(history)
    <3>1. \A m, n \in Nat : m <= n /\ n # m => n + 1 > m + 1
      OBVIOUS
    <3>2. last' + 1 > last + 1
      BY <1>0, <1>3, <3>1
    <3> QED BY <1>1, <3>2
  <2>2. SubSeq(history', 1, Len(history)) = history
    <3> DEFINE part == SubSeq(history', 1, last + 1)
    <3>1. \A i \in 1 .. last + 1 : history'[i] \in SUBSET Digests
      BY <1>0, <1>1, ElementOfSeq
    <3>2. /\ part \in Seq(SUBSET Digests) /\ Len(part) = last + 1
          /\ \A i \in 1 .. last + 1 : part[i] = history'[i]
      <4>1. 1 \in Int /\ last + 1 \in Int /\ 1 <= last + 1 /\ (last + 1) - 1 + 1 = last + 1
        BY <1>0
      <4>2. /\ part \in Seq(SUBSET Digests) /\ Len(part) = last + 1
            /\ \A i \in 1 .. (last + 1) - 1 + 1 : part[i] = history'[1 + i - 1]
        BY <3>1, <4>1, SubSeqProperties
      <4> HIDE DEF part
      <4>3. \A i \in 1 .. last + 1 : 1 + i - 1 = i
        BY <1>0
      <4> QED BY <4>1, <4>2, <4>3
    <3> HIDE DEF part
    <3>3. part = history
      BY <1>0, <1>1, <3>2, SeqEqual
    <3> QED BY <1>1, <3>3 DEF part
  <2>3. ASSUME NEW i \in Len(history) .. Len(history') - 1
        PROVE  /\ history'[i + 1] \subseteq Digests
               /\ Feed!OneChange(history'[i], history'[i + 1])
    <3>1. /\ i \in 1 .. last' /\ i \in 1 .. Len(log') /\ log' \in Seq(Change)
          /\ i \in 1 .. Len(history') /\ i + 1 \in 1 .. Len(history')
      BY <1>0, <1>1 DEF JournalTypes, JournalExact
    <3>2. /\ history'[i] \in SUBSET Digests /\ history'[i + 1] \in SUBSET Digests
          /\ log'[i] \in Change
      BY <1>1, <3>1, ElementOfSeq
    <3>3. /\ log'[i].kind = "added" <=> log'[i].digest \notin history'[i]
          /\ history'[i + 1] = Applied(history'[i], {log'[i]})
      BY <3>1 DEF JournalExact
    <3> QED BY <3>2, <3>3, AppliedChangesOne
  <2>4. [c \in Clients |-> ReplicaOf(c)]' = [c \in Clients |-> ReplicaOf(c)]
    BY ReplicasStay
  <2> QED BY <2>1, <2>2, <2>3, <2>4 DEF Feed!Changes
<1> QED BY <1>2, <1>3

\* A call that is refused, or is somewhere on its way, changes no replica.
LEMMA ReplicaKept ==
    ASSUME NEW c \in Clients, epoch' = epoch, snapshots' = snapshots,
           client'[c].complete <=> client[c].complete, client'[c].cursor = client[c].cursor,
           client'[c].view = client[c].view, client'[c].token = client[c].token
    PROVE  Moves(c)
<1>1. ReplicaOf(c)' = ReplicaOf(c)
  BY ReplicaCases, ReplicaCasesAfter
<1> QED BY <1>1 DEF Moves

\* Where one client moves, the feed takes a step.
LEMMA OneMoves ==
    ASSUME ChangesInv, NEW c \in Clients, UNCHANGED <<epoch, history>>,
           \A x \in Clients \ {c} : client'[x] = client[x],
           \A t \in Tokens : (\E x \in Clients \ {c} : client[x].token = t) =>
               \/ snapshots'[t] = None
               \/ snapshots[t] # None /\ snapshots'[t].cursor = snapshots[t].cursor,
           Moves(c)
    PROVE  Feed!Next
<1>1. ASSUME NEW x \in Clients, x # c
      PROVE  Moves(x)
  <2>1. client[x].token \in Tokens \cup {None} /\ client'[x] = client[x]
    BY <1>1 DEF ChangesInv, SharedTypes, Client
  <2>2. ReplicaOf(x)' = ReplicaOf(x) \/ ReplicaOf(x)' = None
    BY <1>1, <2>1, OthersMove
  <2> QED BY <2>2, LosesAll DEF Moves
<1> QED BY <1>1, MovesMakeStep

LEMMA ForgetsLoses ==
    ASSUME NEW c \in Clients, client'[c] = NewClient
    PROVE  Moves(c)
<1>1. ReplicaOf(c)' = None
  BY ReplicaCasesAfter DEF NewClient
<1> QED BY <1>1, LosesAll

\* A step of Observe, of which only the answer moves a replica.
LEMMA ObserveMoves ==
    ASSUME ChangesInv, ObserveFrame, NEW c \in Clients, NEW new,
           client' = [client EXCEPT ![c] = new], Moves(c)
    PROVE  Feed!Next
<1>1. /\ \A x \in Clients \ {c} : client'[x] = client[x]
      /\ UNCHANGED <<epoch, history, snapshots>>
  BY DEF ChangesInv, SharedTypes, ObserveFrame, journal
<1>2. \A t \in Tokens : \/ snapshots'[t] = None
                        \/ snapshots[t] # None /\ snapshots'[t].cursor = snapshots[t].cursor
  BY <1>1
<1> QED BY <1>1, <1>2, OneMoves

\* An answer brings a client that has all pages to a later state, or leaves it.
LEMMA AnsweredMoves ==
    ASSUME ChangesInv, ChangesInv', ObserveFrame, NEW c \in Clients, Collects(c),
           ~Lost(From(c)), NEW page, page = Page(c, From(c)), Answered(c, page)
    PROVE  Moves(c)
<1>1. /\ client[c] \in Client /\ client \in [Clients -> Client] /\ ClientExact(c)
      /\ JournalTypes /\ JournalExact /\ ClientExact(c)'
      /\ UNCHANGED <<epoch, history, last, snapshots>>
  BY DEF ChangesInv, SharedTypes, ObserveFrame, journal
<1>2. /\ From(c) \in Cursor /\ client[c].token = None
      /\ From(c).epoch = epoch /\ From(c).sequence <= last
      /\ client[c].cursor # None => client[c].cursor.epoch = epoch
                                    /\ client[c].cursor.sequence <= From(c).sequence
      /\ client[c].complete => client[c].cursor # None
  BY FromExact DEF Lost
<1>3. PageExact(page, c, From(c))
  BY <1>1, <1>2, PagesExact
<1>4. /\ client'[c].complete <=> client[c].complete
      /\ client'[c].cursor = page.next /\ client'[c].token = None
  BY <1>1, <1>2 DEF Answered, Client
<1>5. CASE ~client[c].complete
  <2>1. ReplicaOf(c)' = None
    BY <1>4, <1>5, ReplicaCasesAfter
  <2> QED BY <2>1, LosesAll
<1>6. CASE client[c].complete
  <2> DEFINE a == client[c].cursor.sequence
             b == page.next.sequence
  <2>1. /\ client[c].cursor # None /\ client[c].cursor \in Cursor
        /\ client[c].cursor.epoch = epoch /\ page.next.epoch = epoch
        /\ a \in Nat /\ b \in Nat /\ a <= b /\ b <= last /\ last \in Nat
    <3>1. client[c].cursor # None /\ client[c].cursor \in Cursor
      BY <1>1, <1>2, <1>6 DEF Client
    <3>2. From(c).sequence \in Nat /\ b \in Nat /\ a \in Nat /\ last \in Nat
      BY <1>1, <1>2, <1>3, <3>1 DEF PageExact, Cursor, JournalTypes
    <3>3. a <= From(c).sequence /\ From(c).sequence <= b /\ b <= last
      BY <1>2, <1>3, <3>1 DEF PageExact
    <3>4. client[c].cursor.epoch = epoch /\ page.next.epoch = epoch
      BY <1>2, <1>3, <3>1 DEF PageExact
    <3> HIDE DEF a, b
    <3>5. a <= b
      BY <3>2, <3>3
    <3> QED BY <3>1, <3>2, <3>3, <3>4, <3>5
  <2>2. client[c].view = AsOf(c, a)
    BY <1>1, <1>6, <2>1 DEF ClientExact, CursorExact
  <2>3. client'[c].view = AsOf(c, b)
    BY <1>1, <1>4, <1>6, <2>1 DEF ClientExact, CursorExact, AsOf
  <2>4. /\ ReplicaOf(c) = [stage |-> "following", epoch |-> epoch, at |-> a + 1,
                           view |-> AsOf(c, a)]
        /\ ReplicaOf(c)' = [stage |-> "following", epoch |-> epoch, at |-> b + 1,
                            view |-> AsOf(c, b)]
    BY <1>1, <1>4, <1>6, <2>1, <2>2, <2>3, ReplicaCases, ReplicaCasesAfter
  <2>5. CASE a = b
    BY <2>4, <2>5 DEF Moves
  <2>6. CASE a # b
    <3>1. ReplicaOf(c) # None
      BY <1>6, ReplicaThere
    <3>2. Len(history) = last + 1
      BY <1>1 DEF JournalExact
    <3>3. b + 1 \in (a + 1) + 1 .. last + 1
      <4> HIDE DEF a, b
      <4> QED BY <2>1, <2>6
    <3>4. ReplicaOf(c)' = Feed!Following(c, b + 1)
      BY <2>4 DEF Feed!Following, AsOf
    <3>5. Feed!Follows(c)
      BY <2>4, <3>1, <3>2, <3>3, <3>4 DEF Feed!Follows
    <3> QED BY <3>5 DEF Moves
  <2> QED BY <2>5, <2>6
<1> QED BY <1>5, <1>6

LEMMA RefusedMoves ==
    ASSUME ChangesInv, ObserveFrame, NEW c \in Clients, Refused(c)
    PROVE  Feed!Next
<1>1. client[c] \in Client /\ client \in [Clients -> Client]
  BY DEF ChangesInv, SharedTypes
<1> DEFINE new == [client[c] EXCEPT !.pc = "idle", !.from = None, !.channel = 0]
<1>2. client' = [client EXCEPT ![c] = new]
  BY <1>1 DEF Refused
<1>3. /\ client'[c].complete <=> client[c].complete
      /\ client'[c].cursor = client[c].cursor
      /\ client'[c].view = client[c].view /\ client'[c].token = client[c].token
  BY <1>1, <1>2 DEF Client
<1>4. Moves(c)
  BY <1>3, ReplicaKept DEF ObserveFrame
<1> QED BY <1>2, <1>4, ObserveMoves

\* A call that goes on without an answer.
LEMMA CallGoesOn ==
    ASSUME ChangesInv, ObserveFrame, NEW c \in Clients, NEW new \in Client,
           client' = [client EXCEPT ![c] = new],
           new.complete <=> client[c].complete, new.cursor = client[c].cursor,
           new.view = client[c].view, new.token = client[c].token
    PROVE  Feed!Next
<1>1. client'[c] = new
  BY DEF ChangesInv, SharedTypes
<1>2. Moves(c)
  BY <1>1, ReplicaKept DEF ObserveFrame
<1> QED BY <1>2, ObserveMoves

LEMMA ObserveEndSteps ==
    ASSUME ChangesInv, NEW c \in Clients, ObserveEnd(c)
    PROVE  Feed!Next
<1> DEFINE new == [client[c] EXCEPT !.pc = "end", !.from = [epoch |-> epoch, sequence |-> last]]
<1>1. client[c] \in Client /\ epoch \in Nat /\ last \in Nat
  BY ChangesAssumption DEF ChangesInv, SharedTypes, OtherTypes, JournalTypes
<1>2. /\ new \in Client /\ (new.complete <=> client[c].complete)
      /\ new.cursor = client[c].cursor /\ new.view = client[c].view
      /\ new.token = client[c].token
  BY <1>1 DEF Client, Cursor
<1>3. client' = [client EXCEPT ![c] = new] /\ ObserveFrame
  BY DEF ObserveEnd
<1> HIDE DEF new
<1> QED BY <1>2, <1>3, CallGoesOn

LEMMA ObserveSteps ==
    ASSUME ChangesInv, ChangesInv', NEW c \in Clients, Observe(c)
    PROVE  Feed!Next
<1> DEFINE page == Page(c, From(c))
           new == [client[c] EXCEPT !.pc = "slot", !.from = page.next, !.channel = notify]
<1>1. /\ Collects(c) /\ ~Lost(From(c)) /\ ObserveFrame /\ client \in [Clients -> Client]
      /\ JournalTypes /\ JournalExact /\ client[c] \in Client
  BY DEF Observe, ChangesInv, SharedTypes
<1>2. CASE Answered(c, page)
  <2> DEFINE answered == [client[c] EXCEPT !.pc = "idle", !.from = None, !.channel = 0,
                                           !.cursor = page.next,
                                           !.view = Applied(client[c].view, page.changes)]
  <2>1. Moves(c)
    BY <1>1, <1>2, AnsweredMoves
  <2>2. client' = [client EXCEPT ![c] = answered]
    BY <1>1, <1>2 DEF Answered
  <2> QED BY <1>1, <2>1, <2>2, ObserveMoves
<1>3. CASE client' = [client EXCEPT ![c].pc = "slot", ![c].from = page.next,
                                    ![c].channel = notify]
  <2>1. page.next \in Cursor
    <3>1. From(c) \in Cursor /\ From(c).sequence <= last
      BY <1>1, FromExact DEF Lost
    <3> QED BY <1>1, <3>1, PagesExact DEF PageExact
  <2>2. /\ new \in Client /\ (new.complete <=> client[c].complete)
        /\ new.cursor = client[c].cursor /\ new.view = client[c].view
        /\ new.token = client[c].token /\ client' = [client EXCEPT ![c] = new]
    <3> HIDE DEF page
    <3> QED BY <1>1, <1>3, <2>1 DEF Client, JournalTypes
  <2> HIDE DEF new
  <2> QED BY <1>1, <2>2, CallGoesOn
<1>4. CASE Refused(c)
  BY <1>1, <1>4, RefusedMoves
<1> QED BY <1>2, <1>3, <1>4 DEF Observe

LEMMA ObserveGapSteps ==
    ASSUME ChangesInv, NEW c \in Clients, ObserveGap(c)
    PROVE  Feed!Next
<1>1. client' = [client EXCEPT ![c] = NewClient] /\ ObserveFrame /\ client'[c] = NewClient
  BY DEF ObserveGap, Forgets, ChangesInv, SharedTypes
<1> QED BY <1>1, ForgetsLoses, ObserveMoves

LEMMA ObserveSlotSteps ==
    ASSUME ChangesInv, NEW c \in Clients, ObserveSlot(c)
    PROVE  Feed!Next
<1> DEFINE new == [client[c] EXCEPT !.pc = "waiting"]
<1>1. client[c] \in Client /\ ObserveFrame
  BY DEF ChangesInv, SharedTypes, ObserveSlot
<1>2. CASE client' = [client EXCEPT ![c].pc = "waiting"]
  <2>1. /\ new \in Client /\ (new.complete <=> client[c].complete)
        /\ new.cursor = client[c].cursor /\ new.view = client[c].view
        /\ new.token = client[c].token /\ client' = [client EXCEPT ![c] = new]
    BY <1>1, <1>2 DEF Client
  <2> HIDE DEF new
  <2> QED BY <1>1, <2>1, CallGoesOn
<1>3. CASE Refused(c)
  BY <1>1, <1>3, RefusedMoves
<1> QED BY <1>2, <1>3 DEF ObserveSlot

LEMMA ObserveWakesSteps ==
    ASSUME ChangesInv, NEW c \in Clients, ObserveWakes(c)
    PROVE  Feed!Next
<1> DEFINE new == [client[c] EXCEPT !.pc = "again", !.channel = 0]
<1>1. client[c] \in Client /\ ObserveFrame
  BY DEF ChangesInv, SharedTypes, ObserveWakes
<1>2. /\ new \in Client /\ (new.complete <=> client[c].complete)
      /\ new.cursor = client[c].cursor /\ new.view = client[c].view
      /\ new.token = client[c].token /\ client' = [client EXCEPT ![c] = new]
  BY <1>1 DEF ObserveWakes, Client
<1> HIDE DEF new
<1> QED BY <1>1, <1>2, CallGoesOn

LEMMA ObservesSteps ==
    ASSUME ChangesInv, ChangesInv', NEW c \in Clients, Observes(c)
    PROVE  Feed!Next
<1>1. CASE ObserveRefused(c) \/ ObserveCancelled(c)
  <2>1. Refused(c) /\ ObserveFrame
    BY <1>1 DEF ObserveRefused, ObserveCancelled
  <2> QED BY <2>1, RefusedMoves
<1> QED BY <1>1, ObserveEndSteps, ObserveSteps, ObserveGapSteps, ObserveSlotSteps,
           ObserveWakesSteps DEF Observes

\* A page of a snapshot: the client goes on gathering, or has the whole state.
LEMMA TakesPageMoves ==
    ASSUME ChangesInv, ChangesInv', ListFrame, NEW c \in Clients, NEW token \in Tokens,
           NEW s, NEW offset, NEW view, TakesPage(c, token, s, offset, view),
           snapshots'[token] # None, snapshots'[token].cursor = s.cursor
    PROVE  ReplicaOf(c)' \in {Feed!Gathering(s.cursor + 1), Feed!Following(c, s.cursor + 1)}
<1> DEFINE len == Len(s.objects)
           end == Examined(s.objects, offset, c)
<1>1. /\ client \in [Clients -> Client] /\ ClientExact(c)' /\ token # None
      /\ epoch' = epoch /\ history' = history
  BY ChangesAssumption DEF ChangesInv, SharedTypes, ListFrame, journal
<1> HIDE DEF len, end
<1>2. /\ client'[c].complete <=> end = len
      /\ client'[c].cursor = IF end = len THEN [epoch |-> epoch, sequence |-> s.cursor] ELSE None
      /\ client'[c].token = (IF end = len THEN None ELSE token)
  BY <1>1 DEF TakesPage, Resumes, NewClient, len, end
<1>3. CASE end = len
  <2>1. /\ client'[c].complete /\ client'[c].cursor.epoch = epoch
        /\ client'[c].cursor.sequence = s.cursor
    BY <1>2, <1>3
  <2>2. client'[c].view = history[s.cursor + 1] \cap Readable[c]
    BY <1>1, <2>1 DEF ClientExact, CursorExact, AsOf
  <2>3. ReplicaOf(c)' = Feed!Following(c, s.cursor + 1)
    BY <2>1, <2>2, ReplicaCasesAfter DEF Feed!Following
  <2> QED BY <2>3
<1>4. CASE end # len
  <2>1. ReplicaOf(c)' = Feed!Gathering(s.cursor + 1)
    BY <1>1, <1>2, <1>4, ReplicaCasesAfter DEF Feed!Gathering
  <2> QED BY <2>1
<1> QED BY <1>3, <1>4

LEMMA ListFirstSteps ==
    ASSUME ChangesInv, ChangesInv', NEW c \in Clients, ListFirst(c)
    PROVE  Feed!Next
<1> DEFINE s == [objects |-> Sorted(known), cursor |-> last, expires |-> now + SnapshotIdle]
<1>1. /\ client[c].cursor = None /\ client[c].token = None /\ ListFrame
      /\ client \in [Clients -> Client] /\ ClientExact(c)
      /\ snapshots \in [Tokens -> Snapshot \cup {None}]
      /\ UNCHANGED <<epoch, history>> /\ Len(history) = last + 1
  BY DEF ListFirst, ChangesInv, SharedTypes, ListFrame, journal, JournalExact
<1>2. PICK t \in Tokens : /\ Fresh(t) /\ snapshots' = [Swept EXCEPT ![t] = s]
                          /\ TakesPage(c, t, snapshots'[t], 0, {}) \/ Forgets(c)
  BY DEF ListFirst
<1>3. /\ snapshots'[t] = s /\ s.cursor = last
      /\ \A x \in Tokens \ {t} : snapshots'[x] = None \/ snapshots'[x] = snapshots[x]
  <2> HIDE DEF s
  <2>1. /\ Swept \in [Tokens -> Snapshot \cup {None}]
        /\ \A x \in Tokens : Swept[x] = None \/ Swept[x] = snapshots[x]
    BY <1>1, SweptStay
  <2>2. /\ snapshots'[t] = s
        /\ \A x \in Tokens \ {t} : snapshots'[x] = None \/ snapshots'[x] = snapshots[x]
    BY <1>2, <2>1
  <2> QED BY <2>2 DEF s
<1>4. \A x \in Tokens : (\E y \in Clients \ {c} : client[y].token = x) =>
          \/ snapshots'[x] = None
          \/ snapshots[x] # None /\ snapshots'[x].cursor = snapshots[x].cursor
  BY <1>2, <1>3 DEF Fresh
<1>5. \A x \in Clients \ {c} : client'[x] = client[x]
  BY <1>1, <1>2 DEF TakesPage, Forgets
<1>6. Moves(c)
  <2>1. CASE Forgets(c)
    <3>1. client'[c] = NewClient
      BY <1>1, <2>1 DEF Forgets
    <3> QED BY <3>1, ForgetsLoses
  <2>2. CASE TakesPage(c, t, snapshots'[t], 0, {})
    <3>1. ReplicaOf(c) = None
      BY <1>1, ReplicaCases DEF ClientExact, CursorExact
    <3>2. s # None
      <4>1. s \in Snapshot
        <5>1. Sorted(known) \in Seq(Digests) /\ last \in Nat /\ now + SnapshotIdle \in Nat
          BY SortedKnown, ChangesAssumption DEF ChangesInv, JournalTypes, OtherTypes
        <5> QED BY <5>1 DEF Snapshot
      <4> QED BY <4>1, NoneAssumption
    <3> HIDE DEF s
    <3>3. ReplicaOf(c)' \in {Feed!Gathering(last + 1), Feed!Following(c, last + 1)}
      BY <1>1, <1>3, <2>2, <3>2, TakesPageMoves
    <3>4. Feed!Asks(c)
      BY <1>1, <3>1, <3>3 DEF Feed!Asks
    <3> QED BY <3>4 DEF Moves
  <2> QED BY <1>2, <2>1, <2>2
<1> QED BY <1>1, <1>4, <1>5, <1>6, OneMoves

LEMMA ListNextSteps ==
    ASSUME ChangesInv, ChangesInv', NEW c \in Clients, ListNext(c)
    PROVE  Feed!Next
<1> DEFINE t == client[c].token
           s == Swept[t]
           kept == [s EXCEPT !.expires = now + SnapshotIdle]
<1>1. /\ t # None /\ ListFrame /\ s # None
      /\ client \in [Clients -> Client] /\ client[c] \in Client /\ ClientExact(c)
      /\ snapshots \in [Tokens -> Snapshot \cup {None}]
      /\ UNCHANGED <<epoch, history>> /\ t \in Tokens
  BY DEF ListNext, ChangesInv, SharedTypes, Client, ListFrame, journal
<1>2. snapshots' = [Swept EXCEPT ![t] = kept]
  BY DEF ListNext
<1>3. TakesPage(c, t, s, client[c].offset, client[c].view) \/ Forgets(c)
  BY DEF ListNext
<1>4. /\ Swept \in [Tokens -> Snapshot \cup {None}]
      /\ \A x \in Tokens : Swept[x] = None \/ Swept[x] = snapshots[x]
  BY <1>1, SweptStay
<1>5. s = snapshots[t] /\ kept # None /\ kept.cursor = s.cursor
  <2>1. s \in Snapshot /\ s = snapshots[t] /\ now + SnapshotIdle \in Nat
    BY <1>1, <1>4, ChangesAssumption DEF ChangesInv, OtherTypes
  <2> HIDE DEF s
  <2>2. kept \in Snapshot /\ kept.cursor = s.cursor
    BY <2>1 DEF Snapshot
  <2> QED BY <2>1, <2>2, NoneAssumption
<1> HIDE DEF s, kept
<1>6. /\ snapshots'[t] = kept
      /\ \A x \in Tokens \ {t} : snapshots'[x] = None \/ snapshots'[x] = snapshots[x]
  BY <1>1, <1>2, <1>4
<1>7. \A x \in Tokens : \/ snapshots'[x] = None
                        \/ snapshots[x] # None /\ snapshots'[x].cursor = snapshots[x].cursor
  BY <1>1, <1>5, <1>6
<1>8. \A x \in Clients \ {c} : client'[x] = client[x]
  BY <1>1, <1>3 DEF TakesPage, Forgets
<1>9. Moves(c)
  <2>1. CASE Forgets(c)
    <3>1. client'[c] = NewClient
      BY <1>1, <2>1 DEF Forgets
    <3> QED BY <3>1, ForgetsLoses
  <2>2. CASE TakesPage(c, t, s, client[c].offset, client[c].view)
    <3>1. ~client[c].complete /\ snapshots[t] # None
      BY <1>1, <1>5 DEF ClientExact, PagesGathered
    <3>2. ReplicaOf(c) = Feed!Gathering(s.cursor + 1) /\ ReplicaOf(c) # None
      BY <1>1, <1>5, <3>1, ReplicaCases, ReplicaThere DEF Feed!Gathering
    <3>3. ReplicaOf(c)' \in {Feed!Gathering(s.cursor + 1), Feed!Following(c, s.cursor + 1)}
      BY <1>1, <1>5, <1>6, <2>2, TakesPageMoves
    <3>4. CASE ReplicaOf(c)' = Feed!Gathering(s.cursor + 1)
      BY <3>2, <3>4 DEF Moves
    <3>5. CASE ReplicaOf(c)' = Feed!Following(c, s.cursor + 1)
      <4>1. ReplicaOf(c).stage = "gathering" /\ ReplicaOf(c).at = s.cursor + 1
        BY <3>2 DEF Feed!Gathering
      <4>2. Feed!Gathers(c)
        BY <3>2, <3>5, <4>1 DEF Feed!Gathers
      <4> QED BY <4>2 DEF Moves
    <3> QED BY <3>3, <3>4, <3>5
  <2> QED BY <1>3, <2>1, <2>2
<1> QED BY <1>1, <1>7, <1>8, <1>9, OneMoves

LEMMA ListRefusedSteps ==
    ASSUME ChangesInv, NEW c \in Clients, ListRefused(c)
    PROVE  Feed!Next
<1>1. /\ client' = [client EXCEPT ![c] = NewClient] /\ snapshots' = Swept
      /\ UNCHANGED <<epoch, history>>
  BY DEF ListRefused, Forgets, ListFrame, journal
<1>2. client'[c] = NewClient /\ \A x \in Clients \ {c} : client'[x] = client[x]
  BY <1>1 DEF ChangesInv, SharedTypes
<1>3. \A t \in Tokens : \/ snapshots'[t] = None
                        \/ snapshots[t] # None /\ snapshots'[t].cursor = snapshots[t].cursor
  BY <1>1, SweptStay DEF ChangesInv, SharedTypes, SnapshotsStay
<1> QED BY <1>1, <1>2, <1>3, ForgetsLoses, OneMoves

\* Snapshots are swept or dropped: who pages through one loses it.
LEMMA SweepingSteps ==
    ASSUME ChangesInv, SweepSnapshots \/ Close
    PROVE  Feed!Next
<1>1. UNCHANGED <<epoch, history, client>> /\ SnapshotsStay
  BY SweptStay DEF SweepSnapshots, Close, ListFrame, journal, SnapshotsStay, ChangesInv, SharedTypes
<1>2. ASSUME NEW c \in Clients
      PROVE  Moves(c)
  <2>1. client[c].token \in Tokens \cup {None}
    BY DEF ChangesInv, SharedTypes, Client
  <2>2. ReplicaOf(c)' = ReplicaOf(c) \/ ReplicaOf(c)' = None
    BY <1>1, <2>1, OthersMove DEF SnapshotsStay
  <2> QED BY <2>2, LosesAll DEF Moves
<1> QED BY <1>1, <1>2, MovesMakeStep

LEMMA JournalingSteps ==
    ASSUME ChangesInv, ChangesInv', (\E w \in Writers : Committed(w)) \/ PollDiff
    PROVE  [Feed!Next]_(Feed!feed)
<1>1. UNCHANGED <<epoch, client, snapshots>> /\ store \in SUBSET Digests
  BY DEF Committed, PollDiff, ChangesInv, OtherTypes
<1>2. JournalGrows
  <2>1. CASE UNCHANGED journal
    BY <2>1, JournalStays DEF journal, ChangesInv
  <2>2. ASSUME NEW w \in Writers, committing[w] # None, Journal({}, New(committing[w]))
        PROVE  JournalGrows
    <3>1. New(committing[w]) \in SUBSET Digests /\ New(committing[w]) \cap known = {}
      BY <2>2 DEF ChangesInv, OtherTypes, New
    <3> QED BY <1>1, <2>2, <3>1, JournalKeeps DEF ChangesInv
  <2>3. ASSUME Journal(Gone, poller.listed \ known)
        PROVE  JournalGrows
    <3>1. /\ Gone \in SUBSET Digests /\ Gone \subseteq known
          /\ poller.listed \ known \in SUBSET Digests /\ (poller.listed \ known) \cap known = {}
      BY DEF Gone, ChangesInv, OtherTypes, JournalTypes
    <3> QED BY <1>1, <2>3, <3>1, JournalKeeps DEF ChangesInv
  <2> QED BY <2>1, <2>2, <2>3 DEF Committed, PollDiff
<1>3. Feed!Changes \/ UNCHANGED Feed!feed
  BY <1>1, <1>2, GrowingChanges DEF ChangesInv
<1> QED BY <1>3 DEF Feed!Next

\* A restart loses what was being gathered, and nothing a client has.
LEMMA RestartSteps ==
    ASSUME ChangesInv, Restart
    PROVE  Feed!Next
<1>1. /\ epoch' = epoch + 1 /\ history' = <<store>> /\ store \in SUBSET Digests
      /\ snapshots' = [t \in Tokens |-> None]
  BY DEF Restart, ChangesInv, OtherTypes
<1>2. ASSUME NEW c \in Clients
      PROVE  \/ ReplicaOf(c)' = ReplicaOf(c)
             \/ ReplicaOf(c).stage = "gathering" /\ ReplicaOf(c)' = None
  <2>1. client[c] \in Client
    BY DEF ChangesInv, SharedTypes
  <2>2. /\ client'[c].token = client[c].token /\ client'[c].cursor = client[c].cursor
        /\ client'[c].complete <=> client[c].complete
        /\ client'[c].view = client[c].view
    BY <2>1 DEF Restart, Client
  <2>3. CASE client[c].complete
    BY <2>2, <2>3, ReplicaCases, ReplicaCasesAfter
  <2>4. CASE ~client[c].complete
    <3>1. client[c].token \in Tokens \cup {None}
      BY <2>1 DEF Client
    <3>2. ReplicaOf(c)' = None
      BY <1>1, <2>2, <2>4, <3>1, ReplicaCasesAfter
    <3>3. CASE client[c].token # None /\ snapshots[client[c].token] # None
      BY <2>4, <3>2, <3>3, ReplicaThere
    <3>4. CASE client[c].token = None \/ snapshots[client[c].token] = None
      BY <2>4, <3>2, <3>4, ReplicaCases
    <3> QED BY <3>3, <3>4
  <2> QED BY <2>3, <2>4
<1>3. Feed!StartsAgain
  <2>1. \A c \in Clients :
           \/ [x \in Clients |-> ReplicaOf(x)]'[c] = [x \in Clients |-> ReplicaOf(x)][c]
           \/ /\ [x \in Clients |-> ReplicaOf(x)][c].stage = "gathering"
              /\ [x \in Clients |-> ReplicaOf(x)]'[c] = None
    BY <1>2
  <2> QED BY <1>1, <2>1 DEF Feed!StartsAgain
<1> QED BY <1>3 DEF Feed!Next

LEMMA FeedBegins ==
    ASSUME Init
    PROVE  Feed!Init
<1>1. epoch = 0 /\ store \in SUBSET Digests /\ history = <<store>>
  BY DEF Init
<1>2. ASSUME NEW c \in Clients
      PROVE  ReplicaOf(c) = None
  <2>1. client[c] = NewClient
    BY DEF Init
  <2> QED BY <2>1, ReplicaCases DEF NewClient
<1>3. [c \in Clients |-> ReplicaOf(c)] = [c \in Clients |-> None]
  BY <1>2
<1> QED BY <1>1, <1>3 DEF Feed!Init

LEMMA FeedSteps ==
    ASSUME ChangesInv, ChangesInv', [Next]_vars
    PROVE  [Feed!Next]_(Feed!feed)
<1>1. CASE UNCHANGED vars
  BY <1>1, QuietStep DEF vars, journal
<1>2. CASE Next
  <2>1. CASE \E w \in Writers : Published(w)
    BY <2>1, QuietStep DEF Published, journal
  <2>2. CASE (\E w \in Writers : Committed(w)) \/ PollDiff
    BY <2>2, JournalingSteps
  <2>3. CASE PollReads \/ PollInfo \/ PollFails \/ ExternalPublish \/ ExternalRemove \/ Tick
    BY <2>3, QuietStep
       DEF PollReads, PollInfo, PollFails, ExternalPublish, ExternalRemove, Tick, journal
  <2>4. CASE SweepSnapshots \/ Close
    BY <2>4, SweepingSteps
  <2>5. CASE \E c \in Clients : List(c)
    BY <2>5, ListFirstSteps, ListNextSteps, ListRefusedSteps DEF List
  <2>6. CASE \E c \in Clients : Observes(c)
    BY <2>6, ObservesSteps
  <2>7. CASE Restart
    BY <2>7, RestartSteps
  <2> QED BY <1>2, <2>1, <2>2, <2>3, <2>4, <2>5, <2>6, <2>7 DEF Next, Poll
<1> QED BY <1>1, <1>2

\* The journal, its ring, pages, cursors and snapshots implement the feed: who
\* has a replica has it of one state of the lifetime, and only ever moves to a
\* later one or is told to begin again (changes.go:166-429; STO-O1 to STO-O5).
THEOREM ImplementsFeedHolds == Spec => ImplementsFeed
<1>1. Init => Feed!Init
  BY FeedBegins
<1>2. ChangesInv /\ ChangesInv' /\ [Next]_vars => [Feed!Next]_(Feed!feed)
  BY FeedSteps
<1> QED BY <1>1, <1>2, ChangesInvHolds, PTL DEF Spec, ImplementsFeed, Feed!Spec

=============================================================================
