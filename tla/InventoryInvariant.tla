-------------------------- MODULE InventoryInvariant --------------------------
(***************************************************************************)
(* The inductive invariant behind what the inventory shows: what each call *)
(* knows at each program counter, and that a token stands for one          *)
(* composition wherever it is kept.  TLC checks it on the small instance,  *)
(* InventoryProofs proves it.                                              *)
(***************************************************************************)
EXTENDS Inventory

Page == [stores : [Stores -> Nat], records : Seq(Record), next : Nat, complete : BOOLEAN]

Call == [op : {"list", "find", "holders", None}, store : Stores \cup {None},
         digest : Digests \cup {None}, token : Tokens \cup {None}, offset : Nat, limit : Nat,
         left : Seq(Sources), first : BOOLEAN, rest : Seq(Record), heard : Seq(Seq(Record)),
         stores : [Stores -> Nat], records : Seq(Record), page : Page]

Snapshot == [scope : Scopes \cup {None}, store : Stores \cup {None},
             stores : [Stores -> Nat], records : Seq(Record)]

View == [token : Tokens \cup {None}, store : Stores \cup {None}, next : Nat,
         seen : Seq(Record), whole : Seq(Record)]

InventoryTypeOK ==
    /\ DOMAIN content = Sources /\ \A s \in Sources : content[s] \in Contents[s]
    /\ snapshots \in [Tokens -> Snapshot] /\ expires \in [Tokens -> Nat]
    /\ drawn \in SUBSET Tokens /\ closed \in BOOLEAN /\ now \in Nat
    /\ pc \in [Callers -> PCs]
    /\ call \in [Callers -> Call]
    /\ view \in [Callers -> View]

\* A record that may be shown, and one that may be composed for a store.
Attested(r) == \A h \in r.holds : h.by = r.of /\ (r.store # None => h.attestation # "declared")

Fits(r, store) == Attested(r) /\ (store # None => r.store = store)

AllFit(records, store) == \A i \in DOMAIN records : Fits(records[i], store)

\* The page of p is what it may read between the call's offset and its next.
Pages(p, c) ==
    LET stop == IF c.page.complete THEN Len(c.records) ELSE c.page.next IN
    /\ c.offset <= stop /\ stop <= Len(c.records)
    /\ c.page.records = Permitted(p, c.records, c.offset, stop)
    /\ Cardinality(PermittedAt(p, c.records, c.offset, stop)) <= c.limit
    /\ c.page.complete # (c.page.next # 0)
    /\ c.page.stores = IF c.offset = 0 THEN c.stores ELSE NoStores

\* What the call c of p has by the time it is at a program counter.
Knows(p, c, at) ==
    /\ at \in {"sweep", "drain", "insert", "gate"} => c.op = "list"
    /\ at # "idle" => c.limit > 0
    /\ at \in {"read", "reply"} \/ (at \in {"enter", "page"} /\ c.op # "list") =>
        c.op # "list" /\ c.store = None /\ c.token = None /\ c.offset = 0
    /\ at \in {"sweep", "enter"} => c.first /\ (c.token = None <=> c.offset = 0)
    /\ at \in {"drain", "read", "insert"} => c.offset = 0
    /\ at \in {"drain", "read"} /\ ~c.first =>
        c.left # <<>> /\ \A i \in DOMAIN c.rest : c.rest[i].of = Head(c.left)
    /\ at = "insert" \/ (at \in {"page", "gate"} /\ c.op = "list" /\ c.offset = 0) =>
        OneStore(c)
    /\ at \in {"page", "gate"} /\ c.op = "list" => c.token # None
    /\ at = "page" => c.offset <= Len(c.records)
    /\ AllFit(c.records, c.store)
    /\ \A i \in DOMAIN c.page.records :
        Fits(c.page.records[i], c.store) /\ Permits(p, c.page.records[i])
    /\ at = "gate" => Pages(p, c)

CallsKnow == \A p \in Callers : Knows(p, call[p], pc[p])

Serving(p) == pc[p] \in {"page", "gate"} /\ call[p].op = "list"

\* Whom a token was drawn for and what was frozen under it, as its snapshot, the
\* calls that serve it and the clients that follow it have it.
ByCall(p) == [scope |-> ScopeOf[p], store |-> call[p].store, records |-> call[p].records]

ByView(p) == [scope |-> ScopeOf[p], store |-> view[p].store, records |-> view[p].whole]

BySnapshot(t) ==
    [scope |-> snapshots[t].scope, store |-> snapshots[t].store, records |-> snapshots[t].records]

Frozen(t) ==
    {ByCall(p) : p \in {q \in Callers : Serving(q) /\ call[q].token = t}}
    \cup {ByView(p) : p \in {q \in Callers : view[q].token = t}}
    \cup {BySnapshot(u) : u \in Retained \cap {t}}

\* A token stands for one composition, and for none before it is drawn.
FrozenOnce ==
    \A t \in Tokens :
        /\ \A a, b \in Frozen(t) : a = b
        /\ t \in drawn \/ Frozen(t) = {}

SnapshotsFit == \A t \in Tokens : AllFit(snapshots[t].records, snapshots[t].store)

Followed ==
    \A p \in Callers :
        /\ view[p].next <= Len(view[p].whole)
        /\ view[p].next > 0 => view[p].token # None

InventoryInv ==
    /\ InventoryTypeOK
    /\ CallsKnow
    /\ FrozenOnce
    /\ SnapshotsFit
    /\ Followed
    /\ PagesExact

-----------------------------------------------------------------------------
(* What a call has of its sources while it reads them.                     *)

\* The sources read to the end.
Ended(c) == Len(c.heard) - (IF c.first THEN 0 ELSE 1)

\* How much was read of the k-th source.
Taking(c, k) == IF k <= Ended(c) THEN Len(c.heard[k]) ELSE Len(c.heard[k]) - Len(c.rest)

\* t is the end of s.
Remains(t, s) ==
    /\ Len(t) <= Len(s)
    /\ \A i \in DOMAIN t : t[i] = s[Len(s) - Len(t) + i]

\* What is given of the first upto records that source s froze.
GivenOf(c, s, records, upto) == ItemsAt(records, {i \in 1..upto : Given(c, s, records[i])})

\* What is left of the sources is the end of them, what is left of the source that is
\* being read the end of what it froze, and the records are those given before.
Composes(c) ==
    LET from == Selected(c.store)
        h == Len(c.heard)
    IN /\ Len(c.left) = Len(from) - Ended(c) /\ Remains(c.left, from)
       /\ ~c.first => h > 0 /\ Remains(c.rest, c.heard[h])
       /\ \A i \in DOMAIN c.records : \E k \in 1..h : c.records[i].of = from[k]
       /\ \A i, j \in DOMAIN c.records : i <= j => c.records[i].of <= c.records[j].of
       /\ \A k \in 1..h : Bare(OfSource(c.records, from[k]))
                            = Bare(GivenOf(c, from[k], c.heard[k], Taking(c, k)))

CallsCompose ==
    \A p \in Callers :
        /\ pc[p] \in {"sweep", "enter"} => call[p].heard = <<>> /\ call[p].records = <<>>
        /\ pc[p] \in {"drain", "read"} => Composes(call[p])

\* The whole composition, on top of InventoryInv.
ComposedInv == CallsCompose /\ ComposedWhole

=============================================================================
