------------------------------ MODULE Inventory ------------------------------
(***************************************************************************)
(* The composed inventory of go/service/inventory.go: a listing drains the  *)
(* designated sources page by page outside the mutex, freezes what it       *)
(* accepted as a snapshot and serves it in pages; Find and Holders compose  *)
(* and retain nothing.  The clients of go/client/inventory.go follow their  *)
(* continuations.                                                          *)
(*                                                                         *)
(* Critical sections under i.mu are single actions; each page of a source,  *)
(* the page that the read policy filters and the second decision of the     *)
(* gate are steps between them.  A source is environment: it freezes what   *)
(* it has at its first page, as its interface says, and may fail at every   *)
(* page.  A request refused as invalid or by the gate's first decision, and *)
(* Unheld, which answers unavailable, change nothing; the change cursor     *)
(* stamped on a snapshot is opaque to it.                                   *)
(*                                                                         *)
(* A store record is its store's name, and a sorted list of them the bag of *)
(* the names.  A record is a manifest or a stray object of a store, or a    *)
(* dangling reference, which names none.                                   *)
(***************************************************************************)
EXTENDS Naturals, FiniteSets, Sequences, SequencesExt

CONSTANTS Callers, Scopes, ScopeOf,
          Stores, Digests, None,
          SourceCount,          \* how many sources are designated
          Accepted,             \* source -> the stores its rule permits
          Contents,             \* source -> what it may have at some moment
          Readable,             \* scope -> the digests the read policy permits
          Tokens,
          MaxInventoryPage, MaxInventoryRecords, MaxSnapshots, SnapshotIdle,
          MaxTime,              \* bound on the clock
          Events                \* what the environment may do, see below

\* "gate"    a decision of the gate refuses or fails
\* "policy"  a read decision fails            "source"  a source does not answer
\* "change"  a source's contents change       "close"   the component closes
EventNames == {"gate", "policy", "source", "change", "close"}

\* The designated sources in their order.
Sources == 1..SourceCount

\* by is the program that established the hold: a source, or 0 for any other.
Hold == [by : 0..SourceCount, attestation : {"observed", "declared", "verified"}]

\* digests are what the read policy decides by; expected is the digest a dangling
\* reference wants.  of, which the code does not keep, is the reporting source.
Record == [of : Sources, store : Stores \cup {None}, digests : SUBSET Digests,
           expected : Digests \cup {None}, holds : SUBSET Hold]

ASSUME InventoryAssumption ==
    /\ IsFiniteSet(Callers) /\ IsFiniteSet(Tokens)
    /\ ScopeOf \in [Callers -> Scopes]
    /\ None \notin Stores \cup Digests \cup Tokens \cup Scopes
    /\ SourceCount \in Nat
    /\ Accepted \in [Sources -> SUBSET Stores]
    /\ \A s \in Sources : Contents[s] \subseteq
            [stores : SUBSET Stores, records : Seq({r \in Record : r.of = s})]
    /\ \A c \in Scopes : Readable[c] \subseteq Digests
    /\ MaxInventoryPage \in Nat \ {0} /\ MaxInventoryRecords \in Nat
    /\ MaxSnapshots \in Nat \ {0} /\ SnapshotIdle \in Nat
    /\ MaxTime \in Nat
    /\ Events \subseteq EventNames

VARIABLES content,      \* source -> what it has
          snapshots,    \* token -> its snapshot, or NoSnapshot
          expires,      \* token -> when its snapshot lapses
          drawn,        \* the tokens drawn so far
          closed,
          pc,           \* what the call of each caller does next
          call,         \* what it has so far
          view,         \* what each client has listed
          now

vars == <<content, snapshots, expires, drawn, closed, pc, call, view, now>>

NoStores == [s \in Stores |-> 0]

NoSnapshot == [scope |-> None, store |-> None, stores |-> NoStores, records |-> <<>>]

Retained == {t \in Tokens : snapshots[t].scope # None}

NoPage == [stores |-> NoStores, records |-> <<>>, next |-> 0, complete |-> FALSE]

\* left: the sources still to read; first: nothing was read of the first of them
\* yet; rest: what is left of it.  heard, a history: what each source froze.
\* offset 0 is a new listing.
Idle == [op |-> None, store |-> None, digest |-> None,
         token |-> None, offset |-> 0, limit |-> 0,
         left |-> <<>>, first |-> TRUE, rest |-> <<>>, heard |-> <<>>,
         stores |-> NoStores, records |-> <<>>, page |-> NoPage]

\* A listing drains, inserts, pages and asks the gate; Find and Holders read and
\* reply.
PCs == {"idle", "sweep", "enter", "drain", "insert", "page", "gate", "read", "reply"}

\* next is 0 when the last page was reached.  whole, the frozen composition, is
\* history: no client sees it.
NoView == [token |-> None, store |-> None, next |-> 0, seen |-> <<>>, whole |-> <<>>]

Init ==
    /\ content \in [Sources -> UNION {Contents[s] : s \in Sources}]
    /\ \A s \in Sources : content[s] \in Contents[s]
    /\ snapshots = [t \in Tokens |-> NoSnapshot]
    /\ expires = [t \in Tokens |-> 0]
    /\ drawn = {} /\ now = 0
    /\ closed = FALSE
    /\ pc = [p \in Callers |-> "idle"]
    /\ call = [p \in Callers |-> Idle]
    /\ view = [p \in Callers |-> NoView]

-----------------------------------------------------------------------------
(* Loops that keep some of the items.                                      *)

\* How many of the positions at are not past i.
Rank(at, i) == Cardinality({j \in at : j <= i})

\* What such a loop has appended: the items at these positions, in their order.
ItemsAt(s, at) ==
    [k \in 1..Cardinality(at) |-> s[CHOOSE i \in at : Rank(at, i) = k]]

-----------------------------------------------------------------------------
(* Requests and the gate.                                                  *)

Goto(p, label) == pc' = [pc EXCEPT ![p] = label]

Return(p) == Goto(p, "idle") /\ call' = [call EXCEPT ![p] = Idle]

\* List or ListStore from the start, once the gate permits it.
List(p) ==
    /\ pc[p] = "idle"
    /\ \E store \in Stores \cup {None}, limit \in 1..MaxInventoryPage :
        call' = [call EXCEPT ![p] = [Idle EXCEPT !.op = "list", !.store = store,
                                                !.limit = limit]]
    /\ Goto(p, "sweep")
    /\ view' = [view EXCEPT ![p] = NoView]
    /\ UNCHANGED <<content, snapshots, expires, drawn, closed, now>>

\* A continuation some client was given, with the same store or another.
ListNext(p) ==
    /\ pc[p] = "idle"
    /\ \E q \in Callers, store \in Stores \cup {None}, limit \in 1..MaxInventoryPage :
        /\ view[q].next > 0
        /\ call' = [call EXCEPT ![p] =
               [Idle EXCEPT !.op = "list", !.store = store, !.limit = limit,
                            !.token = view[q].token, !.offset = view[q].next]]
    /\ Goto(p, "sweep")
    /\ UNCHANGED <<content, snapshots, expires, drawn, closed, view, now>>

\* Find(digest) and Holders(target), a digest here.
Lookup(p) ==
    /\ pc[p] = "idle"
    /\ \E op \in {"find", "holders"}, d \in Digests :
        call' = [call EXCEPT ![p] = [Idle EXCEPT !.op = op, !.digest = d,
                                                !.limit = MaxInventoryPage]]
    /\ Goto(p, "enter")
    /\ UNCHANGED <<content, snapshots, expires, drawn, closed, view, now>>

Lapsed(t) == t \in Retained /\ now > expires[t]

Swept == [t \in Tokens |-> IF Lapsed(t) THEN NoSnapshot ELSE snapshots[t]]

Sweep(p) ==
    /\ pc[p] = "sweep" /\ Goto(p, "enter")
    /\ snapshots' = Swept
    /\ UNCHANGED <<content, expires, drawn, closed, call, view, now>>

TickerSweeps ==
    /\ \E t \in Tokens : Lapsed(t)
    /\ ~closed
    /\ snapshots' = Swept
    /\ UNCHANGED <<content, expires, drawn, closed, pc, call, view, now>>

-----------------------------------------------------------------------------
(* Composing.                                                              *)

\* Mutant of Room: one snapshot more.
RoomForOne == Cardinality(Retained) <= MaxSnapshots

Room == Cardinality(Retained) < MaxSnapshots

\* composeStore reads only the sources accepted for the store.
Selected(store) ==
    ItemsAt([s \in Sources |-> s], {s \in Sources : store = None \/ store \in Accepted[s]})

\* The first critical section of a call that composes: a listing needs room, and
\* a store that nobody may report is invalid.
Compose(p) ==
    LET c == call[p] IN
    /\ pc[p] = "enter" /\ c.token = None
    /\ IF closed \/ (c.op = "list" /\ (~Room \/ Selected(c.store) = <<>>))
       THEN Return(p)
       ELSE /\ Goto(p, IF c.op = "list" THEN "drain" ELSE "read")
            /\ call' = [call EXCEPT ![p].left = Selected(c.store)]
    /\ UNCHANGED <<content, snapshots, expires, drawn, closed, view, now>>

\* accepted, for records: a dangling reference belongs to no store.
Accepts(s, target, r) ==
    IF r.store = None THEN target = None
    ELSE r.store \in Accepted[s] /\ target \in {None, r.store}

\* Mutant of Observed: declared holds pass.
ObservedAny(s, r) == [r EXCEPT !.holds = {[h EXCEPT !.by = s] : h \in @}]

\* observedHolds, and the holder of a dangling reference.
Observed(s, r) ==
    [r EXCEPT !.holds = {[h EXCEPT !.by = s] :
        h \in {g \in @ : r.store = None \/ g.attestation = "observed"}}]

\* verifiedHolds
Verified(s, r) ==
    LET o == Observed(s, r) IN
    IF r.store = None THEN o
    ELSE [o EXCEPT !.holds = {[h EXCEPT !.attestation = "verified"] : h \in @}]

\* The records of one page of source s that the call takes.
Taken(c, s, records) ==
    LET of == ItemsAt(records, {i \in DOMAIN records : Accepts(s, c.store, records[i])}) IN
    [i \in DOMAIN of |-> IF c.op = "holders" THEN Verified(s, of[i]) ELSE Observed(s, of[i])]

\* The record is about the digest, or the dangling reference wants it.
Carries(r, d) == d \in r.digests \/ r.expected = d

Carrying(records, d) == ItemsAt(records, {i \in DOMAIN records : Carries(records[i], d)})

\* Verify answers about one target, in one page.
Answered(c, s) ==
    IF c.op = "holders"
    THEN Carrying(content[s].records, c.digest)
    ELSE content[s].records

\* The call after the first page of a source, with the store records taken from
\* it and all that the source froze.
Begun(c, s) ==
    IF ~c.first THEN c
    ELSE [c EXCEPT !.first = FALSE, !.rest = Answered(c, s), !.heard = Append(@, Answered(c, s)),
                   !.stores = [st \in Stores |->
                       @[st] + IF st \in content[s].stores \cap Accepted[s]
                                  /\ c.store \in {None, st} THEN 1 ELSE 0]]

PageSize(c) == IF c.op = "holders" THEN Len(c.rest)
               ELSE IF Len(c.rest) < MaxInventoryPage THEN Len(c.rest) ELSE MaxInventoryPage

Drains(p) == pc[p] \in {"drain", "read"}

\* One page of the first source that is left, and the next source after its last.
DrainPage(p) ==
    LET s == Head(call[p].left)
        c == Begun(call[p], s)
        n == PageSize(c)
        records == c.records \o Taken(c, s, SubSeq(c.rest, 1, n))
        d == [c EXCEPT !.records = records]
    IN /\ Drains(p) /\ call[p].left # <<>>
       /\ IF Len(records) > MaxInventoryRecords THEN Return(p)
          ELSE /\ UNCHANGED pc
               /\ call' = [call EXCEPT ![p] =
                      IF n = Len(c.rest)
                      THEN [d EXCEPT !.left = Tail(@), !.first = TRUE, !.rest = <<>>]
                      ELSE [d EXCEPT !.rest = SubSeq(@, n + 1, Len(@))]]
       /\ UNCHANGED <<content, snapshots, expires, drawn, closed, view, now>>

\* Mutant of Unanswered: the composition goes on without the source.
UnansweredSkipped(p) ==
    /\ UNCHANGED pc
    /\ call' = [call EXCEPT ![p].left = Tail(@), ![p].first = TRUE, ![p].rest = <<>>]

Unanswered(p) == Return(p)

\* A source does not answer, answers anything but a page, or the call ended.
DrainFails(p) ==
    /\ "source" \in Events
    /\ Drains(p) /\ call[p].left # <<>>
    /\ Unanswered(p)
    /\ UNCHANGED <<content, snapshots, expires, drawn, closed, view, now>>

\* What Find keeps of the composition.
Matching(c) ==
    IF c.op = "find" THEN Carrying(c.records, c.digest) ELSE c.records

\* A store's composition has exactly its one store record.
OneStore(c) == c.store # None => c.stores = [NoStores EXCEPT ![c.store] = 1]

Drained(p) ==
    LET c == call[p] IN
    /\ Drains(p) /\ c.left = <<>>
    /\ IF ~OneStore(c) THEN Return(p)
       ELSE /\ Goto(p, IF pc[p] = "drain" THEN "insert" ELSE "page")
            /\ call' = [call EXCEPT ![p].records = Matching(c)]
    /\ UNCHANGED <<content, snapshots, expires, drawn, closed, view, now>>

-----------------------------------------------------------------------------
(* Freezing and paging.                                                    *)

\* Mutant of StillOpen: the second critical section trusts the first.
OpenBefore == TRUE

StillOpen == ~closed

\* The second critical section: the snapshot is stored, without looking again
\* at how many there are.
Freeze(p) ==
    LET c == call[p] IN
    /\ pc[p] = "insert"
    /\ IF ~StillOpen \/ drawn = Tokens THEN Return(p) /\ UNCHANGED <<snapshots, expires, drawn>>
       ELSE \E t \in Tokens \ drawn :
            /\ drawn' = drawn \cup {t}
            /\ snapshots' = [snapshots EXCEPT ![t] =
                   [scope |-> ScopeOf[p], store |-> c.store, stores |-> c.stores,
                    records |-> c.records]]
            /\ expires' = [expires EXCEPT ![t] = now + SnapshotIdle]
            /\ Goto(p, "page")
            /\ call' = [call EXCEPT ![p].token = t]
    /\ UNCHANGED <<content, closed, view, now>>

\* Mutant of Bound: any subject may continue.
BoundToStore(s, p) == s.store = call[p].store

\* A continuation is bound to the subject and the store of its listing.
Bound(s, p) == s.scope = ScopeOf[p] /\ s.store = call[p].store

Continue(p) ==
    LET c == call[p]
        s == snapshots[c.token]
    IN /\ pc[p] = "enter" /\ c.token # None
       /\ IF closed \/ c.token \notin Retained \/ ~Bound(s, p) \/ c.offset > Len(s.records)
          THEN Return(p) /\ UNCHANGED expires
          ELSE /\ expires' = [expires EXCEPT ![c.token] = now + SnapshotIdle]
               /\ Goto(p, "page")
               /\ call' = [call EXCEPT ![p].stores = s.stores, ![p].records = s.records]
       /\ UNCHANGED <<content, snapshots, drawn, closed, view, now>>

Permits(p, r) == r.digests \subseteq Readable[ScopeOf[p]]

\* The positions past from and up to upto whose records p may read.
PermittedAt(p, records, from, upto) ==
    {i \in from + 1..upto : Permits(p, records[i])}

Permitted(p, records, from, upto) == ItemsAt(records, PermittedAt(p, records, from, upto))

\* Where page() stops: after limit records that the policy permits, or at the end.
Stop(p, records, offset, limit) ==
    LET full == {i \in offset..Len(records) :
                   limit = Cardinality(PermittedAt(p, records, offset, i))}
    IN IF full = {} THEN Len(records) ELSE CHOOSE i \in full : \A j \in full : i <= j

\* Mutant of Index: records the policy omits are not counted.
IndexOfTaken(p, c, stop) ==
    c.offset + Cardinality(PermittedAt(p, c.records, c.offset, stop))

\* The offset of the next page.
Index(p, c, stop) == stop

\* Mutant of FirstPage: every page carries the stores.
FirstPageAlways(c) == TRUE

FirstPage(c) == c.offset = 0

Fill(p) ==
    LET c == call[p]
        stop == Stop(p, c.records, c.offset, c.limit)
        complete == stop = Len(c.records)
    IN /\ pc[p] = "page" /\ Goto(p, IF c.op = "list" THEN "gate" ELSE "reply")
       /\ call' = [call EXCEPT
              ![p].page = [stores |-> IF c.op = "list" /\ FirstPage(c) THEN c.stores ELSE NoStores,
                           records |-> Permitted(p, c.records, c.offset, stop),
                           next |-> IF complete \/ c.op # "list" THEN 0
                                    ELSE Index(p, c, stop),
                           complete |-> complete]]
       /\ UNCHANGED <<content, snapshots, expires, drawn, closed, view, now>>

\* A read decision is unavailable: so is the page.
FillFails(p) ==
    /\ "policy" \in Events
    /\ pc[p] = "page"
    /\ \E i \in call[p].offset + 1..Len(call[p].records) : call[p].records[i].digests # {}
    /\ Return(p)
    /\ UNCHANGED <<content, snapshots, expires, drawn, closed, view, now>>

\* The second decision of the gate permits; the client follows its continuation.
Listed(p) ==
    LET c == call[p]
        v == view[p]
    IN /\ pc[p] = "gate"
       /\ Return(p)
       /\ view' = IF c.offset = 0
                  THEN [view EXCEPT ![p] = [token |-> c.token, store |-> c.store,
                           next |-> c.page.next, seen |-> c.page.records,
                           whole |-> c.records]]
                  ELSE IF c.token = v.token /\ c.offset = v.next
                  THEN [view EXCEPT ![p].next = c.page.next, ![p].seen = @ \o c.page.records]
                  ELSE view
       /\ UNCHANGED <<content, snapshots, expires, drawn, closed, now>>

\* The gate refuses the second time.
ListedNot(p) ==
    /\ "gate" \in Events
    /\ pc[p] = "gate"
    /\ Return(p)
    /\ UNCHANGED <<content, snapshots, expires, drawn, closed, view, now>>

LookedUp(p) ==
    /\ pc[p] = "reply"
    /\ Return(p)
    /\ UNCHANGED <<content, snapshots, expires, drawn, closed, view, now>>

-----------------------------------------------------------------------------
(* The environment.                                                        *)

Close ==
    /\ "close" \in Events
    /\ ~closed /\ closed' = TRUE
    /\ snapshots' = [t \in Tokens |-> NoSnapshot]
    /\ UNCHANGED <<content, expires, drawn, pc, call, view, now>>

SourceChanges ==
    /\ "change" \in Events
    /\ \E s \in Sources : \E x \in Contents[s] \ {content[s]} :
        content' = [content EXCEPT ![s] = x]
    /\ UNCHANGED <<snapshots, expires, drawn, closed, pc, call, view, now>>

Tick ==
    /\ now < MaxTime
    /\ now' = now + 1
    /\ UNCHANGED <<content, snapshots, expires, drawn, closed, pc, call, view>>

Next ==
    \/ \E p \in Callers :
        \/ List(p) \/ ListNext(p) \/ Lookup(p) \/ Sweep(p)
        \/ Compose(p) \/ DrainPage(p) \/ DrainFails(p) \/ Drained(p)
        \/ Freeze(p) \/ Continue(p) \/ Fill(p) \/ FillFails(p) \/ Listed(p) \/ ListedNot(p)
        \/ LookedUp(p)
    \/ TickerSweeps \/ Close \/ SourceChanges \/ Tick

Spec == Init /\ [][Next]_vars

-----------------------------------------------------------------------------
(* What keeps the inventory correct.                                       *)

\* Calls that found room and have not stored their snapshot.
Composing == {p \in Callers : pc[p] \in {"drain", "insert"}}

\* The limit on retained compositions is checked before the sources are read and
\* not when the snapshot is stored: they exceed it by no more than the calls in
\* progress, and a closed component retains none (inventory.go:405-445; STO-I2).
RetainedBound ==
    /\ closed => Retained = {}
    /\ Cardinality(Retained) + Cardinality(Composing) < MaxSnapshots + Cardinality(Callers)

Bare(records) == [i \in DOMAIN records |-> [records[i] EXCEPT !.holds = {}]]

OfSource(records, s) == ItemsAt(records, {i \in DOMAIN records : records[i].of = s})

\* A record of the stores a call asks for, reported by a source whose rule permits it.
Given(c, s, r) ==
    IF r.store = None THEN c.store = None
    ELSE r.store \in Accepted[s] /\ c.store \in {None, r.store}

Sought(c, r) == c.op = "find" => Carries(r, c.digest)

\* Records of these sources only, one source after the other.
InOrder(records, from) ==
    /\ \A i \in DOMAIN records : records[i].of \in Range(from)
    /\ \A i, j \in DOMAIN records : i <= j => records[i].of <= records[j].of

\* Every source asked for was heard, and of each the call has what it froze of the
\* stores it was given, in its order and nothing twice.
Whole(c) ==
    LET from == Selected(c.store)
        due(k) == ItemsAt(c.heard[k], {i \in DOMAIN c.heard[k] :
                      Given(c, from[k], c.heard[k][i]) /\ Sought(c, c.heard[k][i])})
    IN /\ Len(c.heard) = Len(from)
       /\ InOrder(c.records, from)
       /\ \A k \in DOMAIN from : Bare(OfSource(c.records, from[k])) = Bare(due(k))

\* A call that composed everything and has not handed it on.
HasComposed(p) == pc[p] = "insert" \/ (pc[p] = "page" /\ call[p].op # "list")

\* What a call composed is every record that the sources asked for reported of the
\* stores they were given, in order, whatever their pages: no source is missing
\* (inventory.go:194-291, :513-551, :598-617; STO-I2, STO-I6, STO-I9).
ComposedWhole == \A p \in Callers : HasComposed(p) => Whole(call[p])

\* A page is of a listing of the caller's own subject and of the store it asks for,
\* shows nothing that the read policy refuses the caller, and every hold on it is
\* an observation of the source that reported it (inventory.go:177-188, :329-351,
\* :462-469; STO-I2, STO-I4, STO-I5, STO-I9).
PagesGuarded ==
    \A p \in Callers :
        /\ pc[p] = "gate" =>
              \A q \in Callers : view[q].token = call[p].token =>
                  ScopeOf[q] = ScopeOf[p] /\ view[q].store = call[p].store
        /\ \A i \in DOMAIN call[p].page.records :
            LET r == call[p].page.records[i] IN
            /\ r.digests \subseteq Readable[ScopeOf[p]]
            /\ \A h \in r.holds :
                h.by = r.of /\ (r.store # None => h.attestation # "declared")

\* The pages a client followed are what it may read of the frozen composition up
\* to its continuation, none twice and none left out, though other calls list,
\* sources change and decisions fail in between (inventory.go:358-384, :446-488).
PagesExact ==
    \A p \in Callers :
        LET v == view[p]
            upto == IF v.next = 0 THEN Len(v.whole) ELSE v.next
        IN v.seen = Permitted(p, v.whole, 0, upto)

\* validInventoryPage and the checks of ListStore: a client that follows
\* continuations refuses no page (go/client/inventory.go:37-55, :84-106).
ValidInventoryPage(p) ==
    LET c == call[p] IN
    /\ Cardinality({i \in DOMAIN c.page.records : c.page.records[i].store # None}) <= c.limit
    /\ c.page.complete # (c.page.next # 0)
    /\ c.offset # 0 => c.page.stores = NoStores

ValidStorePage(p) ==
    LET c == call[p] IN
    /\ \A s \in Stores : c.page.stores[s] > 0 => s = c.store
    /\ c.offset = 0 => c.page.stores[c.store] = 1
    /\ \A i \in DOMAIN c.page.records : c.page.records[i].store = c.store

ClientAccepts ==
    \A p \in Callers :
        pc[p] = "gate" => /\ ValidInventoryPage(p)
                          /\ call[p].store # None => ValidStorePage(p)

=============================================================================
