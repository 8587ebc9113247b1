------------------------------- MODULE Changes -------------------------------
(***************************************************************************)
(* The change journal of go/service/changes.go with its callers: the       *)
(* writers whose commits it records, the goroutine that polls the          *)
(* provider's listing (go/listing.go), and clients that take a snapshot    *)
(* page by page and observe from its cursor, as client.Snapshot and the    *)
(* loop of README.md do (go/client/changes.go).                            *)
(*                                                                         *)
(* Critical sections under j.mu are single actions.  The listing, which    *)
(* reads the directory and then each entry, and the time between a         *)
(* publish and its journaling are steps apart.  A page is built from what  *)
(* a critical section copied, so building it belongs to that action.       *)
(*                                                                         *)
(* A client presents its own cursors and continuations only; what the code *)
(* refuses as invalid or as another subject's changes nothing.             *)
(***************************************************************************)
EXTENDS Integers, Sequences, FiniteSets, FiniteSetsExt

CONSTANTS Digests,          \* numbered in the order of their names
          Writers,          \* calls of Commit
          Clients,
          Readable,         \* client -> the digests its read policy permits
          Tokens,           \* snapshot tokens; one nobody holds is drawn again
          None,
          Capacity,         \* changes the ring retains
          PageSize,         \* max_changes and limit of every call
          MaxSnapshots, MaxChangeWaiters,
          SnapshotIdle,
          MaxSteps,         \* bound on publishes and removals
          MaxTime,          \* bound on the clock
          MaxEpoch,         \* bound on provider lifetimes
          Events            \* what the environment may do, see below

\* "external" another program publishes    "remove" an object is removed
\* "listing"  a listing may fail           "policy" decisions may be out
\* "cancel"   a waiting call is cancelled  "close"  the component closes
\* "restart"  the provider dies and starts again
EventNames == {"external", "remove", "listing", "policy", "cancel", "close", "restart"}

ASSUME ChangesAssumption ==
    /\ Digests \subseteq Nat /\ IsFiniteSet(Digests) /\ IsFiniteSet(Clients)
    /\ None \notin Digests \cup Tokens
    /\ Readable \in [Clients -> SUBSET Digests]
    /\ Capacity \in Nat \ {0} /\ PageSize \in Nat \ {0}
    /\ MaxSnapshots \in Nat /\ MaxChangeWaiters \in Nat
    /\ SnapshotIdle \in Nat \ {0}
    /\ MaxSteps \in Nat /\ MaxTime \in Nat /\ MaxEpoch \in Nat
    /\ Events \subseteq EventNames

VARIABLES store,        \* the objects the provider has
          committing,   \* writer -> the digest it published and has yet to journal
          poller,       \* the listing in progress
          known, last, ring, listing, closed,   \* changeJournal's own fields
          snapshots,    \* j.snapshots
          notify,       \* which channel j.notify is; the earlier ones are closed
          waiters,      \* slots of j.waiters in use
          epoch, now, steps,
          client,       \* what each client knows, and its call in progress
          log, history, \* history: every change of the lifetime; what was known
                        \* when it began and after each of them
          seen          \* history: known objects that were there all the time since

journal == <<known, last, ring, notify, log, history, seen>>
vars == <<store, committing, poller, journal, listing, closed, snapshots, waiters,
          epoch, now, steps, client>>

Kinds == {"added", "removed"}
Change == [sequence : Nat, kind : Kinds, digest : Digests]
Snapshot == [objects : Seq(Digests), cursor : Nat, expires : Nat]

\* A cursor names an epoch and the last sequence examined in it.
Cursor == [epoch : Nat, sequence : Nat]

\* view: what client.Snapshot gathered, and later the observed changes applied
\* to it; complete once the last page is in.  A call of Observe goes from "end"
\* (an empty cursor was replaced by the journal's end) or from "idle" over
\* "slot" and "waiting" to "again"; from and channel are its locals.
Client == [pc : {"idle", "end", "slot", "waiting", "again"},
           cursor : Cursor \cup {None}, view : SUBSET Digests, complete : BOOLEAN,
           token : Tokens \cup {None}, offset : Nat,
           from : Cursor \cup {None}, channel : Nat]

NewClient == [pc |-> "idle", cursor |-> None, view |-> {}, complete |-> FALSE,
              token |-> None, offset |-> 0, from |-> None, channel |-> 0]

ChangesTypeOK ==
    /\ store \in SUBSET Digests
    /\ committing \in [Writers -> Digests \cup {None}]
    /\ poller \in [pc : {"idle", "info", "diff"}, listed : SUBSET Digests]
    /\ known \in SUBSET Digests
    /\ last \in Nat
    /\ ring \in Seq(Change)
    /\ listing \in BOOLEAN /\ closed \in BOOLEAN
    /\ snapshots \in [Tokens -> Snapshot \cup {None}]
    /\ notify \in Nat /\ waiters \in Nat
    /\ epoch \in 0 .. MaxEpoch /\ now \in 0 .. MaxTime /\ steps \in 0 .. MaxSteps
    /\ client \in [Clients -> Client]
    /\ log \in Seq(Change) /\ history \in Seq(SUBSET Digests) /\ seen \in SUBSET Digests

\* newChangeJournal records what the listing has and journals nothing.
Init ==
    /\ store \in SUBSET Digests
    /\ committing = [w \in Writers |-> None]
    /\ poller = [pc |-> "idle", listed |-> {}]
    /\ known = store /\ history = <<store>> /\ seen = store
    /\ last = 0 /\ ring = <<>> /\ log = <<>>
    /\ listing = TRUE /\ closed = FALSE
    /\ snapshots = [t \in Tokens |-> None]
    /\ notify = 0 /\ waiters = 0
    /\ epoch = 0 /\ now = 0 /\ steps = 0
    /\ client = [c \in Clients |-> NewClient]

-----------------------------------------------------------------------------
(* The journal.                                                            *)

Trimmed(r) == IF Len(r) > Capacity THEN SubSeq(r, Len(r) - Capacity + 1, Len(r)) ELSE r

\* Mutant of Woken: the waiters' channel stays as it is.
WokenNobody(n) == UNCHANGED notify

\* Each append closes the channel and replaces it.
Woken(n) == notify' = notify + n

\* In the order of the names: the element that has i - 1 smaller ones is at i.
Sorted(S) ==
    [i \in 1 .. Cardinality(S) |->
        CHOOSE d \in S : Cardinality({e \in S : e < d}) = i - 1]

\* What is gone is journaled before what is new.
Ordered(removed, added) == Sorted(removed) \o Sorted(added)

\* appendLocked of the removed and the added digests, in order.
Journal(removed, added) ==
    LET digests == Ordered(removed, added)
        change(i) == [sequence |-> last + i, digest |-> digests[i],
                      kind |-> IF i <= Cardinality(removed) THEN "removed" ELSE "added"]
        changes == [i \in 1 .. Len(digests) |-> change(i)]
        done(i) == {digests[k] : k \in 1 .. i}
        states == [i \in 1 .. Len(digests) |-> (known \ done(i)) \cup (added \cap done(i))]
    IN /\ known' = (known \ removed) \cup added
       /\ last' = last + Len(changes)
       /\ ring' = Trimmed(ring \o changes)
       /\ log' = log \o changes
       /\ history' = history \o states
       /\ Woken(Len(changes))
       /\ seen' = (seen \ removed) \cup (added \cap store)

-----------------------------------------------------------------------------
(* The provider: commits of the writer, other programs, collectors.        *)

\* Commit found its object after the provider's publishing step.
Published(w) ==
    /\ steps < MaxSteps
    /\ steps' = steps + 1
    /\ committing[w] = None
    /\ \E d \in Digests : /\ store' = store \cup {d}
                          /\ committing' = [committing EXCEPT ![w] = d]
    /\ UNCHANGED <<poller, journal, listing, closed, snapshots, waiters, epoch, now,
                   client>>

\* Mutant of New: a commit is journaled whether the object is known or not.
NewAlways(d) == {d}

New(d) == {d} \ known

\* onCommitted, outside the writer's mutex.
Committed(w) ==
    /\ committing[w] # None
    /\ IF closed THEN UNCHANGED journal ELSE Journal({}, New(committing[w]))
    /\ committing' = [committing EXCEPT ![w] = None]
    /\ UNCHANGED <<store, poller, listing, closed, snapshots, waiters, epoch, now,
                   steps, client>>

ExternalPublish ==
    /\ "external" \in Events
    /\ steps < MaxSteps
    /\ steps' = steps + 1
    /\ \E d \in Digests \ store : store' = store \cup {d}
    /\ UNCHANGED <<committing, poller, journal, listing, closed, snapshots, waiters,
                   epoch, now, client>>

ExternalRemove ==
    /\ "remove" \in Events
    /\ steps < MaxSteps
    /\ steps' = steps + 1
    /\ \E d \in store : store' = store \ {d} /\ seen' = seen \ {d}
    /\ UNCHANGED <<committing, poller, known, last, ring, notify, log, history,
                   listing, closed, snapshots, waiters, epoch, now, client>>

-----------------------------------------------------------------------------
(* The polling goroutine: os.ReadDir, then each entry's Info, then the     *)
(* critical section that compares the listing with the known objects.      *)

PollReads ==
    /\ poller.pc = "idle" /\ ~closed
    /\ poller' = [pc |-> "info", listed |-> store]
    /\ UNCHANGED <<store, committing, journal, listing, closed, snapshots, waiters,
                   epoch, now, steps, client>>

\* An entry that is gone by now is skipped.
PollInfo ==
    /\ poller.pc = "info"
    /\ poller' = [pc |-> "diff", listed |-> poller.listed \cap store]
    /\ UNCHANGED <<store, committing, journal, listing, closed, snapshots, waiters,
                   epoch, now, steps, client>>

\* Mutant of Gone: what disappeared is never noticed.
GoneNever == {}

Gone == known \ poller.listed

PollDiff ==
    /\ poller.pc = "diff"
    /\ poller' = [pc |-> "idle", listed |-> {}]
    /\ IF closed THEN UNCHANGED <<journal, listing>>
       ELSE /\ listing' = TRUE
            /\ Journal(Gone, poller.listed \ known)
    /\ UNCHANGED <<store, committing, closed, snapshots, waiters, epoch, now, steps,
                   client>>

\* A listing that fails or is too long is not a listing of deletions.
PollFails ==
    /\ "listing" \in Events
    /\ poller.pc = "diff"
    /\ poller' = [pc |-> "idle", listed |-> {}]
    /\ listing' = (listing /\ closed)
    /\ UNCHANGED <<store, committing, journal, closed, snapshots, waiters, epoch, now,
                   steps, client>>

-----------------------------------------------------------------------------
(* Pages: entries are examined in order until the page is full.            *)

\* How far the entries after from are examined for c.
Examined(digests, from, c) ==
    LET read(i) == Cardinality({k \in from + 1 .. i : digests[k] \in Readable[c]})
        full == {i \in from .. Len(digests) : read(i) = PageSize}
    IN IF full = {} THEN Len(digests) ELSE Min(full)

Lapsed == {t \in Tokens : snapshots[t] # None /\ snapshots[t].expires <= now}

\* j.sweep
Swept == [t \in Tokens |-> IF t \in Lapsed THEN None ELSE snapshots[t]]

Serving == ~closed /\ listing

\* A refusal or a gap: client.Snapshot fails and what it gathered goes.
Forgets(c) == client' = [client EXCEPT ![c] = NewClient]

\* Mutant of Resumes: observation resumes from now, not from the snapshot.
ResumesNow(s) == [epoch |-> epoch, sequence |-> last]

\* The cursor that the last page of a snapshot carries.
Resumes(s) == [epoch |-> epoch, sequence |-> s.cursor]

\* The page after offset of a snapshot reaches the client, which asks for the
\* rest with its token.
TakesPage(c, token, s, offset, view) ==
    LET end == Examined(s.objects, offset, c)
        page == {s.objects[k] : k \in offset + 1 .. end} \cap Readable[c]
    IN client' = [client EXCEPT ![c] =
        [NewClient EXCEPT !.view = view \cup page,
                          !.cursor = IF end = Len(s.objects) THEN Resumes(s) ELSE None,
                          !.complete = (end = Len(s.objects)),
                          !.token = IF end = Len(s.objects) THEN None ELSE token,
                          !.offset = IF end = Len(s.objects) THEN 0 ELSE end]]

\* The read or the observe policy was out: the page is refused.
Outage == "policy" \in Events

ListFrame == UNCHANGED <<store, committing, poller, journal, listing, closed, waiters,
                         epoch, now, steps>>

Live == {t \in Tokens : Swept[t] # None}

\* A token names no snapshot and no client presents it any more.
Fresh(t) == t \notin Live /\ \A c \in Clients : client[c].token # t

\* List with no continuation freezes the known objects with the cursor.
ListFirst(c) ==
    /\ client[c].pc = "idle" /\ client[c].cursor = None /\ client[c].token = None
    /\ Serving /\ Cardinality(Live) < MaxSnapshots
    /\ \E t \in Tokens :
        /\ Fresh(t)
        /\ snapshots' = [Swept EXCEPT ![t] = [objects |-> Sorted(known), cursor |-> last,
                                             expires |-> now + SnapshotIdle]]
        /\ \/ TakesPage(c, t, snapshots'[t], 0, {})
           \/ Outage /\ Forgets(c)
    /\ ListFrame

ListNext(c) ==
    LET t == client[c].token IN
    /\ client[c].pc = "idle" /\ t # None
    /\ Serving /\ Swept[t] # None
    /\ snapshots' = [Swept EXCEPT ![t].expires = now + SnapshotIdle]
    /\ \/ TakesPage(c, t, Swept[t], client[c].offset, client[c].view)
       \/ Outage /\ Forgets(c)
    /\ ListFrame

\* Unavailable, too many snapshots, or the snapshot is gone.
ListRefused(c) ==
    LET t == client[c].token IN
    /\ client[c].pc = "idle" /\ client[c].cursor = None
    /\ \/ ~Serving
       \/ t = None /\ Cardinality(Live) >= MaxSnapshots
       \/ t # None /\ Swept[t] = None
    /\ snapshots' = Swept
    /\ Forgets(c)
    /\ ListFrame

\* The goroutine that polls sweeps as well.
SweepSnapshots ==
    /\ ~closed
    /\ snapshots' = Swept
    /\ UNCHANGED client
    /\ ListFrame

-----------------------------------------------------------------------------
(* Observe.                                                                *)

ObserveFrame == UNCHANGED <<store, committing, poller, journal, listing, closed,
                            snapshots, epoch, now, steps>>

\* How many changes of the ring a client at sequence has examined.
Skipped(sequence) == Cardinality({i \in 1 .. Len(ring) : ring[i].sequence <= sequence})

\* Mutant of Lost: a cursor one change too old is still served.
LostLate(cursor) ==
    \/ cursor.epoch # epoch
    \/ ring # <<>> /\ cursor.sequence + 1 < ring[1].sequence - 1

\* The cursor is of another lifetime, or older than the ring.
Lost(cursor) ==
    \/ cursor.epoch # epoch
    \/ ring # <<>> /\ cursor.sequence < ring[1].sequence - 1

\* The page of collect that ends with entry end of the ring: the changes the
\* caller may read, which their sequences order, and the next cursor.
PageTo(c, cursor, end) ==
    [changes |-> {ring[i] : i \in {k \in Skipped(cursor.sequence) + 1 .. end :
                                     ring[k].digest \in Readable[c]}},
     next |-> IF end = Skipped(cursor.sequence) THEN cursor
              ELSE [cursor EXCEPT !.sequence = ring[end].sequence],
     atEnd |-> end = Len(ring)]

PageEnd(c, cursor) ==
    Examined([i \in 1 .. Len(ring) |-> ring[i].digest], Skipped(cursor.sequence), c)

Page(c, cursor) == PageTo(c, cursor, PageEnd(c, cursor))

\* The loop of README.md over a page: of each digest, the latest change decides.
Applied(objects, changes) ==
    LET latest == {ch \in changes : \A other \in changes :
                      other.digest = ch.digest => other.sequence <= ch.sequence}
    IN {d \in objects : \A ch \in changes : ch.digest # d}
       \cup {ch.digest : ch \in {ch \in latest : ch.kind = "added"}}

\* A refusal carries the cursor of the request.
Refused(c) == client' = [client EXCEPT ![c].pc = "idle", ![c].from = None, ![c].channel = 0]

\* The page reaches the client, which applies its changes.
Answered(c, page) ==
    client' = [client EXCEPT ![c].pc = "idle", ![c].from = None, ![c].channel = 0,
                             ![c].cursor = page.next,
                             ![c].view = Applied(@, page.changes)]

\* An empty cursor starts at the journal's end.
ObserveEnd(c) ==
    /\ client[c].pc = "idle" /\ client[c].cursor = None /\ client[c].token = None
    /\ client' = [client EXCEPT ![c].pc = "end",
                                ![c].from = [epoch |-> epoch, sequence |-> last]]
    /\ ObserveFrame /\ UNCHANGED waiters

\* Where the first and the second collect of a call begin.
Collects(c) ==
    \/ client[c].pc = "idle" /\ client[c].cursor # None
    \/ client[c].pc \in {"end", "again"}

From(c) == IF client[c].pc = "idle" THEN client[c].cursor ELSE client[c].from

Observe(c) ==
    LET page == Page(c, From(c)) IN
    /\ Collects(c)
    /\ Serving /\ ~Lost(From(c))
    /\ \/ Answered(c, page)
       \/ /\ client[c].pc # "again"
          /\ page.changes = {} /\ page.atEnd
          /\ client' = [client EXCEPT ![c].pc = "slot", ![c].from = page.next,
                                      ![c].channel = notify]
       \/ Outage /\ Refused(c)
    /\ ObserveFrame /\ UNCHANGED waiters

\* gap: what the client knows is lost, and it lists again.
ObserveGap(c) ==
    /\ Collects(c)
    /\ Serving /\ Lost(From(c))
    /\ Forgets(c)
    /\ ObserveFrame /\ UNCHANGED waiters

ObserveRefused(c) ==
    /\ Collects(c) /\ ~Serving
    /\ Refused(c)
    /\ ObserveFrame /\ UNCHANGED waiters

\* One of the slots, or unavailable.
ObserveSlot(c) ==
    /\ client[c].pc = "slot"
    /\ IF waiters < MaxChangeWaiters
       THEN client' = [client EXCEPT ![c].pc = "waiting"] /\ waiters' = waiters + 1
       ELSE Refused(c) /\ UNCHANGED waiters
    /\ ObserveFrame

\* The channel is closed, or the timer has run out.
Signalled(c) == client[c].channel < notify \/ closed

ObserveWakes(c) ==
    /\ client[c].pc = "waiting"
    /\ client' = [client EXCEPT ![c].pc = "again", ![c].channel = 0]
    /\ waiters' = waiters - 1
    /\ ObserveFrame

\* Mutant of Freed: a cancelled call keeps its slot.
FreedNever(n) == n

Freed(n) == n - 1

ObserveCancelled(c) ==
    /\ "cancel" \in Events
    /\ client[c].pc = "waiting"
    /\ Refused(c)
    /\ waiters' = Freed(waiters)
    /\ ObserveFrame

-----------------------------------------------------------------------------
(* The component and its clock.                                            *)

Close ==
    /\ "close" \in Events
    /\ ~closed
    /\ closed' = TRUE
    /\ snapshots' = [t \in Tokens |-> None]
    /\ UNCHANGED <<store, committing, poller, journal, listing, waiters, epoch, now,
                   steps, client>>

\* A new lifetime: what clients hold stays, the calls in progress fail, and a
\* publish that was not journaled is part of the new listing.
Restart ==
    /\ "restart" \in Events
    /\ epoch < MaxEpoch
    /\ epoch' = epoch + 1
    /\ known' = store /\ history' = <<store>> /\ seen' = store
    /\ last' = 0 /\ ring' = <<>> /\ log' = <<>>
    /\ listing' = TRUE /\ closed' = FALSE
    /\ snapshots' = [t \in Tokens |-> None]
    /\ notify' = 0 /\ waiters' = 0
    /\ committing' = [w \in Writers |-> None]
    /\ poller' = [pc |-> "idle", listed |-> {}]
    /\ client' = [c \in Clients |-> [client[c] EXCEPT !.pc = "idle", !.from = None,
                                                     !.channel = 0]]
    /\ UNCHANGED <<store, now, steps>>

Tick ==
    /\ now < MaxTime
    /\ now' = now + 1
    /\ UNCHANGED <<store, committing, poller, journal, listing, closed, snapshots,
                   waiters, epoch, steps, client>>

Poll == PollReads \/ PollInfo \/ PollDiff \/ PollFails

List(c) == ListFirst(c) \/ ListNext(c) \/ ListRefused(c)

Observes(c) ==
    \/ ObserveEnd(c) \/ Observe(c) \/ ObserveGap(c) \/ ObserveRefused(c)
    \/ ObserveSlot(c) \/ ObserveWakes(c) \/ ObserveCancelled(c)

Next ==
    \/ \E w \in Writers : Published(w) \/ Committed(w)
    \/ Poll \/ SweepSnapshots
    \/ \E c \in Clients : List(c) \/ Observes(c)
    \/ ExternalPublish \/ ExternalRemove
    \/ Close \/ Restart \/ Tick

Spec == Init /\ [][Next]_vars

-----------------------------------------------------------------------------
(* What keeps observation correct.                                         *)

\* The journal is exact: it explains every known object, adds only what was
\* not known, removes only what was, and the ring retains its last changes in
\* sequence (changes.go, appendLocked, committed and poll; STO-O1, STO-O2).
JournalExact ==
    /\ last = Len(log) /\ Len(history) = last + 1 /\ known = history[last + 1]
    /\ \A i \in 1 .. last :
        /\ log[i].sequence = i
        /\ log[i].kind = "added" <=> log[i].digest \notin history[i]
        /\ history[i + 1] = Applied(history[i], {log[i]})
    /\ Len(ring) = IF last < Capacity THEN last ELSE Capacity
    /\ \A i \in 1 .. Len(ring) : ring[i] = log[last - Len(ring) + i]

\* c has examined the whole journal, if it waits or is about to and its channel
\* is not closed.
Attentive(c) ==
    client[c].pc \in {"slot", "waiting"} /\ ~Signalled(c) =>
        client[c].from = [epoch |-> epoch, sequence |-> last]

\* No append between collect and the wait is slept through (changes.go:239
\* against :285-294).
NoLostWakeup == \A c \in Clients : Attentive(c)

\* Every slot in use is a call that waits: none leaks, however a wait ends
\* (STO-O4, at most 16 calls).
SlotsHeld ==
    /\ waiters = Cardinality({c \in Clients : client[c].pc = "waiting"})
    /\ waiters <= MaxChangeWaiters

\* What c may read of the known objects after the change of that sequence.
AsOf(c, sequence) == history[sequence + 1] \cap Readable[c]

\* A snapshot holds exactly what was known after the change its cursor names,
\* whatever was journaled since (changes.go:337-348; STO-O3).
SnapshotsFrozen ==
    \A t \in Tokens : snapshots[t] # None =>
        /\ snapshots[t].cursor <= last
        /\ {snapshots[t].objects[k] : k \in 1 .. Len(snapshots[t].objects)}
             = history[snapshots[t].cursor + 1]

\* A client that pages has what it may read of the entries before its offset.
PagesGathered(c) ==
    client[c].token # None =>
        LET s == snapshots[client[c].token] IN
        /\ client[c].pc = "idle" /\ client[c].cursor = None /\ ~client[c].complete
        /\ s # None =>
             /\ client[c].offset <= Len(s.objects)
             /\ client[c].view = {s.objects[k] : k \in 1 .. client[c].offset} \cap Readable[c]

\* A cursor is of an earlier lifetime or within the journal; a complete view is
\* what its client may read as of the cursor, however much was trimmed since.
CursorExact(c) ==
    /\ client[c].cursor # None =>
         /\ client[c].cursor.epoch <= epoch
         /\ client[c].cursor.epoch = epoch => client[c].cursor.sequence <= last
    /\ client[c].complete =>
         /\ client[c].cursor # None
         /\ client[c].cursor.epoch = epoch =>
              client[c].view = AsOf(c, client[c].cursor.sequence)

\* A call in progress is of this lifetime, and what it has examined so far
\* changed nothing its client may read.
CallExact(c) ==
    client[c].pc # "idle" =>
        /\ client[c].from # None /\ client[c].from.epoch = epoch
        /\ client[c].from.sequence <= last
        /\ client[c].pc \in {"slot", "waiting"} => client[c].channel <= notify
        /\ client[c].pc = "end" => client[c].cursor = None
        /\ client[c].cursor # None =>
             /\ client[c].cursor.epoch = epoch
             /\ client[c].cursor.sequence <= client[c].from.sequence
        /\ client[c].complete => client[c].view = AsOf(c, client[c].from.sequence)

\* Views, cursors, snapshots and calls agree with the one history of the
\* lifetime: a client that has all pages knows what it may read of the state its
\* cursor names, whatever was journaled or trimmed since (changes.go:206-395).
ViewsExact ==
    /\ ChangesTypeOK /\ SnapshotsFrozen
    /\ \A c \in Clients : PagesGathered(c) /\ CursorExact(c) /\ CallExact(c)

\* "The service MUST append removed once per removal" (CONTRACT.md, STO-O1):
\* an object there all the time since it was journaled is not journaled as
\* removed.
RemovalsHappened == [][epoch' = epoch => (known \ known') \cap seen = {}]_vars

-----------------------------------------------------------------------------
(* What observation promises, and how the journal keeps it.                *)

\* A client that pages holds a token of a snapshot that is still there, or what
\* it gathered is lost already; one that has all pages is as far as its cursor.
ReplicaOf(c) ==
    LET t == client[c].token IN
    IF client[c].complete
    THEN [stage |-> "following", epoch |-> client[c].cursor.epoch,
          at |-> client[c].cursor.sequence + 1, view |-> client[c].view]
    ELSE IF t # None /\ snapshots[t] # None
    THEN [stage |-> "gathering", epoch |-> epoch, at |-> snapshots[t].cursor + 1, view |-> {}]
    ELSE None

Feed == INSTANCE ChangeFeed WITH replica <- [c \in Clients |-> ReplicaOf(c)]

ASSUME NoneAssumption == None \notin Snapshot \cup Cursor \cup Feed!Replica

\* The journal, its ring, pages and cursors implement the change feed: a client
\* is answered as of the state when it asked, only ever moves forward through
\* the states of one lifetime, sees each as its policy lets it, and learns of a
\* lost position by beginning again (changes.go:166-429; STO-O1 to STO-O5).
ImplementsFeed == Feed!Spec

-----------------------------------------------------------------------------
(* Fairness and liveness.                                                  *)

\* The poller's ticker ticks, goroutines run, timers fire, and a client goes
\* on listing and observing.  Nothing obliges the environment.
Fairness ==
    /\ WF_vars(PollReads) /\ WF_vars(PollInfo) /\ WF_vars(PollDiff)
    /\ \A w \in Writers : WF_vars(Committed(w))
    /\ \A c \in Clients : /\ WF_vars(ListFirst(c)) /\ WF_vars(ListNext(c))
                          /\ WF_vars(ListRefused(c) \/ ObserveGap(c))
                          /\ WF_vars(Observe(c)) /\ WF_vars(ObserveSlot(c))
                          /\ WF_vars(ObserveWakes(c))

FairSpec == Spec /\ Fairness

\* Once the store is quiet, every client comes to know the objects it may
\* read, whatever stale listings journaled before (README.md, Observing
\* changes; the poll's diff heals them).
ClientsCatchUp ==
    <>[](\A c \in Clients : client[c].complete => client[c].view = store \cap Readable[c])

=============================================================================
