-------------------------------- MODULE Reader --------------------------------
(***************************************************************************)
(* The reader of go/service/resources.go: handles on opened files, shared   *)
(* by concurrent calls, the ticker that sweeps them and the component's     *)
(* Close, over a provider whose objects other programs replace and rewrite. *)
(*                                                                         *)
(* Critical sections under r.mu are single actions.  v.mu, the lock of one  *)
(* resource, is held by the Read whose program counter is in Holding; who   *)
(* closes a resource waits for it.  The calls of the file system are steps  *)
(* apart, and so is everything between an unlock and the next lock.         *)
(*                                                                         *)
(* A call draws its inputs at the step that first looks at them.  A refused *)
(* policy decision before Open, or an input refused as invalid, changes     *)
(* nothing.  Every write of a file is one that its size or its modification *)
(* time shows (CONTRACT.md, Divergences, STO-R10), so a file's content and  *)
(* its metadata are one version number.                                     *)
(***************************************************************************)
EXTENDS Naturals, FiniteSets

CONSTANTS Callers,          \* calls in progress at most
          Ticker, Closer,   \* the sweeping goroutine and Component.Close
          Scopes, ScopeOf,  \* caller -> its subject
          Handles,          \* random: each is drawn once
          Digests, Files,
          None,
          MaxResources, MaxPerScope,
          IdleLifetime,
          MaxTime,          \* bound on the clock
          MaxVersion,       \* bound on rewrites of one file
          Events            \* what the environment may do, see below

\* "rewrite" a file is written in place   "replace" a path gets another file
\* "refuse"  a decision or a system call of Read fails, or the call is cancelled
\* "close"   the component closes
EventNames == {"rewrite", "replace", "refuse", "close"}

ASSUME ReaderAssumption ==
    /\ IsFiniteSet(Callers) /\ IsFiniteSet(Handles)
    /\ Ticker \notin Callers /\ Closer \notin Callers /\ Ticker # Closer
    /\ None \notin Handles \cup Digests \cup Files \cup Scopes
    /\ ScopeOf \in [Callers -> Scopes]
    /\ MaxResources \in Nat /\ MaxPerScope \in Nat
    /\ IdleLifetime \in Nat \ {0}
    /\ MaxTime \in Nat /\ MaxVersion \in Nat
    /\ Events \subseteq EventNames

VARIABLES object,       \* digest -> the regular file at its path, or None
          version,      \* file -> how often it was written
          table,        \* the handles in r.resources
          resource,     \* handle -> its resource, in the table or not
          pending,      \* the calls counted in r.pending
          closed,
          call,         \* the calls, the ticker and Close: where they are
          now

vars == <<object, version, table, resource, pending, closed, call, now>>

Workers == Callers \cup {Ticker, Closer}

\* initial: the version of v.initial; file is None once it is closed.
Resource == [file : Files \cup {None}, opened : Files \cup {None}, initial : Nat,
             scope : Scopes \cup {None}, expires : Nat]

\* A handle that was not drawn yet.
NoResource == [file |-> None, opened |-> None, initial |-> 0, scope |-> None, expires |-> 0]

Drawn(h) == resource[h].opened # None

\* pc: "open", "read" and "close" follow sweep() of that operation, "ending" has
\* nothing left but to close.  todo: resources taken from the table that the
\* worker closes next.
PCs == {"idle", "open", "read", "close", "ending",
        "lstat", "opening", "insert", "release",
        "admit", "lock", "data", "check", "drop", "reply"}

Call == [pc : PCs, todo : SUBSET Handles, digest : Digests \cup {None},
         handle : Handles \cup {None}, file : Files \cup {None}, version : Nat]

Idle == [pc |-> "idle", todo |-> {}, digest |-> None, handle |-> None, file |-> None,
         version |-> 0]

ReaderTypeOK ==
    /\ object \in [Digests -> Files \cup {None}]
    /\ version \in [Files -> Nat]
    /\ table \in SUBSET Handles
    /\ resource \in [Handles -> Resource]
    /\ pending \in SUBSET Callers
    /\ closed \in BOOLEAN
    /\ call \in [Workers -> Call]
    /\ now \in Nat

Init ==
    /\ object \in [Digests -> Files \cup {None}]
    /\ version = [f \in Files |-> 0]
    /\ table = {} /\ pending = {}
    /\ resource = [h \in Handles |-> NoResource]
    /\ closed = FALSE
    /\ call = [w \in Workers |-> Idle]
    /\ now = 0

-----------------------------------------------------------------------------
(* Closing.                                                                *)

Holding == {"data", "check", "drop"}

\* Mutant of Locked: close() does not take v.mu.
LockedNever(h) == FALSE

\* v.mu of h is held.
Locked(h) == \E p \in Callers : call[p].handle = h /\ call[p].pc \in Holding

Return(w) == call' = [call EXCEPT ![w] = Idle]

Goto(w, pc) == call' = [call EXCEPT ![w].pc = pc]

\* v.close()
CloseOne(w) ==
    /\ \E h \in call[w].todo :
        /\ ~Locked(h)
        /\ resource' = [resource EXCEPT ![h].file = None]
        /\ call' = [call EXCEPT ![w].todo = @ \ {h}]
    /\ UNCHANGED <<object, version, table, pending, closed, now>>

Ends(w) ==
    /\ call[w].pc = "ending" /\ call[w].todo = {}
    /\ Return(w)
    /\ UNCHANGED <<object, version, table, resource, pending, closed, now>>

Expired == {h \in table : resource[h].expires <= now}

\* The critical section of sweep(), with which an operation begins; the worker
\* closes what it took from the table before it goes on.
Sweep(w, pc) ==
    /\ call[w].pc = "idle"
    /\ call' = [call EXCEPT ![w] = [Idle EXCEPT !.pc = pc, !.todo = Expired]]
    /\ table' = table \ Expired
    /\ UNCHANGED <<object, version, resource, pending, closed, now>>

Calls(p) == Sweep(p, "open") \/ Sweep(p, "read") \/ Sweep(p, "close")

\* Every second, until the component closes.
TickerSweeps == ~closed /\ Expired # {} /\ Sweep(Ticker, "ending")

Swept(p, pc) == call[p].pc = pc /\ call[p].todo = {}

\* Mutants of Retained: the resources stay in the table, or nobody closes them.
RetainedInTable == table' = table /\ call' = [call EXCEPT ![Closer].pc = "ending",
                                                          ![Closer].todo = table]
RetainedOpen == table' = {} /\ call' = [call EXCEPT ![Closer].pc = "ending"]

Retained == table' = {} /\ call' = [call EXCEPT ![Closer].pc = "ending",
                                                ![Closer].todo = table]

\* registry.close(), which Component.Close reaches once.
ComponentCloses ==
    /\ "close" \in Events
    /\ ~closed /\ closed' = TRUE
    /\ Retained
    /\ UNCHANGED <<object, version, resource, pending, now>>

-----------------------------------------------------------------------------
(* Open.                                                                   *)

\* Mutant of Taken: opens in progress are not counted.
TakenByHandles(s) ==
    Cardinality(table) >= MaxResources
    \/ Cardinality({h \in table : resource[h].scope = s}) >= MaxPerScope

\* Handles and opens in progress, of everyone and of the subject.
Taken(s) ==
    \/ Cardinality(table) + Cardinality(pending) >= MaxResources
    \/ Cardinality({h \in table : resource[h].scope = s})
         + Cardinality({p \in pending : ScopeOf[p] = s}) >= MaxPerScope

OpenReserve(p) ==
    /\ Swept(p, "open")
    /\ ~closed /\ ~Taken(ScopeOf[p])
    /\ pending' = pending \cup {p}
    /\ \E d \in Digests : call' = [call EXCEPT ![p].pc = "lstat", ![p].digest = d]
    /\ UNCHANGED <<object, version, table, resource, closed, now>>

OpenRefused(p) ==
    /\ Swept(p, "open")
    /\ closed \/ Taken(ScopeOf[p])
    /\ Return(p)
    /\ UNCHANGED <<object, version, table, resource, pending, closed, now>>

\* store.Find and os.Lstat: a regular file, or the call fails.
OpenLstat(p) ==
    LET f == object[call[p].digest] IN
    /\ call[p].pc = "lstat"
    /\ IF f # None THEN call' = [call EXCEPT ![p].pc = "opening", ![p].file = f]
       ELSE Goto(p, "release")
    /\ UNCHANGED <<object, version, table, resource, pending, closed, now>>

\* openRegular and Stat: the file that Lstat saw, or the call fails.
OpenFile(p) ==
    /\ call[p].pc = "opening"
    /\ \/ /\ object[call[p].digest] = call[p].file
          /\ call' = [call EXCEPT ![p].pc = "insert", ![p].version = version[call[p].file]]
       \/ /\ object[call[p].digest] # call[p].file \/ "refuse" \in Events
          /\ Goto(p, "release")
    /\ UNCHANGED <<object, version, table, resource, pending, closed, now>>

\* Mutant of Admits: the component may have closed since the first check.
AdmitsAlways == TRUE

Admits == ~closed

OpenInsert(p) ==
    /\ call[p].pc = "insert" /\ Admits
    /\ \E h \in Handles :
        /\ ~Drawn(h)
        /\ resource' = [resource EXCEPT ![h] =
               [file |-> call[p].file, opened |-> call[p].file,
                initial |-> call[p].version, scope |-> ScopeOf[p],
                expires |-> now + IdleLifetime]]
        /\ table' = table \cup {h}
    /\ call' = [call EXCEPT ![p] = [Idle EXCEPT !.pc = "release"]]
    /\ UNCHANGED <<object, version, pending, closed, now>>

\* The component closed, or rand.Read failed, which is also where the bound on
\* handles shows: the deferred function closes the file.
OpenLate(p) ==
    /\ call[p].pc = "insert"
    /\ ~Admits \/ \A h \in Handles : Drawn(h)
    /\ call' = [call EXCEPT ![p] = [Idle EXCEPT !.pc = "release"]]
    /\ UNCHANGED <<object, version, table, resource, pending, closed, now>>

\* Mutant of Unreserved: only an Open that succeeds gives its place back.
UnreservedIfOpened(p) == IF call[p].digest = None THEN pending \ {p} ELSE pending

Unreserved(p) == pending \ {p}

\* The deferred function that gives the place back, however Open ends.
OpenRelease(p) ==
    /\ call[p].pc = "release"
    /\ pending' = Unreserved(p)
    /\ Return(p)
    /\ UNCHANGED <<object, version, table, resource, closed, now>>

-----------------------------------------------------------------------------
(* Read.                                                                   *)

Own(p, h) == h \in table /\ resource[h].scope = ScopeOf[p]

\* find(): a handle of the caller's subject; any other is a gap or forbidden.
ReadFind(p) ==
    /\ Swept(p, "read")
    /\ \E h \in Handles :
        IF Own(p, h) THEN call' = [call EXCEPT ![p].pc = "admit", ![p].handle = h]
        ELSE Return(p)
    /\ UNCHANGED <<object, version, table, resource, pending, closed, now>>

\* The policy decided outside the lock: the resource is looked up once more.
ReadAdmit(p) ==
    LET h == call[p].handle IN
    /\ call[p].pc = "admit" /\ h \in table
    /\ resource' = [resource EXCEPT ![h].expires = now + IdleLifetime]
    /\ Goto(p, "lock")
    /\ UNCHANGED <<object, version, table, pending, closed, now>>

ReadNotAdmitted(p) ==
    /\ call[p].pc = "admit"
    /\ call[p].handle \notin table \/ "refuse" \in Events
    /\ Return(p)
    /\ UNCHANGED <<object, version, table, resource, pending, closed, now>>

\* Mutant of Changed: the metadata is not compared again.
ChangedBefore(p, v) == call[p].pc = "lock" /\ version[v.file] # v.initial

\* The metadata differs from what Open saw.
Changed(p, v) == version[v.file] # v.initial

\* changed() closes the file while v.mu is held, then drops the handle.
Discards(p) ==
    /\ resource' = [resource EXCEPT ![call[p].handle].file = None]
    /\ Goto(p, "drop")

\* v.mu is taken; a closed file is a gap.
ReadLock(p) ==
    LET h == call[p].handle
        v == resource[h]
    IN /\ call[p].pc = "lock" /\ ~Locked(h)
       /\ \/ v.file = None /\ Return(p) /\ UNCHANGED resource
          \/ v.file # None /\ Changed(p, v) /\ Discards(p)
          \/ v.file # None /\ ~Changed(p, v) /\ Goto(p, "data") /\ UNCHANGED resource
       /\ UNCHANGED <<object, version, table, pending, closed, now>>

\* v.file.ReadAt
ReadData(p) ==
    /\ call[p].pc = "data"
    /\ call' = [call EXCEPT ![p].pc = "check",
                            ![p].version = version[resource[call[p].handle].file]]
    /\ UNCHANGED <<object, version, table, resource, pending, closed, now>>

ReadCheck(p) ==
    LET v == resource[call[p].handle] IN
    /\ call[p].pc = "check"
    /\ IF Changed(p, v) THEN Discards(p) ELSE Goto(p, "reply") /\ UNCHANGED resource
    /\ UNCHANGED <<object, version, table, pending, closed, now>>

\* A Stat or ReadAt fails, or the call was cancelled: unavailable.
ReadFails(p) ==
    /\ "refuse" \in Events
    /\ call[p].pc \in {"data", "check"}
    /\ Return(p)
    /\ UNCHANGED <<object, version, table, resource, pending, closed, now>>

ReadDrop(p) ==
    /\ call[p].pc = "drop"
    /\ table' = table \ {call[p].handle}
    /\ Return(p)
    /\ UNCHANGED <<object, version, resource, pending, closed, now>>

ReadReplies(p) ==
    /\ call[p].pc = "reply"
    /\ Return(p)
    /\ UNCHANGED <<object, version, table, resource, pending, closed, now>>

-----------------------------------------------------------------------------
(* Close, the environment and the clock.                                   *)

\* find() and the critical section after it; whoever drops the handle in
\* between makes it a gap.
CloseHandle(p) ==
    /\ Swept(p, "close")
    /\ \E h \in Handles :
        IF Own(p, h)
        THEN /\ table' = table \ {h}
             /\ call' = [call EXCEPT ![p].pc = "ending", ![p].todo = {h}]
        ELSE Return(p) /\ UNCHANGED table
    /\ UNCHANGED <<object, version, resource, pending, closed, now>>

Rewrite ==
    /\ "rewrite" \in Events
    /\ \E f \in Files : /\ version[f] < MaxVersion
                        /\ version' = [version EXCEPT ![f] = @ + 1]
    /\ UNCHANGED <<object, table, resource, pending, closed, call, now>>

\* A removal, a publish, or both; an irregular file is as good as none.
Replace ==
    /\ "replace" \in Events
    /\ \E d \in Digests, f \in Files \cup {None} :
        f # object[d] /\ object' = [object EXCEPT ![d] = f]
    /\ UNCHANGED <<version, table, resource, pending, closed, call, now>>

Tick ==
    /\ now < MaxTime
    /\ now' = now + 1
    /\ UNCHANGED <<object, version, table, resource, pending, closed, call>>

Open(p) ==
    \/ OpenReserve(p) \/ OpenRefused(p) \/ OpenLstat(p) \/ OpenFile(p)
    \/ OpenInsert(p) \/ OpenLate(p) \/ OpenRelease(p)

Read(p) ==
    \/ ReadFind(p) \/ ReadAdmit(p) \/ ReadNotAdmitted(p) \/ ReadLock(p) \/ ReadData(p)
    \/ ReadCheck(p) \/ ReadFails(p) \/ ReadDrop(p) \/ ReadReplies(p)

Next ==
    \/ \E p \in Callers : Calls(p) \/ Open(p) \/ Read(p) \/ CloseHandle(p)
    \/ \E w \in Workers : CloseOne(w) \/ Ends(w)
    \/ TickerSweeps \/ ComponentCloses
    \/ Rewrite \/ Replace \/ Tick

Spec == Init /\ [][Next]_vars

-----------------------------------------------------------------------------
(* What keeps reading correct.                                             *)

\* A place is taken by an open in progress: none leaks, however Open ends.
PendingExact ==
    pending = {p \in Callers : call[p].pc \in {"lstat", "opening", "insert", "release"}}

\* No more handles than the limits, in all and of one subject, though Open
\* leaves the mutex between counting and inserting (resources.go:143-215;
\* STO-R8), and no place leaks.
WithinLimits ==
    /\ Cardinality(table) <= MaxResources
    /\ \A s \in Scopes : Cardinality({h \in table : resource[h].scope = s}) <= MaxPerScope
    /\ PendingExact

OpenFileOf(h) == resource[h].file # None

\* Nobody may use the resource any more, or nobody did for its lifetime.
Due(h) == closed \/ resource[h].expires <= now

\* Every file that is open is reached by the table or by a worker that is
\* about to close it, and after Component.Close the table stays empty: an Open
\* that was in flight adds nothing (resources.go:59-83, :210-216; STO-R11).
FilesOwned ==
    /\ closed => table = {}
    /\ \A h \in Handles :
        OpenFileOf(h) => h \in table \/ \E w \in Workers : h \in call[w].todo

\* A Read between its two locks works on a file nobody has closed, and it is
\* the only one of its handle (resources.go:37-44 against :256-299).
ReadsOpenFile ==
    \A p \in Callers :
        call[p].pc \in {"data", "check"} =>
            /\ resource[call[p].handle].file # None
            /\ \A q \in Callers \ {p} : call[q].handle = call[p].handle
                                          => call[q].pc \notin Holding

\* The chunk of a data reply is of the version that Open saw, through writes
\* at any moment: chunks of one handle are never of two versions
\* (resources.go:269-298; STO-R10).
ChunkOfOpened ==
    \A p \in Callers :
        call[p].pc = "reply" => call[p].version = resource[call[p].handle].initial

-----------------------------------------------------------------------------
(* The inductive invariant behind them.                                    *)

\* Only who just swept, or has nothing else to do, has resources to close.
TodoKnown ==
    /\ \A w \in Workers :
        /\ \A h \in call[w].todo : Drawn(h)
        /\ call[w].todo # {} => call[w].pc \in {"open", "read", "close", "ending"}
    /\ ~closed => call[Closer] = Idle
    /\ \A w \in {Ticker, Closer} : call[w].pc \in {"idle", "ending"}

HandlesKnown ==
    /\ \A h \in table : Drawn(h)
    /\ \A p \in Callers :
        /\ call[p].pc \in {"admit", "lock", "data", "check", "drop", "reply"} =>
               call[p].handle \in Handles /\ Drawn(call[p].handle)
        /\ call[p].pc = "lstat" => call[p].digest \in Digests
        /\ call[p].pc \in {"opening", "insert"} => call[p].digest \in Digests
                                                   /\ call[p].file \in Files

\* One Read at a time is between the lock and the unlock of v.mu.
OneHolder ==
    \A p, q \in Callers :
        call[p].pc \in Holding /\ call[q].pc \in Holding /\ call[p].handle = call[q].handle
            => p = q

\* Versions grow: what Open saw, what ReadAt read and what the file has now.
VersionsOrdered ==
    /\ \A h \in Handles :
        /\ resource[h].file \in {None, resource[h].opened}
        /\ Drawn(h) => resource[h].initial <= version[resource[h].opened]
    /\ \A p \in Callers :
        /\ call[p].pc = "insert" => call[p].version <= version[call[p].file]
        /\ call[p].pc = "check" =>
               LET v == resource[call[p].handle] IN
               /\ v.initial <= call[p].version
               /\ call[p].version <= version[v.opened]
        /\ call[p].pc = "drop" => resource[call[p].handle].file = None

\* Opens that are counted and have not inserted, in all and of one subject.
Opening == {p \in Callers : call[p].pc \in {"lstat", "opening", "insert"}}

HandlesOf(s) == {h \in table : resource[h].scope = s}
OpeningOf(s) == {p \in Opening : ScopeOf[p] = s}

Bounded ==
    /\ Cardinality(table) + Cardinality(Opening) <= MaxResources
    /\ \A s \in Scopes : Cardinality(HandlesOf(s)) + Cardinality(OpeningOf(s)) <= MaxPerScope

\* The invariant a proof can use: what the four above need of each other
\* (resources.go:59-319).
ReaderInv ==
    /\ ReaderTypeOK /\ TodoKnown /\ HandlesKnown /\ OneHolder /\ VersionsOrdered
    /\ Bounded /\ PendingExact /\ FilesOwned /\ ReadsOpenFile /\ ChunkOfOpened

=============================================================================
