-------------------------------- MODULE Writer --------------------------------
(***************************************************************************)
(* The content writer of go/service/writer.go and records.go: Begin,       *)
(* Append, Commit and Abort, the expiry sweep, close, a crash, and the     *)
(* startup that restores the durable request identities.                   *)
(*                                                                         *)
(* A caller is one goroutine serving one call.  Its critical sections      *)
(* under w.mu are single actions; provider calls, file operations and      *)
(* policy decisions that the code makes outside w.mu are actions of their  *)
(* own.  The owner of u.mu, when it is held over several actions, can be    *)
(* read off the program counters (see Locked).                             *)
(*                                                                         *)
(* The sweep that begins every call is part of the call's first action.    *)
(* Replies are left out, except the ones that carry a stored result.       *)
(***************************************************************************)
EXTENDS ContentStore

CONSTANTS Callers,              \* goroutines that serve calls
          Ticker,               \* the goroutine that sweeps every second
          Scopes, ScopeOf,      \* subjects, and the subject of a request key
          Keys,                 \* scope and request identity together
          Asks,                 \* the Begin requests callers may make
          MaxUploads, MaxUploadsPerScope, MaxRequestRecords,
          IdleLifetime, RequestRetention,
          MaxTime,              \* bound on the clock
          Events                \* what the environment may do, see below

Procs == Callers \cup {Ticker}

\* "save"     saving the identities may fail (I/O, or a fenced record file)
\* "provider" a provider call or a file operation may fail
\* "refusal"  a call may be cancelled, or refused at publication
\* "abort"    clients abort uploads; the shipped ones never do
\* "proof"    the policy may answer ErrRequireBytes
\* "publish", "remove"  another owner of the store publishes or removes
\* "close", "crash"     the component closes; the process dies and restarts
EventNames == {"save", "provider", "refusal", "abort", "proof", "publish",
               "remove", "close", "crash"}

ASSUME WriterAssumption ==
    /\ Ticker \notin Callers
    /\ None \notin Keys \cup Scopes \cup {"hashed", "named"} \cup Places
    /\ ScopeOf \in [Keys -> Scopes]
    /\ Asks \subseteq [key : Keys, digest : Digests, size : Nat]
    /\ MaxUploads \in Nat /\ MaxUploadsPerScope \in Nat /\ MaxRequestRecords \in Nat
    /\ IdleLifetime \in Nat \ {0} /\ RequestRetention \in Nat \ {0}
    /\ MaxTime \in Nat
    /\ Events \subseteq EventNames

VARIABLES now,          \* the clock
          phase,        \* "serving", "closed" or "down"
          uploads,      \* w.uploads: the handles indexed
          digests,      \* w.digests: digest -> handle
          records,      \* w.records: the request identities in memory
          disk,         \* the record file
          up,           \* the upload structs
          call,         \* the call each goroutine serves, with its locals
          issued,       \* handles drawn so far
          answer,       \* the stored result the last step answered with
          shared        \* digests whose staging path two uploads have used

memory == <<uploads, digests, records>>
ghosts == <<issued, shared>>
vars == <<storeVars, memory, disk, up, call, now, phase, answer, ghosts>>

-----------------------------------------------------------------------------
(* Values.                                                                 *)

\* u.sum and u.received are one field: the chunks accepted, in order.  An
\* upload with a possession file is the one with u.existing.
Upload == [key : Keys \cup {None}, digest : Digests \cup {None}, size : Nat,
           sum : Seq(Chunks), file : Inodes \cup {None}, place : Places \cup {None},
           ready : BOOLEAN, done : BOOLEAN, expires : Nat]

NoUpload == [key |-> None, digest |-> None, size |-> 0, sum |-> <<>>, file |-> None,
             place |-> None, ready |-> FALSE, done |-> FALSE, expires |-> 0]

\* id tells one requestRecord from a later one of the same key (the code
\* compares pointers), and by one Stored from another.
Evidence == {"hashed", "named", None}

Record == [digest : Digests \cup {None}, size : Nat, handle : Handles \cup {None},
           evidence : Evidence, by : Handles \cup {None}, expires : Nat,
           id : Handles \cup {None}]

NoRecord == [digest |-> None, size |-> 0, handle |-> None, evidence |-> None,
             by |-> None, expires |-> 0, id |-> None]

\* recordEntry: what the file keeps of a record.
Entry == [digest : Digests \cup {None}, size : Nat, evidence : Evidence, expires : Nat]

Image(rs) == [k \in Keys |-> [digest |-> rs[k].digest, size |-> rs[k].size,
                              evidence |-> rs[k].evidence, expires |-> rs[k].expires]]

\* Mutant of LockedPCs: a Begin that resumes takes u.mu twice.
LockedPCsTwice == {"decide", "intent", "publish", "confirm", "demote", "drop", "unlink",
                   "await"}

\* Commit holds u.mu from its verification to its return, and an Append that
\* failed to write until it has left the indexes.
LockedPCs == {"decide", "intent", "publish", "confirm", "demote", "drop", "unlink"}
BeginPCs == {"begin", "await", "find", "place", "open", "check", "settle", "cleanup"}
PCs == {"idle", "admit", "write", "lookup", "verify", "abort"} \cup LockedPCs \cup BeginPCs

Call == [pc : PCs, todo : SUBSET Handles, key : Keys \cup {None},
         digest : Digests \cup {None}, size : Nat, proof : BOOLEAN,
         h : Handles \cup {None}, outcome : {"ready", "present", "failed", None},
         file : Inodes \cup {None}, place : Places \cup {None},
         offset : Nat, chunk : Chunks \cup {None}, forget : BOOLEAN,
         rec : Handles \cup {None}, previous : Nat]

NoCall == [pc |-> "idle", todo |-> {}, key |-> None, digest |-> None, size |-> 0,
           proof |-> FALSE, h |-> None, outcome |-> None, file |-> None,
           place |-> None, offset |-> 0, chunk |-> None, forget |-> FALSE,
           rec |-> None, previous |-> 0]

Answers == [outcome : {"committed", "present", None}, evidence : Evidence,
            digest : Digests \cup {None}, key : Keys \cup {None}]

NoAnswer == [outcome |-> None, evidence |-> None, digest |-> None, key |-> None]
Silent == answer' = NoAnswer

\* Mutant of Reply: the evidence is answered for the outcome.
ReplySwapped(outcome, evidence, digest, key) ==
    answer' = [outcome |-> evidence, evidence |-> outcome, digest |-> digest, key |-> key]

\* api.BeginResult and api.CommitResult with their Stored.
Reply(outcome, evidence, digest, key) ==
    answer' = [outcome |-> outcome, evidence |-> evidence, digest |-> digest, key |-> key]

WriterTypeOK ==
    /\ StoreTypeOK
    /\ now \in 0 .. MaxTime
    /\ phase \in {"serving", "closed", "down"}
    /\ uploads \in SUBSET Handles
    /\ digests \in [Digests -> Handles \cup {None}]
    /\ records \in [Keys -> Record]
    /\ disk \in [Keys -> Entry]
    /\ up \in [Handles -> Upload]
    /\ call \in [Procs -> Call]
    /\ issued \in SUBSET Handles
    /\ answer \in Answers
    /\ shared \in SUBSET Digests

Init ==
    /\ StoreInit
    /\ now = 0
    /\ phase = "serving"
    /\ uploads = {}
    /\ digests = [d \in Digests |-> None]
    /\ records = [k \in Keys |-> NoRecord]
    /\ disk = Image(records)
    /\ up = [h \in Handles |-> NoUpload]
    /\ call = [p \in Procs |-> NoCall]
    /\ issued = {}
    /\ answer = NoAnswer
    /\ shared = {}

-----------------------------------------------------------------------------
(* Helpers of the actions.                                                 *)

Idle(p) == call[p].pc = "idle" /\ call[p].todo = {}

\* p is past the discards its sweep left it, at pc.
Ready(p, pc) == call[p].pc = pc /\ call[p].todo = {}

Goto(p, pc) == call' = [call EXCEPT ![p].pc = pc]
Return(p) == call' = [call EXCEPT ![p] = NoCall]

\* Frames, named for what a silent step may change beside its call.
CallOnly   == Silent /\ UNCHANGED <<storeVars, memory, disk, up, now, phase, ghosts>>
FilesOnly  == Silent /\ UNCHANGED <<memory, disk, up, now, phase, ghosts>>
UploadOnly == Silent /\ UNCHANGED <<storeVars, memory, disk, now, phase, ghosts>>
IndexOnly  == Silent /\ UNCHANGED <<storeVars, up, now, phase, ghosts>>

\* u.mu of h is held.
Locked(h) == \E q \in Procs : call[q].pc \in LockedPCs /\ call[q].h = h

Received(u) == Len(u.sum)

\* Mutant of Live: uploads still in preparation are found too.
LiveUnready(h) == h \in uploads

\* find: the handle names an upload that Begin has finished preparing.
Live(h) == h \in uploads /\ up[h].ready

\* saveLocked replaces the whole file by the records in memory, or fails.
Save == \/ disk' = Image(records')
        \/ "save" \in Events /\ UNCHANGED disk

\* w.records[key] == rec.  A record restored by load has no id.
SameRecord(key, id) == records[key].digest # None /\ records[key].id = id

\* Mutant of Dropped: the record of a later upload goes as well.
DroppedAny(r, h, forget) == IF forget THEN NoRecord ELSE [r EXCEPT !.handle = None]

\* unlink(u, forget) for an upload of key k.
Dropped(r, h, forget) ==
    IF r.handle # h THEN r ELSE IF forget THEN NoRecord ELSE [r EXCEPT !.handle = None]

\* Mutant of Unindex: the index by digest is left alone.
UnindexHandles(hs) == uploads' = uploads \ hs /\ UNCHANGED digests

Unindex(hs) ==
    /\ uploads' = uploads \ hs
    /\ digests' = [d \in Digests |-> IF digests[d] \in hs THEN None ELSE digests[d]]

Unlink(h, forget) ==
    /\ Unindex({h})
    /\ records' = [records EXCEPT ![up[h].key] = Dropped(@, h, forget)]

\* unlink, then save when it forgot an identity.
UnlinkAndSave(h, forget) ==
    /\ Unlink(h, forget)
    /\ IF forget /\ records[up[h].key].handle = h THEN Save ELSE UNCHANGED disk

\* sweep: idle uploads leave the indexes and their identities stay unfinished;
\* then finished and unfinished identities past their retention go.
Expired == {h \in uploads : up[h].ready /\ now >= up[h].expires}

Released(r) == IF r.handle \in Expired THEN [r EXCEPT !.handle = None] ELSE r

Lapsed(r) ==
    /\ r.digest # None
    /\ r.evidence # None \/ r.handle = None
    /\ now >= r.expires

Sweep ==
    /\ Unindex(Expired)
    /\ records' = [k \in Keys |-> IF Lapsed(Released(records[k])) THEN NoRecord
                                  ELSE Released(records[k])]
    /\ IF \E k \in Keys : Lapsed(Released(records[k])) THEN Save ELSE UNCHANGED disk

-----------------------------------------------------------------------------
(* Calls begin: the sweep, and what the caller asked for.                  *)

\* A call starts while the component serves: Close stops admission first.
Start(p, fields) ==
    /\ p \in Callers
    /\ Idle(p)
    /\ phase = "serving"
    /\ Sweep
    /\ call' = [call EXCEPT ![p] = [fields EXCEPT !.todo = Expired]]
    /\ IndexOnly

\* The policy permitted Begin, on proof of the bytes or not.
BeginCall(p) ==
    \E ask \in Asks, proof \in (IF "proof" \in Events THEN BOOLEAN ELSE {FALSE}) :
        Start(p, [NoCall EXCEPT !.pc = "begin", !.key = ask.key, !.digest = ask.digest,
                                !.size = ask.size, !.proof = proof])

\* A client names a handle it was given; a chunk may be sent twice, out of
\* order or wrong.
AppendCall(p) ==
    \E h \in issued, chunk \in Chunks :
        \E offset \in 0 .. up[h].size :
            Start(p, [NoCall EXCEPT !.pc = "admit", !.h = h, !.offset = offset,
                                    !.chunk = chunk])

CommitCall(p) ==
    \E h \in issued : Start(p, [NoCall EXCEPT !.pc = "lookup", !.h = h])

AbortCall(p) ==
    /\ "abort" \in Events
    /\ \E h \in issued : Start(p, [NoCall EXCEPT !.pc = "abort", !.h = h])

\* Mutant of SweepTick: what leaves the indexes is not discarded.
SweepTickForgets ==
    /\ Idle(Ticker)
    /\ phase = "serving"
    /\ Sweep
    /\ UNCHANGED call
    /\ IndexOnly

\* The component's ticker.
SweepTick ==
    /\ Idle(Ticker)
    /\ phase = "serving"
    /\ Sweep
    /\ call' = [call EXCEPT ![Ticker].todo = Expired]
    /\ IndexOnly

\* discard waits for u.mu, closes the staging file and removes its path.
Discard(p) ==
    \E h \in call[p].todo :
        /\ ~Locked(h)
        /\ IF up[h].file # None THEN RemoveStaged(h, up[h].digest, up[h].place)
                                ELSE UNCHANGED storeVars
        /\ up' = [up EXCEPT ![h].done = TRUE, ![h].file = None]
        /\ call' = [call EXCEPT ![p].todo = @ \ {h}]
        /\ Silent
        /\ UNCHANGED <<memory, disk, now, phase, ghosts>>

-----------------------------------------------------------------------------
(* Begin.                                                                  *)

\* Mutant of Matches: the conflict check compares the digest only.
MatchesDigest(r, c) == r.digest = c.digest

Matches(r, c) == r.digest = c.digest /\ r.size = c.size

\* The record Begin goes on with: a present answer is not replayed to a
\* writer that must prove the bytes.
Current(c) ==
    LET r == records[c.key] IN
    IF Matches(r, c) /\ r.evidence = "named" /\ r.handle = None /\ c.proof
    THEN [r EXCEPT !.evidence = None, !.by = None] ELSE r

Keep(c) == records' = [records EXCEPT ![c.key] = Current(c)]

\* Mutant of Exhausted: the limits are off by one.
ExhaustedLate(c) ==
    \/ Cardinality(uploads) > MaxUploads
    \/ Cardinality({h \in uploads : ScopeOf[up[h].key] = ScopeOf[c.key]})
            > MaxUploadsPerScope

Exhausted(c) ==
    \/ Cardinality(uploads) >= MaxUploads
    \/ Cardinality({h \in uploads : ScopeOf[up[h].key] = ScopeOf[c.key]})
            >= MaxUploadsPerScope
    \/ /\ records[c.key].digest = None
       /\ Cardinality({k \in Keys : records[k].digest # None}) >= MaxRequestRecords

\* No live upload and no result: Begin would start an upload.
Unfinished(c) ==
    \/ Current(c).digest = None
    \/ Matches(Current(c), c) /\ Current(c).handle = None /\ Current(c).evidence = None

Startable(c) ==
    phase # "closed" /\ Unfinished(c) /\ digests[c.digest] = None /\ ~Exhausted(c)

\* unavailable (closed, or no nonce: here every handle is drawn), conflict, busy
\* or exhausted.
BeginRefused(p) ==
    LET c == call[p] IN
    /\ Ready(p, "begin")
    /\ \/ phase = "closed"
       \/ Current(c).digest # None /\ ~Matches(Current(c), c)
       \/ Current(c).handle # None /\ ~Live(Current(c).handle)
       \/ Unfinished(c) /\ digests[c.digest] # None
       \/ Unfinished(c) /\ (Exhausted(c) \/ issued = Handles)
    /\ Keep(c)
    /\ Return(p)
    /\ UNCHANGED <<uploads, digests, disk>>
    /\ IndexOnly

\* A recorded result is answered again.
BeginReplay(p) ==
    LET c == call[p]  r == Current(c) IN
    /\ Ready(p, "begin")
    /\ phase # "closed"
    /\ Matches(r, c) /\ r.evidence # None /\ r.handle = None
    /\ Reply(IF r.evidence = "named" THEN "present" ELSE "committed", r.evidence,
             r.digest, c.key)
    /\ Return(p)
    /\ UNCHANGED <<storeVars, memory, disk, up, now, phase, ghosts>>

\* The live upload of the same request is resumed, after whoever holds it.
BeginResume(p) ==
    LET c == call[p]  r == Current(c) IN
    /\ Ready(p, "begin")
    /\ phase # "closed"
    /\ Matches(r, c) /\ r.handle # None /\ Live(r.handle)
    /\ up' = [up EXCEPT ![r.handle].expires = now + IdleLifetime]
    /\ call' = [call EXCEPT ![p].pc = "await", ![p].h = r.handle, ![p].rec = r.id]
    /\ UploadOnly

\* A commit in progress may have finished while this call waited for u.mu: any
\* result of the same record is then answered as committed.
Await(p) ==
    LET c == call[p]  r == records[c.key] IN
    /\ Ready(p, "await")
    /\ ~Locked(c.h)
    /\ IF /\ up[c.h].done /\ SameRecord(c.key, c.rec)
          /\ r.handle = None /\ r.evidence # None
       THEN Reply("committed", r.evidence, r.digest, c.key) ELSE Silent
    /\ Return(p)
    /\ UNCHANGED <<storeVars, memory, disk, up, now, phase, ghosts>>

\* A new upload: indexed, and its identity made durable before any effect.
BeginStart(p) ==
    LET c == call[p]  r == Current(c) IN
    /\ Ready(p, "begin")
    /\ Startable(c)
    /\ \E h \in Handles \ issued :
        /\ issued' = issued \cup {h}
        /\ up' = [up EXCEPT ![h] = [NoUpload EXCEPT !.key = c.key, !.digest = c.digest,
                                                    !.size = c.size]]
        /\ uploads' = uploads \cup {h}
        /\ digests' = [digests EXCEPT ![c.digest] = h]
        /\ records' = [records EXCEPT ![c.key] =
                        [NoRecord EXCEPT !.digest = c.digest, !.size = c.size, !.handle = h,
                            !.expires = now + RequestRetention,
                            !.id = IF r.digest = None THEN h ELSE r.id]]
        /\ disk' = Image(records')
        /\ call' = [call EXCEPT ![p].pc = "find", ![p].h = h,
                                ![p].rec = records'[c.key].id]
    /\ Silent
    /\ UNCHANGED <<storeVars, now, phase, shared>>

\* The identity could not be saved: everything is undone.
BeginUnsaved(p) ==
    LET c == call[p] IN
    /\ "save" \in Events
    /\ Ready(p, "begin")
    /\ Startable(c)
    /\ Keep(c)
    /\ Return(p)
    /\ UNCHANGED <<uploads, digests, disk>>
    /\ IndexOnly

-----------------------------------------------------------------------------
(* prepare: provider and file operations outside w.mu, then the critical   *)
(* section that makes the upload ready, answers present, or gives up.      *)

Settle(p, outcome) == call' = [call EXCEPT ![p].pc = "settle", ![p].outcome = outcome]

GiveUp(p) == call' = [call EXCEPT ![p].pc = "settle", ![p].outcome = "failed",
                                  ![p].place = None]

PrepareFind(p) ==
    LET c == call[p] IN
    /\ Ready(p, "find")
    /\ \/ /\ Find(c.digest) /\ ~c.proof
          /\ Settle(p, "present")
          /\ UNCHANGED storeVars
       \/ /\ Find(c.digest) /\ c.proof
          /\ CreatePossession(c.h)
          /\ call' = [call EXCEPT ![p].pc = "settle", ![p].outcome = "ready",
                                  ![p].file = c.h, ![p].place = "possession"]
       \/ /\ ~Find(c.digest)
          /\ Goto(p, "place")
          /\ UNCHANGED storeVars
    /\ FilesOnly

PreparePlace(p) ==
    /\ Ready(p, "place")
    /\ call' = [call EXCEPT ![p].pc = "open", ![p].place = Place(call[p].digest)]
    /\ CallOnly

\* Another owner of the staging path is at work on it: an upload not done, or
\* a Begin that has not settled.
Used(p, d) ==
    \/ \E g \in Handles : /\ up[g].digest = d /\ up[g].place = "incoming"
                          /\ up[g].ready /\ ~up[g].done
    \/ \E q \in Procs \ {p} : call[q].digest = d /\ call[q].place = "incoming"

PrepareOpen(p) ==
    LET c == call[p] IN
    /\ Ready(p, "open")
    /\ OpenStaging(c.h, c.digest, c.place)
    /\ call' = [call EXCEPT ![p].pc = "check", ![p].file = Opened(c.h, c.digest, c.place)]
    /\ shared' = IF c.place = "blob" \/ Used(p, c.digest)
                 THEN shared \cup {c.digest} ELSE shared
    /\ Silent
    /\ UNCHANGED <<memory, disk, up, now, phase, issued>>

\* The path must still name the file that was opened (os.SameFile); one that
\* does not is closed and left alone.
SameFile(c) == At(c.h, c.digest, c.place) = c.file

PrepareCheck(p) ==
    /\ Ready(p, "check")
    /\ IF SameFile(call[p]) THEN Settle(p, "ready") ELSE GiveUp(p)
    /\ CallOnly

\* Place refuses, the staging file cannot be created or stat'ed, ...
PrepareFails(p) ==
    /\ "provider" \in Events
    /\ \/ Ready(p, "find") /\ Find(call[p].digest) /\ call[p].proof
       \/ Ready(p, "place")
       \/ Ready(p, "open")
    /\ GiveUp(p)
    /\ CallOnly

\* The object is already there: a present answer, recorded as it occurs.
BeginPresent(p) ==
    LET c == call[p] IN
    /\ Ready(p, "settle") /\ c.outcome = "present"
    /\ Unindex({c.h})
    /\ IF SameRecord(c.key, c.rec)
       THEN /\ records' = [records EXCEPT ![c.key] =
                            [Dropped(@, c.h, FALSE) EXCEPT !.evidence = "named", !.by = c.h,
                                !.expires = now + RequestRetention]]
            /\ Save
       ELSE /\ records' = [records EXCEPT ![c.key] = Dropped(@, c.h, FALSE)]
            /\ UNCHANGED disk
    /\ Reply("present", "named", c.digest, c.key)
    /\ Return(p)
    /\ UNCHANGED <<storeVars, up, now, phase, ghosts>>

BeginReady(p) ==
    LET c == call[p] IN
    /\ Ready(p, "settle") /\ c.outcome = "ready"
    /\ phase # "closed" /\ c.h \in uploads
    /\ ~Locked(c.h)
    /\ up' = [up EXCEPT ![c.h].file = c.file, ![c.h].place = c.place, ![c.h].ready = TRUE,
                        ![c.h].expires = now + IdleLifetime]
    /\ Return(p)
    /\ UploadOnly

\* Mutant of Cleans: after close the staging file of a Begin is left.
CleansServing(c) == c.outcome = "ready" /\ phase = "serving"

\* A prepared staging file is removed by its path.
Cleans(c) == c.outcome = "ready"

\* The identity is forgotten, and then, outside w.mu, the staging file goes.
BeginFailed(p) ==
    LET c == call[p] IN
    /\ Ready(p, "settle")
    /\ \/ c.outcome = "failed"
       \/ c.outcome = "ready" /\ (phase = "closed" \/ c.h \notin uploads)
       \/ c.outcome = "ready" /\ "refusal" \in Events
    /\ UnlinkAndSave(c.h, TRUE)
    /\ IF Cleans(c) THEN Goto(p, "cleanup") ELSE Return(p)
    /\ IndexOnly

BeginCleanup(p) ==
    LET c == call[p] IN
    /\ Ready(p, "cleanup")
    /\ RemoveStaged(c.h, c.digest, c.place)
    /\ Return(p)
    /\ FilesOnly

-----------------------------------------------------------------------------
(* Append and Abort.                                                       *)

\* find, and after the policy decision the second look at the index.
AppendAdmit(p) ==
    LET c == call[p] IN
    /\ Ready(p, "admit")
    /\ IF Live(c.h)
       THEN /\ up' = [up EXCEPT ![c.h].expires = now + IdleLifetime]
            /\ Goto(p, "write")
       ELSE Return(p) /\ UNCHANGED up
    /\ UploadOnly

\* Mutant of Accepts: chunks are taken at any offset.
AcceptsAnywhere(u, offset) == ~u.done /\ u.file # None /\ Received(u) < u.size

Accepts(u, offset) ==
    /\ ~u.done /\ u.file # None
    /\ offset = Received(u)
    /\ Received(u) < u.size

AppendWrite(p) ==
    LET c == call[p]  u == up[c.h] IN
    /\ Ready(p, "write")
    /\ ~Locked(c.h)
    /\ IF Accepts(u, c.offset)
       THEN /\ WriteStaged(u.file, c.offset, c.chunk)
            /\ up' = [up EXCEPT ![c.h].sum = Append(@, c.chunk)]
       ELSE UNCHANGED <<storeVars, up>>
    /\ Return(p)
    /\ Silent
    /\ UNCHANGED <<memory, disk, now, phase, ghosts>>

\* A failed write leaves the staged length uncertain: the bytes are discarded and
\* the identity stays unfinished (see Unlinking; the write is taken to write nothing).
AppendFails(p) ==
    LET c == call[p]  u == up[c.h] IN
    /\ "provider" \in Events
    /\ Ready(p, "write")
    /\ ~Locked(c.h)
    /\ Accepts(u, c.offset)
    /\ RemoveStaged(c.h, u.digest, u.place)
    /\ up' = [up EXCEPT ![c.h].done = TRUE, ![c.h].file = None]
    /\ Goto(p, "unlink")
    /\ Silent
    /\ UNCHANGED <<memory, disk, now, phase, ghosts>>

\* The indexes and the identity go before the staging file does (see Discard).
AbortUpload(p) ==
    LET c == call[p] IN
    /\ Ready(p, "abort")
    /\ IF Live(c.h)
       THEN /\ UnlinkAndSave(c.h, TRUE)
            /\ call' = [call EXCEPT ![p] = [NoCall EXCEPT !.todo = {c.h}]]
       ELSE Return(p) /\ UNCHANGED <<memory, disk>>
    /\ IndexOnly

-----------------------------------------------------------------------------
(* Commit.                                                                 *)

CommitLookup(p) ==
    LET c == call[p] IN
    /\ Ready(p, "lookup")
    /\ IF Live(c.h) THEN Goto(p, "verify") ELSE Return(p)
    /\ CallOnly

\* The caller takes u.mu; a call that is cancelled, refused by the policy or
\* too late does nothing.
CallEnds(p) ==
    LET c == call[p] IN
    /\ \/ /\ Ready(p, "write") \/ Ready(p, "verify")
          /\ "refusal" \in Events \/ phase = "closed"
       \/ Ready(p, "verify") /\ up[c.h].file = None
       \/ Ready(p, "verify") /\ Received(up[c.h]) # up[c.h].size
    /\ ~Locked(c.h)
    /\ Return(p)
    /\ CallOnly

\* The running hash of the accepted bytes is compared with the digest.
CommitVerify(p) ==
    LET c == call[p]  u == up[c.h] IN
    /\ Ready(p, "verify")
    /\ ~Locked(c.h)
    /\ ~u.done /\ u.file # None /\ Received(u) = u.size
    /\ IF u.sum = Content[u.digest]
       THEN Goto(p, "decide")
       ELSE call' = [call EXCEPT ![p].pc = "drop", ![p].forget = TRUE]
    /\ CallOnly

\* A refusal of the publication keeps the upload to its idle expiry.
CommitRefused(p) ==
    /\ "refusal" \in Events
    /\ Ready(p, "decide")
    /\ Return(p)
    /\ CallOnly

\* Sync and Close.
CommitSync(p) ==
    LET c == call[p] IN
    /\ Ready(p, "decide")
    /\ \/ Goto(p, "intent") /\ up' = [up EXCEPT ![c.h].file = None]
       \/ "provider" \in Events /\ Goto(p, "drop") /\ UNCHANGED up
    /\ UploadOnly

\* The committed result is recorded before the provider publishes.
Owned(c) == phase # "closed" /\ records[up[c.h].key].handle = c.h

CommitIntent(p) ==
    LET c == call[p]  k == up[c.h].key IN
    /\ Ready(p, "intent")
    /\ Owned(c)
    /\ records' = [records EXCEPT ![k].evidence = "hashed", ![k].by = c.h,
                                  ![k].expires = now + RequestRetention]
    /\ disk' = Image(records')
    /\ call' = [call EXCEPT ![p].pc = "publish", ![p].rec = records[k].id,
                            ![p].previous = records[k].expires]
    /\ Silent
    /\ UNCHANGED <<storeVars, uploads, digests, up, now, phase, ghosts>>

\* The identity is no longer this upload's, or the record cannot be saved.
CommitUnrecorded(p) ==
    LET c == call[p]  k == up[c.h].key IN
    /\ Ready(p, "intent")
    /\ \/ ~Owned(c) /\ UNCHANGED records
       \/ /\ Owned(c) /\ "save" \in Events
          /\ records' = [records EXCEPT ![k].evidence = None, ![k].by = None]
    /\ Goto(p, "drop")
    /\ Silent
    /\ UNCHANGED <<storeVars, uploads, digests, disk, up, now, phase, ghosts>>

\* The provider's one publishing step.  Proved bytes of an existing object
\* publish nothing, and their possession file goes.
CommitPublish(p) ==
    LET c == call[p]  u == up[c.h] IN
    /\ Ready(p, "publish")
    /\ IF u.place = "possession"
       THEN RemoveStaged(c.h, u.digest, u.place)
       ELSE Rename(u.digest)
    /\ Goto(p, "confirm")
    /\ FilesOnly

CommitUnpublished(p) ==
    LET c == call[p]  u == up[c.h] IN
    /\ Ready(p, "publish")
    /\ u.place # "possession"
    /\ "provider" \in Events \/ ~CommitSucceeds(u.digest)
    /\ Goto(p, "demote")
    /\ CallOnly

\* Found: the upload is done and its identity keeps the result.
CommitFinish(p) ==
    LET c == call[p]  u == up[c.h] IN
    /\ Ready(p, "confirm")
    /\ Find(u.digest)
    /\ up' = [up EXCEPT ![c.h].done = TRUE]
    /\ Unlink(c.h, FALSE)
    /\ Reply("committed", "hashed", u.digest, u.key)
    /\ Return(p)
    /\ UNCHANGED <<storeVars, disk, now, phase, ghosts>>

CommitLost(p) ==
    /\ Ready(p, "confirm")
    /\ ~Find(up[call[p].h].digest)
    /\ Goto(p, "demote")
    /\ CallOnly

\* Nothing was published: the recorded result is taken back.
CommitDemote(p) ==
    LET c == call[p]  k == up[c.h].key IN
    /\ Ready(p, "demote")
    /\ IF SameRecord(k, c.rec) /\ records[k].by = c.h
       THEN /\ records' = [records EXCEPT ![k].evidence = None, ![k].by = None,
                                          ![k].expires = c.previous]
            /\ IF phase # "closed" THEN Save ELSE UNCHANGED disk
       ELSE UNCHANGED <<records, disk>>
    /\ Goto(p, "drop")
    /\ Silent
    /\ UNCHANGED <<storeVars, uploads, digests, up, now, phase, ghosts>>

\* drop removes the staging file before the indexes and the identity go.
CommitDrop(p) ==
    LET c == call[p]  u == up[c.h] IN
    /\ Ready(p, "drop")
    /\ RemoveStaged(c.h, u.digest, u.place)
    /\ up' = [up EXCEPT ![c.h].done = TRUE, ![c.h].file = None]
    /\ Goto(p, "unlink")
    /\ Silent
    /\ UNCHANGED <<memory, disk, now, phase, ghosts>>

\* The last critical section of drop and of a failed Append.
Unlinking(p) ==
    LET c == call[p] IN
    /\ Ready(p, "unlink")
    /\ UnlinkAndSave(c.h, c.forget)
    /\ Return(p)
    /\ IndexOnly

-----------------------------------------------------------------------------
(* Close, crash and startup; the environment.                              *)

\* close forgets the indexes and discards every upload; the record file stays.
Close ==
    /\ "close" \in Events
    /\ phase = "serving"
    /\ phase' = "closed"
    /\ Unindex(uploads)
    /\ records' = [k \in Keys |-> NoRecord]
    /\ call' = [call EXCEPT ![Ticker].todo = @ \cup uploads]
    /\ Silent
    /\ UNCHANGED <<storeVars, disk, up, now, ghosts>>

\* The process dies at any point, or ends after Close.
Crash ==
    /\ "crash" \in Events
    /\ phase # "down"
    /\ phase' = "down"
    /\ Unindex(uploads)
    /\ records' = [k \in Keys |-> NoRecord]
    /\ up' = [h \in Handles |-> NoUpload]
    /\ call' = [p \in Procs |-> NoCall]
    /\ Silent
    /\ UNCHANGED <<storeVars, disk, now, ghosts>>

\* Mutant of Restored: found objects are demoted instead of missing ones.
RestoredSwapped(e) ==
    IF e.digest = None \/ now >= e.expires THEN NoRecord
    ELSE [NoRecord EXCEPT !.digest = e.digest, !.size = e.size, !.expires = e.expires,
                          !.evidence = IF Find(e.digest) THEN None ELSE e.evidence]

\* load: a stored result is restored when its object is found and demoted
\* otherwise; an expired identity is dropped.
Restored(e) ==
    IF e.digest = None \/ now >= e.expires THEN NoRecord
    ELSE [NoRecord EXCEPT !.digest = e.digest, !.size = e.size, !.expires = e.expires,
                          !.evidence = IF Find(e.digest) THEN e.evidence ELSE None]

Rewritten(e) == e.digest # None /\ (now >= e.expires \/ (e.evidence # None /\ ~Find(e.digest)))

\* cleanStaging for every identity whose digest is not findable, and every
\* possession file.
CleanStaging ==
    /\ incoming' = [d \in Digests |->
                        IF ~Find(d) /\ \E k \in Keys : disk[k].digest = d
                        THEN None ELSE incoming[d]]
    /\ UNCHANGED <<blob, data>>

Startup ==
    /\ phase = "down"
    /\ CleanStaging
    /\ possession' = {}
    /\ phase' = "serving"
    /\ records' = [k \in Keys |-> Restored(disk[k])]
    /\ disk' = IF \E k \in Keys : Rewritten(disk[k]) THEN Image(records') ELSE disk
    /\ Silent
    /\ UNCHANGED <<uploads, digests, up, call, now, ghosts>>

\* The rewritten file cannot be saved: the component does not start.
StartupRefused ==
    /\ phase = "down"
    /\ "save" \in Events
    /\ \E k \in Keys : Rewritten(disk[k])
    /\ CleanStaging
    /\ Silent
    /\ UNCHANGED <<possession, memory, disk, up, call, now, phase, ghosts>>

Tick ==
    /\ now < MaxTime
    /\ now' = now + 1
    /\ Silent
    /\ UNCHANGED <<storeVars, memory, disk, up, call, phase, ghosts>>

\* Another owner of the directory.  Its inode is new: nobody has it open.
Publish ==
    /\ "publish" \in Events
    /\ \E d \in Digests :
        /\ \A h \in Handles : up[h].file # d
        /\ \A p \in Procs : call[p].file # d
        /\ ExternalPublish(d)
    /\ Silent
    /\ UNCHANGED <<memory, disk, up, call, now, phase, ghosts>>

Collect ==
    /\ "remove" \in Events
    /\ \E d \in Digests : Remove(d)
    /\ Silent
    /\ UNCHANGED <<memory, disk, up, call, now, phase, ghosts>>

-----------------------------------------------------------------------------
\* The steps that may wait for u.mu.
Waiting(p) == Discard(p) \/ Await(p) \/ AppendWrite(p) \/ CommitVerify(p)

Begin(p) ==
    \/ BeginRefused(p) \/ BeginReplay(p) \/ BeginResume(p) \/ BeginStart(p)
    \/ BeginUnsaved(p) \/ PrepareFind(p) \/ PreparePlace(p) \/ PrepareOpen(p)
    \/ PrepareCheck(p) \/ PrepareFails(p) \/ BeginPresent(p) \/ BeginReady(p)
    \/ BeginFailed(p) \/ BeginCleanup(p)

Commit(p) ==
    \/ CommitLookup(p) \/ CallEnds(p) \/ CommitRefused(p) \/ CommitSync(p)
    \/ CommitIntent(p) \/ CommitUnrecorded(p) \/ CommitPublish(p)
    \/ CommitUnpublished(p) \/ CommitFinish(p) \/ CommitLost(p)
    \/ CommitDemote(p) \/ CommitDrop(p) \/ Unlinking(p)

\* A call in progress goes on.
Work(p) ==
    \/ Waiting(p) \/ Begin(p) \/ AppendAdmit(p) \/ AppendFails(p)
    \/ AbortUpload(p) \/ Commit(p)

CallStarts(p) == BeginCall(p) \/ AppendCall(p) \/ CommitCall(p) \/ AbortCall(p)

Environment == Close \/ Crash \/ Startup \/ StartupRefused \/ Tick \/ Publish \/ Collect

Next ==
    \/ \E p \in Procs : Work(p)
    \/ \E p \in Callers : CallStarts(p)
    \/ SweepTick
    \/ Environment

Spec == Init /\ [][Next]_vars

-----------------------------------------------------------------------------
(* What keeps the writer correct.                                          *)

\* Past the record of its result, Commit may outlive the record's retention.
Committing(h) ==
    \E p \in Procs : /\ call[p].h = h
                     /\ call[p].pc \in {"publish", "confirm", "demote", "drop", "unlink"}

\* The three indexes under w.mu name each other: an indexed upload is the one
\* upload of its digest and, unless its commit outlived the retention, the live
\* upload of its request (writer.go's uploads, digests and records; STO-W6).
IndexCoherent ==
    /\ \A h \in uploads :
        /\ up[h].digest \in Digests /\ digests[up[h].digest] = h
        /\ up[h].key \in Keys
        /\ records[up[h].key].handle = h \/ Committing(h)
    /\ \A d \in Digests :
        digests[d] # None => digests[d] \in uploads /\ up[digests[d]].digest = d
    /\ \A k \in Keys :
        records[k].handle # None =>
            records[k].handle \in uploads /\ up[records[k].handle].key = k

\* As long as no two uploads have shared the staging path of a digest, and no
\* reservation was of a published object, the object is whole.
PublishedWholeUnlessShared ==
    \A d \in Digests \ shared : Find(d) => data[blob[d]] = Content[d]

\* While Begin makes an upload ready, which takes u.mu under w.mu, nobody holds
\* or is about to take that u.mu: the others take w.mu under u.mu, and the two
\* orders cannot meet (writer.go:408 against :528, :576, :610, :652).
LockOrderSafe ==
    \A p, q \in Procs :
        call[p].pc = "settle" /\ call[p].h \in uploads =>
            /\ call[p].h \notin call[q].todo
            /\ p # q => ~(/\ call[q].h = call[p].h
                          /\ call[q].pc \in LockedPCs \cup {"write", "verify", "await"})

\* A staging file has an owner, and an owner that left the indexes is already
\* being discarded: no bytes stay behind within a lifetime (STO-W7).
StagingReleased ==
    /\ \A d \in Digests : incoming[d] # None =>
        \/ \E h \in Handles : /\ up[h].digest = d /\ up[h].place = "incoming"
                             /\ up[h].ready /\ ~up[h].done
        \/ \E p \in Procs : call[p].digest = d /\ call[p].place = "incoming"
    /\ \A h \in Handles : up[h].ready /\ ~up[h].done =>
        h \in uploads \/ Locked(h) \/ \E p \in Procs : h \in call[p].todo

\* STO-W7, over the indexes and over the record file that load may restore.
Limits ==
    /\ Cardinality(uploads) <= MaxUploads
    /\ \A s \in Scopes :
        Cardinality({h \in uploads : ScopeOf[up[h].key] = s}) <= MaxUploadsPerScope
    /\ Cardinality({k \in Keys : records[k].digest # None}) <= MaxRequestRecords
    /\ Cardinality({k \in Keys : disk[k].digest # None}) <= MaxRequestRecords

\* Memory and the record file agree on the identity of k, when memory is in use.
Agreed(k) == phase = "serving" => /\ records[k].digest = disk[k].digest
                                  /\ records[k].evidence = disk[k].evidence

\* An identity is never bound to another digest or size within its retention,
\* across crashes and restarts (STO-W8; the conflict answer, writer.go:287).
RetainedIdentity ==
    [][\A k \in Keys :
        (disk[k].digest # None /\ now < disk[k].expires /\ Agreed(k) /\ disk'[k].digest # None)
            => disk'[k].digest = disk[k].digest /\ disk'[k].size = disk[k].size]_vars

\* A result that Commit recorded and published stays on record, and in memory
\* whenever the writer serves, until it expires, whatever fails and restarts
\* later: a retry reads it (STO-W10).
HashedResultStands ==
    [][\A k \in Keys :
        (/\ disk[k].evidence = "hashed" /\ Agreed(k)
         /\ Find(disk[k].digest) /\ now < disk[k].expires
         /\ ~\E h \in Handles : up[h].key = k /\ Committing(h))
            => /\ disk'[k].evidence = "hashed" /\ disk'[k].digest = disk[k].digest
               /\ Agreed(k)']_vars

-----------------------------------------------------------------------------
(* What the documentation says and these interleavings refute.             *)

\* "A reader MUST see either no object or the whole object" (CONTRACT.md,
\* STO-W5; content.go:111).
PublishedWhole == \A d \in Digests : Find(d) => data[blob[d]] = Content[d]

\* "hashed: ... the hash equals digest, and the provider committed that staged
\* object" (content.thrift:70).
CommittedIsPublished == answer.outcome = "committed" => Find(answer.digest)

-----------------------------------------------------------------------------
(* Fairness and liveness.                                                  *)

\* Goroutines run, the ticker ticks, provider calls return; a Go mutex hands
\* itself to whoever has waited longest, so that a waiter for u.mu is served.
Fairness ==
    /\ \A p \in Procs : WF_vars(Work(p)) /\ SF_vars(Waiting(p))
    /\ SF_vars(SweepTick)

FairSpec == Spec /\ Fairness

\* Every call returns: no waiting for u.mu lasts for ever.
CallsReturn == \A p \in Procs : ~Idle(p) ~> Idle(p)

\* An upload that expired is refreshed, or loses its staging file (STO-W7).
ExpiredDiscarded ==
    \A h \in Handles :
        (h \in uploads /\ up[h].ready /\ now >= up[h].expires)
            ~> (now < up[h].expires \/ up[h].done)

=============================================================================
