-------------------------- MODULE WriterStagingProofs --------------------------
(***************************************************************************)
(* The two mutexes of the writer are never taken in both orders, and every *)
(* staging file has somebody who will remove it.                           *)
(*                                                                         *)
(* Both rest on Staged: what a call may know of an upload, who holds its   *)
(* mutex, and who will discard it.  A step is summed up by what it does to *)
(* each upload (Effect), to the calls (CallsStaged) and to the reservations *)
(* (ReservedStep).                                                         *)
(*                                                                         *)
(* The second part shows that a published object is whole unless two       *)
(* uploads shared its staging path.  It rests on Whole: which file is      *)
(* whose, and what is in it.  Most steps open, write and publish nothing,  *)
(* and only give files up (Recedes); the ones that do (a Begin that opens, *)
(* an Append, a publication, another owner's) are taken one by one.        *)
(***************************************************************************)
EXTENDS WriterProofs

-----------------------------------------------------------------------------
(* What a step of p may do.                                                *)

SameNamed(h) ==
    /\ up'[h].ready = up[h].ready
    /\ up'[h].place = up[h].place /\ up'[h].digest = up[h].digest

Same(h) == SameNamed(h) /\ up'[h].done = up[h].done /\ up'[h].file = up[h].file

\* h is done; only p can have held its mutex.
Ends(p, h) ==
    /\ SameNamed(h) /\ up'[h].done
    /\ \A q \in Procs \ {p} : ~Holds(q, h)
    /\ h \in uploads' => up[h].ready

\* p closed the file of h, whose mutex it holds on.
Syncs(p, h) ==
    /\ SameNamed(h) /\ up'[h].done = up[h].done
    /\ Holds(p, h) /\ call'[p].pc \in LockedPCs /\ call'[p].h = h

Readies(h) ==
    /\ ~up[h].ready /\ up'[h].ready /\ ~up'[h].done /\ up'[h].file # None
    /\ up'[h].digest = up[h].digest /\ h \in uploads'

Starts(h) == h \notin issued /\ ~up'[h].ready /\ ~up'[h].done

Effect(p, h) == Same(h) \/ Ends(p, h) \/ Syncs(p, h) \/ Readies(h) \/ Starts(h)

\* No upload comes back to the index, and one that leaves is discarded.
IndexStaged ==
    /\ issued \subseteq issued' /\ issued' \subseteq Handles
    /\ \A h \in uploads' : h \in uploads \/ Starts(h)
    /\ \A h \in uploads \ uploads' :
        up[h].ready /\ ~up'[h].done => \E q \in Procs : h \in call'[q].todo

CallsStaged(p) ==
    /\ OneCall(p)
    /\ \A h \in call[p].todo \ call'[p].todo : up'[h].done
    /\ call'[p].pc \in LockedPCs =>
        (call[p].pc \in LockedPCs /\ call'[p].h = call[p].h)
            \/ \A q \in Procs : ~Holds(q, call'[p].h)
    /\ call[p].pc \in LockedPCs =>
        \/ call'[p].pc \in LockedPCs /\ call'[p].h = call[p].h
        \/ up'[call[p].h].done \/ up'[call[p].h].file # None
    /\ CallStaged(call[p])'

ReservedStep(p) ==
    \A d \in Digests :
        /\ \/ incoming'[d] \in {incoming[d], None}
           \/ /\ incoming'[d] = call[p].h /\ call[p].h \in Handles /\ call[p].pc = "open"
              /\ CallOwns(call'[p], call[p].h, d)
        /\ \A h \in Handles : incoming'[d] = h /\ UploadOwns(h, d) => UploadOwns(h, d)'
        /\ \A h \in Handles : incoming'[d] = h /\ CallOwns(call[p], h, d)
                                => UploadOwns(h, d)' \/ CallOwns(call'[p], h, d)

StagedStep(p) ==
    /\ \A h \in Handles : Effect(p, h)
    /\ IndexStaged /\ CallsStaged(p) /\ ReservedStep(p)

-----------------------------------------------------------------------------
(* Such a step keeps the invariant.                                        *)

\* The other calls still know what they knew.
LEMMA OthersStaged ==
    ASSUME TypeInv, Coherence, Staged, NEW p \in Procs, StagedStep(p), NEW q \in Procs \ {p}
    PROVE  CallStaged(call[q])'
<1> DEFINE c == call[q]
<1>1. /\ CallStaged(c) /\ NamedCall(c) /\ call'[q] = c
      /\ c.h \in Handles \/ c.pc \in {"idle", "begin"}
      /\ issued \subseteq Handles /\ issued \subseteq issued'
  BY CallFacts DEF Staged, StagedStep, CallsStaged, OneCall, IndexStaged
<1>2. c.todo \subseteq issued'
  BY <1>1 DEF CallStaged
<1>3. ASSUME NEW h \in c.todo PROVE up'[h].ready \/ h \notin uploads'
  <2>1. h \in issued /\ h \in Handles /\ (up[h].ready \/ h \notin uploads)
    BY <1>1 DEF CallStaged
  <2>2. Effect(p, h) /\ (h \in uploads' => h \in uploads)
    BY <2>1 DEF StagedStep, IndexStaged, Starts
  <2> QED BY <2>1, <2>2 DEF Effect, Same, SameNamed, Ends, Syncs, Readies, Starts
<1>4. ASSUME c.h \in issued, up[c.h].ready
      PROVE  /\ up'[c.h].ready /\ up'[c.h].place = up[c.h].place
             /\ up'[c.h].digest = up[c.h].digest
             /\ up[c.h].done => up'[c.h].done
             /\ Holds(q, c.h) => up'[c.h].file = up[c.h].file
  <2>1. Effect(p, c.h)
    BY <1>1, <1>4 DEF StagedStep
  <2>2. Holds(q, c.h) => ~Ends(p, c.h) /\ ~Syncs(p, c.h)
    BY <1>1, <1>4 DEF Ends, Syncs, Staged, OneHolder
  <2> QED BY <1>4, <2>1, <2>2 DEF Effect, Same, SameNamed, Ends, Syncs, Readies, Starts
<1>5. c.pc = "await" => up'[c.h].ready
  BY <1>1, <1>4 DEF CallStaged, NamedCall
<1>6. c.pc \in LockedPCs => c.h \in issued /\ up[c.h].ready /\ Holds(q, c.h)
  BY <1>1 DEF NamedCall, Holds, LockedPCs
<1>7. c.pc = "unlink" => up'[c.h].done
  BY <1>1, <1>4, <1>6 DEF CallStaged, LockedPCs
<1>8. c.pc = "decide" => up'[c.h].file # None
  BY <1>1, <1>4, <1>6 DEF CallStaged, LockedPCs
<1>9. ASSUME c.pc = "confirm", up'[c.h].place = "incoming"
      PROVE  incoming'[up'[c.h].digest] # c.h
  <2>1. /\ c.h \in issued /\ up[c.h].ready /\ up[c.h].place = "incoming"
        /\ up'[c.h].digest = up[c.h].digest /\ up[c.h].digest \in Digests
        /\ incoming[up[c.h].digest] # c.h
    BY <1>1, <1>4, <1>6, <1>9, CallFacts DEF CallStaged, LockedPCs, Named
  <2>2. c.h # None
    BY <1>1, <2>1, NamesAssumption DEF Inodes
  <2>3. call[p].pc = "open" => call[p].h # c.h
    BY <2>1 DEF Coherence, Prepared, Prepares, PreparePCs
  <2> QED BY <2>1, <2>2, <2>3 DEF StagedStep, ReservedStep
<1> QED BY <1>1, <1>2, <1>3, <1>5, <1>7, <1>8, <1>9 DEF CallStaged

\* So does what is known of the uploads.
LEMMA UploadsStaged ==
    ASSUME TypeInv, Coherence, Staged, NEW p \in Procs, StagedStep(p), NEW h \in Handles
    PROVE  UploadStaged(h)'
<1>1. /\ Effect(p, h) /\ IndexStaged /\ CallsStaged(p) /\ UploadStaged(h)
      /\ \A q \in Procs \ {p} : call'[q] = call[q]
  BY DEF StagedStep, Staged, CallsStaged, OneCall
<1>2. ASSUME up'[h].ready, ~up'[h].done
      PROVE  h \in uploads' \/ \E q \in Procs : h \in call'[q].todo
  <2>1. CASE Readies(h) \/ Starts(h)
    BY <1>2, <2>1 DEF Readies, Starts
  <2>2. CASE Same(h) \/ Syncs(p, h)
    <3>1. up[h].ready /\ ~up[h].done
      BY <1>2, <2>2 DEF Same, Syncs, SameNamed
    <3>2. CASE h \in uploads
      BY <1>1, <1>2, <3>1, <3>2 DEF IndexStaged
    <3>3. ASSUME NEW q \in Procs, h \in call[q].todo PROVE h \in call'[q].todo
      BY <1>1, <1>2, <3>3 DEF CallsStaged
    <3> QED BY <1>1, <3>1, <3>2, <3>3 DEF UploadStaged
  <2> QED BY <1>1, <1>2, <2>1, <2>2 DEF Effect, Ends
<1>3. ASSUME up'[h].ready, ~up'[h].done, up'[h].file = None
      PROVE  \E q \in Procs : Holds(q, h)'
  <2>1. CASE Same(h)
    <3>1. PICK q \in Procs : Holds(q, h)
      BY <1>1, <1>3, <2>1 DEF UploadStaged, Same, SameNamed
    <3>2. Holds(q, h)'
      BY <1>1, <1>3, <3>1 DEF Holds, CallsStaged
    <3> QED BY <3>2
  <2>2. CASE Syncs(p, h)
    BY <2>2 DEF Syncs, Holds
  <2> QED BY <1>1, <1>3, <2>1, <2>2 DEF Effect, Ends, Readies, Starts
<1>4. ASSUME h \in uploads', ~up'[h].ready PROVE ~up'[h].done
  <2>1. CASE Same(h) \/ Syncs(p, h)
    <3>1. CASE h \in uploads
      BY <1>1, <1>4, <2>1, <3>1 DEF UploadStaged, Same, Syncs, SameNamed
    <3>2. CASE Starts(h)
      BY <3>2 DEF Starts
    <3> QED BY <1>1, <1>4, <3>1, <3>2 DEF IndexStaged
  <2> QED BY <1>1, <1>4, <2>1 DEF Effect, Ends, Readies, Starts, SameNamed
<1> QED BY <1>2, <1>3, <1>4 DEF UploadStaged

\* One goroutine at most holds an upload's mutex.
LEMMA HoldersStaged ==
    ASSUME Staged, NEW p \in Procs, CallsStaged(p)
    PROVE  OneHolder'
<1>1. ASSUME NEW q \in Procs \ {p}, NEW h \in Handles, Holds(p, h)', Holds(q, h)' PROVE FALSE
  <2>1. Holds(q, h) /\ call'[p].pc \in LockedPCs /\ call'[p].h = h
    BY <1>1 DEF CallsStaged, OneCall, Holds
  <2>2. Holds(p, h)
    BY <2>1 DEF CallsStaged, Holds
  <2> QED BY <2>1, <2>2 DEF Staged, OneHolder
<1>2. ASSUME NEW q \in Procs \ {p}, NEW r \in Procs \ {p}, NEW h \in Handles,
             Holds(q, h)', Holds(r, h)'
      PROVE  q = r
  BY <1>2 DEF CallsStaged, OneCall, Holds, Staged, OneHolder
<1> QED BY <1>1, <1>2 DEF OneHolder

\* All of it.
LEMMA StagedKept ==
    ASSUME TypeInv, Coherence, Staged, NEW p \in Procs, StagedStep(p)
    PROVE  Staged'
<1>1. CallsStaged(p) /\ CallStaged(call[p])'
  BY DEF StagedStep, CallsStaged
<1> QED BY <1>1, OthersStaged, UploadsStaged, HoldersStaged DEF Staged

\* Every reservation keeps its owner, or gets one.
LEMMA ReservedKept ==
    ASSUME Reserved, NEW p \in Procs, StagedStep(p)
    PROVE  Reserved'
<1>1. ASSUME NEW d \in Digests, NEW h, incoming'[d] = h, h # None
      PROVE  /\ h \in Handles
             /\ \/ up'[h].digest = d /\ up'[h].place = "incoming" /\ up'[h].ready /\ ~up'[h].done
                \/ \E q \in Procs : CallOwns(call'[q], h, d)
  <2>1. CASE incoming[d] = h
    <3>1. h \in Handles /\ (UploadOwns(h, d) \/ \E q \in Procs : CallOwns(call[q], h, d))
      BY <1>1, <2>1 DEF Reserved
    <3>2. CASE UploadOwns(h, d)
      BY <1>1, <3>1, <3>2 DEF StagedStep, ReservedStep, UploadOwns
    <3>3. ASSUME NEW q \in Procs \ {p}, CallOwns(call[q], h, d)
          PROVE  CallOwns(call'[q], h, d)
      BY <3>3 DEF StagedStep, CallsStaged, OneCall
    <3>4. CASE CallOwns(call[p], h, d)
      BY <1>1, <3>1, <3>4 DEF StagedStep, ReservedStep, UploadOwns
    <3> QED BY <3>1, <3>2, <3>3, <3>4
  <2>2. CASE incoming[d] # h
    BY <1>1, <2>2 DEF StagedStep, ReservedStep
  <2> QED BY <2>1, <2>2
<1> QED BY <1>1 DEF Reserved, CallOwns, UploadOwns

-----------------------------------------------------------------------------
(* Steps that leave every upload where it is.                              *)

StillUploads == UNCHANGED <<uploads, issued>> /\ \A h \in Handles : Same(h)

\* Reservations only go.
StillReserved == \A d \in Digests : incoming'[d] \in {incoming[d], None}

\* Such changes of the upload structs.
LEMMA SameUploads ==
    ASSUME TypeInv, NEW h, NEW e, NEW s,
           \/ UNCHANGED up
           \/ up' = [up EXCEPT ![h].expires = e]
           \/ up' = [up EXCEPT ![h].sum = s]
    PROVE  \A g \in Handles : Same(g)
<1>1. up \in [Handles -> Upload]
  BY DEF TypeInv, WriterTypeOK
<1> SUFFICES ASSUME NEW g \in Handles PROVE Same(g)
  OBVIOUS
<1>2. up[g] \in Upload
  BY <1>1
<1>3. CASE UNCHANGED up
  BY <1>3 DEF Same, SameNamed
<1>4. CASE up' = [up EXCEPT ![h].expires = e]
  BY <1>1, <1>2, <1>4 DEF Upload, Same, SameNamed
<1>5. CASE up' = [up EXCEPT ![h].sum = s]
  BY <1>1, <1>2, <1>5 DEF Upload, Same, SameNamed
<1> QED BY <1>3, <1>4, <1>5

\* Taking a file away by its path.
LEMMA RemoveReserves ==
    ASSUME TypeInv, NEW h, NEW d, NEW place, RemoveStaged(h, d, place)
    PROVE  /\ StillReserved
           /\ place = "incoming" /\ d \in Digests => incoming'[d] = None
  BY DEF RemoveStaged, StillReserved, TypeInv, WriterTypeOK, StoreTypeOK

\* The call of p goes on at pc, for the same upload.
Moves(p, pc) ==
    /\ OneCall(p) /\ call[p].todo = {}
    /\ call'[p].pc = pc /\ call'[p].todo = {}
    /\ call'[p].h = call[p].h /\ call'[p].digest = call[p].digest

\* Goto is such a step.
LEMMA GotoMoves ==
    ASSUME TypeInv, NEW p \in Procs, NEW pc, Goto(p, pc), call[p].todo = {}
    PROVE  /\ Moves(p, pc)
           /\ call'[p].place = call[p].place /\ call'[p].file = call[p].file
           /\ call'[p].outcome = call[p].outcome
<1>1. call \in [Procs -> Call] /\ call[p] \in Call
  BY CallFacts
<1> QED BY <1>1 DEF Goto, Moves, OneCall, Call

\* What a call that moves must see to.
LEMMA MovesStaged ==
    ASSUME TypeInv, Coherence, Staged, NEW p \in Procs, NEW pc, Moves(p, pc),
           StillUploads, StillReserved,
           pc \in LockedPCs => call[p].pc \in LockedPCs \/ \A q \in Procs : ~Holds(q, call[p].h),
           call[p].pc \in LockedPCs => pc \in LockedPCs,
           pc \notin {"await", "unlink"},
           pc = "decide" => up[call[p].h].file # None /\ call[p].h \in Handles,
           pc = "check" \/ (pc = "settle" /\ call'[p].outcome = "ready") => call'[p].file # None,
           pc = "confirm" => /\ call[p].h \in Handles
                             /\ up[call[p].h].place = "incoming"
                                  => incoming'[up[call[p].h].digest] # call[p].h,
           \A d \in Digests, h \in Handles :
               CallOwns(call[p], h, d) /\ incoming'[d] = h => CallOwns(call'[p], h, d)
    PROVE  StagedStep(p)
<1>1. \A h \in Handles : Effect(p, h)
  BY DEF StillUploads, Effect
<1>2. IndexStaged
  BY DEF StillUploads, IndexStaged, TypeInv, Named
<1>3. CallStaged(call[p])'
  BY DEF Moves, CallStaged, StillUploads, Same, SameNamed
<1>4. CallsStaged(p)
  BY <1>3 DEF CallsStaged, Moves
<1>5. ReservedStep(p)
  BY DEF ReservedStep, StillReserved, StillUploads, Same, SameNamed, UploadOwns
<1> QED BY <1>1, <1>2, <1>4, <1>5 DEF StagedStep

\* A call returns, and leaves no open mutex and no file of its own behind.
LEMMA ReturnsStaged ==
    ASSUME TypeInv, Coherence, Staged, NEW p \in Procs, Return(p), call[p].todo = {},
           StillUploads, StillReserved,
           call[p].pc \in LockedPCs => call[p].pc = "decide" /\ call[p].h \in Handles,
           \A d \in Digests, h \in Handles : CallOwns(call[p], h, d) => incoming'[d] # h
    PROVE  StagedStep(p)
<1>1. \A h \in Handles : Effect(p, h)
  BY DEF StillUploads, Effect
<1>2. IndexStaged
  BY DEF StillUploads, IndexStaged, TypeInv, Named
<1>3. call'[p] = NoCall /\ OneCall(p)
  BY CallFacts DEF Return, OneCall
<1>4. call'[p].pc = "idle" /\ call'[p].todo = {}
  BY <1>3 DEF NoCall
<1>5. CallStaged(call[p])'
  BY <1>4 DEF CallStaged
<1>6. CallsStaged(p)
  <2>1. call[p].pc = "decide" => up[call[p].h].file # None
    BY DEF Staged, CallStaged
  <2>2. call[p].pc \in LockedPCs => up'[call[p].h].file # None
    BY <2>1 DEF StillUploads, Same
  <2> QED BY <1>3, <1>4, <1>5, <2>2 DEF CallsStaged, LockedPCs
<1>7. ReservedStep(p)
  BY DEF ReservedStep, StillReserved, StillUploads, Same, SameNamed, UploadOwns
<1> QED BY <1>1, <1>2, <1>6, <1>7 DEF StagedStep

\* Most calls that return own nothing.
LEMMA QuietlyReturns ==
    ASSUME TypeInv, Coherence, Staged, NEW p \in Procs,
           \/ BeginRefused(p) \/ BeginReplay(p) \/ BeginUnsaved(p) \/ Await(p)
           \/ AppendWrite(p) \/ CallEnds(p) \/ CommitRefused(p)
           \/ (AbortUpload(p) \/ CommitLookup(p) \/ AppendAdmit(p)) /\ ~Live(call[p].h)
    PROVE  StagedStep(p)
<1>1. call[p].todo = {} /\ Return(p)
  BY DEF BeginRefused, BeginReplay, BeginUnsaved, Await, AppendWrite, CallEnds, CommitRefused,
         AbortUpload, CommitLookup, AppendAdmit, Ready
<1>2. call[p].pc \in {"begin", "await", "write", "verify", "decide", "abort", "lookup", "admit"}
  BY DEF BeginRefused, BeginReplay, BeginUnsaved, Await, AppendWrite, CallEnds, CommitRefused,
         AbortUpload, CommitLookup, AppendAdmit, Ready
<1>3. /\ UNCHANGED <<uploads, issued>>
      /\ UNCHANGED up \/ \E h, s : up' = [up EXCEPT ![h].sum = s]
  BY DEF BeginRefused, BeginReplay, BeginUnsaved, Await, AppendWrite, CallEnds, CommitRefused,
         AbortUpload, CommitLookup, AppendAdmit, IndexOnly, CallOnly, UploadOnly, memory, ghosts
<1>4. UNCHANGED incoming
  BY DEF BeginRefused, BeginReplay, BeginUnsaved, Await, AppendWrite, CallEnds, CommitRefused,
         AbortUpload, CommitLookup, AppendAdmit, IndexOnly, CallOnly, UploadOnly, storeVars,
         WriteStaged
<1>5. StillUploads /\ StillReserved
  BY <1>3, <1>4, SameUploads DEF StillUploads, StillReserved
<1>6. call[p].pc \in LockedPCs => call[p].pc = "decide" /\ call[p].h \in Handles
  BY <1>2, CallFacts DEF LockedPCs
<1>7. \A d \in Digests, h \in Handles : ~CallOwns(call[p], h, d)
  BY <1>2 DEF CallOwns
<1> QED BY <1>1, <1>5, <1>6, <1>7, ReturnsStaged

\* Begin cleans up by the path it reserved.
LEMMA CleanupStaged ==
    ASSUME TypeInv, Coherence, Staged, NEW p \in Procs, BeginCleanup(p)
    PROVE  StagedStep(p)
<1>1. /\ call[p].todo = {} /\ call[p].pc = "cleanup" /\ Return(p)
      /\ UNCHANGED <<uploads, issued, up>>
      /\ RemoveStaged(call[p].h, call[p].digest, call[p].place)
  BY DEF BeginCleanup, Ready, FilesOnly, memory, ghosts
<1>2. StillUploads
  BY <1>1, SameUploads DEF StillUploads
<1>3. \A d \in Digests, h \in Handles : CallOwns(call[p], h, d) => incoming'[d] # h
  BY <1>1, RemoveReserves, NamesAssumption DEF CallOwns, Inodes
<1> QED BY <1>1, <1>2, <1>3, RemoveReserves, ReturnsStaged DEF LockedPCs

\* Steps of prepare that open nothing.
LEMMA PrepareStaged ==
    ASSUME TypeInv, Coherence, Staged, NEW p \in Procs,
           PrepareFind(p) \/ PreparePlace(p) \/ PrepareCheck(p) \/ PrepareFails(p)
    PROVE  StagedStep(p)
<1>1. /\ call[p].todo = {} /\ call[p].pc \in {"find", "place", "check", "open"}
      /\ UNCHANGED <<uploads, issued, up, incoming>>
  BY DEF PrepareFind, PreparePlace, PrepareCheck, PrepareFails, Ready, FilesOnly, CallOnly,
         memory, ghosts, storeVars, CreatePossession
<1>2. /\ call \in [Procs -> Call] /\ call[p] \in Call /\ call[p].h \in Handles
      /\ None \notin Handles
  BY <1>1, CallFacts, NamesAssumption DEF Inodes
<1>3. PICK pc \in {"place", "open", "settle"} :
        /\ Moves(p, pc)
        /\ pc = "settle" /\ call'[p].outcome = "ready" => call'[p].file # None
        /\ call[p].pc = "check" =>
             /\ pc = "settle"
             /\ \/ /\ call'[p].outcome = "ready" /\ call'[p].place = call[p].place
                   /\ SameFile(call[p])
                \/ ~SameFile(call[p])
  <2>1. CASE PrepareFind(p)
    <3>1. CASE Settle(p, "present")
      <4>1. Moves(p, "settle") /\ call'[p].outcome = "present"
        BY <1>1, <1>2, <3>1 DEF Settle, Moves, OneCall, Call
      <4> QED BY <2>1, <4>1 DEF PrepareFind, Ready
    <3>2. CASE call' = [call EXCEPT ![p].pc = "settle", ![p].outcome = "ready",
                                    ![p].file = call[p].h, ![p].place = "possession"]
      <4>1. Moves(p, "settle") /\ call'[p].file = call[p].h
        BY <1>1, <1>2, <3>2 DEF Moves, OneCall, Call
      <4> QED BY <1>2, <2>1, <4>1 DEF PrepareFind, Ready
    <3>3. CASE Goto(p, "place")
      <4>1. Moves(p, "place")
        BY <1>1, <3>3, GotoMoves
      <4> QED BY <2>1, <4>1 DEF PrepareFind, Ready
    <3> QED BY <2>1, <3>1, <3>2, <3>3 DEF PrepareFind
  <2>2. CASE PreparePlace(p)
    <3>1. Moves(p, "open")
      BY <1>1, <1>2, <2>2 DEF PreparePlace, Moves, OneCall, Call
    <3> QED BY <2>2, <3>1 DEF PreparePlace, Ready
  <2>3. CASE GiveUp(p) /\ (call[p].pc = "check" => ~SameFile(call[p]))
    <3>1. Moves(p, "settle") /\ call'[p].outcome = "failed"
      BY <1>1, <1>2, <2>3 DEF GiveUp, Moves, OneCall, Call
    <3> QED BY <2>3, <3>1
  <2>4. CASE PrepareCheck(p) /\ SameFile(call[p])
    <3>1. /\ Moves(p, "settle") /\ call'[p].outcome = "ready"
          /\ call'[p].place = call[p].place /\ call'[p].file = call[p].file
      BY <1>1, <1>2, <2>4 DEF PrepareCheck, Settle, Moves, OneCall, Call
    <3>2. call[p].file # None
      BY <2>4 DEF PrepareCheck, Ready, Staged, CallStaged
    <3> QED BY <2>4, <3>1, <3>2
  <2> QED BY <2>1, <2>2, <2>3, <2>4 DEF PrepareCheck, PrepareFails, Ready
<1>4. StillUploads /\ StillReserved
  BY <1>1, SameUploads DEF StillUploads, StillReserved
<1>5. \A d \in Digests, h \in Handles :
        CallOwns(call[p], h, d) /\ incoming'[d] = h => CallOwns(call'[p], h, d)
  <2> SUFFICES ASSUME NEW d \in Digests, NEW h \in Handles, CallOwns(call[p], h, d),
                      incoming[d] = h
               PROVE  CallOwns(call'[p], h, d)
    BY <1>1
  <2>1. /\ call[p].pc = "check" /\ call[p].file = h /\ call[p].h = h /\ call[p].digest = d
        /\ call[p].place = "incoming"
    BY <1>1 DEF CallOwns
  <2>2. SameFile(call[p])
    BY <2>1 DEF SameFile, At
  <2> QED BY <1>3, <2>1, <2>2 DEF Moves, CallOwns
<1> QED BY <1>1, <1>3, <1>4, <1>5, MovesStaged DEF LockedPCs

\* A call finds a ready upload, and goes on to wait for its mutex.
LEMMA FindsStaged ==
    ASSUME TypeInv, Coherence, Staged, NEW p \in Procs,
           (AppendAdmit(p) \/ CommitLookup(p)) /\ Live(call[p].h)
    PROVE  StagedStep(p)
<1>1. PICK pc \in {"write", "verify"} :
        /\ Goto(p, pc) /\ call[p].todo = {} /\ call[p].pc \in {"admit", "lookup"}
        /\ UNCHANGED <<uploads, issued, incoming>>
        /\ UNCHANGED up \/ \E h, e : up' = [up EXCEPT ![h].expires = e]
  BY DEF AppendAdmit, CommitLookup, Ready, UploadOnly, CallOnly, memory, ghosts, storeVars
<1>2. StillUploads /\ StillReserved /\ Moves(p, pc)
  BY <1>1, SameUploads, GotoMoves DEF StillUploads, StillReserved
<1> QED BY <1>1, <1>2, MovesStaged DEF LockedPCs, CallOwns

\* The steps of Commit under the mutex that end no upload.
LEMMA CommitStaged ==
    ASSUME TypeInv, Coherence, Staged, NEW p \in Procs,
           \/ CommitVerify(p) \/ CommitIntent(p) \/ CommitUnrecorded(p) \/ CommitPublish(p)
           \/ CommitUnpublished(p) \/ CommitLost(p) \/ CommitDemote(p)
    PROVE  StagedStep(p)
<1> DEFINE c == call[p]  u == up[c.h]
<1>1. /\ c.todo = {} /\ UNCHANGED <<uploads, issued, up>>
      /\ c.pc \in {"verify", "intent", "publish", "confirm", "demote"}
  BY DEF CommitVerify, CommitIntent, CommitUnrecorded, CommitPublish, CommitUnpublished,
         CommitLost, CommitDemote, Ready, CallOnly, FilesOnly, memory, ghosts
<1>2. /\ call \in [Procs -> Call] /\ c \in Call /\ c.h \in Handles
      /\ u.digest \in Digests /\ c.h # None
  BY <1>1, CallFacts, LockedFacts, NamesAssumption DEF LockedPCs, Inodes
<1>3. StillReserved
  <2>1. CASE CommitPublish(p) /\ u.place # "possession"
    BY <2>1 DEF CommitPublish, Rename, StillReserved, TypeInv, WriterTypeOK, StoreTypeOK
  <2>2. CASE CommitPublish(p) /\ u.place = "possession"
    BY <2>2, RemoveReserves DEF CommitPublish
  <2>3. CASE ~CommitPublish(p)
    BY <2>3 DEF CommitVerify, CommitIntent, CommitUnrecorded, CommitUnpublished, CommitLost,
                CommitDemote, CallOnly, storeVars, StillReserved
  <2> QED BY <2>1, <2>2, <2>3
<1>4. PICK pc \in {"decide", "publish", "confirm", "demote", "drop"} :
        /\ Moves(p, pc)
        /\ c.pc \in LockedPCs \/ \A q \in Procs : ~Holds(q, c.h)
        /\ pc = "decide" => u.file # None
        /\ pc = "confirm" => (u.place = "incoming" => incoming'[u.digest] # c.h)
  <2>1. CASE CommitVerify(p)
    <3>1. u.file # None /\ \A q \in Procs : ~Holds(q, c.h)
      BY <2>1 DEF CommitVerify, Locked, Holds
    <3>2. CASE Goto(p, "decide")
      BY <1>1, <3>1, <3>2, GotoMoves
    <3>3. CASE call' = [call EXCEPT ![p].pc = "drop", ![p].forget = TRUE]
      <4>1. Moves(p, "drop")
        BY <1>1, <1>2, <3>3 DEF Moves, OneCall, Call
      <4> QED BY <3>1, <4>1
    <3> QED BY <2>1, <3>2, <3>3 DEF CommitVerify
  <2>2. CASE CommitIntent(p)
    <3>1. Moves(p, "publish")
      BY <1>1, <1>2, <2>2 DEF CommitIntent, Moves, OneCall, Call
    <3> QED BY <2>2, <3>1 DEF CommitIntent, Ready, LockedPCs
  <2>3. CASE CommitPublish(p)
    <3>1. Moves(p, "confirm") /\ c.pc \in LockedPCs
      BY <1>1, <2>3, GotoMoves DEF CommitPublish, Ready, LockedPCs
    <3>2. ASSUME u.place = "incoming" PROVE incoming'[u.digest] # c.h
      <4>1. Rename(u.digest)
        BY <2>3, <3>2 DEF CommitPublish
      <4>2. incoming'[u.digest] = None
        BY <1>2, <4>1 DEF Rename, TypeInv, WriterTypeOK, StoreTypeOK
      <4> QED BY <1>2, <4>2
    <3> QED BY <3>1, <3>2
  <2>4. CASE CommitUnrecorded(p) \/ CommitUnpublished(p) \/ CommitLost(p) \/ CommitDemote(p)
    <3>1. PICK pc \in {"demote", "drop"} : Goto(p, pc) /\ c.pc \in LockedPCs
      BY <2>4 DEF CommitUnrecorded, CommitUnpublished, CommitLost, CommitDemote, Ready,
                  LockedPCs
    <3> QED BY <1>1, <3>1, GotoMoves
  <2> QED BY <2>1, <2>2, <2>3, <2>4
<1>5. StillUploads
  BY <1>1, SameUploads DEF StillUploads
<1>6. \A d \in Digests, h \in Handles : ~CallOwns(c, h, d)
  BY <1>1 DEF CallOwns
<1> QED BY <1>1, <1>2, <1>3, <1>4, <1>5, <1>6, MovesStaged DEF LockedPCs

-----------------------------------------------------------------------------
(* Steps that begin, open and make ready.                                  *)

\* A Begin that resumes knows a ready upload.
LEMMA ResumeStaged ==
    ASSUME TypeInv, Coherence, Staged, NEW p \in Procs, BeginResume(p)
    PROVE  StagedStep(p)
<1>1. PICK h \in uploads :
        /\ up[h].ready /\ h \in Handles
        /\ \E r : call' = [call EXCEPT ![p].pc = "await", ![p].h = h, ![p].rec = r]
        /\ \E e : up' = [up EXCEPT ![h].expires = e]
  BY DEF BeginResume, Live, TypeInv, WriterTypeOK
<1>2. /\ call[p].todo = {} /\ call[p].pc = "begin"
      /\ UNCHANGED <<uploads, issued, incoming>> /\ issued \subseteq Handles
  BY DEF BeginResume, Ready, UploadOnly, memory, ghosts, storeVars, TypeInv, Named
<1>3. \A g \in Handles : Same(g)
  BY <1>1, SameUploads
<1>4. /\ OneCall(p) /\ call'[p].pc = "await" /\ call'[p].h = h /\ call'[p].todo = {}
  BY <1>1, <1>2, CallFacts DEF OneCall, Call
<1>5. CallStaged(call[p])'
  BY <1>1, <1>3, <1>4 DEF CallStaged, Same, SameNamed
<1>6. CallsStaged(p)
  BY <1>2, <1>4, <1>5 DEF CallsStaged, LockedPCs
<1>7. ReservedStep(p)
  BY <1>2, <1>3 DEF ReservedStep, Same, SameNamed, UploadOwns, CallOwns
<1> QED BY <1>2, <1>3, <1>6, <1>7 DEF StagedStep, Effect, IndexStaged

\* A new upload is known to nobody else.
LEMMA StartStaged ==
    ASSUME TypeInv, Coherence, Staged, NEW p \in Procs, BeginStart(p)
    PROVE  StagedStep(p)
<1>1. PICK h \in Handles \ issued :
        /\ issued' = issued \cup {h} /\ uploads' = uploads \cup {h}
        /\ up' = [up EXCEPT ![h] = [NoUpload EXCEPT !.key = call[p].key,
                                      !.digest = call[p].digest, !.size = call[p].size]]
        /\ \E r : call' = [call EXCEPT ![p].pc = "find", ![p].h = h, ![p].rec = r]
  BY DEF BeginStart
<1>2. /\ call[p].todo = {} /\ call[p].pc = "begin" /\ UNCHANGED incoming
      /\ issued \subseteq Handles /\ uploads \subseteq issued
      /\ up \in [Handles -> Upload]
  BY CallFacts DEF BeginStart, Ready, storeVars, Coherence, Recorded
<1>3. Starts(h) /\ \A g \in Handles \ {h} : Same(g)
  BY <1>1, <1>2 DEF Starts, Same, SameNamed, NoUpload
<1>4. ~up[h].ready
  BY <1>1 DEF TypeInv, Named
<1>5. /\ OneCall(p) /\ call'[p].pc = "find" /\ call'[p].todo = {}
  BY <1>1, <1>2, CallFacts DEF OneCall, Call
<1>6. CallsStaged(p)
  BY <1>2, <1>5 DEF CallsStaged, CallStaged, LockedPCs
<1>7. ReservedStep(p)
  BY <1>2, <1>3, <1>4 DEF ReservedStep, Same, SameNamed, UploadOwns, CallOwns
<1>8. IndexStaged
  BY <1>1, <1>2, <1>3 DEF IndexStaged
<1> QED BY <1>3, <1>6, <1>7, <1>8 DEF StagedStep, Effect

\* The upload that creates a reservation owns it.
LEMMA OpenStaged ==
    ASSUME TypeInv, Coherence, Staged, NEW p \in Procs, PrepareOpen(p)
    PROVE  StagedStep(p)
<1> DEFINE c == call[p]
<1>1. /\ c.pc = "open" /\ c.todo = {} /\ UNCHANGED <<uploads, issued, up>>
      /\ OpenStaging(c.h, c.digest, c.place)
      /\ call' = [call EXCEPT ![p].pc = "check", ![p].file = Opened(c.h, c.digest, c.place)]
  BY DEF PrepareOpen, Ready, memory
<1>2. /\ c \in Call /\ call \in [Procs -> Call] /\ c.h \in Handles /\ c.digest \in Digests
      /\ c.h # None /\ issued \subseteq Handles
      /\ incoming \in [Digests -> Inodes \cup {None}]
  BY <1>1, CallFacts, NamesAssumption DEF NamedCall, BeginPCs, Inodes, StoreTypeOK
<1>3. /\ OneCall(p) /\ call'[p].pc = "check" /\ call'[p].todo = {} /\ call'[p].h = c.h
      /\ call'[p].digest = c.digest /\ call'[p].place = c.place
      /\ call'[p].file = Opened(c.h, c.digest, c.place)
  BY <1>1, <1>2 DEF OneCall, Call
<1>4. call'[p].file # None
  BY <1>2, <1>3 DEF Opened
<1>5. \A g \in Handles : Same(g)
  BY <1>1, SameUploads
<1>6. CallsStaged(p)
  BY <1>1, <1>3, <1>4 DEF CallsStaged, CallStaged, LockedPCs
<1>7. ReservedStep(p)
  <2>1. \A d \in Digests : \/ incoming'[d] = incoming[d]
                           \/ /\ d = c.digest /\ c.place = "incoming"
                              /\ incoming'[d] = Opened(c.h, d, "incoming")
    BY <1>1, <1>2 DEF OpenStaging
  <2>2. ASSUME NEW d \in Digests, incoming'[d] # incoming[d]
        PROVE  incoming'[d] = c.h /\ CallOwns(call'[p], c.h, d)
    BY <1>3, <2>1, <2>2 DEF Opened, At, CallOwns
  <2> QED BY <1>1, <1>2, <1>5, <2>2 DEF ReservedStep, Same, SameNamed, UploadOwns, CallOwns
<1>8. IndexStaged
  BY <1>1, <1>2 DEF IndexStaged
<1> QED BY <1>5, <1>6, <1>7, <1>8 DEF StagedStep, Effect

\* The change of the upload struct when it is made ready.
LEMMA ReadyUpload ==
    ASSUME NEW h \in Handles, NEW i, NEW x, NEW e, up \in [Handles -> Upload],
           up' = [up EXCEPT ![h].file = i, ![h].place = x, ![h].ready = TRUE,
                            ![h].expires = e]
    PROVE  /\ up'[h].file = i /\ up'[h].place = x /\ up'[h].ready
           /\ up'[h].done = up[h].done /\ up'[h].digest = up[h].digest
           /\ \A g \in Handles \ {h} : up'[g] = up[g]
<1>1. up[h] \in Upload
  OBVIOUS
<1>2. \A g \in Handles \ {h} : up'[g] = up[g]
  OBVIOUS
<1>3. up'[h].file = i /\ up'[h].place = x /\ up'[h].ready
  BY <1>1 DEF Upload
<1>4. up'[h].done = up[h].done /\ up'[h].digest = up[h].digest
  BY <1>1 DEF Upload
<1> QED BY <1>2, <1>3, <1>4

\* An upload that is made ready owns what its Begin reserved.
LEMMA ReadyStaged ==
    ASSUME TypeInv, Coherence, Staged, NEW p \in Procs, BeginReady(p)
    PROVE  StagedStep(p)
<1> DEFINE c == call[p]
<1>1. /\ c.pc = "settle" /\ c.outcome = "ready" /\ c.todo = {} /\ c.h \in uploads
      /\ UNCHANGED <<uploads, issued, incoming>> /\ Return(p)
      /\ \E e : up' = [up EXCEPT ![c.h].file = c.file, ![c.h].place = c.place,
                                 ![c.h].ready = TRUE, ![c.h].expires = e]
  BY DEF BeginReady, Ready, UploadOnly, memory, ghosts, storeVars
<1>2. /\ up \in [Handles -> Upload] /\ c.h \in Handles /\ issued \subseteq Handles
      /\ up[c.h].digest = c.digest /\ ~up[c.h].ready /\ ~up[c.h].done /\ c.file # None
  BY <1>1, CallFacts DEF Coherence, Prepared, Prepares, PreparePCs, Staged, CallStaged,
                         UploadStaged
<1>3. /\ up'[c.h].file = c.file /\ up'[c.h].place = c.place /\ up'[c.h].ready
      /\ up'[c.h].done = up[c.h].done /\ up'[c.h].digest = up[c.h].digest
      /\ \A g \in Handles \ {c.h} : up'[g] = up[g]
  <2>1. PICK e : up' = [up EXCEPT ![c.h].file = c.file, ![c.h].place = c.place,
                                  ![c.h].ready = TRUE, ![c.h].expires = e]
    BY <1>1
  <2> QED BY <1>2, <2>1, ReadyUpload
<1>4. \A g \in Handles : Effect(p, g)
  <2>1. Readies(c.h)
    BY <1>1, <1>2, <1>3 DEF Readies
  <2>2. \A g \in Handles \ {c.h} : Same(g)
    BY <1>3 DEF Same, SameNamed
  <2> QED BY <2>1, <2>2 DEF Effect
<1>5. OneCall(p) /\ call'[p].pc = "idle" /\ call'[p].todo = {}
  BY <1>1, CallFacts DEF Return, OneCall, NoCall
<1>6. CallsStaged(p)
  BY <1>1, <1>5 DEF CallsStaged, CallStaged, LockedPCs
<1>7. ReservedStep(p)
  <2>1. ASSUME NEW d \in Digests, NEW g \in Handles, UploadOwns(g, d)
        PROVE  up'[g] = up[g]
    BY <1>2, <1>3, <2>1 DEF UploadOwns
  <2>2. ASSUME NEW d \in Digests, NEW g \in Handles, CallOwns(c, g, d)
        PROVE  UploadOwns(g, d)'
    BY <1>2, <1>3, <2>2 DEF UploadOwns, CallOwns
  <2>3. ASSUME NEW d \in Digests, NEW g \in Handles, UploadOwns(g, d)
        PROVE  UploadOwns(g, d)'
    BY <2>1, <2>3 DEF UploadOwns
  <2>4. \A d \in Digests : incoming'[d] = incoming[d]
    BY <1>1
  <2> QED BY <2>2, <2>3, <2>4 DEF ReservedStep
<1>8. IndexStaged
  BY <1>1, <1>2 DEF IndexStaged
<1> QED BY <1>4, <1>6, <1>7, <1>8 DEF StagedStep

-----------------------------------------------------------------------------
(* Steps that end an upload.                                               *)

\* h is done and has no file; its reservation is gone unless it was not its own.
EndsFile(p, h) ==
    /\ h \in Handles /\ up[h].ready => up[h].digest \in Digests
    /\ \A g \in Handles \ {h} : Same(g)
    /\ SameNamed(h) /\ up'[h].done
    /\ \A q \in Procs \ {p} : ~Holds(q, h)
    /\ h \in uploads' => up[h].ready
    /\ up[h].ready /\ ~up[h].done /\ up[h].place = "incoming" => incoming'[up[h].digest] # h

\* What such a step is for the uploads and the reservations.
LEMMA EndsStaged ==
    ASSUME TypeInv, NEW p \in Procs, NEW h, EndsFile(p, h), StillReserved,
           issued' = issued, uploads' = uploads \/ uploads' = uploads \ {h},
           \A d \in Digests, g \in Handles :
               CallOwns(call[p], g, d) => CallOwns(call'[p], g, d)
    PROVE  (\A g \in Handles : Effect(p, g)) /\ IndexStaged /\ ReservedStep(p)
<1>1. \A g \in Handles : Effect(p, g)
  BY DEF EndsFile, Effect, Ends
<1>2. IndexStaged
  BY DEF EndsFile, IndexStaged, TypeInv, Named
<1>3. ReservedStep(p)
  <2>1. ASSUME NEW d \in Digests, NEW g \in Handles, UploadOwns(g, d), incoming'[d] = g
        PROVE  UploadOwns(g, d)'
    BY <2>1 DEF EndsFile, Same, SameNamed, UploadOwns
  <2> QED BY <2>1 DEF ReservedStep, StillReserved
<1> QED BY <1>1, <1>2, <1>3

\* The changes of the upload structs.
LEMMA EndsUploads ==
    ASSUME TypeInv, NEW h \in Handles,
           \/ up' = [up EXCEPT ![h].done = TRUE, ![h].file = None]
           \/ up' = [up EXCEPT ![h].done = TRUE]
    PROVE  (\A g \in Handles \ {h} : Same(g)) /\ SameNamed(h) /\ up'[h].done
<1>1. up \in [Handles -> Upload] /\ up[h] \in Upload
  BY DEF TypeInv, WriterTypeOK
<1>2. CASE up' = [up EXCEPT ![h].done = TRUE, ![h].file = None]
  BY <1>1, <1>2 DEF Upload, Same, SameNamed
<1>3. CASE up' = [up EXCEPT ![h].done = TRUE]
  BY <1>1, <1>3 DEF Upload, Same, SameNamed
<1> QED BY <1>2, <1>3

\* discard takes u.mu, so that nobody else has it.
LEMMA DiscardStaged ==
    ASSUME TypeInv, Coherence, Staged, NEW p \in Procs, Discard(p)
    PROVE  StagedStep(p)
<1>1. PICK h \in call[p].todo :
        /\ ~Locked(h)
        /\ IF up[h].file # None THEN RemoveStaged(h, up[h].digest, up[h].place)
                                ELSE UNCHANGED storeVars
        /\ up' = [up EXCEPT ![h].done = TRUE, ![h].file = None]
        /\ call' = [call EXCEPT ![p].todo = @ \ {h}]
        /\ UNCHANGED <<uploads, issued>>
  BY DEF Discard, memory, ghosts
<1>2. /\ h \in issued /\ h \in Handles /\ (up[h].ready \/ h \notin uploads)
      /\ call \in [Procs -> Call] /\ call[p] \in Call /\ h # None
  BY CallFacts, NamesAssumption DEF Staged, CallStaged, Inodes
<1>3. /\ OneCall(p) /\ call'[p].todo = call[p].todo \ {h}
      /\ call'[p].pc = call[p].pc /\ call'[p].h = call[p].h /\ call'[p].file = call[p].file
      /\ call'[p].outcome = call[p].outcome /\ call'[p].place = call[p].place
      /\ call'[p].digest = call[p].digest
  BY <1>1, <1>2 DEF OneCall, Call
<1>4. (\A g \in Handles \ {h} : Same(g)) /\ SameNamed(h) /\ up'[h].done
  BY <1>1, <1>2, EndsUploads
<1>5. \A q \in Procs : ~Holds(q, h)
  BY <1>1 DEF Locked, Holds
<1>6. StillReserved
  BY <1>1, RemoveReserves DEF StillReserved, storeVars
<1>7. up[h].ready /\ ~up[h].done /\ up[h].place = "incoming" => incoming'[up[h].digest] # h
  <2> SUFFICES ASSUME up[h].ready, ~up[h].done, up[h].place = "incoming"
               PROVE  incoming'[up[h].digest] # h
    OBVIOUS
  <2>1. up[h].file # None /\ up[h].digest \in Digests
    BY <1>2, <1>5 DEF Staged, UploadStaged, TypeInv, Named
  <2> QED BY <1>1, <1>2, <2>1, RemoveReserves
<1>8. EndsFile(p, h)
  BY <1>1, <1>2, <1>4, <1>5, <1>7 DEF EndsFile, TypeInv, Named
<1>9. (\A g \in Handles : Effect(p, g)) /\ IndexStaged /\ ReservedStep(p)
  BY <1>1, <1>3, <1>6, <1>8, EndsStaged DEF CallOwns
<1>10. CallStaged(call[p])'
  <2>1. CallStaged(call[p]) /\ NamedCall(call[p])
    BY CallFacts DEF Staged
  <2>2. call[p].pc \in LockedPCs \cup {"await"} => call[p].h \in Handles
    BY CallFacts DEF LockedPCs
  <2>3. call[p].pc \in LockedPCs => call[p].h # h
    BY <1>5 DEF Holds
  <2>4. \A g \in Handles : up'[g].ready = up[g].ready
    BY <1>4 DEF Same, SameNamed
  <2>5. call[p].pc = "unlink" \/ call[p].pc = "decide" => Same(call[p].h)
    BY <1>4, <2>2, <2>3 DEF LockedPCs
  <2>6. call[p].pc = "confirm" => /\ Same(call[p].h) /\ up[call[p].h].digest \in Digests
                                  /\ call[p].h # None
    BY <1>4, <2>2, <2>3, CallFacts, LockedFacts, NamesAssumption DEF LockedPCs, Inodes
  <2>7. (call[p].todo \ {h} \subseteq issued') /\
        \A g \in call[p].todo \ {h} : up'[g].ready \/ g \notin uploads'
    BY <1>1, <2>1, <2>4 DEF CallStaged, TypeInv, Named
  <2>8. call[p].pc = "confirm" /\ up'[call[p].h].place = "incoming"
            => incoming'[up'[call[p].h].digest] # call[p].h
    BY <1>6, <2>1, <2>6 DEF CallStaged, StillReserved, Same, SameNamed
  <2> QED BY <1>3, <2>1, <2>2, <2>4, <2>5, <2>7, <2>8 DEF CallStaged, Same
<1>11. CallsStaged(p)
  BY <1>2, <1>3, <1>4, <1>10 DEF CallsStaged
<1> QED BY <1>9, <1>11 DEF StagedStep

\* A failed write and drop close the staging file and remove its path, and go
\* on to leave the indexes.
LEMMA DropStaged ==
    ASSUME TypeInv, Coherence, Staged, NEW p \in Procs, AppendFails(p) \/ CommitDrop(p)
    PROVE  StagedStep(p)
<1> DEFINE c == call[p]  h == call[p].h  u == up[h]
<1>1. /\ c.todo = {} /\ c.pc \in {"write", "drop"} /\ Goto(p, "unlink")
      /\ RemoveStaged(h, u.digest, u.place)
      /\ up' = [up EXCEPT ![h].done = TRUE, ![h].file = None]
      /\ UNCHANGED <<uploads, issued>>
      /\ c.pc = "write" => ~Locked(h)
  BY DEF AppendFails, CommitDrop, Ready, memory, ghosts
<1>2. h \in Handles /\ u.ready /\ u.digest \in Digests /\ h # None
  BY <1>1, LockedFacts, NamesAssumption DEF LockedPCs, Inodes
<1>3. \A q \in Procs \ {p} : ~Holds(q, h)
  BY <1>1, <1>2 DEF Staged, OneHolder, Holds, Locked, LockedPCs
<1>4. c.pc = "write" => \A q \in Procs : ~Holds(q, h)
  BY <1>1 DEF Locked, Holds
<1>5. (\A g \in Handles \ {h} : Same(g)) /\ SameNamed(h) /\ up'[h].done
  BY <1>1, <1>2, EndsUploads
<1>6. StillReserved /\ (u.place = "incoming" => incoming'[u.digest] # h)
  BY <1>1, <1>2, RemoveReserves
<1>7. EndsFile(p, h)
  BY <1>2, <1>3, <1>5, <1>6 DEF EndsFile
<1>8. Moves(p, "unlink")
  BY <1>1, GotoMoves
<1>9. \A d \in Digests, g \in Handles : ~CallOwns(c, g, d)
  BY <1>1 DEF CallOwns
<1>10. (\A g \in Handles : Effect(p, g)) /\ IndexStaged /\ ReservedStep(p)
  BY <1>1, <1>6, <1>7, <1>9, EndsStaged
<1>11. CallStaged(call[p])'
  BY <1>5, <1>8 DEF Moves, CallStaged
<1>12. CallsStaged(p)
  BY <1>1, <1>4, <1>5, <1>8, <1>11 DEF CallsStaged, Moves, LockedPCs
<1> QED BY <1>10, <1>12 DEF StagedStep

\* Once its object is found an upload has no reservation left to remove.
LEMMA FinishStaged ==
    ASSUME TypeInv, Coherence, Staged, NEW p \in Procs, CommitFinish(p)
    PROVE  StagedStep(p)
<1> DEFINE c == call[p]  h == call[p].h  u == up[h]
<1>1. /\ c.todo = {} /\ c.pc = "confirm" /\ Return(p)
      /\ up' = [up EXCEPT ![h].done = TRUE]
      /\ uploads' = uploads \ {h} /\ UNCHANGED <<issued, incoming>>
  BY DEF CommitFinish, Ready, Unlink, Unindex, ghosts, storeVars
<1>2. h \in Handles /\ u.ready /\ u.digest \in Digests
  BY <1>1, LockedFacts DEF LockedPCs
<1>3. \A q \in Procs \ {p} : ~Holds(q, h)
  BY <1>1, <1>2 DEF Staged, OneHolder, Holds, LockedPCs
<1>4. (\A g \in Handles \ {h} : Same(g)) /\ SameNamed(h) /\ up'[h].done
  BY <1>1, <1>2, EndsUploads
<1>5. u.place = "incoming" => incoming'[u.digest] # h
  BY <1>1 DEF Staged, CallStaged
<1>6. EndsFile(p, h)
  BY <1>2, <1>3, <1>4, <1>5 DEF EndsFile
<1>7. \A d \in Digests, g \in Handles : ~CallOwns(c, g, d)
  BY <1>1 DEF CallOwns
<1>8. StillReserved
  BY <1>1 DEF StillReserved
<1>9. (\A g \in Handles : Effect(p, g)) /\ IndexStaged /\ ReservedStep(p)
  BY <1>1, <1>6, <1>7, <1>8, EndsStaged
<1>10. OneCall(p) /\ call'[p].pc = "idle" /\ call'[p].todo = {}
  BY <1>1, CallFacts DEF Return, OneCall, NoCall
<1>11. CallsStaged(p)
  BY <1>1, <1>4, <1>10 DEF CallsStaged, CallStaged, LockedPCs
<1> QED BY <1>9, <1>11 DEF StagedStep

\* Commit closes the staging file under the mutex that it keeps.
LEMMA SyncStaged ==
    ASSUME TypeInv, Coherence, Staged, NEW p \in Procs, CommitSync(p)
    PROVE  StagedStep(p)
<1> DEFINE c == call[p]  h == call[p].h
<1>1. /\ c.todo = {} /\ c.pc = "decide" /\ UNCHANGED <<uploads, issued, incoming>>
      /\ h \in Handles
  BY CallFacts DEF CommitSync, Ready, UploadOnly, memory, ghosts, storeVars
<1>2. CASE Goto(p, "drop") /\ UNCHANGED up
  <2>1. StillUploads /\ StillReserved /\ Moves(p, "drop")
    BY <1>1, <1>2, SameUploads, GotoMoves DEF StillUploads, StillReserved
  <2> QED BY <1>1, <2>1, MovesStaged DEF LockedPCs, CallOwns
<1>3. CASE Goto(p, "intent") /\ up' = [up EXCEPT ![h].file = None]
  <2>1. Moves(p, "intent")
    BY <1>1, <1>3, GotoMoves
  <2>2. /\ up \in [Handles -> Upload] /\ up[h] \in Upload
    BY <1>1, CallFacts
  <2>3. (\A g \in Handles \ {h} : Same(g)) /\ SameNamed(h) /\ up'[h].done = up[h].done
    BY <1>1, <1>3, <2>2 DEF Upload, Same, SameNamed
  <2>4. \A g \in Handles : Effect(p, g)
    BY <1>1, <2>1, <2>3 DEF Effect, Syncs, Moves, Holds, LockedPCs
  <2>5. IndexStaged
    BY <1>1 DEF IndexStaged, TypeInv, Named
  <2>6. CallsStaged(p)
    BY <1>1, <2>1 DEF CallsStaged, CallStaged, Moves, LockedPCs
  <2>7. ReservedStep(p)
    BY <1>1, <2>3 DEF ReservedStep, Same, SameNamed, UploadOwns, CallOwns
  <2> QED BY <2>4, <2>5, <2>6, <2>7 DEF StagedStep
<1> QED BY <1>2, <1>3 DEF CommitSync

-----------------------------------------------------------------------------
(* Steps that leave the indexes.                                           *)

\* What a step that only takes h out of the index must see to.
LEMMA UnindexStaged ==
    ASSUME TypeInv, Coherence, Staged, NEW p \in Procs, NEW h \in Handles, OneCall(p),
           call[p].todo = {}, UNCHANGED <<issued, up, incoming>>, uploads' = uploads \ {h},
           up[h].ready /\ ~up[h].done => h \in call'[p].todo,
           call'[p].todo \subseteq {h} \cap issued,
           call[p].pc \in LockedPCs => up[call[p].h].done,
           call'[p].pc \in {"idle", "cleanup"},
           \A d \in Digests, g \in Handles : CallOwns(call[p], g, d) => CallOwns(call'[p], g, d)
    PROVE  StagedStep(p)
<1>1. \A g \in Handles : Same(g)
  BY SameUploads
<1>2. IndexStaged
  BY DEF IndexStaged, TypeInv, Named
<1>3. CallsStaged(p)
  BY DEF CallsStaged, CallStaged, LockedPCs
<1>4. ReservedStep(p)
  BY <1>1 DEF ReservedStep, Same, SameNamed, UploadOwns
<1> QED BY <1>1, <1>2, <1>3, <1>4 DEF StagedStep, Effect

\* Abort and the last steps of drop, of a failed Append and of Begin.
LEMMA LeavesStaged ==
    ASSUME TypeInv, Coherence, Staged, NEW p \in Procs,
           \/ AbortUpload(p) /\ Live(call[p].h)
           \/ Unlinking(p) \/ BeginPresent(p) \/ BeginFailed(p)
    PROVE  StagedStep(p)
<1> DEFINE c == call[p]  h == call[p].h
<1>1. /\ c.todo = {} /\ c.pc \in {"abort", "unlink", "settle"}
      /\ uploads' = uploads \ {h} /\ UNCHANGED <<issued, up, incoming>>
  BY DEF AbortUpload, Unlinking, BeginPresent, BeginFailed, Ready, UnlinkAndSave, Unlink,
         Unindex, IndexOnly, storeVars, ghosts
<1>2. /\ call \in [Procs -> Call] /\ c \in Call /\ h \in Handles /\ h \in issued
      /\ c.pc = "unlink" => up[h].done
      /\ c.pc = "settle" => ~up[h].ready
  BY <1>1, CallFacts DEF NamedCall, Staged, CallStaged, Coherence, Prepared, Prepares,
                         PreparePCs
<1>3. CASE AbortUpload(p) /\ Live(h)
  <2>1. call' = [call EXCEPT ![p] = [NoCall EXCEPT !.todo = {h}]] /\ c.pc = "abort"
    BY <1>3 DEF AbortUpload, Ready
  <2>2. OneCall(p) /\ call'[p].pc = "idle" /\ call'[p].todo = {h}
    BY <1>2, <2>1 DEF OneCall, NoCall
  <2> QED BY <1>1, <1>2, <2>1, <2>2, UnindexStaged DEF LockedPCs, CallOwns
<1>4. CASE Return(p) /\ (c.pc = "unlink" \/ (c.pc = "settle" /\ c.outcome # "ready"))
  <2>1. OneCall(p) /\ call'[p].pc = "idle" /\ call'[p].todo = {}
    BY <1>2, <1>4 DEF Return, OneCall, NoCall
  <2> QED BY <1>1, <1>2, <1>4, <2>1, UnindexStaged DEF LockedPCs, CallOwns
<1>5. CASE Goto(p, "cleanup") /\ c.outcome = "ready" /\ c.pc = "settle"
  <2>1. Moves(p, "cleanup") /\ call'[p].place = c.place
    BY <1>1, <1>5, GotoMoves
  <2>2. \A d \in Digests, g \in Handles : CallOwns(c, g, d) => CallOwns(call'[p], g, d)
    BY <2>1 DEF Moves, CallOwns
  <2> QED BY <1>1, <1>2, <1>5, <2>1, <2>2, UnindexStaged DEF LockedPCs, Moves
<1>6. Unlinking(p) => Return(p) /\ c.pc = "unlink"
  BY DEF Unlinking, Ready
<1>7. BeginPresent(p) => Return(p) /\ c.outcome = "present" /\ c.pc = "settle"
  BY DEF BeginPresent, Ready
<1>8. BeginFailed(p) => \/ Return(p) /\ c.outcome # "ready" /\ c.pc = "settle"
                        \/ Goto(p, "cleanup") /\ c.outcome = "ready" /\ c.pc = "settle"
  BY DEF BeginFailed, Cleans, Ready
<1> QED BY <1>3, <1>4, <1>5, <1>6, <1>7, <1>8

-----------------------------------------------------------------------------
(* Steps that start calls, and those of the environment.                   *)

\* The call of p goes on where it was.
SameCall(p) ==
    /\ call'[p].pc = call[p].pc /\ call'[p].h = call[p].h /\ call'[p].file = call[p].file
    /\ call'[p].outcome = call[p].outcome /\ call'[p].place = call[p].place
    /\ call'[p].digest = call[p].digest

\* Handing uploads that leave the index to a goroutine.
LEMMA HandedStaged ==
    ASSUME TypeInv, Coherence, Staged, NEW p \in Procs, NEW hs \in SUBSET uploads,
           OneCall(p), UNCHANGED <<issued, up, incoming>>, uploads' = uploads \ hs,
           call'[p].todo = call[p].todo \cup hs,
           \/ SameCall(p)
           \/ call[p].pc = "idle" /\ call'[p].pc \in {"begin", "admit", "lookup", "abort"}
    PROVE  StagedStep(p)
<1>1. uploads \subseteq issued /\ issued \subseteq Handles
  BY DEF Coherence, Recorded, TypeInv, Named
<1>2. \A g \in Handles : Same(g)
  BY SameUploads
<1>3. IndexStaged
  BY <1>1 DEF IndexStaged
<1>4. CallStaged(call[p])'
  <2>1. CallStaged(call[p])
    BY DEF Staged
  <2>2. \A h \in call'[p].todo : h \in issued' /\ (up'[h].ready \/ h \notin uploads')
    BY <1>1, <2>1 DEF CallStaged
  <2>3. CASE SameCall(p)
    BY <2>1, <2>2, <2>3 DEF CallStaged, SameCall
  <2>4. CASE call'[p].pc \in {"begin", "admit", "lookup", "abort"}
    BY <2>2, <2>4 DEF CallStaged
  <2> QED BY <2>3, <2>4
<1>5. CallsStaged(p)
  BY <1>4 DEF CallsStaged, SameCall, LockedPCs
<1>6. ReservedStep(p)
  BY <1>2 DEF ReservedStep, SameCall, Same, SameNamed, UploadOwns, CallOwns
<1> QED BY <1>2, <1>3, <1>5, <1>6 DEF StagedStep, Effect

\* The call a sweep begins, or the goroutine it leaves where it was.
LEMMA StartsCall ==
    ASSUME TypeInv, NEW p \in Procs, CallStarts(p) \/ (SweepTick /\ p = Ticker)
    PROVE  /\ OneCall(p) /\ call'[p].todo = Expired
           /\ \/ SameCall(p)
              \/ /\ call'[p].pc \in {"begin", "admit", "lookup", "abort"}
                 /\ call'[p].place = None
<1>1. call \in [Procs -> Call] /\ call[p] \in Call
  BY CallFacts
<1>2. CASE BeginCall(p)
  <2>1. PICK ask \in Asks, proof \in BOOLEAN :
          Start(p, [NoCall EXCEPT !.pc = "begin", !.key = ask.key, !.digest = ask.digest,
                                  !.size = ask.size, !.proof = proof])
    BY <1>2 DEF BeginCall
  <2>2. call' = [call EXCEPT ![p] =
          [[NoCall EXCEPT !.pc = "begin", !.key = ask.key, !.digest = ask.digest,
                          !.size = ask.size, !.proof = proof] EXCEPT !.todo = Expired]]
    BY <2>1 DEF Start
  <2> QED BY <1>1, <2>2 DEF OneCall, NoCall
<1>3. CASE AppendCall(p)
  <2>1. PICK h, o, k : call' = [call EXCEPT ![p] =
          [[NoCall EXCEPT !.pc = "admit", !.h = h, !.offset = o, !.chunk = k]
              EXCEPT !.todo = Expired]]
    BY <1>3 DEF AppendCall, Start
  <2> QED BY <1>1, <2>1 DEF OneCall, NoCall
<1>4. CASE CommitCall(p) \/ AbortCall(p)
  <2>1. PICK pc \in {"lookup", "abort"}, h \in issued : call' = [call EXCEPT ![p] =
          [[NoCall EXCEPT !.pc = pc, !.h = h] EXCEPT !.todo = Expired]]
    BY <1>4 DEF CommitCall, AbortCall, Start
  <2> QED BY <1>1, <2>1 DEF OneCall, NoCall
<1>5. CASE SweepTick /\ p = Ticker
  <2>1. call' = [call EXCEPT ![p].todo = Expired] /\ call[p].pc = "idle"
    BY <1>5 DEF SweepTick, Idle
  <2> QED BY <1>1, <2>1 DEF OneCall, SameCall, Call
<1> QED BY <1>2, <1>3, <1>4, <1>5 DEF CallStarts

\* Every call's sweep, and the ticker's.
LEMMA SweepsStaged ==
    ASSUME TypeInv, Coherence, Staged, NEW p \in Procs,
           CallStarts(p) \/ (SweepTick /\ p = Ticker)
    PROVE  StagedStep(p)
<1>1. /\ Idle(p) /\ UNCHANGED <<issued, up, incoming>> /\ uploads' = uploads \ Expired
      /\ Expired \in SUBSET uploads
  BY DEF CallStarts, BeginCall, AppendCall, CommitCall, AbortCall, Start, SweepTick, Sweep,
         Unindex, IndexOnly, storeVars, ghosts, Expired
<1> QED BY <1>1, StartsCall, HandedStaged DEF Idle

\* close hands every upload that is indexed to the goroutine that closes.
LEMMA CloseStaged ==
    ASSUME TypeInv, Coherence, Staged, Close
    PROVE  StagedStep(Ticker)
<1>1. /\ call \in [Procs -> Call] /\ call[Ticker] \in Call /\ Ticker \in Procs
      /\ uploads' = uploads \ uploads /\ UNCHANGED <<issued, up, incoming>>
      /\ call' = [call EXCEPT ![Ticker].todo = @ \cup uploads]
  BY CallFacts, TickerProc DEF Close, Unindex, storeVars, ghosts
<1>2. OneCall(Ticker) /\ call'[Ticker].todo = call[Ticker].todo \cup uploads /\ SameCall(Ticker)
  BY <1>1 DEF OneCall, SameCall, Call
<1> QED BY <1>1, <1>2, HandedStaged

\* Time, startups and the other owners of the store touch no upload, and
\* reserve nothing.
LEMMA QuietStaged ==
    ASSUME TypeInv, Coherence, Staged,
           UNCHANGED <<uploads, issued, up, call>>, StillReserved
    PROVE  StagedStep(Ticker)
<1>1. CallsStaged(Ticker)
  <2>1. CallStaged(call[Ticker]) /\ NamedCall(call[Ticker])
    BY CallFacts, TickerProc DEF Staged
  <2>2. call[Ticker].pc = "confirm" =>
            up[call[Ticker].h].digest \in Digests /\ call[Ticker].h # None
    BY TickerProc, LockedFacts, NamesAssumption DEF LockedPCs, Inodes
  <2>3. CallStaged(call[Ticker])'
    BY <2>1, <2>2 DEF CallStaged, StillReserved
  <2> QED BY <2>3 DEF CallsStaged, OneCall
<1>2. \A g \in Handles : Same(g)
  BY SameUploads
<1>3. IndexStaged
  BY DEF IndexStaged, TypeInv, Named
<1>4. ReservedStep(Ticker)
  BY DEF ReservedStep, StillReserved, UploadOwns
<1> QED BY <1>1, <1>2, <1>3, <1>4 DEF StagedStep, Effect

\* A crash leaves no upload and no call.
LEMMA CrashStaged ==
    ASSUME Crash
    PROVE  Staged'
<1>1. /\ \A q \in Procs : call'[q] = NoCall
      /\ \A h \in Handles : up'[h] = NoUpload
  BY DEF Crash
<1> QED BY <1>1 DEF Staged, OneHolder, Holds, CallStaged, UploadStaged, NoCall, NoUpload,
                    LockedPCs

-----------------------------------------------------------------------------
(* Every step.                                                             *)

\* A step of a call in progress.
LEMMA WorkStaged ==
    ASSUME TypeInv, Coherence, Staged, NEW p \in Procs, Work(p)
    PROVE  StagedStep(p)
<1>1. CASE Waiting(p)
  BY <1>1, DiscardStaged, QuietlyReturns, CommitStaged DEF Waiting
<1>2. CASE Begin(p)
  BY <1>2, QuietlyReturns, ResumeStaged, StartStaged, PrepareStaged, OpenStaged,
     LeavesStaged, ReadyStaged, CleanupStaged DEF Begin
<1>3. CASE AppendAdmit(p) \/ AppendFails(p) \/ AbortUpload(p)
  BY <1>3, FindsStaged, QuietlyReturns, DropStaged, LeavesStaged
<1>4. CASE Commit(p)
  BY <1>4, FindsStaged, QuietlyReturns, SyncStaged, CommitStaged, FinishStaged, DropStaged,
     LeavesStaged DEF Commit
<1> QED BY <1>1, <1>2, <1>3, <1>4 DEF Work

\* Every step but a crash is one that keeps Staged and Reserved.
LEMMA NextStaged ==
    ASSUME TypeInv, Coherence, Staged, [Next]_vars, ~Crash
    PROVE  \E p \in Procs : StagedStep(p)
<1>1. ASSUME NEW p \in Procs, Work(p) PROVE StagedStep(p)
  BY <1>1, WorkStaged
<1>2. ASSUME NEW p \in Callers, CallStarts(p) PROVE p \in Procs /\ StagedStep(p)
  BY <1>2, SweepsStaged DEF Procs
<1>3. CASE SweepTick \/ Close
  BY <1>3, TickerProc, SweepsStaged, CloseStaged
<1>4. CASE Startup \/ StartupRefused
  <2>1. StillReserved /\ UNCHANGED <<uploads, issued, up, call>>
    BY <1>4, CallFacts, TickerProc DEF Startup, StartupRefused, CleanStaging, memory, ghosts,
                                       StillReserved, StoreTypeOK
  <2> QED BY <2>1, QuietStaged, TickerProc
<1>5. CASE Tick \/ Publish \/ Collect \/ UNCHANGED vars
  <2>1. StillReserved /\ UNCHANGED <<uploads, issued, up, call>>
    BY <1>5 DEF Tick, Publish, Collect, vars, storeVars, memory, ghosts, ExternalPublish,
                Remove, StillReserved
  <2> QED BY <2>1, QuietStaged, TickerProc
<1> QED BY <1>1, <1>2, <1>3, <1>4, <1>5 DEF Next, Environment

\* The initial states.
LEMMA InitStaged == Init => Staged /\ Reserved
<1> SUFFICES ASSUME Init PROVE Staged /\ Reserved
  OBVIOUS
<1>1. /\ \A q \in Procs : call[q] = NoCall
      /\ \A h \in Handles : up[h] = NoUpload
      /\ \A d \in Digests : incoming[d] = None
  BY DEF Init, StoreInit
<1> QED BY <1>1 DEF Staged, OneHolder, Holds, CallStaged, UploadStaged, Reserved, NoCall,
                    NoUpload, LockedPCs

\* The parts of the invariant of WriterInvariant.
LEMMA WriterInvParts == WriterInv => TypeInv /\ Coherence
  BY DEF WriterInv, TypeInv, Coherence

\* Who holds each upload's mutex, and who will discard each staging file, stays
\* known across every step, crashes included.
THEOREM StagedHolds == Spec => []Staged
<1>1. WriterInv /\ Staged /\ [Next]_vars => Staged'
  BY WriterInvParts, NextStaged, StagedKept, CrashStaged
<1> QED BY <1>1, InitStaged, WriterInvariantHolds, PTL DEF Spec

\* No goroutine that takes w.mu under u.mu, or is about to, meets the Begin that
\* takes the same u.mu under w.mu to make its upload ready (writer.go:408 against
\* :528, :576, :610, :652).
THEOREM LockOrderHolds == Spec => []LockOrderSafe
<1>1. WriterInv /\ Staged => LockOrderSafe
  <2> SUFFICES ASSUME TypeInv, Coherence, Staged, NEW p \in Procs, NEW q \in Procs,
                      call[p].pc = "settle", call[p].h \in uploads
               PROVE  /\ call[p].h \notin call[q].todo
                      /\ p # q => ~(/\ call[q].h = call[p].h
                                    /\ call[q].pc \in LockedPCs \cup {"write", "verify", "await"})
    BY WriterInvParts DEF LockOrderSafe
  <2>1. ~up[call[p].h].ready
    BY DEF Coherence, Prepared, Prepares, PreparePCs
  <2>2. CallStaged(call[q]) /\ NamedCall(call[q])
    BY CallFacts DEF Staged
  <2> QED BY <2>1, <2>2 DEF CallStaged, NamedCall
<1> QED BY <1>1, StagedHolds, WriterInvariantHolds, PTL

\* Within a lifetime of the writer every staging file belongs to an upload that
\* is not done or to a Begin that has not settled, and an upload that left the
\* indexes is already being discarded: no bytes stay behind (STO-W7).
THEOREM StagingReleasedHolds ==
    ASSUME "crash" \notin Events
    PROVE  Spec => []StagingReleased
<1>1. Init => Reserved
  BY InitStaged
<1>2. WriterInv /\ Staged /\ Reserved /\ [Next]_vars => Reserved'
  <2>1. ~Crash
    BY DEF Crash
  <2> QED BY <2>1, WriterInvParts, NextStaged, ReservedKept
<1>3. Staged /\ Reserved => StagingReleased
  <2> SUFFICES ASSUME Staged, Reserved PROVE StagingReleased
    OBVIOUS
  <2>1. ASSUME NEW d \in Digests, incoming[d] # None
        PROVE  \/ \E h \in Handles : UploadOwns(h, d)
               \/ \E p \in Procs : call[p].digest = d /\ call[p].place = "incoming"
    BY <2>1 DEF Reserved, CallOwns
  <2>2. \A h \in Handles : up[h].ready /\ ~up[h].done =>
            h \in uploads \/ \E p \in Procs : h \in call[p].todo
    BY DEF Staged, UploadStaged
  <2> QED BY <2>1, <2>2 DEF StagingReleased, UploadOwns
<1> QED BY <1>1, <1>2, <1>3, StagedHolds, WriterInvariantHolds, PTL DEF Spec

-----------------------------------------------------------------------------
(* Whole: what a step that opens, writes and publishes nothing may do.     *)

\* h may be closed, by p, which nobody else's mutex forbids; nothing is written.
Closes(p, h) ==
    /\ SameNamed(h) /\ up'[h].sum = up[h].sum
    /\ up'[h].file \in {up[h].file, None}
    /\ up[h].done => up'[h].done
    /\ up'[h].file # None => up'[h].done = up[h].done
    /\ up'[h].done # up[h].done \/ up'[h].file # up[h].file
        => \A q \in Procs \ {p} : ~Holds(q, h)

\* h is drawn.
Draws(h) ==
    /\ h \notin issued
    /\ ~up'[h].ready /\ up'[h].file = None /\ up'[h].sum = <<>>

PathsRecede ==
    /\ \A d \in Digests : blob'[d] \in {blob[d], None} /\ incoming'[d] \in {incoming[d], None}
    /\ \A d \in Digests \ shared : incoming'[d] # incoming[d] =>
        /\ \A h \in Handles : ~UploadOwns(h, d)'
        /\ \A q \in Procs : ~CallUses(q, d)'

\* The call of q, and the files of the upload whose mutex it holds, stay.
KeepsCall(q) ==
    /\ SameCall(q)
    /\ \A h \in Handles : up'[h].done # up[h].done \/ up'[h].file # up[h].file => ~Holds(q, h)

CallRecedes(p) ==
    /\ OneCall(p)
    /\ Opens(call[p])' =>
        /\ Opens(call[p])
        /\ call'[p].h = call[p].h /\ call'[p].digest = call[p].digest
        /\ call'[p].file = call[p].file /\ call'[p].place = call[p].place
    /\ \A d \in Digests : CallUses(p, d)' => CallUses(p, d)
    /\ CallWhole(call[p])' \/ KeepsCall(p)

Recedes(p) ==
    /\ UNCHANGED <<data, shared>>
    /\ \A h \in Handles : Closes(p, h) \/ Draws(h)
    /\ \A h \in Handles : Fresh(h)' => Fresh(h)
    /\ PathsRecede /\ CallRecedes(p)
    /\ phase' = "down" => phase = "down"

\* Such a step makes no user of a staging path.
LEMMA UsersRecede ==
    ASSUME TypeInv, Whole, NEW p \in Procs, Recedes(p)
    PROVE  /\ \A h \in Handles, d \in Digests : UploadOwns(h, d)' => UploadOwns(h, d)
           /\ \A q \in Procs, d \in Digests : CallUses(q, d)' => CallUses(q, d)
           /\ OneUser'
<1>1. \A h \in Handles, d \in Digests : UploadOwns(h, d)' => UploadOwns(h, d)
  BY DEF Recedes, Closes, Draws, SameNamed, UploadOwns
<1>2. \A q \in Procs, d \in Digests : CallUses(q, d)' => CallUses(q, d)
  BY DEF Recedes, CallRecedes, OneCall, CallUses
<1>3. shared' = shared
  BY DEF Recedes
<1> QED BY <1>1, <1>2, <1>3 DEF Whole, OneUser

\* ... and no file.
LEMMA FilesRecede ==
    ASSUME TypeInv, Whole, NEW p \in Procs, Recedes(p)
    PROVE  FilesApart'
<1>1. None \notin Inodes /\ Handles \subseteq Inodes /\ Digests \subseteq Inodes
  BY NamesAssumption DEF Inodes
<1>2. \A q \in Procs : Opens(call[q])' =>
        /\ Opens(call[q])
        /\ call'[q].h = call[q].h /\ call'[q].digest = call[q].digest
        /\ call'[q].file = call[q].file /\ call'[q].place = call[q].place
  BY DEF Recedes, CallRecedes, OneCall
<1>3. \A h \in Handles : up'[h].file # None =>
        up'[h].file = up[h].file /\ up'[h].digest = up[h].digest /\ up'[h].place = up[h].place
  BY DEF Recedes, Closes, Draws, SameNamed
<1>4. \A d \in Digests : blob'[d] \in {blob[d], None} /\ incoming'[d] \in {incoming[d], None}
  BY DEF Recedes, PathsRecede
<1>5. \A i \in Inodes, d \in Digests : FileOf(i, d)' => FileOf(i, d)
  BY <1>1, <1>2, <1>3, <1>4 DEF FileOf
<1>6. \A h \in Handles : Possesses(h)' => Possesses(h)
  BY <1>2, <1>3 DEF Possesses
<1>7. \A h \in Handles : Fresh(h)' => Fresh(h)
  BY DEF Recedes
<1> USE DEF Whole, FilesApart
<1>8. \A i \in Inodes, d, e \in Digests : FileOf(i, d)' /\ FileOf(i, e)' => d = e
  BY <1>5
<1>9. \A h \in Handles, d \in Digests : Fresh(h)' => ~FileOf(h, d)'
  BY <1>1, <1>5, <1>7
<1>10. \A h \in Handles, d \in Digests : Possesses(h)' => blob'[d] # h /\ incoming'[d] # h
  BY <1>1, <1>4, <1>6
<1>11. \A d, e \in Digests : incoming'[d] # e /\ (blob'[d] = e => d = e)
  BY <1>1, <1>4
<1>12. \A d \in Digests : Find(d)' => blob'[d] # incoming'[d]
  BY <1>4 DEF Find
<1> QED BY <1>8, <1>9, <1>10, <1>11, <1>12

\* What the uploads have in their files stays there.
LEMMA UploadsRecede ==
    ASSUME TypeInv, Whole, NEW p \in Procs, Recedes(p), NEW h \in Handles
    PROVE  UploadWhole(h)'
<1>1. UploadWhole(h) /\ (Closes(p, h) \/ Draws(h)) /\ UNCHANGED <<data, shared>>
      /\ (phase' = "down" => phase = "down")
  BY DEF Whole, Recedes
<1>2. CASE Draws(h)
  BY <1>2 DEF Draws, UploadWhole, UploadOwns
<1>3. CASE Closes(p, h)
  <2>1. /\ up'[h].file # None => up'[h].ready /\ ~up'[h].done
        /\ up'[h].ready => up'[h].place # None /\ phase' # "down"
        /\ ~up'[h].ready => up'[h].sum = <<>>
        /\ up'[h].ready /\ up'[h].place = "blob" => up'[h].digest \in shared'
        /\ up'[h].file # None /\ up'[h].place = "possession" => up'[h].file = h
    BY <1>1, <1>3 DEF Closes, SameNamed, UploadWhole
  <2>2. ASSUME NEW d \in Digests \ shared', UploadOwns(h, d)', up'[h].file # None
        PROVE  incoming'[d] = up'[h].file /\ data'[up'[h].file] = up'[h].sum
    <3>1. UploadOwns(h, d) /\ up'[h].file = up[h].file /\ up'[h].sum = up[h].sum
      BY <1>3, <2>2 DEF Closes, SameNamed, UploadOwns
    <3>2. incoming'[d] = incoming[d]
      BY <1>1, <2>2 DEF Recedes, PathsRecede
    <3> QED BY <1>1, <2>2, <3>1, <3>2 DEF UploadWhole
  <2> QED BY <2>1, <2>2 DEF UploadWhole
<1> QED BY <1>1, <1>2, <1>3

\* So does what a call has that goes on where it was.
LEMMA CallsRecede ==
    ASSUME TypeInv, Whole, NEW p \in Procs, Recedes(p), NEW q \in Procs, KeepsCall(q)
    PROVE  CallWhole(call[q])'
<1> DEFINE c == call[q]  u == up[c.h]
<1>1. CallWhole(c) /\ NamedCall(c) /\ SameCall(q) /\ UNCHANGED <<data, shared>>
  BY CallFacts DEF Whole, Recedes, KeepsCall
<1>2. ASSUME c.pc \in LockedPCs
      PROVE  /\ c.h \in Handles /\ u.ready /\ u.digest \in Digests
             /\ SameNamed(c.h) /\ up'[c.h].sum = u.sum
             /\ up'[c.h].file = u.file /\ up'[c.h].done = u.done
  <2>1. c.h \in Handles /\ u.ready /\ u.digest \in Digests /\ c.h \in issued /\ Holds(q, c.h)
    BY <1>1, <1>2, LockedFacts DEF NamedCall, LockedPCs, Holds
  <2> QED BY <2>1 DEF Recedes, Closes, Draws, KeepsCall
<1>3. c.pc \in {"decide", "intent", "publish", "confirm", "demote", "drop"} => c.pc \in LockedPCs
  BY DEF LockedPCs
<1>4. /\ c.pc \in LockedPCs \ {"unlink"} => ~up'[c.h].done
      /\ c.pc \in {"intent", "publish", "confirm", "demote"} => up'[c.h].file = None
      /\ c.pc \in {"decide", "intent", "publish"} => up'[c.h].sum = Content[up'[c.h].digest]
  BY <1>1, <1>2, <1>3 DEF CallWhole, SameNamed
<1>5. ASSUME c.pc \in {"intent", "publish"}, up'[c.h].place = "incoming",
             up'[c.h].digest \notin shared
      PROVE  /\ incoming'[up'[c.h].digest] # None
             /\ data[incoming'[up'[c.h].digest]] = Content[up'[c.h].digest]
  <2>1. /\ up'[c.h].digest = u.digest /\ u.place = "incoming" /\ u.ready
        /\ up'[c.h].ready /\ ~up'[c.h].done /\ u.digest \in Digests \ shared /\ c.h \in Handles
    BY <1>2, <1>3, <1>4, <1>5 DEF SameNamed, LockedPCs
  <2>2. UploadOwns(c.h, u.digest)'
    BY <1>1, <1>5, <2>1 DEF UploadOwns, SameCall
  <2>3. incoming'[u.digest] = incoming[u.digest]
    <3> HIDE DEF c, u
    <3> QED BY <1>5, <2>1, <2>2 DEF Recedes, PathsRecede, UploadOwns
  <2> QED BY <1>1, <1>5, <2>1, <2>3 DEF CallWhole
<1>6. ASSUME Opens(c), c.place = "incoming", c.digest \notin shared
      PROVE  incoming'[c.digest] = c.file
  <2>1. c.digest \in Digests
    BY <1>1, <1>6 DEF NamedCall, BeginPCs, Opens
  <2>2. CallUses(q, c.digest)'
    BY <1>1, <1>6 DEF CallUses, Opens, SameCall
  <2>3. incoming'[c.digest] = incoming[c.digest]
    BY <1>1, <1>6, <2>1, <2>2 DEF Recedes, PathsRecede, CallUses, SameCall
  <2> QED BY <1>1, <1>6, <2>3 DEF CallWhole
<1> QED BY <1>1, <1>4, <1>5, <1>6 DEF CallWhole, SameCall, Opens

\* All of it.
LEMMA WholeRecedes ==
    ASSUME TypeInv, Whole, NEW p \in Procs, Recedes(p)
    PROVE  Whole'
<1>1. ASSUME NEW q \in Procs \ {p} PROVE KeepsCall(q)
  <2>1. SameCall(q)
    BY DEF Recedes, CallRecedes, OneCall, SameCall
  <2>2. \A h \in Handles : Draws(h) => ~Holds(q, h)
    BY CallFacts DEF Draws, Holds, NamedCall, LockedPCs
  <2> QED BY <2>1, <2>2 DEF Recedes, KeepsCall, Closes
<1>2. \A q \in Procs : CallWhole(call[q])'
  BY <1>1, CallsRecede DEF Recedes, CallRecedes
<1>3. PublishedWholeUnlessShared'
  BY DEF Recedes, PathsRecede, Whole, PublishedWholeUnlessShared, Find
<1> QED BY <1>2, <1>3, UsersRecede, FilesRecede, UploadsRecede DEF Whole

-----------------------------------------------------------------------------
(* The steps that recede.                                                  *)

\* Changes of the upload structs that close and write nothing.
LEMMA SameCloses ==
    ASSUME TypeInv, NEW p \in Procs, NEW h, NEW e,
           UNCHANGED up \/ up' = [up EXCEPT ![h].expires = e]
    PROVE  \A g \in Handles : Closes(p, g)
<1>1. up \in [Handles -> Upload]
  BY DEF TypeInv, WriterTypeOK
<1> SUFFICES ASSUME NEW g \in Handles PROVE Closes(p, g)
  OBVIOUS
<1>2. up[g] \in Upload
  BY <1>1
<1>3. CASE UNCHANGED up
  BY <1>3 DEF Closes, SameNamed
<1>4. CASE up' = [up EXCEPT ![h].expires = e]
  <2>1. up'[g] = IF g = h THEN [up[g] EXCEPT !.expires = e] ELSE up[g]
    BY <1>1, <1>4
  <2> QED BY <1>2, <2>1 DEF Upload, Closes, SameNamed
<1> QED BY <1>3, <1>4

\* A call that goes on with nothing open, and leaves the files alone.
LEMMA QuietRecedes ==
    ASSUME TypeInv, Whole, NEW p \in Procs, OneCall(p),
           UNCHANGED <<storeVars, shared>>, issued \subseteq issued',
           \A h \in Handles : Closes(p, h) \/ Draws(h),
           phase' = "down" => phase = "down",
           call'[p].pc \notin {"check", "settle", "cleanup"},
           call'[p].pc \in {"find", "place", "open"} => Fresh(call'[p].h),
           CallWhole(call[p])'
    PROVE  Recedes(p)
<1>1. PathsRecede
  BY DEF PathsRecede, storeVars
<1>2. CallRecedes(p)
  BY DEF CallRecedes, Opens, CallUses
<1>3. \A h \in Handles : Fresh(h)' => Fresh(h)
  BY DEF Fresh, OneCall
<1> QED BY <1>1, <1>2, <1>3 DEF Recedes, storeVars

\* Such a call that does not hold a mutex either.
LEMMA IdlyRecedes ==
    ASSUME TypeInv, Whole, NEW p \in Procs, OneCall(p),
           UNCHANGED <<storeVars, shared>>, issued \subseteq issued',
           \A h \in Handles : Closes(p, h) \/ Draws(h),
           phase' = "down" => phase = "down",
           call'[p].pc \notin {"check", "settle", "cleanup"} \cup (LockedPCs \ {"unlink"}),
           call'[p].pc \in {"find", "place", "open"} => Fresh(call'[p].h),
           call'[p].pc \in {"begin", "find", "place"} => call'[p].place = None
    PROVE  Recedes(p)
<1>1. CallWhole(call[p])'
  BY DEF CallWhole, Opens, LockedPCs
<1> QED BY <1>1, QuietRecedes

\* Whatever is said of the next call of p when its step leaves the others.
LEMMA ReturnIdle ==
    ASSUME TypeInv, NEW p \in Procs, Return(p)
    PROVE  OneCall(p) /\ call'[p] = NoCall /\ call'[p].pc = "idle" /\ call'[p].place = None
  BY CallFacts DEF Return, OneCall, NoCall

\* Most steps that return leave every file alone.
LEMMA ReturnsRecede ==
    ASSUME TypeInv, Whole, NEW p \in Procs, Return(p), UNCHANGED <<storeVars, shared, issued>>,
           phase' = phase, UNCHANGED up \/ \E h, e : up' = [up EXCEPT ![h].expires = e]
    PROVE  Recedes(p)
<1>1. \A h \in Handles : Closes(p, h)
  BY SameCloses
<1> QED BY <1>1, ReturnIdle, IdlyRecedes DEF LockedPCs

\* Answers, refusals, ends of calls, and calls that find no ready upload.
LEMMA QuietlyRecedes ==
    ASSUME TypeInv, Whole, NEW p \in Procs,
           \/ BeginRefused(p) \/ BeginReplay(p) \/ BeginUnsaved(p) \/ Await(p)
           \/ CallEnds(p) \/ CommitRefused(p) \/ BeginPresent(p) \/ Unlinking(p)
           \/ AppendWrite(p) /\ ~Accepts(up[call[p].h], call[p].offset)
           \/ BeginFailed(p) /\ ~Cleans(call[p])
           \/ (AbortUpload(p) \/ CommitLookup(p) \/ AppendAdmit(p)) /\ ~Live(call[p].h)
    PROVE  Recedes(p)
<1>1. Return(p) /\ UNCHANGED <<storeVars, shared, issued, phase, up>>
  BY DEF BeginRefused, BeginReplay, BeginUnsaved, Await, CallEnds, CommitRefused, BeginPresent,
         Unlinking, AppendWrite, BeginFailed, AbortUpload, CommitLookup, AppendAdmit, CallOnly,
         UploadOnly, IndexOnly, ghosts, memory
<1> QED BY <1>1, ReturnsRecede

\* A call finds a ready upload, one leaves for good, and one waits to be resumed.
LEMMA FindsRecede ==
    ASSUME TypeInv, Whole, NEW p \in Procs,
           \/ (AppendAdmit(p) \/ CommitLookup(p) \/ AbortUpload(p)) /\ Live(call[p].h)
           \/ BeginResume(p)
    PROVE  Recedes(p)
<1>1. /\ UNCHANGED <<storeVars, shared, issued, phase>>
      /\ UNCHANGED up \/ \E h, e : up' = [up EXCEPT ![h].expires = e]
  BY DEF AppendAdmit, CommitLookup, AbortUpload, BeginResume, CallOnly, UploadOnly, IndexOnly,
         memory, ghosts
<1>2. \A h \in Handles : Closes(p, h)
  BY <1>1, SameCloses
<1>3. call \in [Procs -> Call] /\ call[p] \in Call
  BY CallFacts
<1>4. OneCall(p) /\ call'[p].pc \in {"write", "verify", "idle", "await"}
  <2>1. CASE Goto(p, "write") \/ Goto(p, "verify")
    BY <1>3, <2>1 DEF Goto, OneCall, Call
  <2>2. CASE call' = [call EXCEPT ![p] = [NoCall EXCEPT !.todo = {call[p].h}]]
    BY <1>3, <2>2 DEF OneCall, NoCall
  <2>3. CASE \E h, r : call' = [call EXCEPT ![p].pc = "await", ![p].h = h, ![p].rec = r]
    BY <1>3, <2>3 DEF OneCall, Call
  <2> QED BY <2>1, <2>2, <2>3 DEF AppendAdmit, CommitLookup, AbortUpload, BeginResume
<1> QED BY <1>1, <1>2, <1>4, IdlyRecedes DEF LockedPCs

\* A new upload has no file.
LEMMA StartRecedes ==
    ASSUME TypeInv, Whole, NEW p \in Procs, BeginStart(p)
    PROVE  Recedes(p)
<1>1. PICK h \in Handles \ issued :
        /\ issued' = issued \cup {h}
        /\ up' = [up EXCEPT ![h] = [NoUpload EXCEPT !.key = call[p].key,
                                      !.digest = call[p].digest, !.size = call[p].size]]
        /\ \E r : call' = [call EXCEPT ![p].pc = "find", ![p].h = h, ![p].rec = r]
  BY DEF BeginStart
<1>2. /\ call \in [Procs -> Call] /\ call[p] \in Call /\ up \in [Handles -> Upload]
      /\ call[p].pc = "begin" /\ UNCHANGED <<storeVars, phase, shared>>
  BY CallFacts DEF BeginStart, Ready
<1>3. \A g \in Handles \ {h} : Closes(p, g)
  BY <1>1, <1>2 DEF Closes, SameNamed
<1>4. Draws(h)
  BY <1>1, <1>2 DEF Draws, NoUpload
<1>5. /\ OneCall(p) /\ call'[p].pc = "find" /\ call'[p].h = h
      /\ call'[p].place = call[p].place
  BY <1>1, <1>2 DEF OneCall, Call
<1>6. call'[p].place = None
  BY <1>2, <1>5 DEF Whole, CallWhole
<1>7. Fresh(h)
  BY <1>1 DEF Fresh
<1> QED BY <1>1, <1>2, <1>3, <1>4, <1>5, <1>6, <1>7, IdlyRecedes DEF LockedPCs

\* Begin goes on with prepare, gives up, or settles with what it has open.
LEMMA PrepareRecedes ==
    ASSUME TypeInv, Whole, NEW p \in Procs,
           \/ PrepareFind(p) /\ ~(Find(call[p].digest) /\ call[p].proof)
           \/ PreparePlace(p) \/ PrepareCheck(p) \/ PrepareFails(p)
    PROVE  Recedes(p)
<1> DEFINE c == call[p]
<1>1. /\ c.pc \in {"find", "place", "check", "open"}
      /\ UNCHANGED <<storeVars, shared, issued, phase, up>>
  BY DEF PrepareFind, PreparePlace, PrepareCheck, PrepareFails, Ready, FilesOnly, CallOnly,
         ghosts
<1>2. /\ call \in [Procs -> Call] /\ c \in Call /\ CallWhole(c) /\ c.h \in Handles
      /\ \A h \in Handles : Closes(p, h)
  BY <1>1, CallFacts, SameCloses DEF Whole
<1>3. CASE c.pc \in {"find", "place"} /\ (Goto(p, "place") \/ PreparePlace(p))
  <2>1. /\ OneCall(p) /\ call'[p].h = c.h
        /\ \/ call'[p].pc = "place" /\ call'[p].place = c.place
           \/ call'[p].pc = "open"
    BY <1>2, <1>3 DEF OneCall, Call, Goto, PreparePlace
  <2>2. Fresh(c.h) /\ c.place = None
    BY <1>2, <1>3 DEF Fresh, CallWhole
  <2> QED BY <1>1, <1>2, <2>1, <2>2, IdlyRecedes DEF LockedPCs
<1>4. ASSUME OneCall(p), call'[p].pc = "settle", ~Opens(call'[p]), call'[p].outcome # "ready"
      PROVE  Recedes(p)
  <2>1. CallWhole(call[p])'
    BY <1>4 DEF CallWhole, LockedPCs
  <2>2. \A d \in Digests : ~CallUses(p, d)'
    BY <1>4, WriterAssumption DEF CallUses, Opens, Places
  <2>3. \A h \in Handles : Fresh(h)' => Fresh(h)
    BY <1>1, <1>4 DEF Fresh, OneCall
  <2>4. PathsRecede
    BY <1>1 DEF PathsRecede, storeVars
  <2> QED BY <1>1, <1>2, <1>4, <2>1, <2>2, <2>3, <2>4 DEF Recedes, CallRecedes, storeVars
<1>5. CASE GiveUp(p)
  <2>1. /\ OneCall(p) /\ call'[p].pc = "settle" /\ call'[p].place = None
        /\ call'[p].outcome = "failed"
    BY <1>2, <1>5 DEF OneCall, Call, GiveUp
  <2> QED BY <1>4, <2>1 DEF Opens
<1>6. CASE c.pc = "find" /\ Settle(p, "present")
  <2>1. /\ OneCall(p) /\ call'[p].pc = "settle" /\ call'[p].place = c.place
        /\ call'[p].outcome = "present"
    BY <1>2, <1>6 DEF OneCall, Call, Settle
  <2>2. c.place = None
    BY <1>2, <1>6 DEF CallWhole
  <2> QED BY <1>4, <2>1, <2>2 DEF Opens
<1>7. CASE c.pc = "check" /\ Settle(p, "ready")
  <2>1. /\ OneCall(p) /\ call'[p].pc = "settle" /\ call'[p].place = c.place
        /\ call'[p].h = c.h /\ call'[p].digest = c.digest /\ call'[p].file = c.file
    BY <1>2, <1>7 DEF OneCall, Call, Settle
  <2>2. c.place \in {"blob", "incoming"} /\ c.place # None
    BY <1>2, <1>7, WriterAssumption DEF CallWhole, Places
  <2>3. Opens(c)
    BY <1>7, <2>2 DEF Opens
  <2>4. UNCHANGED <<incoming, data, shared>>
    BY <1>1 DEF storeVars
  <2>5. CallWhole(call[p])'
    <3> HIDE DEF c
    <3>1. CallWhole(c) /\ c.pc = "check"
      BY <1>2, <1>7
    <3> QED BY <2>1, <2>2, <2>3, <2>4, <3>1 DEF CallWhole, LockedPCs, Opens
  <2>6. \A d \in Digests : CallUses(p, d)' => CallUses(p, d)
    BY <1>7, <2>1 DEF CallUses
  <2>7. \A h \in Handles : Fresh(h)' => Fresh(h)
    BY <1>1, <2>1 DEF Fresh, OneCall
  <2>8. PathsRecede
    BY <1>1 DEF PathsRecede, storeVars
  <2> QED BY <1>1, <1>2, <2>1, <2>3, <2>4, <2>5, <2>6, <2>7, <2>8 DEF Recedes, CallRecedes
<1> QED BY <1>1, <1>3, <1>5, <1>6, <1>7 DEF PrepareFind, PrepareCheck, PrepareFails, PreparePlace,
                                            Ready

\* A prepared staging file that is left is removed by the same call.
LEMMA FailedRecedes ==
    ASSUME TypeInv, Whole, NEW p \in Procs, BeginFailed(p), Cleans(call[p])
    PROVE  Recedes(p)
<1>1. /\ call[p].pc = "settle" /\ Goto(p, "cleanup")
      /\ UNCHANGED <<storeVars, shared, issued, phase, up>>
  BY DEF BeginFailed, Ready, IndexOnly, ghosts
<1>2. /\ OneCall(p) /\ call'[p].pc = "cleanup"
      /\ call'[p].digest = call[p].digest /\ call'[p].place = call[p].place
  BY <1>1, CallFacts DEF Goto, OneCall, Call
<1>3. CallWhole(call[p])' /\ ~Opens(call'[p])
  BY <1>2 DEF CallWhole, Opens, LockedPCs
<1>4. \A d \in Digests : CallUses(p, d)' => CallUses(p, d)
  BY <1>1, <1>2 DEF CallUses
<1>5. \A h \in Handles : Fresh(h)' => Fresh(h)
  BY <1>1, <1>2 DEF Fresh, OneCall
<1>6. PathsRecede /\ \A h \in Handles : Closes(p, h)
  BY <1>1, SameCloses DEF PathsRecede, storeVars
<1> QED BY <1>1, <1>2, <1>3, <1>4, <1>5, <1>6 DEF Recedes, CallRecedes, storeVars

\* The steps of Commit between its verification and the publication, and after
\* a publication that failed.
LEMMA CommitRecedes ==
    ASSUME TypeInv, Whole, NEW p \in Procs,
           \/ CommitVerify(p) \/ CommitIntent(p) \/ CommitUnrecorded(p)
           \/ CommitUnpublished(p) \/ CommitLost(p) \/ CommitDemote(p)
    PROVE  Recedes(p)
<1> DEFINE c == call[p]  h == call[p].h  u == up[h]
<1>1. /\ c.pc \in {"verify", "intent", "publish", "confirm", "demote"}
      /\ UNCHANGED <<storeVars, shared, issued, phase, up>>
  BY DEF CommitVerify, CommitIntent, CommitUnrecorded, CommitUnpublished, CommitLost,
         CommitDemote, Ready, CallOnly, ghosts
<1>2. /\ call \in [Procs -> Call] /\ c \in Call /\ CallWhole(c)
      /\ \A g \in Handles : Closes(p, g)
      /\ c.pc # "verify" => ~u.done
  BY <1>1, CallFacts, SameCloses DEF Whole, CallWhole, LockedPCs
<1>3. PICK pc \in {"decide", "publish", "drop", "demote"} :
        /\ OneCall(p) /\ call'[p].pc = pc /\ call'[p].h = h
        /\ ~u.done
        /\ pc = "decide" => u.sum = Content[u.digest]
        /\ pc = "publish" => c.pc = "intent"
        /\ pc = "demote" => c.pc \in {"publish", "confirm"}
  <2>1. CASE CommitVerify(p)
    <3>1. CASE Goto(p, "decide") /\ u.sum = Content[u.digest]
      BY <1>2, <2>1, <3>1 DEF CommitVerify, Goto, OneCall, Call
    <3>2. CASE call' = [call EXCEPT ![p].pc = "drop", ![p].forget = TRUE]
      BY <1>2, <2>1, <3>2 DEF CommitVerify, OneCall, Call
    <3> QED BY <2>1, <3>1, <3>2 DEF CommitVerify
  <2>2. CASE CommitIntent(p)
    <3>1. c.pc = "intent"
      BY <2>2 DEF CommitIntent, Ready
    <3> QED BY <1>2, <2>2, <3>1 DEF CommitIntent, OneCall, Call
  <2>3. CASE CommitUnrecorded(p) \/ CommitDemote(p)
    <3>1. Goto(p, "drop") /\ c.pc # "verify"
      BY <2>3 DEF CommitUnrecorded, CommitDemote, Ready
    <3> QED BY <1>2, <3>1 DEF Goto, OneCall, Call
  <2>4. CASE CommitUnpublished(p) \/ CommitLost(p)
    <3>1. Goto(p, "demote") /\ c.pc \in {"publish", "confirm"}
      BY <2>4 DEF CommitUnpublished, CommitLost, Ready
    <3> QED BY <1>2, <3>1 DEF Goto, OneCall, Call
  <2> QED BY <2>1, <2>2, <2>3, <2>4
<1>4. CallWhole(call[p])'
  <2>1. UNCHANGED <<incoming, data, shared, up>>
    BY <1>1 DEF storeVars
  <2> HIDE DEF c
  <2>2. call[p].pc = c.pc /\ CallWhole(call[p])
    BY <1>2 DEF c
  <2> QED BY <1>3, <2>1, <2>2 DEF CallWhole, Opens
<1> QED BY <1>1, <1>2, <1>3, <1>4, QuietRecedes

\* Commit closes its file, and what was accepted is what the path names.
LEMMA SyncRecedes ==
    ASSUME TypeInv, Staged, Whole, NEW p \in Procs, CommitSync(p)
    PROVE  Recedes(p)
<1> DEFINE c == call[p]  h == call[p].h  u == up[h]
<1>1. /\ c.pc = "decide" /\ UNCHANGED <<storeVars, shared, issued, phase>>
      /\ Holds(p, h) /\ h \in Handles /\ u.ready /\ u.digest \in Digests /\ u \in Upload
      /\ u.file # None /\ CallWhole(c) /\ UploadWhole(h)
  BY LockedFacts DEF CommitSync, Ready, UploadOnly, ghosts, Holds, LockedPCs, Staged, CallStaged,
                     Whole
<1>2. \A q \in Procs \ {p} : ~Holds(q, h)
  BY <1>1 DEF Staged, OneHolder
<1>3. ~u.done /\ u.sum = Content[u.digest]
  BY <1>1 DEF CallWhole, LockedPCs
<1>4. call \in [Procs -> Call] /\ c \in Call /\ up \in [Handles -> Upload]
  BY CallFacts
<1>5. CASE Goto(p, "drop") /\ UNCHANGED up
  <2>1. OneCall(p) /\ call'[p].pc = "drop" /\ call'[p].h = h
    BY <1>4, <1>5 DEF Goto, OneCall, Call
  <2>2. CallWhole(call[p])'
    BY <1>3, <1>5, <2>1 DEF CallWhole, Opens
  <2>3. \A g \in Handles : Closes(p, g)
    BY <1>5, SameCloses
  <2> QED BY <1>1, <2>1, <2>2, <2>3, QuietRecedes
<1>6. CASE Goto(p, "intent") /\ up' = [up EXCEPT ![h].file = None]
  <2>1. OneCall(p) /\ call'[p].pc = "intent" /\ call'[p].h = h
    BY <1>4, <1>6 DEF Goto, OneCall, Call
  <2>2. /\ \A g \in Handles \ {h} : up'[g] = up[g]
        /\ up'[h] = [u EXCEPT !.file = None]
    BY <1>1, <1>4, <1>6
  <2>3. /\ up'[h].file = None /\ up'[h].done = u.done /\ up'[h].sum = u.sum
        /\ up'[h].digest = u.digest /\ up'[h].place = u.place /\ up'[h].ready = u.ready
    BY <1>1, <2>2 DEF Upload
  <2>4. ASSUME NEW g \in Handles PROVE Closes(p, g)
    <3> HIDE DEF c, h, u
    <3>1. CASE g = h
      BY <1>2, <2>3, <3>1 DEF Closes, SameNamed, u
    <3>2. CASE g # h
      BY <2>2, <3>2 DEF Closes, SameNamed
    <3> QED BY <3>1, <3>2
  <2>5. ASSUME u.place = "incoming", u.digest \notin shared
        PROVE  incoming[u.digest] # None /\ data[incoming[u.digest]] = Content[u.digest]
    BY <1>1, <1>3, <2>5 DEF UploadWhole, UploadOwns
  <2>6. CallWhole(call[p])'
    BY <1>1, <1>3, <2>1, <2>3, <2>5 DEF CallWhole, Opens, storeVars
  <2> QED BY <1>1, <2>1, <2>4, <2>6, QuietRecedes
<1> QED BY <1>5, <1>6 DEF CommitSync

\* Only the holder's upload is done when it finishes.
LEMMA FinishRecedes ==
    ASSUME TypeInv, Staged, Whole, NEW p \in Procs, CommitFinish(p)
    PROVE  Recedes(p)
<1> DEFINE c == call[p]  h == call[p].h
<1>1. /\ c.pc = "confirm" /\ Return(p) /\ UNCHANGED <<storeVars, shared, issued, phase>>
      /\ up' = [up EXCEPT ![h].done = TRUE]
      /\ Holds(p, h) /\ h \in Handles /\ up[h] \in Upload /\ up \in [Handles -> Upload]
  BY LockedFacts, CallFacts DEF CommitFinish, Ready, ghosts, Holds, LockedPCs
<1>2. \A q \in Procs \ {p} : ~Holds(q, h)
  BY <1>1 DEF Staged, OneHolder
<1>3. up[h].file = None
  BY <1>1 DEF Whole, CallWhole
<1>4. /\ \A g \in Handles \ {h} : up'[g] = up[g]
      /\ up'[h] = [up[h] EXCEPT !.done = TRUE]
  BY <1>1
<1>5. /\ SameNamed(h) /\ up'[h].sum = up[h].sum /\ up'[h].file = up[h].file /\ up'[h].done
  BY <1>1, <1>4 DEF Upload, SameNamed
<1>6. \A g \in Handles : Closes(p, g)
  BY <1>2, <1>3, <1>4, <1>5 DEF Closes, SameNamed
<1> QED BY <1>1, <1>6, ReturnIdle, IdlyRecedes DEF LockedPCs

-----------------------------------------------------------------------------
(* Steps that remove a staging file.                                       *)

\* The user of a path that was not shared may remove what it names.
LEMMA RemoveRecedes ==
    ASSUME NEW h, NEW d, NEW place, RemoveStaged(h, d, place), StoreTypeOK,
           \A e \in Digests \ shared : place = "incoming" /\ d = e =>
               /\ \A g \in Handles : ~UploadOwns(g, e)'
               /\ \A q \in Procs : ~CallUses(q, e)'
    PROVE  PathsRecede /\ data' = data
<1>1. \A e \in Digests : \/ incoming'[e] = incoming[e]
                         \/ place = "incoming" /\ e = d /\ incoming'[e] = None
  BY DEF RemoveStaged, StoreTypeOK
<1>2. \A e \in Digests : blob'[e] \in {blob[e], None}
  BY DEF RemoveStaged, StoreTypeOK
<1> QED BY <1>1, <1>2 DEF PathsRecede, RemoveStaged

\* Discard, a failed write and drop.
LEMMA EndRecedes ==
    ASSUME TypeInv, Whole, NEW p \in Procs, NEW h \in Handles,
           up' = [up EXCEPT ![h].done = TRUE, ![h].file = None],
           IF up[h].file # None \/ Holds(p, h)
           THEN RemoveStaged(h, up[h].digest, up[h].place) ELSE UNCHANGED storeVars,
           Holds(p, h) => ~up[h].done,
           \A q \in Procs \ {p} : ~Holds(q, h),
           UNCHANGED <<shared, issued>>, phase' = "down" => phase = "down",
           OneCall(p), (SameCall(p) /\ ~Holds(p, h)) \/ call'[p].pc = "unlink"
    PROVE  Recedes(p)
<1>1. /\ up[h] \in Upload /\ up \in [Handles -> Upload] /\ StoreTypeOK
      /\ UploadWhole(h)
  BY CallFacts DEF Whole
<1>2. /\ \A g \in Handles \ {h} : up'[g] = up[g]
      /\ up'[h] = [up[h] EXCEPT !.done = TRUE, !.file = None]
  BY <1>1
<1>3. /\ SameNamed(h) /\ up'[h].sum = up[h].sum /\ up'[h].file = None /\ up'[h].done
  BY <1>1, <1>2 DEF Upload, SameNamed
<1>4. \A g \in Handles : Closes(p, g)
  BY <1>2, <1>3 DEF Closes, SameNamed
<1>5. \A q \in Procs, d \in Digests : CallUses(q, d)' => CallUses(q, d)
  BY DEF OneCall, SameCall, CallUses
<1>6. PathsRecede /\ data' = data
  <2>1. CASE UNCHANGED storeVars
    BY <2>1 DEF PathsRecede, storeVars
  <2>2. CASE RemoveStaged(h, up[h].digest, up[h].place) /\ (up[h].file # None \/ Holds(p, h))
    <3>1. up[h].ready /\ ~up[h].done
      BY <1>1, <2>2, CallFacts DEF UploadWhole, Holds, NamedCall, LockedPCs
    <3>2. ASSUME NEW d \in Digests \ shared, up[h].place = "incoming", up[h].digest = d
          PROVE  /\ \A g \in Handles : ~UploadOwns(g, d)'
                 /\ \A q \in Procs : ~CallUses(q, d)'
      <4>1. UploadOwns(h, d)
        BY <3>1, <3>2 DEF UploadOwns
      <4>2. /\ \A g \in Handles \ {h} : ~UploadOwns(g, d)
            /\ \A q \in Procs : ~CallUses(q, d)
        BY <4>1 DEF Whole, OneUser
      <4> QED BY <1>2, <1>3, <1>5, <4>2 DEF UploadOwns
    <3> QED BY <1>1, <2>2, <3>2, RemoveRecedes
  <2> QED BY <2>1, <2>2
<1>7. CallRecedes(p)
  <2>1. CASE SameCall(p) /\ ~Holds(p, h)
    <3>1. KeepsCall(p)
      BY <1>2, <2>1 DEF KeepsCall
    <3> QED BY <1>5, <2>1, <3>1 DEF CallRecedes, SameCall, Opens
  <2>2. CASE call'[p].pc = "unlink"
    BY <1>5, <2>2 DEF CallRecedes, Opens, CallWhole
  <2> QED BY <2>1, <2>2
<1>8. \A g \in Handles : Fresh(g)' => Fresh(g)
  BY DEF Fresh, OneCall, SameCall
<1> QED BY <1>4, <1>6, <1>7, <1>8 DEF Recedes

\* A discard holds the mutex of an upload that nobody else does.
LEMMA DiscardRecedes ==
    ASSUME TypeInv, Staged, Whole, NEW p \in Procs, Discard(p)
    PROVE  Recedes(p)
<1>1. PICK h \in call[p].todo :
        /\ ~Locked(h)
        /\ IF up[h].file # None THEN RemoveStaged(h, up[h].digest, up[h].place)
                                ELSE UNCHANGED storeVars
        /\ up' = [up EXCEPT ![h].done = TRUE, ![h].file = None]
        /\ call' = [call EXCEPT ![p].todo = @ \ {h}]
        /\ UNCHANGED <<shared, issued, phase>>
  BY DEF Discard, ghosts
<1>2. h \in Handles /\ call \in [Procs -> Call] /\ call[p] \in Call
  BY CallFacts DEF Staged, CallStaged
<1>3. \A q \in Procs : ~Holds(q, h)
  BY <1>1 DEF Locked, Holds
<1>4. OneCall(p) /\ SameCall(p)
  BY <1>1, <1>2 DEF OneCall, SameCall, Call
<1> QED BY <1>1, <1>2, <1>3, <1>4, EndRecedes

\* A failed write, and drop.
LEMMA DropRecedes ==
    ASSUME TypeInv, Staged, Whole, NEW p \in Procs, AppendFails(p) \/ CommitDrop(p)
    PROVE  Recedes(p)
<1> DEFINE h == call[p].h
<1>1. /\ call[p].pc \in {"write", "drop"} /\ Goto(p, "unlink")
      /\ RemoveStaged(h, up[h].digest, up[h].place)
      /\ up' = [up EXCEPT ![h].done = TRUE, ![h].file = None]
      /\ UNCHANGED <<shared, issued, phase>>
      /\ call[p].pc = "write" => ~Locked(h) /\ up[h].file # None
  BY DEF AppendFails, CommitDrop, Ready, ghosts, Accepts
<1>2. h \in Handles /\ call \in [Procs -> Call] /\ call[p] \in Call
  BY <1>1, LockedFacts, CallFacts DEF LockedPCs
<1>3. call[p].pc = "drop" => Holds(p, h) /\ ~up[h].done
  BY DEF Whole, CallWhole, LockedPCs, Holds
<1>4. call[p].pc = "write" => \A q \in Procs : ~Holds(q, h)
  BY <1>1 DEF Locked, Holds
<1>5. \A q \in Procs \ {p} : ~Holds(q, h)
  BY <1>1, <1>2, <1>3, <1>4 DEF Staged, OneHolder
<1>6. OneCall(p) /\ call'[p].pc = "unlink"
  BY <1>1, <1>2 DEF Goto, OneCall, Call
<1>7. (Holds(p, h) => ~up[h].done) /\ (up[h].file # None \/ Holds(p, h))
  BY <1>1, <1>3, <1>4
<1> QED BY <1>1, <1>2, <1>5, <1>6, <1>7, EndRecedes

\* Begin removes what it opened, by its path.
LEMMA CleanupRecedes ==
    ASSUME TypeInv, Whole, NEW p \in Procs, BeginCleanup(p)
    PROVE  Recedes(p)
<1> DEFINE c == call[p]
<1>1. /\ c.pc = "cleanup" /\ Return(p) /\ RemoveStaged(c.h, c.digest, c.place)
      /\ UNCHANGED <<up, shared, issued, phase>>
  BY DEF BeginCleanup, Ready, FilesOnly, ghosts
<1>2. OneCall(p) /\ call'[p].pc = "idle" /\ ~Opens(call'[p]) /\ CallWhole(call[p])'
  BY <1>1, ReturnIdle DEF Opens, CallWhole, LockedPCs
<1>3. ASSUME NEW d \in Digests \ shared, c.place = "incoming", c.digest = d
      PROVE  /\ \A g \in Handles : ~UploadOwns(g, d)'
             /\ \A q \in Procs : ~CallUses(q, d)'
  <2>1. CallUses(p, d)
    BY <1>1, <1>3 DEF CallUses
  <2>2. /\ \A g \in Handles : ~UploadOwns(g, d)
        /\ \A q \in Procs \ {p} : ~CallUses(q, d)
    BY <2>1 DEF Whole, OneUser
  <2> QED BY <1>1, <1>2, <2>2 DEF UploadOwns, CallUses, OneCall
<1>4. PathsRecede /\ data' = data
  BY <1>1, <1>3, CallFacts, RemoveRecedes
<1>5. \A d \in Digests : ~CallUses(p, d)'
  BY <1>2 DEF CallUses
<1>6. \A h \in Handles : (Fresh(h)' => Fresh(h)) /\ Closes(p, h)
  BY <1>1, <1>2, SameCloses DEF Fresh, OneCall
<1> QED BY <1>1, <1>2, <1>4, <1>5, <1>6 DEF Recedes, CallRecedes

-----------------------------------------------------------------------------
(* Calls that start, and the environment, where it writes nothing.         *)

\* The goroutine goes on where it was, and no upload changes.
LEMMA KeepsRecedes ==
    ASSUME TypeInv, Whole, NEW p \in Procs, OneCall(p), SameCall(p), PathsRecede,
           UNCHANGED <<up, data, shared, issued>>, phase' = "down" => phase = "down"
    PROVE  Recedes(p)
<1>1. \A h \in Handles : Closes(p, h)
  BY SameCloses
<1>2. CallRecedes(p)
  BY DEF CallRecedes, KeepsCall, SameCall, Opens, CallUses
<1>3. \A h \in Handles : Fresh(h)' => Fresh(h)
  BY DEF Fresh, OneCall, SameCall
<1> QED BY <1>1, <1>2, <1>3 DEF Recedes

\* Every call's sweep, and the ticker's.
LEMMA SweepsRecede ==
    ASSUME TypeInv, Whole, NEW p \in Procs,
           CallStarts(p) \/ (SweepTick /\ p = Ticker)
    PROVE  Recedes(p)
<1>1. UNCHANGED <<storeVars, up, shared, issued, phase>>
  BY DEF CallStarts, BeginCall, AppendCall, CommitCall, AbortCall, Start, SweepTick, IndexOnly,
         ghosts
<1>2. /\ OneCall(p)
      /\ \/ SameCall(p)
         \/ call'[p].pc \in {"begin", "admit", "lookup", "abort"} /\ call'[p].place = None
  BY StartsCall
<1>3. CASE SameCall(p)
  BY <1>1, <1>2, <1>3, KeepsRecedes DEF PathsRecede, storeVars
<1>4. CASE call'[p].pc \in {"begin", "admit", "lookup", "abort"} /\ call'[p].place = None
  BY <1>1, <1>2, <1>4, SameCloses, IdlyRecedes DEF LockedPCs
<1> QED BY <1>2, <1>3, <1>4

\* close, time, and removals of whole objects.
LEMMA QuietEnvironmentRecedes ==
    ASSUME TypeInv, Whole, Close \/ Tick \/ Collect \/ UNCHANGED vars
    PROVE  Recedes(Ticker)
<1>1. call \in [Procs -> Call] /\ call[Ticker] \in Call /\ Ticker \in Procs /\ StoreTypeOK
  BY CallFacts, TickerProc
<1>2. UNCHANGED <<up, data, shared, issued>> /\ (phase' = "down" => phase = "down")
  BY DEF Close, Tick, Collect, Remove, vars, storeVars, ghosts
<1>3. OneCall(Ticker) /\ SameCall(Ticker)
  <2>1. UNCHANGED call \/ call' = [call EXCEPT ![Ticker].todo = @ \cup uploads]
    BY DEF Close, Tick, Collect, vars
  <2> QED BY <1>1, <2>1 DEF OneCall, SameCall, Call
<1>4. PathsRecede
  <2>1. UNCHANGED <<blob, incoming>> \/ (UNCHANGED incoming /\ \E d \in Digests : Remove(d))
    BY DEF Close, Tick, Collect, Remove, vars, storeVars
  <2> QED BY <1>1, <2>1 DEF PathsRecede, Remove, StoreTypeOK
<1> QED BY <1>1, <1>2, <1>3, <1>4, KeepsRecedes

\* At startup nobody has a staging path open.
LEMMA StartupRecedes ==
    ASSUME TypeInv, Coherence, Whole, Startup \/ StartupRefused
    PROVE  Recedes(Ticker)
<1>1. /\ phase = "down" /\ UNCHANGED <<up, call, blob, data, shared, issued>> /\ CleanStaging
  BY DEF Startup, StartupRefused, CleanStaging, ghosts
<1>2. \A h \in Handles : ~up[h].ready
  BY <1>1 DEF Whole, UploadWhole
<1>3. \A q \in Procs : call[q].pc = "idle"
  BY <1>1 DEF Coherence, Recorded
<1>4. PathsRecede
  BY <1>1, <1>2, <1>3 DEF PathsRecede, CleanStaging, UploadOwns, CallUses
<1>5. Ticker \in Procs /\ OneCall(Ticker) /\ SameCall(Ticker)
  BY <1>1, TickerProc DEF OneCall, SameCall
<1> QED BY <1>1, <1>4, <1>5, KeepsRecedes

\* After a crash only the paths name files.
LEMMA CrashWhole ==
    ASSUME TypeInv, Whole, Crash
    PROVE  Whole'
<1>1. /\ \A q \in Procs : call'[q] = NoCall
      /\ \A h \in Handles : up'[h] = NoUpload
      /\ UNCHANGED <<blob, incoming, data, issued, shared>>
  BY DEF Crash, storeVars, ghosts
<1>2. /\ \A h \in Handles, d \in Digests : ~UploadOwns(h, d)'
      /\ \A q \in Procs, d \in Digests : ~CallUses(q, d)'
  BY <1>1 DEF UploadOwns, CallUses, NoUpload, NoCall
<1>3. OneUser'
  BY <1>2 DEF OneUser
<1>4. \A i \in Inodes, d \in Digests : FileOf(i, d)' => FileOf(i, d)
  BY <1>1, NamesAssumption DEF FileOf, NoUpload, NoCall, Opens
<1>5. \A h \in Handles : (Fresh(h)' => Fresh(h)) /\ ~Possesses(h)'
  BY <1>1 DEF Fresh, Possesses, NoUpload, NoCall, Opens
<1>6. FilesApart'
  <2>1. Handles \subseteq Inodes
    BY DEF Inodes
  <2> QED BY <1>1, <1>4, <1>5, <2>1 DEF Whole, FilesApart, Find
<1>7. \A h \in Handles : UploadWhole(h)'
  BY <1>1, <1>2 DEF UploadWhole, NoUpload
<1>8. \A q \in Procs : CallWhole(call[q])'
  BY <1>1 DEF CallWhole, NoCall, Opens, LockedPCs
<1>9. PublishedWholeUnlessShared'
  BY <1>1 DEF Whole, PublishedWholeUnlessShared, Find
<1> QED BY <1>3, <1>6, <1>7, <1>8, <1>9 DEF Whole

-----------------------------------------------------------------------------
(* Steps that open, write and publish.                                     *)

\* Another owner publishes from a file that nobody has open.
LEMMA PublishWhole ==
    ASSUME TypeInv, Coherence, Whole, Publish
    PROVE  Whole'
<1>1. PICK d \in Digests :
        /\ \A h \in Handles : up[h].file # d
        /\ \A q \in Procs : call[q].file # d
        /\ ExternalPublish(d)
  BY DEF Publish
<1>2. /\ UNCHANGED <<up, call, incoming, issued, shared, phase>>
      /\ blob[d] = None /\ d \in Inodes /\ Handles \subseteq Inodes /\ d \notin Handles
      /\ None \notin Inodes /\ StoreTypeOK
  BY <1>1, CallFacts, TickerProc, NamesAssumption DEF Publish, ExternalPublish, Find, Inodes, ghosts
<1>3. /\ blob'[d] = d /\ \A e \in Digests \ {d} : blob'[e] = blob[e]
      /\ data'[d] = Content[d] /\ \A i \in Inodes \ {d} : data'[i] = data[i]
  BY <1>1, <1>2 DEF ExternalPublish, StoreTypeOK
<1>4. \A e \in Digests : incoming[e] # d /\ (blob[e] = d => e = d) /\ incoming[e] \in Inodes \cup {None}
  BY <1>2 DEF Whole, FilesApart, StoreTypeOK
<1>5. \A e \in Digests : ~FileOf(d, e)
  BY <1>1, <1>2, <1>4 DEF FileOf
<1>6. OneUser'
  BY <1>2 DEF Whole, OneUser, UploadOwns, CallUses
<1>7. FilesApart'
  <2>1. \A i \in Inodes, e \in Digests : FileOf(i, e)' => FileOf(i, e) \/ (i = d /\ e = d)
    BY <1>2, <1>3 DEF FileOf
  <2>2. \A h \in Handles : (Fresh(h)' <=> Fresh(h)) /\ (Possesses(h)' <=> Possesses(h))
    BY <1>2 DEF Fresh, Possesses
  <2> USE DEF Whole, FilesApart
  <2>3. \A i \in Inodes, e, f \in Digests : FileOf(i, e)' /\ FileOf(i, f)' => e = f
    BY <1>5, <2>1
  <2>4. \A h \in Handles, e \in Digests : Fresh(h)' => ~FileOf(h, e)'
    BY <1>2, <2>1, <2>2
  <2>5. \A h \in Handles, e \in Digests : Possesses(h)' => blob'[e] # h /\ incoming'[e] # h
    BY <1>2, <1>3, <2>2
  <2>6. \A e, f \in Digests : incoming'[e] # f /\ (blob'[e] = f => e = f)
    BY <1>2, <1>3
  <2>7. \A e \in Digests : Find(e)' => blob'[e] # incoming'[e]
    BY <1>2, <1>3, <1>4 DEF Find
  <2> QED BY <2>3, <2>4, <2>5, <2>6, <2>7
<1>8. \A i \in Inodes \cup {None} : i # d /\ i # None => data'[i] = data[i]
  BY <1>3
<1>9. ASSUME NEW h \in Handles PROVE UploadWhole(h)'
  <2>1. UploadWhole(h) /\ up[h].file # d
    BY <1>1 DEF Whole
  <2>2. \A e \in Digests : UploadOwns(h, e)' <=> UploadOwns(h, e)
    BY <1>2 DEF UploadOwns
  <2>3. up[h].file \in Inodes \cup {None}
    BY CallFacts, TickerProc DEF Upload
  <2> QED BY <1>2, <1>8, <2>1, <2>2, <2>3 DEF UploadWhole
<1>10. ASSUME NEW q \in Procs PROVE CallWhole(call[q])'
  <2>1. CallWhole(call[q]) /\ call[q].file # d /\ call[q].file \in Inodes \cup {None}
    BY <1>1, CallFacts DEF Whole, Call
  <2>2. call[q].pc \in {"intent", "publish"} => up[call[q].h].digest \in Digests
    BY LockedFacts DEF LockedPCs
  <2> QED BY <1>2, <1>4, <1>8, <2>1, <2>2 DEF CallWhole
<1>11. PublishedWholeUnlessShared'
  <2>1. \A e \in Digests \ {d} : blob[e] \in Inodes \cup {None} /\ blob[e] # d
    BY <1>2, <1>4 DEF StoreTypeOK
  <2> QED BY <1>2, <1>3, <1>8, <2>1 DEF Whole, PublishedWholeUnlessShared, Find
<1> QED BY <1>6, <1>7, <1>9, <1>10, <1>11 DEF Whole

\* Commit removes a possession file, or finds its reservation already published.
LEMMA PublishRecedes ==
    ASSUME TypeInv, Whole, NEW p \in Procs, CommitPublish(p),
           \/ up[call[p].h].place = "possession"
           \/ incoming[up[call[p].h].digest] = None
    PROVE  Recedes(p)
<1> DEFINE c == call[p]  u == up[c.h]
<1>1. /\ c.pc = "publish" /\ Goto(p, "confirm") /\ UNCHANGED <<up, shared, issued, phase>>
      /\ UNCHANGED <<blob, incoming, data>>
  BY DEF CommitPublish, Ready, FilesOnly, ghosts, RemoveStaged, Rename
<1>2. CallWhole(c) /\ ~u.done /\ u.file = None
  BY <1>1 DEF Whole, CallWhole, LockedPCs
<1>3. OneCall(p) /\ call'[p].pc = "confirm" /\ call'[p].h = c.h
  BY <1>1, CallFacts DEF Goto, OneCall, Call
<1>4. CallWhole(call[p])'
  BY <1>1, <1>2, <1>3 DEF CallWhole, Opens
<1>5. \A h \in Handles : Closes(p, h) /\ (Fresh(h)' => Fresh(h))
  BY <1>1, <1>3, SameCloses DEF Fresh, OneCall
<1>6. PathsRecede /\ CallRecedes(p)
  BY <1>1, <1>3, <1>4 DEF PathsRecede, CallRecedes, Opens, CallUses
<1> QED BY <1>1, <1>5, <1>6 DEF Recedes

\* A reservation that is published was never shared, and then it holds what the
\* commit verified; else nothing is claimed of it.
LEMMA CommitPublishWhole ==
    ASSUME TypeInv, Staged, Whole, NEW p \in Procs, CommitPublish(p)
    PROVE  Whole'
<1> DEFINE c == call[p]  h == call[p].h  u == up[h]  d == up[h].digest  i == incoming[d]
<1>1. CASE u.place = "possession" \/ i = None
  BY <1>1, PublishRecedes, WholeRecedes
<1>2. CASE u.place # "possession" /\ i # None
  <2>1. /\ c.pc = "publish" /\ Goto(p, "confirm") /\ UNCHANGED <<up, shared, issued, phase, data>>
        /\ blob' = [blob EXCEPT ![d] = i] /\ incoming' = [incoming EXCEPT ![d] = None]
    BY <1>2 DEF CommitPublish, Ready, FilesOnly, ghosts, Rename
  <2>2. /\ CallWhole(c) /\ ~u.done /\ u.file = None /\ u.ready /\ Holds(p, h)
        /\ h \in Handles /\ d \in Digests /\ u \in Upload /\ UploadWhole(h)
    BY <2>1, LockedFacts DEF Whole, CallWhole, LockedPCs, Holds
  <2>3. OneCall(p) /\ call'[p].pc = "confirm" /\ call'[p].h = h
    BY <2>1, CallFacts DEF Goto, OneCall, Call
  <2>4. /\ blob \in [Digests -> Inodes \cup {None}] /\ incoming \in [Digests -> Inodes \cup {None}]
        /\ i \in Inodes /\ None \notin Inodes /\ Handles \subseteq Inodes
        /\ Digests \subseteq Inodes
    BY <1>2, <2>2, CallFacts, NamesAssumption DEF StoreTypeOK, Inodes
  <2>5. /\ blob'[d] = i /\ incoming'[d] = None
        /\ \A e \in Digests \ {d} : blob'[e] = blob[e] /\ incoming'[e] = incoming[e]
    BY <2>1, <2>2, <2>4
  <2>6. d \notin shared => u.place = "incoming" /\ UploadOwns(h, d)
    BY <1>2, <2>2 DEF UploadWhole, UploadOwns, Upload, Places
  <2>7. /\ \A g \in Handles, e \in Digests : UploadOwns(g, e)' <=> UploadOwns(g, e)
        /\ \A q \in Procs, e \in Digests : CallUses(q, e)' => CallUses(q, e)
    BY <2>1, <2>3 DEF UploadOwns, CallUses, OneCall
  <2>8. OneUser'
    BY <2>1, <2>7 DEF Whole, OneUser
  <2>9. FilesApart'
    <3>1. \A j \in Inodes, e \in Digests : FileOf(j, e)' => FileOf(j, e)
      BY <2>1, <2>3, <2>4, <2>5 DEF FileOf, OneCall, Opens
    <3>2. \A g \in Handles : (Fresh(g)' => Fresh(g)) /\ (Possesses(g)' => Possesses(g))
      BY <2>1, <2>3 DEF Fresh, Possesses, OneCall, Opens
    <3> USE DEF Whole, FilesApart
    <3>3. \A j \in Inodes, e, f \in Digests : FileOf(j, e)' /\ FileOf(j, f)' => e = f
      BY <3>1
    <3>4. \A g \in Handles, e \in Digests : Fresh(g)' => ~FileOf(g, e)'
      BY <2>4, <3>1, <3>2
    <3>5. \A g \in Handles, e \in Digests : Possesses(g)' => blob'[e] # g /\ incoming'[e] # g
      BY <2>2, <2>4, <2>5, <3>2
    <3>6. \A e, f \in Digests : incoming'[e] # f /\ (blob'[e] = f => e = f)
      BY <2>2, <2>4, <2>5
    <3>7. \A e \in Digests : Find(e)' => blob'[e] # incoming'[e]
      BY <1>2, <2>2, <2>5 DEF Find
    <3> QED BY <3>3, <3>4, <3>5, <3>6, <3>7
  <2>10. ASSUME NEW g \in Handles PROVE UploadWhole(g)'
    <3>1. ASSUME NEW e \in Digests \ shared, UploadOwns(g, e), up[g].file # None
          PROVE  incoming'[e] = incoming[e]
      <4>1. e = d => g = h
        BY <2>2, <2>6, <3>1 DEF Whole, OneUser
      <4> QED BY <2>2, <2>5, <3>1, <4>1
    <3> QED BY <2>1, <2>7, <3>1 DEF Whole, UploadWhole
  <2>11. ASSUME NEW q \in Procs PROVE CallWhole(call[q])'
    <3>1. CASE q = p
      BY <2>1, <2>2, <2>3, <3>1 DEF CallWhole, Opens
    <3>2. CASE q # p
      <4>1. call'[q] = call[q] /\ CallWhole(call[q])
        BY <2>3, <3>2 DEF OneCall, Whole
      <4>2. ASSUME call[q].pc \in {"intent", "publish"}, up[call[q].h].place = "incoming",
                   up[call[q].h].digest \notin shared
            PROVE  incoming'[up[call[q].h].digest] = incoming[up[call[q].h].digest]
        <5>1. /\ call[q].h \in Handles /\ up[call[q].h].ready /\ up[call[q].h].digest \in Digests
              /\ ~up[call[q].h].done /\ Holds(q, call[q].h)
          BY <4>1, <4>2, LockedFacts DEF CallWhole, LockedPCs, Holds
        <5>2. call[q].h # h
          BY <2>2, <3>2, <5>1 DEF Staged, OneHolder
        <5>3. up[call[q].h].digest # d
          BY <2>2, <2>6, <4>2, <5>1, <5>2 DEF UploadOwns, Whole, OneUser
        <5> QED BY <2>5, <5>1, <5>3
      <4>3. ASSUME Opens(call[q]), call[q].place = "incoming", call[q].digest \notin shared
            PROVE  incoming'[call[q].digest] = incoming[call[q].digest]
        <5>1. call[q].digest \in Digests
          BY <4>3, CallFacts DEF NamedCall, BeginPCs, Opens
        <5>2. CallUses(q, call[q].digest)
          BY <4>3 DEF CallUses, Opens
        <5>3. call[q].digest # d
          BY <2>2, <2>6, <4>3, <5>1, <5>2 DEF Whole, OneUser
        <5> QED BY <2>5, <5>1, <5>3
      <4>4. UNCHANGED <<up, data, shared>>
        BY <2>1
      <4> HIDE DEF c, h, u, d, i
      <4> QED BY <4>1, <4>2, <4>3, <4>4 DEF CallWhole, Opens
    <3> QED BY <3>1, <3>2
  <2>12. PublishedWholeUnlessShared'
    <3>1. d \notin shared => data[i] = Content[d]
      BY <2>1, <2>2, <2>6 DEF CallWhole
    <3>2. ASSUME NEW e \in Digests \ shared', Find(e)' PROVE data'[blob'[e]] = Content[e]
      <4>1. shared' = shared /\ data' = data
        BY <2>1
      <4>2. CASE e = d
        BY <2>5, <3>1, <3>2, <4>1, <4>2
      <4>3. CASE e # d
        <5>1. blob'[e] = blob[e]
          BY <2>5, <3>2, <4>3
        <5>2. data[blob[e]] = Content[e]
          BY <3>2, <4>1, <5>1 DEF Whole, PublishedWholeUnlessShared, Find
        <5> QED BY <4>1, <5>1, <5>2
      <4> QED BY <4>2, <4>3
    <3> QED BY <3>2 DEF PublishedWholeUnlessShared
  <2> QED BY <2>8, <2>9, <2>10, <2>11, <2>12 DEF Whole
<1> QED BY <1>1, <1>2

\* The chunk that belongs next is appended.
LEMMA WrittenNext ==
    ASSUME NEW s \in Seq(Chunks), NEW c \in Chunks
    PROVE  Written(s, Len(s), c) = Append(s, c)
<1>1. Len(s) \in Nat /\ ~(Len(s) > Len(s)) /\ s = [k \in 1 .. Len(s) |-> s[k]]
  OBVIOUS
<1>2. Written(s, Len(s), c) = [k \in 1 .. Len(s) + 1 |-> IF k = Len(s) + 1 THEN c ELSE s[k]]
  BY <1>1 DEF Written
<1>3. /\ Append(s, c) \in Seq(Chunks) /\ Len(Append(s, c)) = Len(s) + 1
      /\ Append(s, c)[Len(s) + 1] = c
      /\ \A k \in 1 .. Len(s) : Append(s, c)[k] = s[k]
  OBVIOUS
<1>4. Append(s, c) = [k \in 1 .. Len(s) + 1 |-> Append(s, c)[k]]
  <2>1. \A t \in Seq(Chunks) : t = [k \in 1 .. Len(t) |-> t[k]]
    OBVIOUS
  <2>2. Append(s, c) = [k \in 1 .. Len(Append(s, c)) |-> Append(s, c)[k]]
    BY <1>3, <2>1
  <2> QED BY <1>3, <2>2
<1>5. \A k \in 1 .. Len(s) + 1 : k # Len(s) + 1 => k \in 1 .. Len(s)
  BY <1>1
<1> QED BY <1>2, <1>3, <1>4, <1>5

\* What an upload has open is published by no path that was not shared, and
\* reserved by none but its own.
LEMMA FileIsOwn ==
    ASSUME TypeInv, Whole, NEW h \in Handles, up[h].file # None, NEW e \in Digests \ shared
    PROVE  /\ blob[e] # up[h].file
           /\ incoming[e] = up[h].file => UploadOwns(h, e)
<1> DEFINE i == up[h].file  d == up[h].digest
<1>1. /\ up[h].ready /\ ~up[h].done /\ d \in Digests /\ i \in Inodes
      /\ up[h].place \in {"blob", "incoming", "possession"}
  BY CallFacts, TickerProc DEF Whole, UploadWhole, Named, Upload, Places
<1>2. FileOf(i, d)
  BY <1>1 DEF FileOf
<1>3. ASSUME blob[e] = i \/ incoming[e] = i PROVE e = d
  BY <1>1, <1>2, <1>3 DEF FileOf, Whole, FilesApart
<1>4. CASE up[h].place = "possession"
  BY <1>4 DEF Whole, UploadWhole, FilesApart, Possesses
<1>5. CASE up[h].place = "blob"
  BY <1>1, <1>3, <1>5 DEF Whole, UploadWhole
<1>6. CASE up[h].place = "incoming"
  <2>1. UploadOwns(h, d)
    BY <1>1, <1>6 DEF UploadOwns
  <2>2. e = d => incoming[e] = i
    BY <2>1 DEF Whole, UploadWhole
  <2>3. blob[e] # i
    BY <1>1, <1>3, <2>2 DEF Whole, FilesApart, Find
  <2> QED BY <1>3, <2>1, <2>3
<1> QED BY <1>1, <1>4, <1>5, <1>6

\* A chunk goes to no other object, and there where it belongs.
LEMMA AppendWhole ==
    ASSUME TypeInv, Staged, Whole, NEW p \in Procs, AppendWrite(p),
           Accepts(up[call[p].h], call[p].offset)
    PROVE  Whole'
<1> DEFINE c == call[p]  h == call[p].h  u == up[h]  i == up[h].file
<1>1. /\ c.pc = "write" /\ ~Locked(h) /\ u.file # None /\ c.offset = Len(u.sum)
      /\ WriteStaged(i, c.offset, c.chunk)
      /\ up' = [up EXCEPT ![h].sum = Append(@, c.chunk)]
      /\ Return(p) /\ UNCHANGED <<shared, issued, phase, blob, incoming>>
  BY DEF AppendWrite, Accepts, Received, Ready, ghosts, WriteStaged
<1>2. /\ h \in Handles /\ u \in Upload /\ up \in [Handles -> Upload] /\ c.chunk \in Chunks
      /\ i \in Inodes /\ u.sum \in Seq(Chunks) /\ UploadWhole(h) /\ u.ready
      /\ data \in [Inodes -> Bytes]
  BY <1>1, CallFacts, LockedFacts DEF NamedCall, Upload, Whole, UploadWhole, StoreTypeOK
<1>3. /\ \A g \in Handles \ {h} : up'[g] = up[g]
      /\ up'[h] = [u EXCEPT !.sum = Append(u.sum, c.chunk)]
  BY <1>1, <1>2
<1>4. /\ up'[h].sum = Append(u.sum, c.chunk)
      /\ up'[h].file = i /\ up'[h].digest = u.digest /\ up'[h].place = u.place
      /\ up'[h].ready = u.ready /\ up'[h].done = u.done
  <2> DEFINE old == u  new == up'[h]  sum == Append(u.sum, c.chunk)
  <2>1. old \in Upload /\ new = [old EXCEPT !.sum = sum]
    BY <1>2, <1>3
  <2> HIDE DEF old, new, sum
  <2>2. /\ new.sum = sum /\ new.file = old.file /\ new.digest = old.digest
        /\ new.place = old.place /\ new.ready = old.ready /\ new.done = old.done
    BY <2>1 DEF Upload
  <2> QED BY <2>2 DEF old, new, sum
<1>5. /\ data'[i] = Written(data[i], c.offset, c.chunk)
      /\ \A j \in Inodes \ {i} : data'[j] = data[j]
  BY <1>1, <1>2 DEF WriteStaged
<1>6. OneCall(p) /\ call'[p].pc = "idle"
  BY <1>1, ReturnIdle
<1>7. /\ \A g \in Handles, e \in Digests : UploadOwns(g, e)' <=> UploadOwns(g, e)
      /\ \A q \in Procs, e \in Digests : CallUses(q, e)' => CallUses(q, e)
  <2>1. \A g \in Handles : /\ up'[g].digest = up[g].digest /\ up'[g].place = up[g].place
                           /\ up'[g].ready = up[g].ready /\ up'[g].done = up[g].done
    <3> HIDE DEF c, h, u, i
    <3>1. up'[h].digest = up[h].digest /\ up'[h].place = up[h].place
          /\ up'[h].ready = up[h].ready /\ up'[h].done = up[h].done
      BY <1>4 DEF u
    <3> QED BY <1>3, <3>1
  <2>2. ASSUME NEW q \in Procs, NEW e \in Digests, CallUses(q, e)' PROVE CallUses(q, e)
    <3>1. q # p
      BY <1>6, <2>2 DEF CallUses
    <3>2. call'[q] = call[q]
      BY <1>6, <3>1 DEF OneCall
    <3> QED BY <2>2, <3>2 DEF CallUses
  <2>3. \A g \in Handles, e \in Digests : UploadOwns(g, e)' <=> UploadOwns(g, e)
    BY <2>1 DEF UploadOwns
  <2> QED BY <2>2, <2>3
<1>8. OneUser'
  BY <1>1, <1>7 DEF Whole, OneUser
<1>9. FilesApart'
  <2>1. Handles \subseteq Inodes
    BY DEF Inodes
  <2>2. \A j \in Inodes, e \in Digests : FileOf(j, e)' => FileOf(j, e)
    <3>1. /\ \A g \in Handles : up'[g].file = up[g].file /\ up'[g].digest = up[g].digest
          /\ \A q \in Procs : Opens(call'[q]) => call'[q] = call[q]
      BY <1>3, <1>4, <1>6 DEF OneCall, Opens
    <3> QED BY <1>1, <3>1 DEF FileOf, Opens
  <2>3. ASSUME NEW g \in Handles
        PROVE  (Fresh(g)' => Fresh(g)) /\ (Possesses(g)' => Possesses(g))
    <3>1. up'[g].file = up[g].file /\ up'[g].place = up[g].place
      <4>1. CASE g = h
        BY <1>4, <4>1
      <4>2. CASE g # h
        BY <1>3, <4>2
      <4> QED BY <4>1, <4>2
    <3>2. \A q \in Procs : call'[q].pc # "idle" => call'[q] = call[q]
      BY <1>6 DEF OneCall
    <3> HIDE DEF c, h, u, i
    <3>3. Fresh(g)' => Fresh(g)
      BY <1>1, <3>2 DEF Fresh
    <3>4. Possesses(g)' => Possesses(g)
      BY <3>1, <3>2 DEF Possesses, Opens
    <3> QED BY <3>3, <3>4
  <2> QED BY <1>1, <2>1, <2>2, <2>3 DEF Whole, FilesApart, Find
<1>10. \A e \in Digests \ shared : blob[e] # i /\ (incoming[e] = i => UploadOwns(h, e))
  BY <1>1, <1>2, FileIsOwn
<1>11. ASSUME NEW g \in Handles PROVE UploadWhole(g)'
  <2>1. CASE g = h
    <3>1. ASSUME NEW e \in Digests \ shared, UploadOwns(h, e)
          PROVE  incoming[e] = i /\ data'[i] = up'[h].sum
      <4>1. incoming[e] = i /\ data[i] = u.sum
        BY <1>1, <1>2, <3>1 DEF UploadWhole
      <4>2. Written(u.sum, Len(u.sum), c.chunk) = Append(u.sum, c.chunk)
        BY <1>2, WrittenNext
      <4>3. c.offset = Len(u.sum)
        BY <1>1
      <4> HIDE DEF c, h, u, i
      <4> QED BY <1>4, <1>5, <4>1, <4>2, <4>3
    <3>2. /\ up'[h].ready /\ ~u.done /\ ~up'[h].done /\ UNCHANGED <<incoming, shared, phase>>
      BY <1>1, <1>2, <1>4 DEF UploadWhole
    <3>3. \A e \in Digests : UploadOwns(g, e)' => UploadOwns(g, e)
      BY <1>7
    <3> HIDE DEF c, h, u, i
    <3>4. UploadWhole(h) /\ h = g /\ u = up[h] /\ i = u.file
      BY <1>2, <2>1 DEF u, i
    <3> QED BY <1>4, <3>1, <3>2, <3>3, <3>4 DEF UploadWhole
  <2>2. CASE g # h
    <3>1. up'[g] = up[g] /\ UploadWhole(g) /\ up[g].file \in Inodes \cup {None}
      BY <1>3, <2>2, CallFacts DEF Whole, Upload
    <3>2. ASSUME NEW e \in Digests \ shared, UploadOwns(g, e), up[g].file # None
          PROVE  data'[up[g].file] = data[up[g].file]
      <4>1. incoming[e] = up[g].file /\ up[g].file \in Inodes
        BY <3>1, <3>2 DEF UploadWhole
      <4>2. up[g].file # i
        BY <1>2, <1>10, <2>2, <3>2, <4>1 DEF Whole, OneUser
      <4> QED BY <1>5, <4>1, <4>2
    <3>3. UNCHANGED <<incoming, shared, phase>>
      BY <1>1
    <3>4. \A e \in Digests : UploadOwns(g, e)' => UploadOwns(g, e)
      BY <1>7
    <3> HIDE DEF c, h, u, i
    <3> QED BY <3>1, <3>2, <3>3, <3>4 DEF UploadWhole
  <2> QED BY <2>1, <2>2
<1>12. ASSUME NEW q \in Procs PROVE CallWhole(call[q])'
  <2>1. CASE q = p
    BY <1>6, <2>1 DEF CallWhole, Opens, LockedPCs
  <2>2. CASE q # p
    <3>1. call'[q] = call[q] /\ CallWhole(call[q])
      BY <1>6, <2>2 DEF OneCall, Whole
    <3>2. ASSUME call[q].pc \in LockedPCs
          PROVE  /\ call[q].h \in Handles \ {h} /\ up'[call[q].h] = up[call[q].h]
                 /\ up[call[q].h].ready /\ up[call[q].h].digest \in Digests
      BY <1>1, <1>3, <3>2, LockedFacts DEF Locked
    <3>3. ASSUME call[q].pc \in {"intent", "publish"}, up[call[q].h].place = "incoming",
                 up[call[q].h].digest \notin shared
          PROVE  data'[incoming[up[call[q].h].digest]] = data[incoming[up[call[q].h].digest]]
      <4>1. /\ call[q].h \in Handles \ {h} /\ up[call[q].h].digest \in Digests \ shared
            /\ UploadOwns(call[q].h, up[call[q].h].digest)
        BY <3>1, <3>2, <3>3 DEF CallWhole, LockedPCs, UploadOwns
      <4>2. incoming[up[call[q].h].digest] # i
        BY <1>2, <1>10, <4>1 DEF Whole, OneUser
      <4>3. incoming[up[call[q].h].digest] \in Inodes
        BY <3>1, <3>3, <4>1, CallFacts DEF CallWhole, StoreTypeOK
      <4> QED BY <1>5, <4>2, <4>3
    <3>4. ASSUME Opens(call[q]), call[q].place = "incoming", call[q].digest \notin shared
          PROVE  data'[call[q].file] = data[call[q].file]
      <4>1. /\ call[q].digest \in Digests /\ call[q].file \in Inodes
            /\ incoming[call[q].digest] = call[q].file
        BY <3>1, <3>4, CallFacts DEF NamedCall, BeginPCs, Opens, Call, CallWhole
      <4>2. CallUses(q, call[q].digest)
        BY <3>4 DEF CallUses, Opens
      <4>3. call[q].file # i
        BY <1>2, <1>10, <3>4, <4>1, <4>2 DEF Whole, OneUser
      <4> QED BY <1>5, <4>1, <4>3
    <3>5. UNCHANGED <<incoming, shared>>
      BY <1>1
    <3>6. {"decide", "intent", "publish", "confirm", "demote"} \subseteq LockedPCs
      BY DEF LockedPCs
    <3> HIDE DEF c, h, u, i
    <3> QED BY <3>1, <3>2, <3>3, <3>4, <3>5, <3>6 DEF CallWhole, Opens
  <2> QED BY <2>1, <2>2
<1>13. PublishedWholeUnlessShared'
  BY <1>1, <1>5, <1>10, CallFacts DEF Whole, PublishedWholeUnlessShared, Find, StoreTypeOK
<1> QED BY <1>8, <1>9, <1>11, <1>12, <1>13 DEF Whole

\* An upload that was made ready has the file its Begin opened, by itself.
LEMMA ReadyWhole ==
    ASSUME TypeInv, Coherence, Staged, Whole, NEW p \in Procs, BeginReady(p)
    PROVE  Whole'
<1> DEFINE c == call[p]
<1>1. PICK h \in Handles : h = c.h
  BY CallFacts DEF BeginReady, Ready
<1>2. /\ c.pc = "settle" /\ c.outcome = "ready" /\ h \in uploads /\ ~Locked(h)
      /\ UNCHANGED <<storeVars, shared, issued, phase>> /\ Return(p)
      /\ \E e : up' = [up EXCEPT ![c.h].file = c.file, ![c.h].place = c.place,
                                 ![c.h].ready = TRUE, ![c.h].expires = e]
  BY <1>1 DEF BeginReady, Ready, UploadOnly, memory, ghosts
<1>3. /\ up \in [Handles -> Upload] /\ c.file # None /\ c.place # None /\ CallWhole(c)
      /\ UploadWhole(h) /\ phase # "down"
      /\ up[h].digest = c.digest /\ ~up[h].ready /\ ~up[h].done
  BY <1>1, <1>2, CallFacts DEF Coherence, Prepared, Prepares, PreparePCs, Staged, CallStaged,
                               UploadStaged, Recorded, Whole, CallWhole
<1>4. /\ up'[h].file = c.file /\ up'[h].place = c.place /\ up'[h].ready /\ ~up'[h].done
      /\ up'[h].digest = c.digest /\ up'[h].sum = <<>>
      /\ \A g \in Handles \ {h} : up'[g] = up[g]
  <2>1. PICK e : up' = [up EXCEPT ![c.h].file = c.file, ![c.h].place = c.place,
                                  ![c.h].ready = TRUE, ![c.h].expires = e]
    BY <1>2
  <2>2. /\ up'[h] = [up[h] EXCEPT !.file = c.file, !.place = c.place, !.ready = TRUE,
                                  !.expires = e]
        /\ \A g \in Handles \ {h} : up'[g] = up[g]
    BY <1>1, <1>3, <2>1
  <2> QED BY <1>3, <2>2 DEF Upload, UploadWhole
<1>5. OneCall(p) /\ call'[p].pc = "idle"
  BY <1>2, ReturnIdle
<1>6. Opens(c) /\ \A d \in Digests : c.place = "incoming" /\ c.digest = d => CallUses(p, d)
  BY <1>2, <1>3 DEF Opens, CallUses
<1>7. ASSUME NEW d \in Digests
      PROVE  /\ \A g \in Handles \ {h} : UploadOwns(g, d)' <=> UploadOwns(g, d)
             /\ UploadOwns(h, d)' => CallUses(p, d)
             /\ ~CallUses(p, d)'
             /\ \A q \in Procs \ {p} : CallUses(q, d)' <=> CallUses(q, d)
  BY <1>4, <1>5, <1>6 DEF UploadOwns, CallUses, OneCall
<1>8. OneUser'
  BY <1>1, <1>2, <1>7 DEF Whole, OneUser
<1>9. FilesApart'
  <2>1. Handles \subseteq Inodes /\ UNCHANGED <<blob, incoming>>
    BY <1>2 DEF Inodes, storeVars
  <2>2. \A j \in Inodes, e \in Digests : FileOf(j, e)' => FileOf(j, e)
    <3>1. \A q \in Procs : Opens(call'[q]) => call'[q] = call[q]
      BY <1>5 DEF OneCall, Opens
    <3> HIDE DEF c
    <3>2. c = call[p]
      BY DEF c
    <3> QED BY <1>4, <1>6, <2>1, <3>1, <3>2 DEF FileOf
  <2>3. \A g \in Handles : (Fresh(g)' => Fresh(g)) /\ (Possesses(g)' => Possesses(g))
    <3>1. UNCHANGED issued /\ \A q \in Procs : call'[q].pc # "idle" => call'[q] = call[q]
      BY <1>2, <1>5 DEF OneCall
    <3> HIDE DEF c
    <3>2. c = call[p]
      BY DEF c
    <3> QED BY <1>1, <1>4, <1>6, <3>1, <3>2 DEF Fresh, Possesses, Opens
  <2> QED BY <2>1, <2>2, <2>3 DEF Whole, FilesApart, Find
<1>10. ASSUME NEW g \in Handles PROVE UploadWhole(g)'
  <2>1. UNCHANGED <<incoming, data, shared, phase>>
    BY <1>2 DEF storeVars
  <2>2. CASE g = h
    <3>1. \A d \in Digests : UploadOwns(h, d)' => d = c.digest /\ c.place = "incoming"
      BY <1>4 DEF UploadOwns
    <3> HIDE DEF c
    <3> QED BY <1>1, <1>3, <1>4, <1>6, <2>1, <2>2, <3>1 DEF UploadWhole, CallWhole
  <2>3. CASE g # h
    BY <1>4, <1>7, <2>1, <2>3 DEF Whole, UploadWhole
  <2> QED BY <2>2, <2>3
<1>11. ASSUME NEW q \in Procs PROVE CallWhole(call[q])'
  <2>1. CASE q = p
    BY <1>5, <2>1 DEF CallWhole, Opens, LockedPCs
  <2>2. CASE q # p
    <3>1. call'[q] = call[q] /\ CallWhole(call[q])
      BY <1>5, <2>2 DEF OneCall, Whole
    <3>2. call[q].pc \in LockedPCs => up'[call[q].h] = up[call[q].h]
      BY <1>2, <1>4, LockedFacts DEF Locked
    <3>3. UNCHANGED <<incoming, data, shared>>
      BY <1>2 DEF storeVars
    <3>4. {"decide", "intent", "publish", "confirm", "demote"} \subseteq LockedPCs
      BY DEF LockedPCs
    <3> HIDE DEF c
    <3> QED BY <3>1, <3>2, <3>3, <3>4 DEF CallWhole, Opens
  <2> QED BY <2>1, <2>2
<1>12. PublishedWholeUnlessShared'
  BY <1>2 DEF Whole, PublishedWholeUnlessShared, Find, storeVars
<1> QED BY <1>8, <1>9, <1>10, <1>11, <1>12 DEF Whole

\* The inode that a Begin may create is nobody's yet.
LEMMA FreshFile ==
    ASSUME TypeInv, Coherence, Whole, NEW p \in Procs, call[p].pc \in {"find", "place", "open"}
    PROVE  /\ call[p].h \in Handles /\ call[p].h \in issued /\ call[p].digest \in Digests
           /\ Fresh(call[p].h) /\ ~Possesses(call[p].h)
           /\ \A e \in Digests : ~FileOf(call[p].h, e)
           /\ \A q \in Procs \ {p} : call[q].pc \in PreparePCs => call[q].h # call[p].h
<1> DEFINE h == call[p].h
<1>1. h \in Handles /\ h \in issued /\ call[p].digest \in Digests /\ Fresh(h)
  BY CallFacts DEF NamedCall, BeginPCs, Fresh
<1>2. \A q \in Procs \ {p} : call[q].pc \in PreparePCs => call[q].h # h
  BY DEF Coherence, Prepared, PreparePCs
<1>3. ~up[h].ready
  BY DEF Coherence, Prepared, Prepares, PreparePCs
<1>4. up[h].file = None
  BY <1>1, <1>3 DEF Whole, UploadWhole
<1>5. ~Possesses(h)
  BY <1>2, <1>4 DEF Possesses, Opens, PreparePCs
<1> QED BY <1>1, <1>2, <1>5 DEF Whole, FilesApart

\* The possession file of a Begin is no object's path.
LEMMA PossessionWhole ==
    ASSUME TypeInv, Coherence, Whole, NEW p \in Procs, PrepareFind(p),
           Find(call[p].digest), call[p].proof
    PROVE  Whole'
<1> DEFINE c == call[p]
<1>1. PICK h \in Handles : h = c.h
  BY FreshFile DEF PrepareFind, Ready
<1>2. /\ c.pc = "find" /\ CreatePossession(h)
      /\ UNCHANGED <<up, shared, issued, phase, blob, incoming>>
      /\ call' = [call EXCEPT ![p].pc = "settle", ![p].outcome = "ready", ![p].file = h,
                              ![p].place = "possession"]
  BY <1>1 DEF PrepareFind, Ready, FilesOnly, ghosts, CreatePossession
<1>3. /\ h \in issued /\ c.digest \in Digests /\ Fresh(h)
      /\ \A e \in Digests : ~FileOf(h, e)
      /\ \A q \in Procs \ {p} : call[q].pc \in PreparePCs => call[q].h # h
  BY <1>1, <1>2, FreshFile
<1>4. /\ OneCall(p) /\ call'[p].pc = "settle" /\ call'[p].outcome = "ready"
      /\ call'[p].file = h /\ call'[p].place = "possession" /\ call'[p].h = h
      /\ call'[p].digest = c.digest
  BY <1>1, <1>2, CallFacts DEF OneCall, Call
<1>5. h \in Inodes /\ Handles \subseteq Inodes /\ h # None
  BY NamesAssumption DEF Inodes
<1>6. \A j \in Inodes \ {h} : data'[j] = data[j]
  BY <1>2, CallFacts DEF CreatePossession, StoreTypeOK
<1>7. up' = up /\ shared' = shared /\ issued' = issued /\ blob' = blob /\ incoming' = incoming
  BY <1>2
<1>8. /\ \A g \in Handles, e \in Digests : UploadOwns(g, e)' <=> UploadOwns(g, e)
      /\ \A q \in Procs, e \in Digests : CallUses(q, e)' => CallUses(q, e)
  BY <1>2, <1>4 DEF UploadOwns, CallUses, OneCall
<1>9. OneUser'
  BY <1>2, <1>8 DEF Whole, OneUser
<1>10. FilesApart'
  <2>1. \A j \in Inodes, e \in Digests : FileOf(j, e)' => FileOf(j, e) \/ (j = h /\ e = c.digest)
    <3>1. \A q \in Procs \ {p} : call'[q] = call[q]
      BY <1>4 DEF OneCall
    <3> HIDE DEF c
    <3> QED BY <1>4, <1>7, <3>1 DEF FileOf, Opens
  <2>2. ASSUME NEW g \in Handles, Possesses(g)' PROVE Possesses(g) \/ g = h
    <3>1. CASE up'[g].file # None /\ up'[g].place = "possession"
      BY <1>7, <3>1 DEF Possesses
    <3>2. CASE \E q \in Procs : /\ Opens(call'[q]) /\ call'[q].place = "possession"
                                /\ call'[q].h = g
      BY <1>4, <3>2 DEF Possesses, OneCall
    <3> QED BY <2>2, <3>1, <3>2 DEF Possesses
  <2>3. \A g \in Handles : Fresh(g)' => Fresh(g) /\ g # h
    BY <1>3, <1>4, <1>7 DEF Fresh, OneCall, PreparePCs
  <2>4. \A e \in Digests : blob[e] # h /\ incoming[e] # h
    BY <1>3 DEF FileOf
  <2> HIDE DEF c
  <2> USE DEF Whole, FilesApart
  <2>5. \A j \in Inodes, e, f \in Digests : FileOf(j, e)' /\ FileOf(j, f)' => e = f
    BY <1>3, <2>1
  <2>6. \A g \in Handles, e \in Digests : Fresh(g)' => ~FileOf(g, e)'
    BY <1>5, <2>1, <2>3
  <2>7. \A g \in Handles, e \in Digests : Possesses(g)' => blob'[e] # g /\ incoming'[e] # g
    BY <1>2, <2>2, <2>4
  <2> QED BY <1>2, <2>5, <2>6, <2>7 DEF Find
<1>11. ASSUME NEW g \in Handles PROVE UploadWhole(g)'
  <2>1. UploadWhole(g) /\ up[g].file \in Inodes \cup {None}
    BY CallFacts DEF Whole, Upload
  <2>2. ASSUME NEW e \in Digests, UploadOwns(g, e), up[g].file # None
        PROVE  data'[up[g].file] = data[up[g].file]
    BY <1>3, <1>6, <2>1, <2>2 DEF UploadOwns, FileOf
  <2> HIDE DEF c
  <2> QED BY <1>2, <1>8, <2>1, <2>2 DEF UploadWhole
<1>12. ASSUME NEW q \in Procs PROVE CallWhole(call[q])'
  <2>1. CASE q = p
    BY <1>4, <1>5, <2>1, WriterAssumption DEF CallWhole, Opens, LockedPCs, Places
  <2>2. CASE q # p
    <3>1. call'[q] = call[q] /\ CallWhole(call[q])
      BY <1>4, <2>2 DEF OneCall, Whole
    <3>2. ASSUME call[q].pc \in {"intent", "publish"}, incoming[up[call[q].h].digest] # None
          PROVE  data'[incoming[up[call[q].h].digest]] = data[incoming[up[call[q].h].digest]]
      <4>1. up[call[q].h].digest \in Digests
        BY <3>2, LockedFacts DEF LockedPCs
      <4>2. incoming[up[call[q].h].digest] \in Inodes \ {h}
        BY <1>3, <3>2, <4>1, CallFacts DEF FileOf, StoreTypeOK
      <4> QED BY <1>6, <4>2
    <3>3. ASSUME Opens(call[q])
          PROVE  data'[call[q].file] = data[call[q].file]
      <4>1. call[q].digest \in Digests /\ call[q].file \in Inodes
        BY <3>1, <3>3, CallFacts DEF NamedCall, BeginPCs, Opens, Call, CallWhole
      <4>2. call[q].file # h
        BY <1>3, <3>3, <4>1 DEF FileOf
      <4> QED BY <1>6, <4>1, <4>2
    <3> HIDE DEF c
    <3> QED BY <1>7, <3>1, <3>2, <3>3 DEF CallWhole, Opens
  <2> QED BY <2>1, <2>2
<1>13. PublishedWholeUnlessShared'
  <2>1. \A e \in Digests : blob[e] \in Inodes \cup {None} /\ blob[e] # h
    BY <1>3, CallFacts DEF FileOf, StoreTypeOK
  <2> QED BY <1>2, <1>6, <2>1 DEF Whole, PublishedWholeUnlessShared, Find
<1> QED BY <1>9, <1>10, <1>11, <1>12, <1>13 DEF Whole

\* A Begin opens the path of its own object, which empties no file of another
\* one; an object that was published, or that somebody stages, is shared then.
LEMMA OpenWhole ==
    ASSUME TypeInv, Coherence, Whole, NEW p \in Procs, PrepareOpen(p)
    PROVE  Whole'
<1> DEFINE c == call[p]
<1>1. PICK h \in Handles, d \in Digests, i \in Inodes :
        h = c.h /\ d = c.digest /\ i = Opened(h, d, c.place)
  <2>1. c.pc = "open" /\ c.place \in {"blob", "incoming"} /\ c.h \in Handles /\ c.digest \in Digests
    BY FreshFile, CallFacts DEF PrepareOpen, Ready, NamedCall
  <2>2. At(c.h, c.digest, c.place) \in Inodes \cup {None}
    BY <2>1, CallFacts DEF At, StoreTypeOK
  <2> QED BY <2>1, <2>2 DEF Opened, Inodes
<1>2. /\ c.pc = "open" /\ OpenStaging(h, d, c.place) /\ UNCHANGED <<up, issued, phase>>
      /\ call' = [call EXCEPT ![p].pc = "check", ![p].file = i]
      /\ shared' = IF c.place = "blob" \/ Used(p, d) THEN shared \cup {d} ELSE shared
      /\ c.place \in {"blob", "incoming"}
  BY <1>1, CallFacts DEF PrepareOpen, Ready, NamedCall
<1>3. /\ h \in issued /\ Fresh(h) /\ ~Possesses(h) /\ h \in Inodes /\ h # None /\ h \notin Digests
      /\ \A e \in Digests : ~FileOf(h, e)
      /\ \A q \in Procs \ {p} : call[q].pc \in PreparePCs => call[q].h # h
      /\ None \notin Inodes /\ Handles \subseteq Inodes
  BY <1>1, <1>2, FreshFile, NamesAssumption DEF Inodes
<1>4. /\ OneCall(p) /\ call'[p].pc = "check" /\ call'[p].file = i /\ call'[p].place = c.place
      /\ call'[p].h = h /\ call'[p].digest = d
  BY <1>1, <1>2, CallFacts DEF OneCall, Call
<1>5. UNCHANGED up /\ UNCHANGED issued /\ UNCHANGED phase /\ shared \subseteq shared'
  BY <1>2
<1>6. /\ data'[i] = <<>> /\ \A j \in Inodes \ {i} : data'[j] = data[j]
      /\ \A e \in Digests \ {d} : blob'[e] = blob[e] /\ incoming'[e] = incoming[e]
      /\ blob'[d] = IF c.place = "blob" THEN i ELSE blob[d]
      /\ incoming'[d] = IF c.place = "incoming" THEN i ELSE incoming[d]
  BY <1>1, <1>2, CallFacts DEF OpenStaging, StoreTypeOK
<1>7. /\ i = h \/ FileOf(i, d)
      /\ c.place = "blob" => i = h \/ i = blob[d]
      /\ c.place = "incoming" => i = h \/ i = incoming[d]
  BY <1>1, <1>2 DEF Opened, At, FileOf
<1>8. \A e \in Digests \ {d} : ~FileOf(i, e)
  BY <1>3, <1>7 DEF Whole, FilesApart
<1>9. \A j \in Inodes, e \in Digests : FileOf(j, e)' => FileOf(j, e) \/ (j = i /\ e = d)
  <2>1. \A q \in Procs \ {p} : call'[q] = call[q]
    BY <1>4 DEF OneCall
  <2> HIDE DEF c
  <2> QED BY <1>3, <1>4, <1>5, <1>6, <2>1 DEF FileOf, Opens
<1>10. ASSUME d \notin shared'
       PROVE  /\ c.place = "incoming"
              /\ \A g \in Handles : ~UploadOwns(g, d)
              /\ \A q \in Procs \ {p} : ~CallUses(q, d)
  BY <1>1, <1>2, <1>10 DEF Used, UploadOwns, CallUses
<1>11. /\ \A g \in Handles, e \in Digests : UploadOwns(g, e)' <=> UploadOwns(g, e)
       /\ \A q \in Procs \ {p}, e \in Digests : CallUses(q, e)' <=> CallUses(q, e)
       /\ \A e \in Digests : CallUses(p, e)' => e = d
  BY <1>4, <1>5 DEF UploadOwns, CallUses, OneCall
<1>12. OneUser'
  BY <1>5, <1>10, <1>11 DEF Whole, OneUser
<1>13. FilesApart'
  <2>1. \A g \in Handles : (Fresh(g)' => Fresh(g) /\ g # h) /\ (Possesses(g)' => Possesses(g))
    <3>1. \A q \in Procs \ {p} : call'[q] = call[q]
      BY <1>4 DEF OneCall
    <3> HIDE DEF c
    <3>2. \A g \in Handles : Fresh(g)' => Fresh(g) /\ g # h
      BY <1>3, <1>4, <1>5, <3>1 DEF Fresh, PreparePCs
    <3>3. "blob" # "possession" /\ "incoming" # "possession"
      OBVIOUS
    <3>4. \A g \in Handles : Possesses(g)' => Possesses(g)
      BY <1>2, <1>4, <1>5, <3>1, <3>3 DEF Possesses, Opens
    <3> QED BY <3>2, <3>4
  <2>2. \A e \in Digests : blob[e] # h /\ incoming[e] # h
    BY <1>3 DEF FileOf
  <2>3. \A e \in Digests : /\ blob'[e] = blob[e] \/ (e = d /\ blob'[e] = h)
                           /\ incoming'[e] = incoming[e] \/ (e = d /\ incoming'[e] = h)
                           /\ blob'[e] = blob[e] \/ incoming'[e] = incoming[e]
    BY <1>2, <1>6, <1>7
  <2> HIDE DEF c
  <2> USE DEF Whole, FilesApart
  <2>4. \A j \in Inodes, e, f \in Digests : FileOf(j, e)' /\ FileOf(j, f)' => e = f
    BY <1>8, <1>9
  <2>5. \A g \in Handles, e \in Digests : Fresh(g)' => ~FileOf(g, e)'
    BY <1>3, <1>7, <1>9, <2>1
  <2>6. \A g \in Handles, e \in Digests : Possesses(g)' => blob'[e] # g /\ incoming'[e] # g
    BY <1>3, <2>1, <2>3
  <2>7. \A e, f \in Digests : incoming'[e] # f /\ (blob'[e] = f => e = f)
    BY <1>3, <2>3
  <2>8. \A e \in Digests : Find(e)' => blob'[e] # incoming'[e]
    BY <1>3, <2>2, <2>3 DEF Find
  <2> QED BY <2>4, <2>5, <2>6, <2>7, <2>8
<1>14. ASSUME NEW g \in Handles PROVE UploadWhole(g)'
  <2>1. UploadWhole(g) /\ up[g].file \in Inodes \cup {None}
    BY CallFacts DEF Whole, Upload
  <2>2. ASSUME NEW e \in Digests \ shared', UploadOwns(g, e), up[g].file # None
        PROVE  incoming'[e] = incoming[e] /\ data'[up[g].file] = data[up[g].file]
    <3>1. e # d
      BY <1>10, <2>2
    <3>2. FileOf(up[g].file, e)
      BY <2>2 DEF UploadOwns, FileOf
    <3> QED BY <1>6, <1>8, <2>1, <2>2, <3>1, <3>2
  <2> HIDE DEF c
  <2> QED BY <1>5, <1>11, <2>1, <2>2 DEF UploadWhole
<1>15. ASSUME NEW q \in Procs PROVE CallWhole(call[q])'
  <2>1. CASE q = p
    <3>1. call'[p].place = "blob" => d \in shared'
      BY <1>4, <1>10
    <3>2. call'[p].place = "incoming" => incoming'[d] = i /\ data'[i] = <<>>
      BY <1>4, <1>6
    <3> QED BY <1>2, <1>3, <1>4, <2>1, <3>1, <3>2 DEF CallWhole, Opens, LockedPCs
  <2>2. CASE q # p
    <3>1. call'[q] = call[q] /\ CallWhole(call[q])
      BY <1>4, <2>2 DEF OneCall, Whole
    <3>2. ASSUME call[q].pc \in {"intent", "publish"}, up[call[q].h].place = "incoming",
                 up[call[q].h].digest \notin shared'
          PROVE  /\ incoming'[up[call[q].h].digest] = incoming[up[call[q].h].digest]
                 /\ data'[incoming[up[call[q].h].digest]] = data[incoming[up[call[q].h].digest]]
      <4>1. /\ up[call[q].h].digest \in Digests /\ up[call[q].h].digest \notin shared
            /\ call[q].h \in Handles /\ UploadOwns(call[q].h, up[call[q].h].digest)
        BY <1>5, <3>1, <3>2, LockedFacts DEF CallWhole, LockedPCs, UploadOwns
      <4>2. up[call[q].h].digest # d
        BY <1>10, <3>2, <4>1
      <4>3. incoming[up[call[q].h].digest] \in Inodes \ {i}
        BY <1>8, <3>1, <3>2, <4>1, <4>2, CallFacts DEF CallWhole, FileOf, StoreTypeOK
      <4> QED BY <1>6, <4>1, <4>2, <4>3
    <3>3. ASSUME Opens(call[q]), call[q].place = "incoming", call[q].digest \notin shared'
          PROVE  /\ incoming'[call[q].digest] = incoming[call[q].digest]
                 /\ data'[call[q].file] = data[call[q].file]
      <4>1. call[q].digest \in Digests /\ call[q].file \in Inodes
        BY <3>1, <3>3, CallFacts DEF NamedCall, BeginPCs, Opens, Call, CallWhole
      <4>2. CallUses(q, call[q].digest)
        BY <3>3 DEF CallUses, Opens
      <4>3. call[q].digest # d
        BY <1>10, <2>2, <3>3, <4>2
      <4>4. call[q].file # i
        BY <1>8, <3>3, <4>1, <4>3 DEF FileOf
      <4> QED BY <1>6, <4>1, <4>3, <4>4
    <3> HIDE DEF c
    <3> QED BY <1>5, <3>1, <3>2, <3>3 DEF CallWhole, Opens
  <2> QED BY <2>1, <2>2
<1>16. PublishedWholeUnlessShared'
  <2>1. ASSUME NEW e \in Digests \ shared', blob'[e] # None
        PROVE  blob'[e] = blob[e] /\ blob[e] \in Inodes \ {i}
    <3>1. blob'[e] = blob[e] /\ blob[e] \in Inodes
      BY <1>6, <1>10, <2>1, CallFacts DEF StoreTypeOK
    <3>2. FileOf(blob[e], e)
      BY DEF FileOf
    <3>3. e = d => blob[e] # h /\ blob[e] # incoming[e]
      BY <1>3, <2>1, <3>1, <3>2 DEF Whole, FilesApart, Find
    <3> QED BY <1>7, <1>8, <1>10, <2>1, <3>1, <3>2, <3>3
  <2> HIDE DEF c
  <2> QED BY <1>5, <1>6, <2>1 DEF Whole, PublishedWholeUnlessShared, Find
<1> QED BY <1>12, <1>13, <1>14, <1>15, <1>16 DEF Whole

-----------------------------------------------------------------------------
(* Every step, once more.                                                  *)

\* A step of a call in progress.
LEMMA WorkWhole ==
    ASSUME TypeInv, Coherence, Staged, Whole, NEW p \in Procs, Work(p)
    PROVE  Whole'
<1>1. CASE Recedes(p)
  BY <1>1, WholeRecedes
<1>2. CASE Waiting(p) \/ AppendAdmit(p) \/ AppendFails(p) \/ AbortUpload(p)
  BY <1>1, <1>2, DiscardRecedes, QuietlyRecedes, AppendWhole, CommitRecedes, FindsRecede,
     DropRecedes DEF Waiting
<1>3. CASE Begin(p)
  BY <1>1, <1>3, QuietlyRecedes, FindsRecede, StartRecedes, PrepareRecedes, PossessionWhole,
     OpenWhole, ReadyWhole, FailedRecedes, CleanupRecedes DEF Begin
<1>4. CASE Commit(p)
  BY <1>1, <1>4, FindsRecede, QuietlyRecedes, SyncRecedes, CommitRecedes, CommitPublishWhole,
     FinishRecedes, DropRecedes DEF Commit
<1> QED BY <1>2, <1>3, <1>4 DEF Work

\* Every step, crashes and other owners of the store included.
LEMMA NextWhole ==
    ASSUME TypeInv, Coherence, Staged, Whole, [Next]_vars
    PROVE  Whole'
<1>1. ASSUME NEW p \in Procs, Recedes(p) PROVE Whole'
  BY <1>1, WholeRecedes
<1>2. ASSUME NEW p \in Procs, Work(p) PROVE Whole'
  BY <1>2, WorkWhole
<1>3. ASSUME NEW p \in Callers, CallStarts(p) PROVE Whole'
  BY <1>1, <1>3, SweepsRecede DEF Procs
<1>4. CASE SweepTick
  BY <1>1, <1>4, TickerProc, SweepsRecede
<1>5. CASE Environment \/ UNCHANGED vars
  BY <1>1, <1>5, TickerProc, QuietEnvironmentRecedes, StartupRecedes, CrashWhole, PublishWhole
     DEF Environment
<1> QED BY <1>2, <1>3, <1>4, <1>5 DEF Next

\* The initial states.
LEMMA InitWhole == Init => Whole
<1> SUFFICES ASSUME Init PROVE Whole
  OBVIOUS
<1>1. /\ \A q \in Procs : call[q] = NoCall
      /\ \A h \in Handles : up[h] = NoUpload
      /\ \A d \in Digests : incoming[d] = None /\ blob[d] = None
      /\ phase = "serving" /\ None \notin Inodes /\ Digests \subseteq Inodes
      /\ Handles \subseteq Inodes
  BY NamesAssumption DEF Init, StoreInit, Inodes
<1>2. OneUser
  BY <1>1 DEF OneUser, UploadOwns, CallUses, NoCall, NoUpload
<1>3. FilesApart
  <2>1. \A i \in Inodes, d \in Digests : ~FileOf(i, d)
    BY <1>1 DEF FileOf, Opens, NoCall, NoUpload
  <2>2. \A h \in Handles : ~Possesses(h)
    BY <1>1 DEF Possesses, Opens, NoCall, NoUpload
  <2> QED BY <1>1, <2>1, <2>2 DEF FilesApart, Find
<1>4. (\A h \in Handles : UploadWhole(h)) /\ (\A p \in Procs : CallWhole(call[p]))
  BY <1>1 DEF UploadWhole, CallWhole, Opens, LockedPCs, NoCall, NoUpload
<1>5. PublishedWholeUnlessShared
  BY <1>1 DEF PublishedWholeUnlessShared, Find
<1> QED BY <1>2, <1>3, <1>4, <1>5 DEF Whole

\* No file is of two objects, and what a staging path that was never shared
\* holds is what its one user wrote, across every step: crashes, failures, and
\* other owners of the store that publish and remove objects.
THEOREM WholeHolds == Spec => []Whole
<1>1. WriterInv /\ Staged /\ Whole /\ [Next]_vars => Whole'
  BY WriterInvParts, NextWhole
<1> QED BY <1>1, InitWhole, StagedHolds, WriterInvariantHolds, PTL DEF Spec

\* An object that can be found has exactly the bytes its digest names, as long
\* as its staging path was never used by two uploads at a time and no upload was
\* placed at the published object itself (STO-W5; content.go:111).
THEOREM PublishedWholeHolds == Spec => []PublishedWholeUnlessShared
<1>1. Whole => PublishedWholeUnlessShared
  BY DEF Whole
<1> QED BY <1>1, WholeHolds, PTL

=============================================================================
