-------------------------- MODULE WriterRecordsProofs --------------------------
(***************************************************************************)
(* The identities of the writer and its limits: an identity is bound to    *)
(* one object for its retention, a published result stands until it        *)
(* expires, and no interleaving exceeds the configured numbers.            *)
(*                                                                         *)
(* All but two steps of calls only take uploads and identities away, or    *)
(* results back; BeginStart binds an identity and CommitIntent records a   *)
(* result, and these two write the record file or do not happen.           *)
(***************************************************************************)
EXTENDS WriterProofs, FiniteSetTheorems

-----------------------------------------------------------------------------
(* What a step may do to the records and the uploads.                      *)

\* r becomes s: forgotten, or the same object, with no hashed result that it
\* did not have.
Shrinks(r, s) ==
    \/ s = NoRecord
    \/ /\ s.digest = r.digest /\ s.size = r.size
       /\ s.evidence = "hashed" => r.evidence = "hashed" /\ s.expires = r.expires
       /\ s.evidence # None => r.evidence # None \/ r.digest # None

Saves == disk' = disk \/ disk' = Image(records')

RecordsShrink == \A k \in Keys : Shrinks(records[k], records'[k])

UploadsShrink == uploads' \subseteq uploads /\ \A h \in uploads' : up'[h].key = up[h].key

\* The result of k was hashed, has not expired, and no commit may take it back.
Stands(k) ==
    /\ records[k].digest # None /\ records[k].evidence = "hashed"
    /\ now < records[k].expires
    /\ ~\E h \in Handles : up[h].key = k /\ Committing(h)

ResultsStand ==
    \A k \in Keys : Stands(k) => /\ records'[k].evidence = "hashed"
                                 /\ records'[k].digest = records[k].digest

\* A step that binds nothing and records no result; nothing is saved once the
\* component closed.
Modest ==
    /\ RecordsShrink /\ UploadsShrink /\ Saves /\ ResultsStand
    /\ phase' = phase
    /\ phase # "serving" => disk' = disk

\* The ways in which the code changes a record it does not record a result in.
LEMMA ShrinkValues ==
    ASSUME NEW r \in Record, NEW h, NEW forget
    PROVE  /\ Shrinks(r, r) /\ Shrinks(r, NoRecord)
           /\ Shrinks(r, Released(r)) /\ Shrinks(r, Dropped(r, h, forget))
           /\ Shrinks(r, [r EXCEPT !.evidence = None, !.by = None])
<1>1. Shrinks(r, [r EXCEPT !.handle = None])
  BY DEF Shrinks, Record
<1>2. Shrinks(r, r) /\ Shrinks(r, NoRecord)
  BY DEF Shrinks
<1>3. Shrinks(r, [r EXCEPT !.evidence = None, !.by = None])
  BY WriterAssumption DEF Shrinks, Record
<1> QED BY <1>1, <1>2, <1>3 DEF Released, Dropped

\* None is none of the words.
LEMMA NoneIsNoWord ==
    /\ None \notin {"hashed", "named", "blob", "incoming", "possession"}
    /\ None \notin Handles /\ None \notin Digests /\ None \notin Keys
  BY NamesAssumption, WriterAssumption DEF Inodes, Places

\* A result that stands has no live upload.
LEMMA StandsAlone ==
    ASSUME TypeInv, Coherence, NEW k \in Keys, Stands(k)
    PROVE  records[k].handle = None
<1>1. SUFFICES ASSUME records[k].handle # None PROVE FALSE
  OBVIOUS
<1>2. /\ Committing(records[k].handle) /\ records[k].handle \in uploads
      /\ up[records[k].handle].key = k /\ uploads \subseteq Handles
  BY <1>1, NoneIsNoWord DEF Stands, Coherence, Recorded, IndexCoherent, TypeInv, WriterTypeOK
<1> QED BY <1>2 DEF Stands

\* A step that leaves memory and file alone is modest.
LEMMA QuietModest ==
    ASSUME TypeInv, UNCHANGED <<memory, disk, phase>>,
           \A h \in Handles : up'[h].key = up[h].key
    PROVE  Modest
<1>1. records \in [Keys -> Record] /\ uploads \subseteq Handles
  BY DEF TypeInv, WriterTypeOK
<1>2. RecordsShrink
  BY <1>1, ShrinkValues DEF RecordsShrink, memory
<1> QED BY <1>1, <1>2 DEF Modest, UploadsShrink, Saves, ResultsStand, Stands, memory

\* What a step of a call does to an upload, other than to start it.
KeyKeeping(h, e, s, f, x) ==
    \/ up' = [up EXCEPT ![h].done = TRUE, ![h].file = None]
    \/ up' = [up EXCEPT ![h].done = TRUE]
    \/ up' = [up EXCEPT ![h].file = None]
    \/ up' = [up EXCEPT ![h].expires = e]
    \/ up' = [up EXCEPT ![h].sum = s]
    \/ up' = [up EXCEPT ![h].file = f, ![h].place = x, ![h].ready = TRUE, ![h].expires = e]

\* It leaves every upload its request.
LEMMA KeyStays ==
    ASSUME TypeInv, NEW h, NEW e, NEW s, NEW f, NEW x, KeyKeeping(h, e, s, f, x)
    PROVE  \A g \in Handles : up'[g].key = up[g].key
<1>1. up \in [Handles -> Upload]
  BY DEF TypeInv, WriterTypeOK
<1> SUFFICES ASSUME NEW g \in Handles PROVE up'[g].key = up[g].key
  OBVIOUS
<1>2. up[g] \in Upload
  BY <1>1
<1>3. CASE up' = [up EXCEPT ![h].done = TRUE, ![h].file = None]
  BY <1>1, <1>2, <1>3 DEF Upload
<1>4. CASE up' = [up EXCEPT ![h].done = TRUE]
  BY <1>1, <1>2, <1>4 DEF Upload
<1>5. CASE up' = [up EXCEPT ![h].file = None]
  BY <1>1, <1>2, <1>5 DEF Upload
<1>6. CASE up' = [up EXCEPT ![h].expires = e]
  BY <1>1, <1>2, <1>6 DEF Upload
<1>7. CASE up' = [up EXCEPT ![h].sum = s]
  BY <1>1, <1>2, <1>7 DEF Upload
<1>8. CASE up' = [up EXCEPT ![h].file = f, ![h].place = x, ![h].ready = TRUE, ![h].expires = e]
  BY <1>1, <1>2, <1>8 DEF Upload
<1> QED BY <1>3, <1>4, <1>5, <1>6, <1>7, <1>8 DEF KeyKeeping

\* The steps of calls that change neither a record nor an index.
LEMMA QuietWorkModest ==
    ASSUME TypeInv, NEW p \in Procs, UNCHANGED <<memory, disk, phase>>,
           Work(p), ~BeginStart(p)
    PROVE  Modest
<1>1. \/ UNCHANGED up
      \/ \E h, e, s, f, x : KeyKeeping(h, e, s, f, x)
  <2>1. CASE Waiting(p)
    BY <2>1 DEF Waiting, Discard, Await, AppendWrite, CommitVerify, CallOnly, KeyKeeping
  <2>2. CASE BeginRefused(p) \/ BeginReplay(p) \/ BeginResume(p) \/ BeginUnsaved(p)
    BY <2>2 DEF BeginRefused, BeginReplay, BeginResume, BeginUnsaved, IndexOnly, KeyKeeping
  <2>3. CASE \/ PrepareFind(p) \/ PreparePlace(p) \/ PrepareOpen(p) \/ PrepareCheck(p)
             \/ PrepareFails(p)
    BY <2>3 DEF PrepareFind, PreparePlace, PrepareOpen, PrepareCheck, PrepareFails,
                CallOnly, FilesOnly
  <2>4. CASE BeginPresent(p) \/ BeginFailed(p) \/ BeginCleanup(p)
    BY <2>4 DEF BeginPresent, BeginFailed, BeginCleanup, IndexOnly, FilesOnly
  <2>7. CASE BeginReady(p)
    <3>1. up' = [up EXCEPT ![call[p].h].file = call[p].file, ![call[p].h].place = call[p].place,
                           ![call[p].h].ready = TRUE,
                           ![call[p].h].expires = now + IdleLifetime]
      BY <2>7 DEF BeginReady
    <3>2. KeyKeeping(call[p].h, now + IdleLifetime, <<>>, call[p].file, call[p].place)
      BY <3>1 DEF KeyKeeping
    <3> QED BY <3>2
  <2>5. CASE AppendAdmit(p) \/ AppendFails(p) \/ AbortUpload(p)
    BY <2>5 DEF AppendAdmit, AppendFails, AbortUpload, IndexOnly, KeyKeeping
  <2>6. CASE Commit(p)
    BY <2>6 DEF Commit, CommitLookup, CallEnds, CommitRefused, CommitSync, CommitIntent,
                CommitUnrecorded, CommitPublish, CommitUnpublished, CommitFinish, CommitLost,
                CommitDemote, CommitDrop, Unlinking, IndexOnly, CallOnly, FilesOnly, KeyKeeping
  <2> QED BY <2>1, <2>2, <2>3, <2>4, <2>5, <2>6, <2>7 DEF Work, Begin
<1>3. \A h \in Handles : up'[h].key = up[h].key
  BY <1>1, KeyStays
<1> QED BY <1>3, QuietModest

\* unlink, with the save that the code makes of it.
LEMMA UnlinkModest ==
    ASSUME TypeInv, Coherence, NEW h \in Handles, NEW forget \in BOOLEAN,
           Unlink(h, forget), up[h].key \in Keys,
           \/ disk' = disk
           \/ records[up[h].key].handle = h /\ Save,
           \A g \in Handles : up'[g].key = up[g].key, phase' = phase
    PROVE  Modest
<1>1. records \in [Keys -> Record] /\ uploads \subseteq Handles
  BY DEF TypeInv, WriterTypeOK
<1>2. /\ records' = [records EXCEPT ![up[h].key] = Dropped(@, h, forget)]
      /\ uploads' \subseteq uploads
  BY DEF Unlink, Unindex
<1>3. \A k \in Keys : records'[k] \in {records[k], Dropped(records[k], h, forget)}
  BY <1>1, <1>2
<1>4. RecordsShrink
  <2>1. ASSUME NEW k \in Keys PROVE Shrinks(records[k], records'[k])
    <3>1. records[k] \in Record
      BY <1>1
    <3>2. Shrinks(records[k], records[k]) /\ Shrinks(records[k], Dropped(records[k], h, forget))
      BY <3>1, ShrinkValues
    <3> QED BY <1>3, <3>2
  <2> QED BY <2>1 DEF RecordsShrink
<1>5. ResultsStand
  <2>1. ASSUME NEW k \in Keys, Stands(k) PROVE records'[k] = records[k]
    BY <1>3, <2>1, StandsAlone, NoneIsNoWord DEF Dropped
  <2> QED BY <2>1 DEF ResultsStand, Stands
<1>6. phase # "serving" => disk' = disk
  BY NoneIsNoWord DEF Coherence, Recorded
<1>7. Saves
  BY DEF Saves, Save
<1> QED BY <1>1, <1>2, <1>4, <1>5, <1>6, <1>7 DEF Modest, UploadsShrink

\* The sweep that begins every call.
LEMMA SweepModest ==
    ASSUME TypeInv, Coherence, Sweep, UNCHANGED <<up, phase>>, phase = "serving"
    PROVE  Modest
<1>1. records \in [Keys -> Record] /\ uploads \subseteq Handles
  BY DEF TypeInv, WriterTypeOK
<1>2. /\ \A k \in Keys : records'[k] = IF Lapsed(Released(records[k])) THEN NoRecord
                                       ELSE Released(records[k])
      /\ uploads' \subseteq uploads
  BY DEF Sweep, Unindex
<1>3. RecordsShrink
  BY <1>1, <1>2, ShrinkValues DEF RecordsShrink
<1>4. ResultsStand
  <2>1. ASSUME NEW k \in Keys, Stands(k) PROVE records'[k] = records[k]
    <3>1. records[k].handle = None
      BY <2>1, StandsAlone
    <3>2. Released(records[k]) = records[k]
      BY <1>1, <3>1, NoneIsNoWord DEF Released, Expired
    <3>3. ~Lapsed(records[k])
      <4>1. now < records[k].expires /\ records[k].expires \in Nat /\ now \in Nat
        BY <1>1, <2>1 DEF Stands, Record, TypeInv, WriterTypeOK
      <4> QED BY <4>1 DEF Lapsed
    <3> QED BY <1>2, <3>2, <3>3
  <2> QED BY <2>1 DEF ResultsStand, Stands
<1>5. Saves
  BY DEF Sweep, Saves, Save
<1> QED BY <1>2, <1>3, <1>4, <1>5 DEF Modest, UploadsShrink

\* A Begin that ends early may have forgotten a present answer.
LEMMA KeepModest ==
    ASSUME TypeInv, Coherence, NEW p \in Procs, BeginRefused(p) \/ BeginUnsaved(p)
    PROVE  Modest
<1> DEFINE c == call[p]
<1>1. /\ c.pc = "begin" /\ Keep(c) /\ UNCHANGED <<uploads, disk, up, phase>>
  BY DEF BeginRefused, BeginUnsaved, Ready, IndexOnly
<1>2. c.key \in Keys /\ records \in [Keys -> Record]
  BY <1>1, BeginFacts DEF BeginPCs, TypeInv, WriterTypeOK
<1> HIDE DEF c
<1>3. \/ Current(c) = records[c.key]
      \/ /\ records[c.key].evidence = "named"
         /\ Current(c) = [records[c.key] EXCEPT !.evidence = None, !.by = None]
  BY DEF Current
<1>4. records' = [records EXCEPT ![c.key] = Current(c)]
  BY <1>1 DEF Keep
<1>5. RecordsShrink
  BY <1>2, <1>3, <1>4, ShrinkValues DEF RecordsShrink
<1>6. ResultsStand
  BY <1>2, <1>3, <1>4 DEF ResultsStand, Stands
<1> QED BY <1>1, <1>5, <1>6 DEF Modest, UploadsShrink, Saves

\* Nobody commits an upload that Begin prepares.
LEMMA PreparedAlone ==
    ASSUME TypeInv, Coherence, NEW p \in Procs, call[p].pc \in PreparePCs
    PROVE  /\ call[p].h \in Handles /\ ~up[call[p].h].ready /\ ~Committing(call[p].h)
           /\ call[p].key \in Keys /\ up[call[p].h].key = call[p].key
           /\ phase = "serving" => records[call[p].key].handle = call[p].h
<1>1. /\ Prepares(call[p]) /\ call[p].h \in Handles /\ call[p].key \in Keys
  BY CallFacts DEF Coherence, Prepared, PreparePCs, NamedCall, BeginPCs
<1>2. ~Committing(call[p].h)
  <2>1. ASSUME NEW q \in Procs, call[q].h = call[p].h, call[q].pc \in CommittingPCs PROVE FALSE
    BY <1>1, <2>1, CallFacts DEF Prepares, NamedCall, CommittingPCs, LockedPCs
  <2> QED BY <2>1 DEF Committing, CommittingPCs
<1> QED BY <1>1, <1>2 DEF Prepares, Coherence, IndexCoherent

\* A present answer is recorded for an identity that had no result.
LEMMA PresentModest ==
    ASSUME TypeInv, Coherence, NEW p \in Procs, BeginPresent(p)
    PROVE  Modest
<1> DEFINE c == call[p]  r == records[c.key]  h == c.h
           named == [Dropped(r, h, FALSE) EXCEPT !.evidence = "named", !.by = h,
                                                 !.expires = now + RequestRetention]
<1>1. /\ h \in Handles /\ c.key \in Keys
      /\ phase = "serving" => r.handle = h
      /\ r \in Record /\ records \in [Keys -> Record] /\ uploads \subseteq Handles
  BY PreparedAlone DEF BeginPresent, Ready, PreparePCs, TypeInv, WriterTypeOK
<1>2. /\ UNCHANGED <<up, phase>> /\ uploads' \subseteq uploads
      /\ \/ /\ SameRecord(c.key, c.rec) /\ Save
            /\ records' = [records EXCEPT ![c.key] = named]
         \/ /\ disk' = disk
            /\ records' = [records EXCEPT ![c.key] = Dropped(r, h, FALSE)]
  BY DEF BeginPresent, Unindex
<1>3. SameRecord(c.key, c.rec) => phase = "serving" /\ r.digest # None
  BY <1>1 DEF SameRecord, Coherence, Recorded
<1>4. Shrinks(r, Dropped(r, h, FALSE))
  BY <1>1, ShrinkValues
<1>5. SameRecord(c.key, c.rec) => Shrinks(r, named)
  <2>1. Dropped(r, h, FALSE) \in Record /\ Dropped(r, h, FALSE).digest = r.digest
        /\ Dropped(r, h, FALSE).size = r.size
    BY <1>1, DroppedType DEF Dropped, Record
  <2>2. named.digest = r.digest /\ named.size = r.size /\ named.evidence = "named"
    BY <2>1 DEF Record
  <2> QED BY <1>3, <2>2 DEF Shrinks
<1>6. ~Stands(c.key) \/ (records'[c.key] = r)
  <2>1. ASSUME Stands(c.key) PROVE records'[c.key] = r
    <3>1. r.handle = None /\ r.handle # h
      BY <1>1, <2>1, StandsAlone, NoneIsNoWord
    <3>2. ~SameRecord(c.key, c.rec)
      BY <1>1, <1>3, <3>1
    <3> QED BY <1>1, <1>2, <3>1, <3>2 DEF Dropped
  <2> QED BY <2>1
<1> HIDE DEF named
<1>7. \A k \in Keys \ {c.key} : records'[k] = records[k]
  BY <1>1, <1>2
<1>8. RecordsShrink
  <2>1. records'[c.key] \in {named, Dropped(r, h, FALSE)}
        /\ (records'[c.key] = named => SameRecord(c.key, c.rec) \/ named = Dropped(r, h, FALSE))
    BY <1>1, <1>2
  <2>2. Shrinks(r, records'[c.key])
    BY <1>4, <1>5, <2>1
  <2> QED BY <1>1, <1>7, <2>2, ShrinkValues DEF RecordsShrink
<1>9. ResultsStand
  BY <1>6, <1>7 DEF ResultsStand, Stands
<1>10. Saves /\ (phase # "serving" => disk' = disk)
  BY <1>2, <1>3 DEF Saves, Save
<1> QED BY <1>2, <1>8, <1>9, <1>10 DEF Modest, UploadsShrink

\* A commit takes back its own result only.
LEMMA WithdrawModest ==
    ASSUME TypeInv, Coherence, NEW p \in Procs, CommitUnrecorded(p) \/ CommitDemote(p)
    PROVE  Modest
<1> DEFINE c == call[p]  k == up[c.h].key  r == records[k]
<1>1. /\ c.h \in Handles /\ k \in Keys /\ r \in Record /\ records \in [Keys -> Record]
      /\ uploads \subseteq Handles
  BY LockedFacts DEF CommitUnrecorded, CommitDemote, Ready, LockedPCs, TypeInv, WriterTypeOK
<1>2. /\ UNCHANGED <<uploads, up, phase>> /\ Saves
  BY DEF CommitUnrecorded, CommitDemote, Saves, Save
<1>3. /\ phase # "serving" => disk' = disk
      /\ \/ UNCHANGED records
         \/ /\ \/ records' = [records EXCEPT ![k].evidence = None, ![k].by = None]
               \/ \E e : records' = [records EXCEPT ![k].evidence = None, ![k].by = None,
                                                    ![k].expires = e]
            /\ r.handle = c.h \/ Committing(c.h)
  <2>1. CASE CommitUnrecorded(p)
    BY <2>1 DEF CommitUnrecorded, Owned
  <2>2. CASE CommitDemote(p)
    <3>1. Committing(c.h)
      BY <2>2 DEF CommitDemote, Ready, Committing
    <3>2. phase = "closed" => disk' = disk
      BY <2>2 DEF CommitDemote
    <3>3. phase # "down"
      BY <2>2 DEF CommitDemote, Ready, Coherence, Recorded
    <3>4. phase \in {"serving", "closed", "down"}
      BY DEF TypeInv, WriterTypeOK
    <3> QED BY <2>2, <3>1, <3>2, <3>3, <3>4 DEF CommitDemote
  <2> QED BY <2>1, <2>2
<1> HIDE DEF c
<1>4. \A j \in Keys \ {k} : records'[j] = records[j]
  BY <1>1, <1>3
<1>5. /\ records'[k].digest = r.digest /\ records'[k].size = r.size
      /\ records'[k] = r \/ records'[k].evidence = None
  <2>1. CASE UNCHANGED records
    BY <2>1
  <2>2. CASE records' = [records EXCEPT ![k].evidence = None, ![k].by = None]
    BY <1>1, <2>2 DEF Record
  <2>3. ASSUME NEW e, records' = [records EXCEPT ![k].evidence = None, ![k].by = None,
                                                 ![k].expires = e]
        PROVE  /\ records'[k].digest = r.digest /\ records'[k].size = r.size
               /\ records'[k].evidence = None
    BY <1>1, <2>3 DEF Record
  <2> QED BY <1>3, <2>1, <2>2, <2>3
<1>6. RecordsShrink
  <2>1. Shrinks(r, records'[k])
    BY <1>1, <1>5, ShrinkValues, NoneIsNoWord DEF Shrinks
  <2> QED BY <1>1, <1>4, <2>1, ShrinkValues DEF RecordsShrink
<1>7. ResultsStand
  <2>1. Stands(k) => records'[k] = r
    <3>1. ASSUME Stands(k), r.handle = c.h \/ Committing(c.h) PROVE FALSE
      BY <1>1, <3>1, StandsAlone, NoneIsNoWord DEF Stands
    <3> QED BY <1>3, <3>1
  <2> QED BY <1>1, <1>4, <2>1 DEF ResultsStand, Stands
<1> QED BY <1>2, <1>3, <1>6, <1>7 DEF Modest, UploadsShrink

-----------------------------------------------------------------------------
(* The kinds of steps.                                                     *)

\* Taking an upload out of the indexes, wherever the code does it.
LEMMA UnlinksModest ==
    ASSUME TypeInv, Coherence, NEW p \in Procs,
           BeginFailed(p) \/ AbortUpload(p) \/ CommitFinish(p) \/ Unlinking(p)
    PROVE  Modest
<1>1. CASE BeginFailed(p)
  <2>1. call[p].h \in Handles /\ up[call[p].h].key \in Keys
    BY <1>1, PreparedAlone DEF BeginFailed, Ready, PreparePCs
  <2>2. /\ Unlink(call[p].h, TRUE) /\ UNCHANGED <<up, phase>>
        /\ \/ disk' = disk
           \/ records[up[call[p].h].key].handle = call[p].h /\ Save
    BY <1>1 DEF BeginFailed, UnlinkAndSave, IndexOnly
  <2> QED BY <2>1, <2>2, UnlinkModest
<1>2. CASE AbortUpload(p) /\ Live(call[p].h)
  <2>1. call[p].h \in Handles /\ up[call[p].h].key \in Keys
    BY <1>2, CallFacts DEF AbortUpload, Ready, Live, Named
  <2>2. /\ Unlink(call[p].h, TRUE) /\ UNCHANGED <<up, phase>>
        /\ \/ disk' = disk
           \/ records[up[call[p].h].key].handle = call[p].h /\ Save
    BY <1>2 DEF AbortUpload, UnlinkAndSave, IndexOnly
  <2> QED BY <2>1, <2>2, UnlinkModest
<1>3. CASE AbortUpload(p) /\ ~Live(call[p].h)
  BY <1>3, QuietModest DEF AbortUpload, IndexOnly
<1>4. CASE CommitFinish(p)
  <2>1. call[p].h \in Handles /\ up[call[p].h].key \in Keys
    BY <1>4, LockedFacts DEF CommitFinish, Ready, LockedPCs
  <2>2. /\ Unlink(call[p].h, FALSE) /\ disk' = disk /\ phase' = phase
        /\ KeyKeeping(call[p].h, 0, <<>>, None, None)
    BY <1>4 DEF CommitFinish, KeyKeeping
  <2>3. \A g \in Handles : up'[g].key = up[g].key
    BY <2>2, KeyStays
  <2> QED BY <2>1, <2>2, <2>3, UnlinkModest
<1>5. CASE Unlinking(p)
  <2>1. call[p].h \in Handles /\ up[call[p].h].key \in Keys /\ call[p].forget \in BOOLEAN
    BY <1>5, LockedFacts, CallFacts DEF Unlinking, Ready, LockedPCs, Call
  <2>2. /\ Unlink(call[p].h, call[p].forget) /\ UNCHANGED <<up, phase>>
        /\ \/ disk' = disk
           \/ records[up[call[p].h].key].handle = call[p].h /\ Save
    BY <1>5 DEF Unlinking, UnlinkAndSave, IndexOnly
  <2> QED BY <2>1, <2>2, UnlinkModest
<1> QED BY <1>1, <1>2, <1>3, <1>4, <1>5

\* Every step of a call is modest, but for the two that bind and record.
LEMMA WorkModest ==
    ASSUME TypeInv, Coherence, NEW p \in Procs, Work(p)
    PROVE  Modest \/ BeginStart(p) \/ CommitIntent(p)
<1> SUFFICES ASSUME ~BeginStart(p), ~CommitIntent(p) PROVE Modest
  OBVIOUS
<1>1. CASE UNCHANGED <<memory, disk, phase>>
  BY <1>1, QuietWorkModest
<1>2. CASE BeginRefused(p) \/ BeginUnsaved(p) \/ BeginPresent(p) \/ CommitUnrecorded(p)
           \/ CommitDemote(p)
  BY <1>2, KeepModest, PresentModest, WithdrawModest
<1>3. CASE BeginFailed(p) \/ AbortUpload(p) \/ CommitFinish(p) \/ Unlinking(p)
  BY <1>3, UnlinksModest
<1>4. CASE Waiting(p)
  <2>1. UNCHANGED <<memory, disk, phase>>
    BY <1>4 DEF Waiting, Discard, Await, AppendWrite, CommitVerify, CallOnly
  <2> QED BY <1>1, <2>1
<1>5. CASE BeginReplay(p) \/ BeginResume(p) \/ BeginReady(p) \/ BeginCleanup(p)
  <2>1. UNCHANGED <<memory, disk, phase>>
    BY <1>5 DEF BeginReplay, BeginResume, BeginReady, BeginCleanup, UploadOnly, FilesOnly
  <2> QED BY <1>1, <2>1
<1>6. CASE \/ PrepareFind(p) \/ PreparePlace(p) \/ PrepareOpen(p) \/ PrepareCheck(p)
           \/ PrepareFails(p)
  <2>1. UNCHANGED <<memory, disk, phase>>
    BY <1>6 DEF PrepareFind, PreparePlace, PrepareOpen, PrepareCheck, PrepareFails,
                CallOnly, FilesOnly
  <2> QED BY <1>1, <2>1
<1>7. CASE AppendAdmit(p) \/ AppendFails(p) \/ CommitLookup(p) \/ CallEnds(p)
           \/ CommitRefused(p) \/ CommitSync(p)
  <2>1. UNCHANGED <<memory, disk, phase>>
    BY <1>7 DEF AppendAdmit, AppendFails, CommitLookup, CallEnds, CommitRefused, CommitSync,
                UploadOnly, CallOnly
  <2> QED BY <1>1, <2>1
<1>8. CASE CommitPublish(p) \/ CommitUnpublished(p) \/ CommitLost(p) \/ CommitDrop(p)
  <2>1. UNCHANGED <<memory, disk, phase>>
    BY <1>8 DEF CommitPublish, CommitUnpublished, CommitLost, CommitDrop, FilesOnly, CallOnly
  <2> QED BY <1>1, <2>1
<1> QED BY <1>2, <1>3, <1>4, <1>5, <1>6, <1>7, <1>8 DEF Work, Begin, Commit

\* What a step can be, as far as identities and limits are concerned.
LEMMA StepKinds ==
    ASSUME TypeInv, Coherence, [Next]_vars
    PROVE  \/ Modest
           \/ \E p \in Procs : BeginStart(p) \/ CommitIntent(p)
           \/ Close \/ Crash \/ Startup
<1>1. CASE \E p \in Procs : Work(p)
  BY <1>1, WorkModest
<1>2. CASE (\E p \in Callers : CallStarts(p)) \/ SweepTick
  <2>1. Sweep /\ UNCHANGED <<up, phase>> /\ phase = "serving"
    BY <1>2 DEF CallStarts, BeginCall, AppendCall, CommitCall, AbortCall, Start, SweepTick,
                IndexOnly
  <2> QED BY <2>1, SweepModest
<1>3. CASE StartupRefused \/ Tick \/ Publish \/ Collect \/ UNCHANGED vars
  <2>1. UNCHANGED <<memory, disk, phase, up>>
    BY <1>3 DEF StartupRefused, Tick, Publish, Collect, vars
  <2> QED BY <2>1, QuietModest
<1> QED BY <1>1, <1>2, <1>3 DEF Next, Environment

-----------------------------------------------------------------------------
(* What the two binding steps do.                                          *)

\* BeginStart binds its key, to what it was bound to if it was, and saves.
LEMMA BeginStartBinds ==
    ASSUME TypeInv, Coherence, NEW p \in Procs, BeginStart(p)
    PROVE  \E k \in Keys, h \in Handles \ issued :
             /\ records'[k].digest \in Digests /\ records'[k].evidence = None
             /\ records[k].digest # None => /\ records'[k].digest = records[k].digest
                                            /\ records'[k].size = records[k].size
                                            /\ records[k].evidence # "hashed"
             /\ \A j \in Keys \ {k} : records'[j] = records[j]
             /\ disk' = Image(records')
             /\ ~Exhausted([key |-> k])
             /\ uploads' = uploads \cup {h} /\ up'[h].key = k
             /\ \A g \in Handles \ {h} : up'[g] = up[g]
             /\ phase = "serving" /\ phase' = phase
<1> DEFINE c == call[p]  k == c.key
<1>1. /\ c.pc = "begin" /\ Startable(c) /\ phase' = phase
  BY DEF BeginStart, Ready
<1>2. /\ k \in Keys /\ c.digest \in Digests /\ records \in [Keys -> Record]
      /\ records[k] \in Record /\ up \in [Handles -> Upload]
  BY <1>1, BeginFacts, CallFacts DEF BeginPCs, TypeInv, WriterTypeOK
<1>3. PICK h \in Handles \ issued :
        /\ up' = [up EXCEPT ![h] = [NoUpload EXCEPT !.key = k, !.digest = c.digest,
                                                    !.size = c.size]]
        /\ uploads' = uploads \cup {h}
        /\ records' = [records EXCEPT ![k] =
                        [NoRecord EXCEPT !.digest = c.digest, !.size = c.size, !.handle = h,
                            !.expires = now + RequestRetention,
                            !.id = IF Current(c).digest = None THEN h ELSE Current(c).id]]
        /\ disk' = Image(records')
  BY DEF BeginStart
<1>4. /\ records'[k].digest = c.digest /\ records'[k].size = c.size
      /\ records'[k].evidence = None
      /\ \A j \in Keys \ {k} : records'[j] = records[j]
  BY <1>2, <1>3 DEF NoRecord
<1>5. up'[h].key = k /\ \A g \in Handles \ {h} : up'[g] = up[g]
  BY <1>2, <1>3 DEF NoUpload
<1>6. /\ Current(c).digest = records[k].digest /\ Current(c).size = records[k].size
      /\ records[k].evidence = "hashed" => Current(c).evidence = "hashed"
  BY <1>2 DEF Current, Record
<1>7. records[k].digest # None => /\ c.digest = records[k].digest /\ c.size = records[k].size
                                  /\ records[k].evidence # "hashed"
  BY <1>1, <1>6, NoneIsNoWord DEF Startable, Unfinished, Matches
<1>8. ~Exhausted([key |-> k])
  BY <1>1 DEF Startable, Exhausted
<1>9. phase = "serving"
  BY <1>1 DEF Startable, Coherence, Recorded, TypeInv, WriterTypeOK
<1> HIDE DEF c, k
<1>10. k \in Keys /\ h \in Handles \ issued
  BY <1>2
<1> QED BY <1>1, <1>2, <1>3, <1>4, <1>5, <1>7, <1>8, <1>9, <1>10

\* CommitIntent records a hashed result of an identity that stays bound to its
\* object, and saves.
LEMMA CommitIntentRecords ==
    ASSUME TypeInv, Coherence, NEW p \in Procs, CommitIntent(p)
    PROVE  /\ \E k \in Keys : /\ records[k].digest # None /\ records'[k].evidence = "hashed"
                              /\ \A j \in Keys \ {k} : records'[j] = records[j]
           /\ \A k \in Keys : /\ records'[k].digest = records[k].digest
                              /\ records'[k].size = records[k].size
           /\ disk' = Image(records') /\ UNCHANGED <<uploads, up, phase>>
           /\ phase = "serving"
<1> DEFINE c == call[p]  k == up[c.h].key
<1>1. /\ c.h \in Handles /\ k \in Keys /\ records \in [Keys -> Record]
      /\ records[k] \in Record
  BY LockedFacts DEF CommitIntent, Ready, LockedPCs, TypeInv, WriterTypeOK
<1>2. /\ Owned(c) /\ disk' = Image(records') /\ UNCHANGED <<uploads, up, phase>>
      /\ records' = [records EXCEPT ![k].evidence = "hashed", ![k].by = c.h,
                                    ![k].expires = now + RequestRetention]
  BY DEF CommitIntent
<1>3. phase = "serving"
  <2>1. c.pc # "idle"
    BY DEF CommitIntent, Ready
  <2> QED BY <1>2, <2>1 DEF Owned, Coherence, Recorded, TypeInv, WriterTypeOK
<1>4. records[k].digest # None
  BY <1>1, <1>2, NoneIsNoWord DEF Owned, Coherence, Recorded
<1> HIDE DEF c, k
<1>5. /\ records'[k].digest = records[k].digest /\ records'[k].size = records[k].size
      /\ records'[k].evidence = "hashed"
      /\ \A j \in Keys \ {k} : records'[j] = records[j]
  BY <1>1, <1>2 DEF Record
<1> QED BY <1>1, <1>2, <1>3, <1>4, <1>5

-----------------------------------------------------------------------------
(* What the record file has of the records in memory.                      *)

\* Close and a crash forget the memory and leave the file.
LEMMA Forgets ==
    ASSUME Close \/ Crash
    PROVE  /\ disk' = disk /\ uploads' = {} /\ phase' # "serving"
           /\ \A k \in Keys : records'[k] = NoRecord
  BY DEF Close, Crash, Unindex

\* load restores what the file has of an identity, or forgets it.
LEMMA RestoredValues ==
    ASSUME NEW e
    PROVE  \/ Restored(e) = NoRecord
           \/ /\ e.digest # None
              /\ Restored(e).digest = e.digest /\ Restored(e).size = e.size
              /\ Restored(e).expires = e.expires
              /\ Restored(e).evidence = IF Find(e.digest) THEN e.evidence ELSE None
  BY DEF Restored, NoRecord

\* The file is written whole.
LEMMA ImageValues ==
    ASSUME NEW rs, NEW k \in Keys
    PROVE  /\ Image(rs)[k].digest = rs[k].digest /\ Image(rs)[k].size = rs[k].size
           /\ Image(rs)[k].evidence = rs[k].evidence /\ Image(rs)[k].expires = rs[k].expires
  BY DEF Image

\* What is in memory stays in the file.
LEMMA RecordsSavedStep ==
    ASSUME TypeInv, Coherence, RecordsSaved, [Next]_vars
    PROVE  RecordsSaved'
<1>1. CASE Modest
  <2>1. ASSUME NEW k \in Keys
        PROVE  /\ records'[k].digest # None =>
                    disk[k].digest = records'[k].digest /\ disk[k].size = records'[k].size
               /\ records'[k].evidence = "hashed" =>
                    disk[k].evidence = "hashed" /\ disk[k].expires = records'[k].expires
               /\ records'[k].digest = None => records'[k].evidence = None
    <3>1. Shrinks(records[k], records'[k])
      BY <1>1 DEF Modest, RecordsShrink
    <3> QED BY <3>1, NoneIsNoWord DEF RecordsSaved, Shrinks, NoRecord
  <2>2. disk' = disk \/ disk' = Image(records')
    BY <1>1 DEF Modest, Saves
  <2> QED BY <2>1, <2>2, ImageValues DEF RecordsSaved
<1>2. ASSUME NEW p \in Procs, BeginStart(p) \/ CommitIntent(p) PROVE RecordsSaved'
  <2>1. disk' = Image(records')
    BY <1>2, BeginStartBinds, CommitIntentRecords
  <2>2. \A k \in Keys : records'[k].digest = None => records'[k].evidence = None
    <3>1. CASE BeginStart(p)
      <4>1. PICK k \in Keys : /\ records'[k].digest \in Digests
                             /\ \A j \in Keys \ {k} : records'[j] = records[j]
        BY <3>1, BeginStartBinds
      <4> QED BY <4>1, NoneIsNoWord DEF RecordsSaved
    <3>2. CASE CommitIntent(p)
      <4>1. PICK k \in Keys : /\ records[k].digest # None
                             /\ \A j \in Keys \ {k} : records'[j] = records[j]
        BY <3>2, CommitIntentRecords
      <4> QED BY <3>2, <4>1, CommitIntentRecords DEF RecordsSaved
    <3> QED BY <1>2, <3>1, <3>2
  <2> QED BY <2>1, <2>2, ImageValues DEF RecordsSaved
<1>3. CASE Close \/ Crash
  BY <1>3, Forgets, NoneIsNoWord DEF RecordsSaved, NoRecord
<1>4. CASE Startup
  <2>1. \A k \in Keys : records'[k] = Restored(disk[k])
    BY <1>4 DEF Startup
  <2>2. disk' = disk \/ disk' = Image(records')
    BY <1>4 DEF Startup
  <2>3. ASSUME NEW k \in Keys
        PROVE  /\ records'[k].digest # None =>
                    disk[k].digest = records'[k].digest /\ disk[k].size = records'[k].size
               /\ records'[k].evidence = "hashed" =>
                    disk[k].evidence = "hashed" /\ disk[k].expires = records'[k].expires
               /\ records'[k].digest = None => records'[k].evidence = None
    BY <2>1, RestoredValues, NoneIsNoWord DEF NoRecord
  <2> QED BY <2>2, <2>3, ImageValues DEF RecordsSaved
<1> QED BY <1>1, <1>2, <1>3, <1>4, StepKinds

\* The writer's invariant, in the form the lemmas about steps take it.
LEMMA InvParts == WriterInv <=> TypeInv /\ Coherence
  BY DEF WriterInv, TypeInv, Coherence

\* Every identity in memory is in the record file with the same object, and
\* every hashed result with the same expiry, across failed saves, crashes and
\* restarts (records.go, saveLocked and load).
THEOREM RecordsSavedHolds == Spec => []RecordsSaved
<1>1. Init => RecordsSaved
  BY NoneIsNoWord DEF Init, RecordsSaved, NoRecord, Image
<1>2. WriterInv /\ RecordsSaved /\ [Next]_vars => RecordsSaved'
  BY RecordsSavedStep, InvParts
<1> QED BY <1>1, <1>2, WriterInvariantHolds, PTL DEF Spec

-----------------------------------------------------------------------------
(* Identities and results are kept.                                        *)

\* The step that RetainedIdentity is about.
RetainsStep ==
    \A k \in Keys :
        (disk[k].digest # None /\ now < disk[k].expires /\ Agreed(k) /\ disk'[k].digest # None)
            => disk'[k].digest = disk[k].digest /\ disk'[k].size = disk[k].size

\* No step binds an identity on file to another object.
LEMMA RetainedStep ==
    ASSUME TypeInv, Coherence, RecordsSaved, [Next]_vars
    PROVE  RetainsStep
<1> SUFFICES ASSUME NEW k \in Keys, disk[k].digest # None, Agreed(k), disk'[k].digest # None
             PROVE  disk'[k].digest = disk[k].digest /\ disk'[k].size = disk[k].size
  BY DEF RetainsStep
<1>1. phase = "serving" => /\ records[k].digest # None
                           /\ records[k].digest = disk[k].digest
                           /\ records[k].size = disk[k].size
  BY DEF Agreed, RecordsSaved
<1>2. CASE Modest
  <2>1. disk' # disk => phase = "serving" /\ disk' = Image(records')
    BY <1>2 DEF Modest, Saves
  <2>2. Shrinks(records[k], records'[k])
    BY <1>2 DEF Modest, RecordsShrink
  <2> QED BY <1>1, <2>1, <2>2, ImageValues DEF Shrinks, NoRecord
<1>3. ASSUME NEW p \in Procs, BeginStart(p) \/ CommitIntent(p)
      PROVE  disk'[k].digest = disk[k].digest /\ disk'[k].size = disk[k].size
  <2>1. disk' = Image(records') /\ phase = "serving"
    BY <1>3, BeginStartBinds, CommitIntentRecords
  <2>2. records'[k].digest = records[k].digest /\ records'[k].size = records[k].size
    BY <1>1, <1>3, <2>1, BeginStartBinds, CommitIntentRecords
  <2> QED BY <1>1, <2>1, <2>2, ImageValues
<1>4. CASE Close \/ Crash
  BY <1>4, Forgets
<1>5. CASE Startup
  <2>1. records'[k] = Restored(disk[k]) /\ (disk' = disk \/ disk' = Image(records'))
    BY <1>5 DEF Startup
  <2> QED BY <2>1, RestoredValues, ImageValues DEF NoRecord
<1> QED BY <1>2, <1>3, <1>4, <1>5, StepKinds

\* An identity is never bound to another object within its retention, whatever
\* is interleaved, fails, crashes or restarts (STO-W8, the conflict answer of
\* writer.go:287).
THEOREM IdentityIsRetained == Spec => RetainedIdentity
<1>1. WriterInv /\ RecordsSaved /\ [Next]_vars => [RetainsStep]_vars
  BY RetainedStep, InvParts
<1>2. RetainedIdentity <=> [][RetainsStep]_vars
  BY PTL DEF RetainedIdentity, RetainsStep
<1> QED BY <1>1, <1>2, WriterInvariantHolds, RecordsSavedHolds, PTL DEF Spec

\* The step that HashedResultStands is about.
StandsStep ==
    \A k \in Keys :
        (/\ disk[k].evidence = "hashed" /\ Agreed(k)
         /\ Find(disk[k].digest) /\ now < disk[k].expires
         /\ ~\E h \in Handles : up[h].key = k /\ Committing(h))
            => /\ disk'[k].evidence = "hashed" /\ disk'[k].digest = disk[k].digest
               /\ Agreed(k)'

\* No step takes a published result back.
LEMMA HashedStep ==
    ASSUME TypeInv, Coherence, RecordsSaved, [Next]_vars
    PROVE  StandsStep
<1> SUFFICES ASSUME NEW k \in Keys, disk[k].evidence = "hashed", Agreed(k),
                    Find(disk[k].digest), now < disk[k].expires,
                    ~\E h \in Handles : up[h].key = k /\ Committing(h)
             PROVE  /\ disk'[k].evidence = "hashed" /\ disk'[k].digest = disk[k].digest
                    /\ phase' = "serving" => /\ records'[k].digest = disk'[k].digest
                                             /\ records'[k].evidence = disk'[k].evidence
  BY DEF StandsStep, Agreed
<1>1. disk[k].digest # None
  BY NoneIsNoWord DEF RecordsSaved
<1>2. phase = "serving" => /\ records[k].digest = disk[k].digest
                           /\ records[k].evidence = "hashed" /\ Stands(k)
  BY <1>1 DEF Agreed, RecordsSaved, Stands
<1>3. CASE Modest
  <2>1. CASE phase = "serving"
    <3>1. records'[k].evidence = "hashed" /\ records'[k].digest = disk[k].digest
      BY <1>2, <1>3, <2>1 DEF Modest, ResultsStand
    <3>2. disk' = disk \/ disk' = Image(records')
      BY <1>3 DEF Modest, Saves
    <3> QED BY <3>1, <3>2, ImageValues
  <2>2. CASE phase # "serving"
    BY <1>3, <2>2 DEF Modest
  <2> QED BY <2>1, <2>2
<1>4. ASSUME NEW p \in Procs, BeginStart(p) \/ CommitIntent(p)
      PROVE  /\ disk' = Image(records')
             /\ records'[k].evidence = "hashed" /\ records'[k].digest = disk[k].digest
  <2>1. CASE BeginStart(p)
    <3>1. PICK j \in Keys : /\ records[j].digest # None => records[j].evidence # "hashed"
                            /\ \A i \in Keys \ {j} : records'[i] = records[i]
                            /\ disk' = Image(records') /\ phase = "serving"
      BY <2>1, BeginStartBinds
    <3>2. k # j
      BY <1>1, <1>2, <3>1
    <3> QED BY <1>2, <3>1, <3>2
  <2>2. CASE CommitIntent(p)
    <3>1. PICK j \in Keys : /\ records'[j].evidence = "hashed"
                            /\ \A i \in Keys \ {j} : records'[i] = records[i]
      BY <2>2, CommitIntentRecords
    <3>2. disk' = Image(records') /\ records'[k].digest = records[k].digest /\ phase = "serving"
      BY <2>2, CommitIntentRecords
    <3> QED BY <1>2, <3>1, <3>2
  <2> QED BY <1>4, <2>1, <2>2
<1>5. CASE \E p \in Procs : BeginStart(p) \/ CommitIntent(p)
  BY <1>4, <1>5, ImageValues
<1>6. CASE Close \/ Crash
  BY <1>6, Forgets
<1>7. CASE Startup
  <2>1. records'[k] = Restored(disk[k]) /\ (disk' = disk \/ disk' = Image(records'))
    BY <1>7 DEF Startup
  <2>2. now \in Nat /\ disk[k].expires \in Nat
    BY DEF TypeInv, WriterTypeOK, Entry
  <2>3. ~(now >= disk[k].expires)
    BY <2>2
  <2>4. records'[k].evidence = "hashed" /\ records'[k].digest = disk[k].digest
    BY <1>1, <2>1, <2>3 DEF Restored, NoRecord
  <2> QED BY <2>1, <2>4, ImageValues
<1> QED BY <1>3, <1>5, <1>6, <1>7, StepKinds

\* A result that Commit recorded and published stays on record until it
\* expires, whatever fails and restarts later (STO-W10).
THEOREM ResultStands == Spec => HashedResultStands
<1>1. WriterInv /\ RecordsSaved /\ [Next]_vars => [StandsStep]_vars
  BY HashedStep, InvParts
<1>2. HashedResultStands <=> [][StandsStep]_vars
  BY PTL DEF HashedResultStands, StandsStep
<1> QED BY <1>1, <1>2, WriterInvariantHolds, RecordsSavedHolds, PTL DEF Spec

-----------------------------------------------------------------------------
(* The configured limits.                                                  *)

\* The uploads of a subject, and the identities on record.
UploadsOf(s) == {h \in uploads : ScopeOf[up[h].key] = s}
InMemory == {k \in Keys : records[k].digest # None}
OnDisk == {k \in Keys : disk[k].digest # None}

\* What is counted is finite, and within its limit.
Bounded(S, n) == IsFiniteSet(S) /\ Cardinality(S) <= n

Counted ==
    /\ Bounded(uploads, MaxUploads)
    /\ \A s \in Scopes : Bounded(UploadsOf(s), MaxUploadsPerScope)
    /\ Bounded(InMemory, MaxRequestRecords)
    /\ Bounded(OnDisk, MaxRequestRecords)

\* Nothing counts as within any limit.
LEMMA NothingBounded ==
    ASSUME NEW n \in Nat
    PROVE  Bounded({}, n)
  BY FS_EmptySet DEF Bounded

\* A part of what is bounded is bounded.
LEMMA PartBounded ==
    ASSUME NEW S, NEW n \in Nat, NEW T \in SUBSET S, Bounded(S, n)
    PROVE  Bounded(T, n)
<1>1. IsFiniteSet(S) /\ Cardinality(S) <= n
  BY DEF Bounded
<1>2. IsFiniteSet(T) /\ Cardinality(T) <= Cardinality(S)
  BY <1>1, FS_Subset
<1>3. Cardinality(S) \in Nat /\ Cardinality(T) \in Nat
  BY <1>1, <1>2, FS_CardinalityType
<1> QED BY <1>1, <1>2, <1>3 DEF Bounded

\* So is one more than less than the limit.
LEMMA OneMoreBounded ==
    ASSUME NEW S, NEW n \in Nat, NEW x, NEW T \in SUBSET (S \cup {x}),
           Bounded(S, n), ~(Cardinality(S) >= n)
    PROVE  Bounded(T, n)
<1>1. IsFiniteSet(S) /\ Cardinality(S) \in Nat
  BY FS_CardinalityType DEF Bounded
<1>2. Cardinality(S) < n
  BY <1>1
<1>3. /\ IsFiniteSet(S \cup {x})
      /\ Cardinality(S \cup {x}) = IF x \in S THEN Cardinality(S) ELSE Cardinality(S) + 1
  BY <1>1, FS_AddElement
<1>4. Bounded(S \cup {x}, n)
  BY <1>1, <1>2, <1>3 DEF Bounded
<1> QED BY <1>4, PartBounded

\* The constants are numbers.
LEMMA LimitsAreNumbers ==
    MaxUploads \in Nat /\ MaxUploadsPerScope \in Nat /\ MaxRequestRecords \in Nat
  BY WriterAssumption

\* A step that only takes uploads and identities away stays within the limits.
LEMMA LessCounted ==
    ASSUME Counted, uploads' \subseteq uploads,
           \A h \in uploads' : up'[h].key = up[h].key,
           InMemory' \subseteq InMemory \/ InMemory' \subseteq OnDisk,
           OnDisk' = OnDisk \/ OnDisk' = InMemory'
    PROVE  Counted'
<1>1. Bounded(uploads', MaxUploads)
  BY PartBounded, LimitsAreNumbers DEF Counted
<1>2. ASSUME NEW s \in Scopes PROVE Bounded(UploadsOf(s)', MaxUploadsPerScope)
  <2>1. UploadsOf(s)' \in SUBSET UploadsOf(s)
    BY DEF UploadsOf
  <2> QED BY <2>1, PartBounded, LimitsAreNumbers DEF Counted
<1>3. Bounded(InMemory', MaxRequestRecords)
  BY PartBounded, LimitsAreNumbers DEF Counted
<1>4. Bounded(OnDisk', MaxRequestRecords)
  BY <1>3 DEF Counted
<1> QED BY <1>1, <1>2, <1>3, <1>4 DEF Counted, Bounded

\* BeginStart adds one of each, having looked at the limits.
LEMMA BeginStartCounted ==
    ASSUME TypeInv, Coherence, Counted, NEW p \in Procs, BeginStart(p)
    PROVE  Counted'
<1>1. PICK k \in Keys, h \in Handles \ issued :
        /\ records'[k].digest \in Digests
        /\ \A j \in Keys \ {k} : records'[j] = records[j]
        /\ disk' = Image(records')
        /\ ~Exhausted([key |-> k])
        /\ uploads' = uploads \cup {h} /\ up'[h].key = k
        /\ \A g \in Handles \ {h} : up'[g] = up[g]
  BY BeginStartBinds
<1>2. h \notin uploads /\ uploads \subseteq Handles
  BY DEF Coherence, Recorded, TypeInv, WriterTypeOK
<1>3. Bounded(uploads', MaxUploads)
  <2>1. ~(Cardinality(uploads) >= MaxUploads)
    BY <1>1 DEF Exhausted
  <2> QED BY <1>1, <2>1, OneMoreBounded, LimitsAreNumbers DEF Counted
<1>4. ASSUME NEW s \in Scopes PROVE Bounded(UploadsOf(s)', MaxUploadsPerScope)
  <2>1. CASE s = ScopeOf[k]
    <3>1. ~(Cardinality(UploadsOf(s)) >= MaxUploadsPerScope)
      BY <1>1, <2>1 DEF Exhausted, UploadsOf
    <3>2. UploadsOf(s)' \in SUBSET (UploadsOf(s) \cup {h})
      BY <1>1, <1>2 DEF UploadsOf
    <3> QED BY <3>1, <3>2, OneMoreBounded, LimitsAreNumbers DEF Counted
  <2>2. CASE s # ScopeOf[k]
    <3>1. UploadsOf(s)' \in SUBSET UploadsOf(s)
      BY <1>1, <1>2, <2>2 DEF UploadsOf
    <3> QED BY <3>1, PartBounded, LimitsAreNumbers DEF Counted
  <2> QED BY <2>1, <2>2
<1>5. Bounded(InMemory', MaxRequestRecords)
  <2>1. CASE records[k].digest = None
    <3>1. ~(Cardinality(InMemory) >= MaxRequestRecords)
      BY <1>1, <2>1 DEF Exhausted, InMemory
    <3>2. InMemory' \in SUBSET (InMemory \cup {k})
      BY <1>1 DEF InMemory
    <3> QED BY <3>1, <3>2, OneMoreBounded, LimitsAreNumbers DEF Counted
  <2>2. CASE records[k].digest # None
    <3>1. InMemory' \in SUBSET InMemory
      BY <1>1, <2>2 DEF InMemory
    <3> QED BY <3>1, PartBounded, LimitsAreNumbers DEF Counted
  <2> QED BY <2>1, <2>2
<1>6. OnDisk' = InMemory'
  BY <1>1, ImageValues DEF OnDisk, InMemory
<1> QED BY <1>3, <1>4, <1>5, <1>6 DEF Counted, Bounded

\* Every step stays within the limits.
LEMMA CountedStep ==
    ASSUME TypeInv, Coherence, Counted, [Next]_vars
    PROVE  Counted'
<1>1. CASE Modest
  <2>1. InMemory' \subseteq InMemory
    BY <1>1 DEF Modest, RecordsShrink, Shrinks, NoRecord, InMemory
  <2>2. OnDisk' = OnDisk \/ OnDisk' = InMemory'
    BY <1>1, ImageValues DEF Modest, Saves, OnDisk, InMemory
  <2> QED BY <1>1, <2>1, <2>2, LessCounted DEF Modest, UploadsShrink
<1>2. ASSUME NEW p \in Procs, CommitIntent(p) PROVE Counted'
  <2>1. InMemory' = InMemory /\ OnDisk' = InMemory'
    BY <1>2, CommitIntentRecords, ImageValues DEF OnDisk, InMemory
  <2> QED BY <1>2, <2>1, CommitIntentRecords, LessCounted
<1>3. CASE Close \/ Crash
  <2>1. InMemory' \subseteq InMemory /\ OnDisk' = OnDisk
    BY <1>3, Forgets DEF InMemory, OnDisk, NoRecord
  <2> QED BY <1>3, <2>1, Forgets, LessCounted
<1>4. CASE Startup
  <2>1. InMemory' \subseteq OnDisk
    BY <1>4, RestoredValues DEF Startup, InMemory, OnDisk, NoRecord
  <2>2. OnDisk' = OnDisk \/ OnDisk' = InMemory'
    BY <1>4, ImageValues DEF Startup, OnDisk, InMemory
  <2>3. UNCHANGED <<uploads, up>>
    BY <1>4 DEF Startup
  <2> QED BY <2>1, <2>2, <2>3, LessCounted
<1> QED BY <1>1, <1>2, <1>3, <1>4, BeginStartCounted, StepKinds

\* However the calls interleave, and across failed saves, crashes and restarts,
\* the uploads, those of a subject and the identities in memory and in the file
\* stay within the configured limits (STO-W7; writer.go:303 to 326).
THEOREM LimitsHold == Spec => []Limits
<1>1. Init => Counted
  <2> SUFFICES ASSUME Init PROVE Counted
    OBVIOUS
  <2>1. uploads = {} /\ InMemory = {} /\ OnDisk = {}
    BY DEF Init, InMemory, OnDisk, NoRecord, Image
  <2>2. \A s \in Scopes : UploadsOf(s) = {}
    BY <2>1 DEF UploadsOf
  <2> QED BY <2>1, <2>2, NothingBounded, LimitsAreNumbers DEF Counted
<1>2. WriterInv /\ Counted /\ [Next]_vars => Counted'
  BY CountedStep, InvParts
<1>3. Counted => Limits
  BY DEF Counted, Bounded, Limits, UploadsOf, InMemory, OnDisk
<1> QED BY <1>1, <1>2, <1>3, WriterInvariantHolds, PTL DEF Spec

=============================================================================
