----------------------------- MODULE WriterProofs -----------------------------
(***************************************************************************)
(* Type correctness of Writer, and the coherence of its indexes, for every *)
(* number of callers, handles, digests, request keys and every limit.      *)
(***************************************************************************)
EXTENDS WriterInvariant, TLAPS

\* The calls name what they use: what typing needs beside the types.
TypeInv == WriterTypeOK /\ Named

-----------------------------------------------------------------------------
(* Values.                                                                 *)

\* An idle goroutine has a well-typed call.
LEMMA NoCallType == NoCall \in Call
  BY DEF NoCall, Call, PCs, LockedPCs, BeginPCs

\* A handle that was never drawn has a well-typed upload.
LEMMA NoUploadType == NoUpload \in Upload
  BY DEF NoUpload, Upload

\* An absent identity is a well-typed record.
LEMMA NoRecordType == NoRecord \in Record
  BY DEF NoRecord, Record, Evidence

\* What Save writes is a well-typed record file.
LEMMA ImageType ==
    ASSUME NEW rs \in [Keys -> Record]
    PROVE  Image(rs) \in [Keys -> Entry]
  BY DEF Image, Entry, Record

\* A silent step leaves a well-typed answer.
LEMMA AnswerType ==
    /\ NoAnswer \in Answers
    /\ Silent => answer' \in Answers
  BY DEF Silent, NoAnswer, Answers, Evidence

\* Begin and Commit answer with one of the declared outcomes and evidences.
LEMMA ReplyType ==
    ASSUME NEW o \in {"committed", "present"}, NEW e \in Evidence,
           NEW d \in Digests \cup {None}, NEW k \in Keys \cup {None},
           Reply(o, e, d, k)
    PROVE  answer' \in Answers
  BY DEF Reply, Answers

\* The fields a call changes together.
LEMMA SetPc ==
    ASSUME NEW c \in Call, NEW pc \in PCs
    PROVE  [c EXCEPT !.pc = pc] \in Call
  BY ZenonT(60) DEF Call

\* The discards a sweep leaves its call.
LEMMA SetTodo ==
    ASSUME NEW c \in Call, NEW hs \in SUBSET Handles
    PROVE  [c EXCEPT !.todo = hs] \in Call
  BY ZenonT(60) DEF Call

\* Begin names its upload and its record.
LEMMA SetUpload ==
    ASSUME NEW c \in Call, NEW pc \in PCs, NEW h \in Handles \cup {None},
           NEW r \in Handles \cup {None}
    PROVE  [c EXCEPT !.pc = pc, !.h = h, !.rec = r] \in Call
  BY ZenonT(60) DEF Call

\* Commit remembers the record whose result it set.
LEMMA SetRecord ==
    ASSUME NEW c \in Call, NEW pc \in PCs, NEW r \in Handles \cup {None},
           NEW e \in Nat
    PROVE  [c EXCEPT !.pc = pc, !.rec = r, !.previous = e] \in Call
  BY ZenonT(60) DEF Call

\* prepare settles on an outcome.
LEMMA SetOutcome ==
    ASSUME NEW c \in Call, NEW pc \in PCs,
           NEW o \in {"ready", "present", "failed", None}
    PROVE  [c EXCEPT !.pc = pc, !.outcome = o] \in Call
  BY ZenonT(60) DEF Call

\* prepare gives up and drops its staging path.
LEMMA SetGiveUp ==
    ASSUME NEW c \in Call, NEW pc \in PCs,
           NEW o \in {"ready", "present", "failed", None},
           NEW x \in Places \cup {None}
    PROVE  [c EXCEPT !.pc = pc, !.outcome = o, !.place = x] \in Call
  BY ZenonT(60) DEF Call

\* prepare settles on a possession file.
LEMMA SetPossession ==
    ASSUME NEW c \in Call, NEW pc \in PCs,
           NEW o \in {"ready", "present", "failed", None},
           NEW i \in Inodes \cup {None}, NEW x \in Places \cup {None}
    PROVE  [c EXCEPT !.pc = pc, !.outcome = o, !.file = i, !.place = x] \in Call
  BY ZenonT(60) DEF Call

\* prepare learned its staging path.
LEMMA SetPlace ==
    ASSUME NEW c \in Call, NEW pc \in PCs, NEW x \in Places \cup {None}
    PROVE  [c EXCEPT !.pc = pc, !.place = x] \in Call
  BY ZenonT(60) DEF Call

\* prepare opened its staging file.
LEMMA SetFile ==
    ASSUME NEW c \in Call, NEW pc \in PCs, NEW i \in Inodes \cup {None}
    PROVE  [c EXCEPT !.pc = pc, !.file = i] \in Call
  BY ZenonT(60) DEF Call

\* Commit drops the identity with the upload.
LEMMA SetForget ==
    ASSUME NEW c \in Call, NEW pc \in PCs, NEW b \in BOOLEAN
    PROVE  [c EXCEPT !.pc = pc, !.forget = b] \in Call
  BY ZenonT(60) DEF Call

-----------------------------------------------------------------------------
(* The provider's operations keep the store's types.                       *)

\* The provider's removals, renames and possession files keep the store's
\* types.
LEMMA StoreOpsType ==
    ASSUME StoreTypeOK, NEW h \in Handles, NEW d \in Digests \cup {None},
           NEW place \in Places \cup {None}
    PROVE  /\ RemoveStaged(h, d, place) => StoreTypeOK'
           /\ CreatePossession(h) => StoreTypeOK'
           /\ Rename(d) /\ d \in Digests => StoreTypeOK'
  <1>1. RemoveStaged(h, d, place) => StoreTypeOK'
    BY DEF StoreTypeOK, RemoveStaged
  <1>2. CreatePossession(h) => StoreTypeOK'
    BY DEF StoreTypeOK, CreatePossession, Inodes, Bytes
  <1>3. Rename(d) /\ d \in Digests => StoreTypeOK'
    BY DEF StoreTypeOK, Rename
  <1> QED BY <1>1, <1>2, <1>3

\* OpenFile answers with an inode.
LEMMA OpenedType ==
    ASSUME StoreTypeOK, NEW h \in Handles, NEW d \in Digests,
           NEW place \in {"blob", "incoming"}
    PROVE  Opened(h, d, place) \in Inodes
  BY DEF StoreTypeOK, Opened, At, Inodes

\* Opening a staging file keeps the store's types.
LEMMA OpenStagingType ==
    ASSUME StoreTypeOK, NEW h \in Handles, NEW d \in Digests,
           NEW place \in {"blob", "incoming"}, OpenStaging(h, d, place)
    PROVE  StoreTypeOK'
  BY OpenedType DEF StoreTypeOK, OpenStaging, Bytes

\* WriteAt of a chunk yields bytes, holes included.
LEMMA WrittenType ==
    ASSUME NEW bytes \in Bytes, NEW offset \in Nat, NEW chunk \in Chunks
    PROVE  Written(bytes, offset, chunk) \in Bytes
  <1> DEFINE n == IF Len(bytes) > offset THEN Len(bytes) ELSE offset + 1
  <1>1. n \in Nat
    BY DEF Bytes
  <1>2. \A k \in 1 .. n : /\ k <= Len(bytes) => bytes[k] \in Chunks \cup {Hole}
    BY DEF Bytes
  <1>3. Written(bytes, offset, chunk) \in [1 .. n -> Chunks \cup {Hole}]
    BY <1>2 DEF Written
  <1> HIDE DEF n
  <1> QED BY <1>1, <1>3 DEF Bytes

\* Writing to a staging file keeps the store's types.
LEMMA WriteStagedType ==
    ASSUME StoreTypeOK, NEW i \in Inodes, NEW offset \in Nat, NEW chunk \in Chunks,
           WriteStaged(i, offset, chunk)
    PROVE  StoreTypeOK'
  BY WrittenType DEF StoreTypeOK, WriteStaged

-----------------------------------------------------------------------------
(* The indexes and the records.                                            *)

IndexTypeOK ==
    /\ uploads \in SUBSET Handles
    /\ digests \in [Digests -> Handles \cup {None}]
    /\ records \in [Keys -> Record]

\* Removing any set of uploads from the indexes keeps their types.
LEMMA UnindexType ==
    ASSUME IndexTypeOK, NEW hs, Unindex(hs)
    PROVE  /\ uploads' \in SUBSET Handles
           /\ digests' \in [Digests -> Handles \cup {None}]
  BY DEF IndexTypeOK, Unindex

\* unlink and sweep leave well-typed records.
LEMMA DroppedType ==
    ASSUME NEW r \in Record, NEW h, NEW forget
    PROVE  /\ Dropped(r, h, forget) \in Record
           /\ Released(r) \in Record
  <1>1. [r EXCEPT !.handle = None] \in Record
    BY DEF Record
  <1> QED BY <1>1, NoRecordType DEF Dropped, Released

\* A save that succeeds or fails leaves a well-typed record file.
LEMMA SaveType ==
    ASSUME disk \in [Keys -> Entry], records' \in [Keys -> Record],
           Save \/ UNCHANGED disk
    PROVE  disk' \in [Keys -> Entry]
  BY ImageType DEF Save

\* A sweep keeps the types of the indexes and of the record file.
LEMMA SweepType ==
    ASSUME WriterTypeOK, Sweep
    PROVE  IndexTypeOK' /\ disk' \in [Keys -> Entry]
  <1>1. IndexTypeOK
    BY DEF WriterTypeOK, IndexTypeOK
  <1>2. uploads' \in SUBSET Handles /\ digests' \in [Digests -> Handles \cup {None}]
    BY <1>1, UnindexType DEF Sweep
  <1>3. records' \in [Keys -> Record]
    BY <1>1, DroppedType, NoRecordType DEF Sweep, IndexTypeOK
  <1>4. disk' \in [Keys -> Entry]
    BY <1>3, SaveType DEF Sweep, WriterTypeOK
  <1> QED BY <1>2, <1>3, <1>4 DEF IndexTypeOK

\* unlink keeps the types of the indexes.
LEMMA UnlinkType ==
    ASSUME WriterTypeOK, NEW h, NEW forget, Unlink(h, forget)
    PROVE  IndexTypeOK'
  <1>1. IndexTypeOK
    BY DEF WriterTypeOK, IndexTypeOK
  <1>2. uploads' \in SUBSET Handles /\ digests' \in [Digests -> Handles \cup {None}]
    BY <1>1, UnindexType DEF Unlink
  <1>3. records' \in [Keys -> Record]
    BY <1>1, DroppedType DEF Unlink, IndexTypeOK
  <1> QED BY <1>2, <1>3 DEF IndexTypeOK

\* unlink with its save keeps the types of the indexes and of the file.
LEMMA UnlinkAndSaveType ==
    ASSUME WriterTypeOK, NEW h, NEW forget, UnlinkAndSave(h, forget)
    PROVE  IndexTypeOK' /\ disk' \in [Keys -> Entry]
  <1>1. IndexTypeOK'
    BY UnlinkType DEF UnlinkAndSave
  <1>2. Save \/ UNCHANGED disk
    BY DEF UnlinkAndSave
  <1> QED BY <1>1, <1>2, SaveType DEF WriterTypeOK, IndexTypeOK

\* Begin goes on with a well-typed record.
LEMMA CurrentType ==
    ASSUME IndexTypeOK, NEW c, c.key \in Keys
    PROVE  Current(c) \in Record
  <1>1. records[c.key] \in Record
    BY DEF IndexTypeOK
  <1>2. [records[c.key] EXCEPT !.evidence = None, !.by = None] \in Record
    BY <1>1 DEF Record, Evidence
  <1> QED BY <1>1, <1>2 DEF Current

\* A Begin that returns early leaves well-typed records.
LEMMA KeepType ==
    ASSUME IndexTypeOK, NEW c, c.key \in Keys, Keep(c)
    PROVE  records' \in [Keys -> Record]
  BY CurrentType DEF Keep, IndexTypeOK

-----------------------------------------------------------------------------
(* The calls and the uploads.                                              *)

\* The step neither draws a handle nor renames or readies an upload.
UploadsKeepNames ==
    /\ issued' = issued
    /\ \A h \in Handles : /\ up'[h].ready = up[h].ready
                          /\ up'[h].key = up[h].key
                          /\ up'[h].digest = up[h].digest

\* The call of p is updated, and its new value names what it must.
LEMMA CallStep ==
    ASSUME Named, NEW p \in Procs, UploadsKeepNames,
           \A q \in Procs \ {p} : call'[q] = call[q],
           NamedCall(call[p])'
    PROVE  Named'
  <1>1. \A q \in Procs \ {p} : NamedCall(call[q])'
    <2> SUFFICES ASSUME NEW q \in Procs \ {p} PROVE NamedCall(call[q])'
      OBVIOUS
    <2>1. NamedCall(call[q]) /\ call'[q] = call[q] /\ issued \subseteq Handles
      BY DEF Named
    <2> QED BY <2>1 DEF NamedCall, UploadsKeepNames, LockedPCs
  <1> QED BY <1>1 DEF Named, UploadsKeepNames

\* A call that returns names nothing.
LEMMA ReturnStep ==
    ASSUME TypeInv, NEW p \in Procs, Return(p), UploadsKeepNames
    PROVE  call' \in [Procs -> Call] /\ Named'
  <1>1. call \in [Procs -> Call]
    BY DEF TypeInv, WriterTypeOK
  <1>2. call' \in [Procs -> Call]
    BY <1>1, NoCallType DEF Return
  <1>3. NamedCall(call[p])'
    BY <1>1 DEF Return, NamedCall, NoCall, BeginPCs, LockedPCs
  <1>4. \A q \in Procs \ {p} : call'[q] = call[q]
    BY <1>1 DEF Return
  <1> QED BY <1>2, <1>3, <1>4, CallStep DEF TypeInv

\* A call goes from a program counter where it names at least as much.
LEMMA GotoStep ==
    ASSUME TypeInv, NEW p \in Procs, NEW pc \in PCs, Goto(p, pc), UploadsKeepNames,
           call[p].pc \notin {"idle", "begin"},
           pc # "open",
           pc \in {"admit", "write"} => call[p].chunk \in Chunks,
           pc \in BeginPCs => call[p].pc \in BeginPCs,
           pc \in LockedPCs \cup {"write", "verify"} =>
               call[p].pc \in LockedPCs \cup {"write", "verify"} \/ up[call[p].h].ready
    PROVE  call' \in [Procs -> Call] /\ Named'
  <1>1. call \in [Procs -> Call] /\ call[p] \in Call /\ NamedCall(call[p])
    BY DEF TypeInv, WriterTypeOK, Named
  <1>2. call' \in [Procs -> Call]
    BY <1>1, SetPc DEF Goto
  <1>3. /\ call'[p].pc = pc /\ call'[p].h = call[p].h
        /\ call'[p].key = call[p].key /\ call'[p].digest = call[p].digest
        /\ call'[p].chunk = call[p].chunk
    BY <1>1 DEF Goto, Call
  <1>4. call[p].h \in Handles
    BY <1>1 DEF NamedCall, TypeInv, Named
  <1>5. NamedCall(call[p])'
    BY <1>1, <1>3, <1>4 DEF NamedCall, UploadsKeepNames
  <1>6. \A q \in Procs \ {p} : call'[q] = call[q]
    BY <1>1 DEF Goto
  <1> QED BY <1>2, <1>5, <1>6, CallStep DEF TypeInv

-----------------------------------------------------------------------------
(* Every step keeps TypeInv.                                               *)

\* A step that leaves the provider alone keeps its types.
LEMMA StoreFrame ==
    ASSUME StoreTypeOK, UNCHANGED storeVars
    PROVE  StoreTypeOK'
  BY DEF StoreTypeOK, storeVars

\* A step of calls and files alone.
LEMMA CallFrame ==
    ASSUME WriterTypeOK, StoreTypeOK', call' \in [Procs -> Call],
           up' \in [Handles -> Upload], answer' \in Answers,
           UNCHANGED <<memory, disk, now, phase, ghosts>>
    PROVE  WriterTypeOK'
  BY DEF WriterTypeOK, memory, ghosts

\* A step of calls and indexes alone.
LEMMA IndexFrame ==
    ASSUME WriterTypeOK, IndexTypeOK', disk' \in [Keys -> Entry],
           call' \in [Procs -> Call], up' \in [Handles -> Upload], answer' \in Answers,
           UNCHANGED <<storeVars, now, phase, ghosts>>
    PROVE  WriterTypeOK'
  BY StoreFrame DEF WriterTypeOK, IndexTypeOK, ghosts

\* A step that leaves the uploads alone leaves their names.
LEMMA SameNames ==
    ASSUME UNCHANGED <<up, ghosts>>
    PROVE  UploadsKeepNames
  BY DEF UploadsKeepNames, ghosts

\* Every call's first step, its sweep included, keeps the types.
LEMMA StartTypes ==
    ASSUME TypeInv, NEW p \in Procs, NEW fields \in Call, Start(p, fields),
           fields.pc \in {"begin", "admit", "lookup", "abort"},
           fields.pc = "begin" => fields.key \in Keys /\ fields.digest \in Digests,
           fields.pc # "begin" => fields.h \in issued,
           fields.pc = "admit" => fields.chunk \in Chunks
    PROVE  TypeInv'
  <1>1. call \in [Procs -> Call] /\ Expired \in SUBSET Handles
    BY DEF TypeInv, WriterTypeOK, Expired
  <1>2. [fields EXCEPT !.todo = Expired] \in Call
    BY <1>1, SetTodo
  <1>3. call' = [call EXCEPT ![p] = [fields EXCEPT !.todo = Expired]]
    BY DEF Start
  <1>4. call' \in [Procs -> Call] /\ \A q \in Procs \ {p} : call'[q] = call[q]
    BY <1>1, <1>2, <1>3
  <1>5. /\ call'[p].pc = fields.pc /\ call'[p].key = fields.key
        /\ call'[p].digest = fields.digest /\ call'[p].h = fields.h
        /\ call'[p].chunk = fields.chunk
    BY <1>1, <1>3 DEF Call
  <1>6. NamedCall(call[p])'
    BY <1>5 DEF NamedCall, BeginPCs, LockedPCs, Start, IndexOnly, ghosts
  <1>7. Named'
    BY <1>4, <1>6, SameNames, CallStep DEF TypeInv, Start, IndexOnly
  <1>8. IndexTypeOK' /\ disk' \in [Keys -> Entry]
    BY SweepType DEF TypeInv, Start
  <1>9. WriterTypeOK'
    BY <1>4, <1>8, IndexFrame, AnswerType DEF TypeInv, WriterTypeOK, Start, IndexOnly
  <1> QED BY <1>7, <1>9 DEF TypeInv

\* The fields a call starts with.
StartFields(fields) ==
    /\ fields.pc \in {"begin", "admit", "lookup", "abort"}
    /\ fields.pc = "begin" => fields.key \in Keys /\ fields.digest \in Digests
    /\ fields.pc # "begin" => fields.h \in issued
    /\ fields.pc = "admit" => fields.chunk \in Chunks

\* Every call starts with fields of its caller's request.
LEMMA CallStartsFields ==
    ASSUME TypeInv, NEW p \in Callers, CallStarts(p)
    PROVE  \E fields \in Call : Start(p, fields) /\ StartFields(fields)
  <1>0. p \in Procs /\ issued \subseteq Handles
    BY DEF Procs, TypeInv, Named
  <1>1. CASE BeginCall(p)
    <2>1. PICK ask \in Asks, proof \in BOOLEAN :
            Start(p, [NoCall EXCEPT !.pc = "begin", !.key = ask.key,
                                    !.digest = ask.digest, !.size = ask.size,
                                    !.proof = proof])
      BY <1>1 DEF BeginCall
    <2> DEFINE fields == [NoCall EXCEPT !.pc = "begin", !.key = ask.key,
                                        !.digest = ask.digest, !.size = ask.size,
                                        !.proof = proof]
    <2>2. ask.key \in Keys /\ ask.digest \in Digests /\ ask.size \in Nat
      BY WriterAssumption
    <2>3. fields \in Call
      BY <2>2, NoCallType, ZenonT(60) DEF Call, PCs, BeginPCs
    <2>4. fields.pc = "begin" /\ fields.key = ask.key /\ fields.digest = ask.digest
      BY DEF NoCall
    <2>5. StartFields(fields)
      BY <2>2, <2>4 DEF StartFields
    <2> QED BY <2>1, <2>3, <2>5
  <1>2. CASE AppendCall(p)
    <2>0. \A h \in issued : 0 .. up[h].size \subseteq Nat
      OBVIOUS
    <2>1. PICK h \in issued, chunk \in Chunks, offset \in Nat :
            Start(p, [NoCall EXCEPT !.pc = "admit", !.h = h, !.offset = offset,
                                    !.chunk = chunk])
      BY <1>2, <2>0 DEF AppendCall
    <2> DEFINE fields == [NoCall EXCEPT !.pc = "admit", !.h = h, !.offset = offset,
                                        !.chunk = chunk]
    <2>2. h \in Handles /\ offset \in Nat
      BY <1>0
    <2>3. fields \in Call
      BY <2>2, NoCallType, ZenonT(60) DEF Call, PCs
    <2>4. fields.pc = "admit" /\ fields.h = h /\ fields.chunk = chunk
      BY DEF NoCall
    <2>5. StartFields(fields)
      BY <2>4 DEF StartFields
    <2> QED BY <2>1, <2>3, <2>5
  <1>3. CASE CommitCall(p) \/ AbortCall(p)
    <2>1. PICK h \in issued, pc \in {"lookup", "abort"} :
            Start(p, [NoCall EXCEPT !.pc = pc, !.h = h])
      BY <1>3 DEF CommitCall, AbortCall
    <2> DEFINE fields == [NoCall EXCEPT !.pc = pc, !.h = h]
    <2>2. h \in Handles
      BY <1>0
    <2>3. fields \in Call
      BY <2>2, NoCallType, ZenonT(60) DEF Call, PCs
    <2>4. fields.pc = pc /\ fields.h = h
      BY DEF NoCall
    <2>5. StartFields(fields)
      BY <2>4 DEF StartFields
    <2> QED BY <2>1, <2>3, <2>5
  <1> QED BY <1>1, <1>2, <1>3 DEF CallStarts

\* Begin, Append, Commit and Abort keep the types when they start.
LEMMA CallStartsTypes ==
    ASSUME TypeInv, NEW p \in Callers, CallStarts(p)
    PROVE  TypeInv'
  BY CallStartsFields, StartTypes DEF StartFields, Procs

\* Facts every lemma about a step starts from.
LEMMA CallFacts ==
    ASSUME TypeInv, NEW p \in Procs
    PROVE  /\ call \in [Procs -> Call] /\ call[p] \in Call /\ NamedCall(call[p])
           /\ StoreTypeOK /\ IndexTypeOK /\ WriterTypeOK /\ Named
           /\ up \in [Handles -> Upload] /\ disk \in [Keys -> Entry] /\ issued \subseteq Handles
           /\ call[p].pc \notin {"idle", "begin"} => call[p].h \in Handles
  BY DEF TypeInv, WriterTypeOK, IndexTypeOK, Named, NamedCall

\* Handing a goroutine discards keeps what it names.
LEMMA TodoStep ==
    ASSUME TypeInv, NEW p \in Procs, NEW hs \in SUBSET Handles, UploadsKeepNames,
           call' = [call EXCEPT ![p].todo = hs]
    PROVE  call' \in [Procs -> Call] /\ Named'
  <1>1. call' \in [Procs -> Call] /\ \A q \in Procs \ {p} : call'[q] = call[q]
    BY CallFacts, SetTodo
  <1>2. /\ call'[p].pc = call[p].pc /\ call'[p].h = call[p].h /\ call'[p].place = call[p].place
        /\ call'[p].key = call[p].key /\ call'[p].digest = call[p].digest
        /\ call'[p].chunk = call[p].chunk
    BY CallFacts DEF Call
  <1>3. NamedCall(call[p])'
    BY CallFacts, <1>2 DEF NamedCall, UploadsKeepNames, LockedPCs
  <1> QED BY CallFacts, <1>1, <1>3, CallStep

\* The ticker is one of the goroutines.
LEMMA TickerProc == Ticker \in Procs
  BY DEF Procs

\* The ticker's sweep keeps the types.
LEMMA SweepTickTypes ==
    ASSUME TypeInv, SweepTick
    PROVE  TypeInv'
  <1>1. Expired \in SUBSET Handles
    BY DEF TypeInv, WriterTypeOK, Expired
  <1>2. call' \in [Procs -> Call] /\ Named'
    BY <1>1, TickerProc, TodoStep, SameNames DEF SweepTick, IndexOnly
  <1>3. IndexTypeOK' /\ disk' \in [Keys -> Entry]
    BY SweepType DEF SweepTick, TypeInv
  <1>4. WriterTypeOK'
    BY <1>2, <1>3, IndexFrame, AnswerType DEF TypeInv, WriterTypeOK, SweepTick, IndexOnly
  <1> QED BY <1>2, <1>4 DEF TypeInv

\* Ending an upload or its idle time renames nothing.
LEMMA UploadFields ==
    ASSUME NEW u \in Upload, NEW e \in Nat
    PROVE  /\ [u EXCEPT !.done = TRUE, !.file = None] \in Upload
           /\ [u EXCEPT !.done = TRUE] \in Upload
           /\ [u EXCEPT !.file = None] \in Upload
           /\ [u EXCEPT !.expires = e] \in Upload
  <1>1. [u EXCEPT !.done = TRUE, !.file = None] \in Upload
    BY ZenonT(60) DEF Upload
  <1>2. [u EXCEPT !.done = TRUE] \in Upload
    BY ZenonT(60) DEF Upload
  <1>3. [u EXCEPT !.file = None] \in Upload
    BY ZenonT(60) DEF Upload
  <1>4. [u EXCEPT !.expires = e] \in Upload
    BY ZenonT(60) DEF Upload
  <1> QED BY <1>1, <1>2, <1>3, <1>4

\* The changes a call makes to an upload beside its preparation keep its name.
LEMMA UploadStep ==
    ASSUME up \in [Handles -> Upload], NEW h \in Handles, NEW e \in Nat,
           \/ up' = [up EXCEPT ![h].done = TRUE, ![h].file = None]
           \/ up' = [up EXCEPT ![h].done = TRUE]
           \/ up' = [up EXCEPT ![h].file = None]
           \/ up' = [up EXCEPT ![h].expires = e],
           issued' = issued
    PROVE  up' \in [Handles -> Upload] /\ UploadsKeepNames
  <1>0. up[h] \in Upload
    OBVIOUS
  <1>1. PICK u \in Upload : up' = [up EXCEPT ![h] = u]
    <2>1. CASE up' = [up EXCEPT ![h].done = TRUE, ![h].file = None]
      BY <1>0, <2>1, UploadFields
    <2>2. CASE up' = [up EXCEPT ![h].done = TRUE]
      BY <1>0, <2>2, UploadFields
    <2>3. CASE up' = [up EXCEPT ![h].file = None]
      BY <1>0, <2>3, UploadFields
    <2>4. CASE up' = [up EXCEPT ![h].expires = e]
      BY <1>0, <2>4, UploadFields
    <2> QED BY <2>1, <2>2, <2>3, <2>4
  <1>2. \A g \in Handles \ {h} : up'[g] = up[g]
    OBVIOUS
  <1>3. /\ up'[h].ready = up[h].ready /\ up'[h].key = up[h].key
        /\ up'[h].digest = up[h].digest
    BY DEF Upload
  <1>4. up' \in [Handles -> Upload]
    BY <1>1
  <1> QED BY <1>2, <1>3, <1>4 DEF UploadsKeepNames

\* discard keeps the types.
LEMMA DiscardTypes ==
    ASSUME TypeInv, NEW p \in Procs, Discard(p)
    PROVE  TypeInv'
  <1>1. PICK h \in call[p].todo :
            /\ IF up[h].file # None THEN RemoveStaged(h, up[h].digest, up[h].place)
                                    ELSE UNCHANGED storeVars
            /\ up' = [up EXCEPT ![h].done = TRUE, ![h].file = None]
            /\ call' = [call EXCEPT ![p].todo = @ \ {h}]
    BY DEF Discard
  <1>2. h \in Handles /\ call[p].todo \ {h} \in SUBSET Handles
    BY CallFacts DEF Call
  <1>3. up' \in [Handles -> Upload] /\ UploadsKeepNames
    BY <1>1, <1>2, CallFacts, UploadStep DEF Discard, ghosts
  <1>4. call' \in [Procs -> Call] /\ Named'
    BY <1>1, <1>2, <1>3, TodoStep
  <1>5. StoreTypeOK'
    BY <1>1, <1>2, CallFacts, StoreOpsType, StoreFrame DEF Upload
  <1>6. WriterTypeOK'
    BY <1>3, <1>4, <1>5, CallFacts, CallFrame, AnswerType DEF Discard
  <1> QED BY <1>4, <1>6 DEF TypeInv

\* The types of what Begin works with, at each of its steps.
LEMMA BeginFacts ==
    ASSUME TypeInv, NEW p \in Procs, call[p].pc \in BeginPCs
    PROVE  /\ call[p].key \in Keys /\ call[p].digest \in Digests
           /\ records[call[p].key] \in Record /\ Current(call[p]) \in Record
  BY CallFacts, CurrentType DEF NamedCall, IndexTypeOK

\* A Begin that is refused, or whose save fails, keeps the types.
LEMMA BeginKeepTypes ==
    ASSUME TypeInv, NEW p \in Procs, BeginRefused(p) \/ BeginUnsaved(p)
    PROVE  TypeInv'
  <1>1. /\ call[p].pc = "begin" /\ Keep(call[p]) /\ Return(p)
        /\ UNCHANGED <<uploads, digests, disk>> /\ IndexOnly
    BY DEF BeginRefused, BeginUnsaved, Ready
  <1>2. call' \in [Procs -> Call] /\ Named'
    BY <1>1, ReturnStep, SameNames DEF IndexOnly
  <1>3. records' \in [Keys -> Record]
    BY <1>1, CallFacts, BeginFacts, KeepType DEF BeginPCs
  <1>4. IndexTypeOK'
    BY <1>1, <1>3, CallFacts DEF IndexTypeOK
  <1>5. WriterTypeOK'
    BY <1>1, <1>2, <1>4, CallFacts, IndexFrame, AnswerType DEF IndexOnly
  <1> QED BY <1>2, <1>5 DEF TypeInv

\* A replayed result is a well-typed answer.
LEMMA BeginReplayTypes ==
    ASSUME TypeInv, NEW p \in Procs, BeginReplay(p)
    PROVE  TypeInv'
  <1>1. call[p].key \in Keys /\ Current(call[p]) \in Record
    BY BeginFacts DEF BeginReplay, Ready, BeginPCs
  <1>2. answer' \in Answers
    <2>1. PICK r \in Record, k \in Keys : r = Current(call[p]) /\ k = call[p].key
      BY <1>1
    <2>2. PICK o \in {"committed", "present"} : Reply(o, r.evidence, r.digest, k)
      BY <2>1 DEF BeginReplay
    <2>3. r.evidence \in Evidence /\ r.digest \in Digests \cup {None}
      BY DEF Record
    <2> QED BY <2>2, <2>3, ReplyType
  <1>3. call' \in [Procs -> Call] /\ Named'
    BY ReturnStep, SameNames DEF BeginReplay
  <1>4. WriterTypeOK'
    BY <1>2, <1>3, CallFacts, CallFrame, StoreFrame DEF BeginReplay
  <1> QED BY <1>3, <1>4 DEF TypeInv

\* A Begin that waited for the upload answers a well-typed result.
LEMMA AwaitTypes ==
    ASSUME TypeInv, NEW p \in Procs, Await(p)
    PROVE  TypeInv'
  <1>1. call[p].key \in Keys /\ records[call[p].key] \in Record
    BY BeginFacts DEF Await, Ready, BeginPCs
  <1>2. answer' \in Answers
    <2>1. PICK r \in Record, k \in Keys : r = records[call[p].key] /\ k = call[p].key
      BY <1>1
    <2>2. Reply("committed", r.evidence, r.digest, k) \/ Silent
      BY <2>1 DEF Await
    <2>3. r.evidence \in Evidence /\ r.digest \in Digests \cup {None}
      BY DEF Record
    <2> QED BY <2>2, <2>3, ReplyType, AnswerType
  <1>3. call' \in [Procs -> Call] /\ Named'
    BY ReturnStep, SameNames DEF Await
  <1>4. WriterTypeOK'
    BY <1>2, <1>3, CallFacts, CallFrame, StoreFrame DEF Await
  <1> QED BY <1>3, <1>4 DEF TypeInv

\* Resuming an upload keeps the types.
LEMMA BeginResumeTypes ==
    ASSUME TypeInv, NEW p \in Procs, BeginResume(p)
    PROVE  TypeInv'
  <1> DEFINE r == Current(call[p])
  <1>1. /\ call[p].key \in Keys /\ call[p].digest \in Digests /\ r \in Record
    BY BeginFacts DEF BeginResume, Ready, BeginPCs
  <1>2. PICK h \in Handles, id \in Handles \cup {None} : h = r.handle /\ id = r.id
    BY <1>1, CallFacts DEF BeginResume, Live, Record
  <1>3. /\ up' = [up EXCEPT ![h].expires = now + IdleLifetime]
        /\ call' = [call EXCEPT ![p].pc = "await", ![p].h = h, ![p].rec = id]
        /\ up[h].ready
    BY <1>2 DEF BeginResume, Live
  <1>4. PICK e \in Nat : e = now + IdleLifetime
    BY WriterAssumption DEF TypeInv, WriterTypeOK
  <1>5. up' \in [Handles -> Upload] /\ UploadsKeepNames
    <2>1. up' = [up EXCEPT ![h].expires = e]
      BY <1>3, <1>4
    <2>2. issued' = issued
      BY DEF BeginResume, UploadOnly, ghosts
    <2> QED BY <2>1, <2>2, CallFacts, UploadStep
  <1>6. PICK n \in Call : n = [call[p] EXCEPT !.pc = "await", !.h = h, !.rec = id]
    BY CallFacts, SetUpload DEF PCs, BeginPCs
  <1>7. call' = [call EXCEPT ![p] = n]
    BY <1>3, <1>6, CallFacts
  <1>8. n.pc = "await" /\ n.h = h /\ n.key = call[p].key /\ n.digest = call[p].digest
    BY <1>6, CallFacts DEF Call
  <1>9. h \in issued
    BY <1>3, CallFacts DEF Named
  <1>10. call' \in [Procs -> Call] /\ call'[p] = n /\ \A q \in Procs \ {p} : call'[q] = call[q]
    BY <1>7, CallFacts
  <1>11. NamedCall(call[p])'
    BY <1>1, <1>5, <1>8, <1>9, <1>10 DEF NamedCall, LockedPCs, UploadsKeepNames
  <1>12. Named'
    BY <1>5, <1>10, <1>11, CallFacts, CallStep
  <1>13. WriterTypeOK'
    BY <1>5, <1>10, CallFacts, CallFrame, StoreFrame, AnswerType DEF BeginResume, UploadOnly
  <1> QED BY <1>12, <1>13 DEF TypeInv

\* Only BeginStart draws a handle.
LEMMA BeginStartTypes ==
    ASSUME TypeInv, NEW p \in Procs, BeginStart(p)
    PROVE  TypeInv'
  <1>1. PICK k \in Keys, d \in Digests, n \in Nat, r \in Record :
            k = call[p].key /\ d = call[p].digest /\ n = call[p].size /\ r = Current(call[p])
    BY BeginFacts, CallFacts DEF BeginStart, Ready, BeginPCs, Call
  <1>2. PICK h \in Handles \ issued :
        /\ issued' = issued \cup {h}
        /\ up' = [up EXCEPT ![h] = [NoUpload EXCEPT !.key = k, !.digest = d, !.size = n]]
        /\ uploads' = uploads \cup {h}
        /\ digests' = [digests EXCEPT ![d] = h]
        /\ records' = [records EXCEPT ![k] =
                        [NoRecord EXCEPT !.digest = d, !.size = n, !.handle = h,
                            !.expires = now + RequestRetention,
                            !.id = IF r.digest = None THEN h ELSE r.id]]
        /\ disk' = Image(records')
        /\ call' = [call EXCEPT ![p].pc = "find", ![p].h = h, ![p].rec = records'[k].id]
    BY <1>1 DEF BeginStart
  <1>3. PICK e \in Nat, id \in Handles \cup {None} :
            e = now + RequestRetention /\ id = IF r.digest = None THEN h ELSE r.id
    BY <1>2, WriterAssumption DEF TypeInv, WriterTypeOK, Record
  <1>4. PICK new \in Record :
            /\ new = [NoRecord EXCEPT !.digest = d, !.size = n, !.handle = h,
                                      !.expires = e, !.id = id]
            /\ new.id = id
    <2>1. [NoRecord EXCEPT !.digest = d, !.size = n, !.handle = h, !.expires = e,
                           !.id = id] \in Record
      BY DEF Record, NoRecord, Evidence
    <2>2. [NoRecord EXCEPT !.digest = d, !.size = n, !.handle = h, !.expires = e,
                           !.id = id].id = id
      BY DEF NoRecord
    <2> QED BY <2>1, <2>2
  <1>5. records' = [records EXCEPT ![k] = new] /\ records' \in [Keys -> Record]
    BY <1>2, <1>3, <1>4, CallFacts DEF IndexTypeOK
  <1>6. records'[k].id = id
    BY <1>4, <1>5, CallFacts DEF IndexTypeOK
  <1>7. PICK u \in Upload : /\ u = [NoUpload EXCEPT !.key = k, !.digest = d, !.size = n]
                            /\ ~u.ready
    <2>1. [NoUpload EXCEPT !.key = k, !.digest = d, !.size = n] \in Upload
      BY NoUploadType DEF Upload
    <2>2. ~[NoUpload EXCEPT !.key = k, !.digest = d, !.size = n].ready
      BY DEF NoUpload
    <2> QED BY <2>1, <2>2
  <1>8. /\ up' \in [Handles -> Upload] /\ up'[h] = u
        /\ \A g \in Handles \ {h} : up'[g] = up[g]
    BY <1>2, <1>7, CallFacts
  <1>9. PICK c \in Call : c = [call[p] EXCEPT !.pc = "find", !.h = h, !.rec = id]
    BY CallFacts, SetUpload DEF PCs, BeginPCs
  <1>10. call' = [call EXCEPT ![p] = c]
    <2>1. call' = [call EXCEPT ![p].pc = "find", ![p].h = h, ![p].rec = id]
      BY <1>2, <1>6
    <2> QED BY <1>9, <2>1, CallFacts
  <1>11. c.pc = "find" /\ c.h = h /\ c.key = k /\ c.digest = d
    BY <1>1, <1>9, CallFacts DEF Call
  <1>12. /\ call' \in [Procs -> Call] /\ call'[p] = c
         /\ \A q \in Procs \ {p} : call'[q] = call[q]
    BY <1>10, CallFacts
  <1>13. \A q \in Procs : NamedCall(call[q])'
    <2>1. NamedCall(call[p])'
      <3>1. h \in issued'
        BY <1>2
      <3>2. /\ call'[p].pc = "find" /\ call'[p].h = h /\ call'[p].key \in Keys
            /\ call'[p].digest \in Digests
        BY <1>11, <1>12
      <3> QED BY <3>1, <3>2 DEF NamedCall, LockedPCs
    <2>2. ASSUME NEW q \in Procs \ {p} PROVE NamedCall(call[q])'
      <3>1. NamedCall(call[q]) /\ call'[q] = call[q]
        BY <1>12, CallFacts DEF Named
      <3> QED BY <1>2, <1>8, <3>1, CallFacts DEF NamedCall, LockedPCs
    <2> QED BY <2>1, <2>2
  <1>14. Named'
    BY <1>2, <1>7, <1>8, <1>13, CallFacts DEF Named
  <1>15. IndexTypeOK' /\ disk' \in [Keys -> Entry]
    BY <1>2, <1>5, CallFacts, ImageType DEF IndexTypeOK
  <1>16. StoreTypeOK'
    BY CallFacts, StoreFrame DEF BeginStart
  <1>17. WriterTypeOK'
    BY <1>2, <1>8, <1>12, <1>15, <1>16, CallFacts, AnswerType
       DEF WriterTypeOK, IndexTypeOK, BeginStart
  <1> QED BY <1>14, <1>17 DEF TypeInv

-----------------------------------------------------------------------------
(* prepare.                                                                *)

\* A call of Begin goes on with new locals.
LEMMA PrepareStep ==
    ASSUME TypeInv, NEW p \in Procs, NEW n \in Call, call' = [call EXCEPT ![p] = n],
           UploadsKeepNames, call[p].pc \in PreparePCs,
           n.pc \in {"place", "open", "check", "settle"},
           n.key = call[p].key, n.digest = call[p].digest, n.h = call[p].h,
           n.pc = "open" => n.place \in {"blob", "incoming"}
    PROVE  call' \in [Procs -> Call] /\ Named'
  <1>1. /\ call' \in [Procs -> Call] /\ call'[p] = n
        /\ \A q \in Procs \ {p} : call'[q] = call[q]
    BY CallFacts
  <1>2. call[p].key \in Keys /\ call[p].digest \in Digests /\ call[p].h \in issued
    BY CallFacts DEF NamedCall, PreparePCs, BeginPCs
  <1>3. NamedCall(call[p])'
    BY <1>1, <1>2 DEF NamedCall, LockedPCs, UploadsKeepNames
  <1> QED BY <1>1, <1>3, CallFacts, CallStep

\* The program counters of prepare.
LEMMA SettlePCs == {"place", "open", "check", "settle", "find"} \subseteq PCs
  BY DEF PCs, BeginPCs

\* prepare's Find keeps the types.
LEMMA PrepareFindTypes ==
    ASSUME TypeInv, NEW p \in Procs, PrepareFind(p)
    PROVE  TypeInv'
  <1>1. /\ call[p] \in Call /\ call[p].pc = "find" /\ call[p].h \in Handles
        /\ call[p].digest \in Digests
    BY CallFacts DEF PrepareFind, Ready, NamedCall, BeginPCs
  <1>2. PICK n \in Call :
            /\ call' = [call EXCEPT ![p] = n]
            /\ n.pc \in {"place", "settle"} /\ n.key = call[p].key
            /\ n.digest = call[p].digest /\ n.h = call[p].h
    <2>1. CASE Settle(p, "present")
      <3>1. [call[p] EXCEPT !.pc = "settle", !.outcome = "present"] \in Call
        BY <1>1, SetOutcome, SettlePCs
      <3> QED BY <2>1, <3>1, CallFacts DEF Settle, Call
    <2>2. CASE call' = [call EXCEPT ![p].pc = "settle", ![p].outcome = "ready",
                                    ![p].file = call[p].h, ![p].place = "possession"]
      <3>1. [call[p] EXCEPT !.pc = "settle", !.outcome = "ready", !.file = call[p].h,
                            !.place = "possession"] \in Call
        BY <1>1, SetPossession, SettlePCs DEF Inodes, Places
      <3> QED BY <2>2, <3>1, CallFacts DEF Call
    <2>3. CASE Goto(p, "place")
      <3>1. [call[p] EXCEPT !.pc = "place"] \in Call
        BY <1>1, SetPc, SettlePCs
      <3> QED BY <2>3, <3>1, CallFacts DEF Goto, Call
    <2> QED BY <2>1, <2>2, <2>3 DEF PrepareFind
  <1>3. call' \in [Procs -> Call] /\ Named'
    BY <1>1, <1>2, PrepareStep, SameNames DEF PreparePCs, PrepareFind, FilesOnly
  <1>4. StoreTypeOK'
    BY <1>1, CallFacts, StoreOpsType, StoreFrame DEF PrepareFind
  <1>5. WriterTypeOK'
    BY <1>3, <1>4, CallFacts, CallFrame, AnswerType DEF PrepareFind, FilesOnly
  <1> QED BY <1>3, <1>5 DEF TypeInv

\* prepare's Place keeps the types.
LEMMA PreparePlaceTypes ==
    ASSUME TypeInv, NEW p \in Procs, PreparePlace(p)
    PROVE  TypeInv'
  <1>1. call[p] \in Call /\ call[p].pc = "place"
    BY CallFacts DEF PreparePlace, Ready
  <1>2. PICK place \in {"blob", "incoming"} : place = Place(call[p].digest)
    BY DEF Place
  <1>3. [call[p] EXCEPT !.pc = "open", !.place = place] \in Call
    BY <1>1, SetPlace, SettlePCs DEF Places
  <1>4. PICK n \in Call :
            /\ call' = [call EXCEPT ![p] = n] /\ n.pc = "open" /\ n.key = call[p].key
            /\ n.digest = call[p].digest /\ n.h = call[p].h /\ n.place = place
    BY <1>2, <1>3, CallFacts DEF PreparePlace, Call
  <1>5. call' \in [Procs -> Call] /\ Named'
    BY <1>1, <1>4, PrepareStep, SameNames DEF PreparePCs, PreparePlace, CallOnly
  <1>6. WriterTypeOK'
    BY <1>5, CallFacts, CallFrame, StoreFrame, AnswerType DEF PreparePlace, CallOnly
  <1> QED BY <1>5, <1>6 DEF TypeInv

\* prepare's OpenFile keeps the types.
LEMMA PrepareOpenTypes ==
    ASSUME TypeInv, NEW p \in Procs, PrepareOpen(p)
    PROVE  TypeInv'
  <1>1. PICK c \in Call : c = call[p]
    BY CallFacts
  <1>2. /\ c.pc = "open" /\ c.h \in Handles /\ c.digest \in Digests
        /\ c.place \in {"blob", "incoming"}
    BY <1>1, CallFacts DEF PrepareOpen, Ready, NamedCall, BeginPCs
  <1>3. PICK i \in Inodes : i = Opened(c.h, c.digest, c.place)
    BY <1>2, CallFacts, OpenedType
  <1>4. [c EXCEPT !.pc = "check", !.file = i] \in Call
    BY SetFile, SettlePCs
  <1>5. call' = [call EXCEPT ![p].pc = "check", ![p].file = i]
    BY <1>1, <1>3 DEF PrepareOpen
  <1>6. PICK n \in Call :
            /\ call' = [call EXCEPT ![p] = n] /\ n.pc = "check" /\ n.key = c.key
            /\ n.digest = c.digest /\ n.h = c.h
    BY <1>1, <1>4, <1>5, CallFacts DEF Call
  <1>7. call' \in [Procs -> Call] /\ Named'
    BY <1>1, <1>2, <1>6, PrepareStep DEF PreparePCs, PrepareOpen, UploadsKeepNames
  <1>8. StoreTypeOK'
    BY <1>1, <1>2, CallFacts, OpenStagingType DEF PrepareOpen
  <1>9. shared' \in SUBSET Digests
    BY <1>1, <1>2 DEF PrepareOpen, TypeInv, WriterTypeOK
  <1>10. WriterTypeOK'
    BY <1>7, <1>8, <1>9, CallFacts, AnswerType DEF WriterTypeOK, PrepareOpen, memory
  <1> QED BY <1>7, <1>10 DEF TypeInv

\* A prepare that checked its file or gave up keeps the types.
LEMMA PrepareSettleTypes ==
    ASSUME TypeInv, NEW p \in Procs, PrepareCheck(p) \/ PrepareFails(p)
    PROVE  TypeInv'
  <1>1. call[p] \in Call /\ call[p].pc \in PreparePCs /\ CallOnly
    BY CallFacts DEF PrepareCheck, PrepareFails, Ready, PreparePCs
  <1>2. PICK n \in Call :
            /\ call' = [call EXCEPT ![p] = n] /\ n.pc = "settle" /\ n.key = call[p].key
            /\ n.digest = call[p].digest /\ n.h = call[p].h
    <2>1. CASE Settle(p, "ready")
      <3>1. [call[p] EXCEPT !.pc = "settle", !.outcome = "ready"] \in Call
        BY <1>1, SetOutcome, SettlePCs
      <3> QED BY <2>1, <3>1, CallFacts DEF Settle, Call
    <2>2. CASE GiveUp(p)
      <3>1. [call[p] EXCEPT !.pc = "settle", !.outcome = "failed", !.place = None] \in Call
        BY <1>1, SetGiveUp, SettlePCs
      <3> QED BY <2>2, <3>1, CallFacts DEF GiveUp, Call
    <2> QED BY <2>1, <2>2 DEF PrepareCheck, PrepareFails
  <1>3. call' \in [Procs -> Call] /\ Named'
    BY <1>1, <1>2, PrepareStep, SameNames DEF CallOnly
  <1>4. WriterTypeOK'
    BY <1>1, <1>3, CallFacts, CallFrame, StoreFrame, AnswerType DEF CallOnly
  <1> QED BY <1>3, <1>4 DEF TypeInv

\* Setting or clearing the result of a record keeps its type.
LEMMA ResultFields ==
    ASSUME NEW r \in Record, NEW v \in Evidence, NEW b \in Handles \cup {None}, NEW e \in Nat
    PROVE  /\ [r EXCEPT !.evidence = v, !.by = b, !.expires = e] \in Record
           /\ [r EXCEPT !.evidence = v, !.by = b] \in Record
  <1>1. [r EXCEPT !.evidence = v, !.by = b, !.expires = e] \in Record
    BY ZenonT(60) DEF Record
  <1>2. [r EXCEPT !.evidence = v, !.by = b] \in Record
    BY ZenonT(60) DEF Record
  <1> QED BY <1>1, <1>2

\* Deadlines are numbers.
LEMMA RetentionType ==
    ASSUME TypeInv
    PROVE  now + RequestRetention \in Nat /\ now + IdleLifetime \in Nat
  BY WriterAssumption DEF TypeInv, WriterTypeOK

\* Recording a present answer keeps the types.
LEMMA BeginPresentTypes ==
    ASSUME TypeInv, NEW p \in Procs, BeginPresent(p)
    PROVE  TypeInv'
  <1>1. PICK k \in Keys, d \in Digests, h \in Handles :
            k = call[p].key /\ d = call[p].digest /\ h = call[p].h
    BY CallFacts DEF BeginPresent, Ready, NamedCall, BeginPCs
  <1>2. call' \in [Procs -> Call] /\ Named'
    BY ReturnStep, SameNames DEF BeginPresent, UploadsKeepNames, ghosts
  <1>3. uploads' \in SUBSET Handles /\ digests' \in [Digests -> Handles \cup {None}]
    BY CallFacts, UnindexType DEF BeginPresent
  <1>4. PICK r \in Record : r = Dropped(records[k], h, FALSE)
    BY CallFacts, DroppedType DEF IndexTypeOK
  <1>5. PICK e \in Nat : e = now + RequestRetention
    BY RetentionType
  <1>6. [r EXCEPT !.evidence = "named", !.by = h, !.expires = e] \in Record
    BY ResultFields DEF Evidence
  <1>7. PICK new \in Record : records' = [records EXCEPT ![k] = new]
    BY <1>1, <1>4, <1>5, <1>6 DEF BeginPresent
  <1>8. records' \in [Keys -> Record]
    BY <1>7, CallFacts DEF IndexTypeOK
  <1>9. disk' \in [Keys -> Entry]
    BY <1>8, CallFacts, SaveType DEF BeginPresent
  <1>10. answer' \in Answers
    BY <1>1, ReplyType DEF BeginPresent, Evidence
  <1>11. WriterTypeOK'
    BY <1>2, <1>3, <1>8, <1>9, <1>10, CallFacts, IndexFrame DEF IndexTypeOK, BeginPresent
  <1> QED BY <1>2, <1>11 DEF TypeInv

\* Begin's last step makes the upload ready: it has a key and a digest.
LEMMA BeginReadyTypes ==
    ASSUME TypeInv, Prepared, NEW p \in Procs, BeginReady(p)
    PROVE  TypeInv'
  <1>1. PICK h \in Handles, i \in Inodes \cup {None}, x \in Places \cup {None} :
            h = call[p].h /\ i = call[p].file /\ x = call[p].place
    BY CallFacts DEF BeginReady, Ready, Call
  <1>2. PICK e \in Nat : e = now + IdleLifetime
    BY RetentionType
  <1>3. up[h].key \in Keys /\ up[h].digest \in Digests /\ h \in issued
    BY <1>1, CallFacts DEF BeginReady, Ready, NamedCall, BeginPCs, Prepared, Prepares, PreparePCs
  <1>4. PICK u \in Upload : /\ u = [up[h] EXCEPT !.file = i, !.place = x, !.ready = TRUE,
                                                !.expires = e]
                            /\ u.key = up[h].key /\ u.digest = up[h].digest /\ u.ready
    <2>1. up[h] \in Upload
      BY CallFacts
    <2>2. [up[h] EXCEPT !.file = i, !.place = x, !.ready = TRUE, !.expires = e] \in Upload
      BY <2>1, ZenonT(60) DEF Upload
    <2> QED BY <2>1, <2>2 DEF Upload
  <1>5. up' = [up EXCEPT ![h] = u]
    <2>1. up' = [up EXCEPT ![h].file = i, ![h].place = x, ![h].ready = TRUE, ![h].expires = e]
      BY <1>1, <1>2 DEF BeginReady
    <2> QED BY <1>4, <2>1, CallFacts
  <1>6. /\ up' \in [Handles -> Upload] /\ up'[h] = u
        /\ \A g \in Handles \ {h} : up'[g] = up[g]
    BY <1>5, CallFacts
  <1>7. call' \in [Procs -> Call] /\ call'[p] = NoCall /\ issued' = issued
        /\ \A q \in Procs \ {p} : call'[q] = call[q]
    BY NoCallType, CallFacts DEF BeginReady, Return, UploadOnly, ghosts
  <1>8. \A q \in Procs : NamedCall(call[q])'
    <2>1. NamedCall(call[p])'
      BY <1>7 DEF NamedCall, NoCall, BeginPCs, LockedPCs
    <2>2. ASSUME NEW q \in Procs \ {p} PROVE NamedCall(call[q])'
      <3>1. NamedCall(call[q]) /\ call'[q] = call[q]
        BY <1>7, CallFacts DEF Named
      <3>2. \A g \in Handles : up[g].ready => up'[g].ready
        BY <1>4, <1>6
      <3>3. issued \subseteq Handles
        BY CallFacts
      <3> QED BY <1>7, <3>1, <3>2, <3>3 DEF NamedCall, LockedPCs
    <2> QED BY <2>1, <2>2
  <1>9. Named'
    BY <1>3, <1>4, <1>6, <1>7, <1>8, CallFacts DEF Named
  <1>10. WriterTypeOK'
    BY <1>6, <1>7, CallFacts, CallFrame, StoreFrame, AnswerType DEF BeginReady, UploadOnly
  <1> QED BY <1>9, <1>10 DEF TypeInv

\* A step that unlinks, saves and moves its call keeps the types.
LEMMA UnlinkingTypes ==
    ASSUME TypeInv, NEW p \in Procs, NEW h, NEW forget, UnlinkAndSave(h, forget), IndexOnly,
           call' \in [Procs -> Call], Named'
    PROVE  TypeInv'
  <1>1. IndexTypeOK' /\ disk' \in [Keys -> Entry]
    BY CallFacts, UnlinkAndSaveType
  <1>2. WriterTypeOK'
    BY <1>1, CallFacts, IndexFrame, AnswerType DEF IndexOnly
  <1> QED BY <1>2 DEF TypeInv

\* A Begin that forgets its identity keeps the types.
LEMMA BeginFailedTypes ==
    ASSUME TypeInv, NEW p \in Procs, BeginFailed(p)
    PROVE  TypeInv'
  <1>1. call[p].pc = "settle" /\ UnlinkAndSave(call[p].h, TRUE) /\ IndexOnly
    BY DEF BeginFailed, Ready
  <1>2. UploadsKeepNames
    BY <1>1, SameNames DEF IndexOnly
  <1>3. CASE Goto(p, "cleanup")
    BY <1>1, <1>2, <1>3, GotoStep, UnlinkingTypes DEF PCs, BeginPCs, LockedPCs
  <1>4. CASE Return(p)
    BY <1>1, <1>2, <1>4, ReturnStep, UnlinkingTypes
  <1> QED BY <1>3, <1>4 DEF BeginFailed

\* Removing a failed Begin's staging file keeps the types.
LEMMA BeginCleanupTypes ==
    ASSUME TypeInv, NEW p \in Procs, BeginCleanup(p)
    PROVE  TypeInv'
  <1>1. PICK h \in Handles, d \in Digests \cup {None}, x \in Places \cup {None} :
            RemoveStaged(h, d, x)
    BY CallFacts DEF BeginCleanup, Ready, Call
  <1>2. call' \in [Procs -> Call] /\ Named'
    BY ReturnStep, SameNames DEF BeginCleanup, FilesOnly
  <1>3. WriterTypeOK'
    BY <1>1, <1>2, CallFacts, StoreOpsType, CallFrame, AnswerType DEF BeginCleanup, FilesOnly
  <1> QED BY <1>2, <1>3 DEF TypeInv

-----------------------------------------------------------------------------
(* Append, Abort and Commit.                                               *)

\* Append's admission keeps the types.
LEMMA AppendAdmitTypes ==
    ASSUME TypeInv, NEW p \in Procs, AppendAdmit(p)
    PROVE  TypeInv'
  <1>1. PICK h \in Handles, e \in Nat : h = call[p].h /\ e = now + IdleLifetime
    BY CallFacts, RetentionType DEF AppendAdmit, Ready
  <1>2. UNCHANGED <<storeVars, memory, disk, now, phase, ghosts>> /\ issued' = issued
    BY DEF AppendAdmit, UploadOnly, ghosts
  <1>3. CASE Live(h)
    <2>1. up' = [up EXCEPT ![h].expires = e] /\ Goto(p, "write") /\ up[h].ready
      BY <1>1, <1>3 DEF AppendAdmit, Live
    <2>2. up' \in [Handles -> Upload] /\ UploadsKeepNames
      BY <1>2, <2>1, CallFacts, UploadStep
    <2>3. call[p].pc = "admit" /\ up[call[p].h].ready /\ call[p].chunk \in Chunks
      BY <1>1, <2>1, CallFacts DEF AppendAdmit, Ready, NamedCall
    <2>4. call' \in [Procs -> Call] /\ Named'
      BY <2>1, <2>2, <2>3, GotoStep DEF PCs, BeginPCs, LockedPCs
    <2>5. WriterTypeOK'
      BY <1>2, <2>2, <2>4, CallFacts, CallFrame, StoreFrame, AnswerType DEF AppendAdmit, UploadOnly
    <2> QED BY <2>4, <2>5 DEF TypeInv
  <1>4. CASE ~Live(h)
    <2>1. Return(p) /\ UNCHANGED up
      BY <1>1, <1>4 DEF AppendAdmit
    <2>2. call' \in [Procs -> Call] /\ Named'
      BY <1>2, <2>1, ReturnStep, SameNames
    <2>3. WriterTypeOK'
      BY <1>2, <2>1, <2>2, CallFacts, CallFrame, StoreFrame, AnswerType DEF AppendAdmit, UploadOnly
    <2> QED BY <2>2, <2>3 DEF TypeInv
  <1> QED BY <1>3, <1>4

\* Append's write keeps the types.
LEMMA AppendWriteTypes ==
    ASSUME TypeInv, NEW p \in Procs, AppendWrite(p)
    PROVE  TypeInv'
  <1>1. PICK h \in Handles, o \in Nat, x \in Chunks :
            h = call[p].h /\ o = call[p].offset /\ x = call[p].chunk
    BY CallFacts DEF AppendWrite, Ready, Call, NamedCall
  <1>2. Return(p) /\ UNCHANGED <<memory, disk, now, phase, ghosts>> /\ issued' = issued /\ Silent
    BY DEF AppendWrite, ghosts
  <1>3. StoreTypeOK' /\ up' \in [Handles -> Upload] /\ UploadsKeepNames
    <2>1. CASE Accepts(up[h], o)
      <3>1. WriteStaged(up[h].file, o, x) /\ up' = [up EXCEPT ![h].sum = Append(@, x)]
        BY <1>1, <2>1 DEF AppendWrite
      <3>2. up[h].file \in Inodes /\ up[h].sum \in Seq(Chunks)
        BY <2>1, CallFacts DEF Accepts, Upload
      <3>3. StoreTypeOK'
        BY <3>1, <3>2, CallFacts, WriteStagedType
      <3>4. PICK s \in Seq(Chunks) : s = Append(up[h].sum, x)
        <4>1. Append(up[h].sum, x) \in Seq(Chunks)
          BY <3>2
        <4> QED BY <4>1
      <3>5. [up[h] EXCEPT !.sum = s] \in Upload
        BY CallFacts, ZenonT(60) DEF Upload
      <3>6. PICK u \in Upload : u = [up[h] EXCEPT !.sum = s]
        BY <3>5
      <3>7. up' = [up EXCEPT ![h] = u] /\ u.key = up[h].key /\ u.digest = up[h].digest
            /\ u.ready = up[h].ready
        BY <3>1, <3>4, <3>6, CallFacts DEF Upload
      <3>8. up' \in [Handles -> Upload] /\ up'[h] = u /\ \A g \in Handles \ {h} : up'[g] = up[g]
        BY <3>7, CallFacts
      <3> QED BY <1>2, <3>3, <3>7, <3>8 DEF UploadsKeepNames
    <2>2. CASE ~Accepts(up[h], o)
      BY <1>1, <1>2, <2>2, CallFacts, StoreFrame, SameNames DEF AppendWrite
    <2> QED BY <2>1, <2>2
  <1>4. call' \in [Procs -> Call] /\ Named'
    BY <1>2, <1>3, ReturnStep
  <1>5. WriterTypeOK'
    BY <1>2, <1>3, <1>4, CallFacts, CallFrame, AnswerType
  <1> QED BY <1>4, <1>5 DEF TypeInv

\* At a locked program counter the upload of the call has its names.
LEMMA LockedFacts ==
    ASSUME TypeInv, NEW p \in Procs, call[p].pc \in LockedPCs \cup {"write", "verify"}
    PROVE  /\ call[p].h \in Handles /\ up[call[p].h] \in Upload /\ up[call[p].h].ready
           /\ up[call[p].h].key \in Keys /\ up[call[p].h].digest \in Digests
           /\ records[up[call[p].h].key] \in Record
           /\ call[p].pc \notin {"idle", "begin"}
  <1>1. call[p].pc \notin {"idle", "begin"}
    BY DEF LockedPCs
  <1>2. call[p].h \in Handles /\ up[call[p].h].ready
    BY <1>1, CallFacts DEF NamedCall
  <1> QED BY <1>1, <1>2, CallFacts DEF Named, IndexTypeOK

\* A commit, or a failing append, goes to the next locked program counter.
LEMMA LockedStep ==
    ASSUME TypeInv, NEW p \in Procs, call[p].pc \in LockedPCs \cup {"write", "verify"},
           NEW pc \in LockedPCs, Goto(p, pc), UploadsKeepNames
    PROVE  call' \in [Procs -> Call] /\ Named'
  BY LockedFacts, GotoStep DEF PCs, LockedPCs, BeginPCs

\* The staging file goes and the upload is done.
LEMMA EndTypes ==
    ASSUME TypeInv, NEW p \in Procs, call[p].pc \in LockedPCs \cup {"write", "verify"},
           RemoveStaged(call[p].h, up[call[p].h].digest, up[call[p].h].place),
           up' = [up EXCEPT ![call[p].h].done = TRUE, ![call[p].h].file = None],
           Goto(p, "unlink"), Silent, UNCHANGED <<memory, disk, now, phase, ghosts>>
    PROVE  TypeInv'
  <1>1. PICK h \in Handles, d \in Digests \cup {None}, x \in Places \cup {None} :
            h = call[p].h /\ d = up[h].digest /\ x = up[h].place
    BY LockedFacts DEF Upload
  <1>2. StoreTypeOK'
    BY <1>1, CallFacts, StoreOpsType
  <1>3. issued' = issued /\ up' = [up EXCEPT ![h].done = TRUE, ![h].file = None]
    BY <1>1 DEF ghosts
  <1>4. up' \in [Handles -> Upload] /\ UploadsKeepNames
    <2>1. 0 \in Nat
      OBVIOUS
    <2> QED BY <1>3, <2>1, CallFacts, UploadStep
  <1>5. call' \in [Procs -> Call] /\ Named'
    BY <1>4, LockedStep DEF LockedPCs
  <1>6. WriterTypeOK'
    BY <1>2, <1>4, <1>5, CallFacts, CallFrame, AnswerType
  <1> QED BY <1>5, <1>6 DEF TypeInv

\* Dropping the staged bytes keeps the types.
LEMMA DropTypes ==
    ASSUME TypeInv, NEW p \in Procs, AppendFails(p) \/ CommitDrop(p)
    PROVE  TypeInv'
  <1>1. CASE AppendFails(p)
    BY <1>1, EndTypes DEF AppendFails, Ready
  <1>2. CASE CommitDrop(p)
    BY <1>2, EndTypes DEF CommitDrop, Ready, LockedPCs
  <1> QED BY <1>1, <1>2

\* A step of its call alone.
LEMMA CallOnlyTypes ==
    ASSUME TypeInv, CallOnly, call' \in [Procs -> Call], Named'
    PROVE  TypeInv'
  <1>1. WriterTypeOK
    BY DEF TypeInv
  <1>2. StoreTypeOK' /\ up' \in [Handles -> Upload] /\ answer' \in Answers
    BY <1>1, StoreFrame, AnswerType DEF CallOnly, WriterTypeOK
  <1>3. WriterTypeOK'
    BY <1>1, <1>2, CallFrame DEF CallOnly
  <1> QED BY <1>3 DEF TypeInv

\* A call that returns and does nothing else keeps the types.
LEMMA CallReturnsTypes ==
    ASSUME TypeInv, NEW p \in Procs, Return(p), CallOnly
    PROVE  TypeInv'
  BY ReturnStep, SameNames, CallOnlyTypes DEF CallOnly

\* Abort keeps the types.
LEMMA AbortTypes ==
    ASSUME TypeInv, NEW p \in Procs, AbortUpload(p)
    PROVE  TypeInv'
  <1>1. PICK h \in Handles : h = call[p].h
    BY CallFacts DEF AbortUpload, Ready
  <1>2. UploadsKeepNames
    BY SameNames DEF AbortUpload, IndexOnly
  <1>3. CASE Live(h)
    <2>1. UnlinkAndSave(h, TRUE) /\ call' = [call EXCEPT ![p] = [NoCall EXCEPT !.todo = {h}]]
      BY <1>1, <1>3 DEF AbortUpload
    <2>2. [NoCall EXCEPT !.todo = {h}] \in Call
      BY NoCallType, SetTodo
    <2>3. /\ call' \in [Procs -> Call] /\ call'[p].pc = "idle"
          /\ \A q \in Procs \ {p} : call'[q] = call[q]
      BY <2>1, <2>2, CallFacts DEF NoCall
    <2>4. NamedCall(call[p])'
      BY <2>3 DEF NamedCall, BeginPCs, LockedPCs
    <2> QED BY <1>2, <2>1, <2>3, <2>4, CallStep, CallFacts, UnlinkingTypes DEF AbortUpload
  <1>4. CASE ~Live(h)
    BY <1>1, <1>4, CallReturnsTypes DEF AbortUpload, IndexOnly, CallOnly
  <1> QED BY <1>3, <1>4

\* Commit's lookup keeps the types.
LEMMA CommitLookupTypes ==
    ASSUME TypeInv, NEW p \in Procs, CommitLookup(p)
    PROVE  TypeInv'
  <1>1. CASE Goto(p, "verify") /\ up[call[p].h].ready
    BY <1>1, GotoStep, SameNames, CallOnlyTypes
       DEF CommitLookup, Ready, CallOnly, PCs, BeginPCs, LockedPCs
  <1>2. CASE Return(p)
    BY <1>2, CallReturnsTypes DEF CommitLookup
  <1> QED BY <1>1, <1>2 DEF CommitLookup, Live

\* Commit's verification keeps the types.
LEMMA CommitVerifyTypes ==
    ASSUME TypeInv, NEW p \in Procs, CommitVerify(p)
    PROVE  TypeInv'
  <1>1. call[p].pc = "verify" /\ CallOnly /\ UploadsKeepNames
    BY SameNames DEF CommitVerify, Ready, CallOnly
  <1>2. CASE Goto(p, "decide")
    BY <1>1, <1>2, LockedStep, CallOnlyTypes DEF LockedPCs
  <1>3. CASE call' = [call EXCEPT ![p].pc = "drop", ![p].forget = TRUE]
    <2>1. PICK n \in Call : n = [call[p] EXCEPT !.pc = "drop", !.forget = TRUE]
      BY CallFacts, SetForget DEF PCs, LockedPCs
    <2>2. /\ call' = [call EXCEPT ![p] = n]
          /\ n.pc = "drop" /\ n.h = call[p].h
      BY <1>3, <2>1, CallFacts DEF Call
    <2>3. /\ call' \in [Procs -> Call] /\ call'[p] = n
          /\ \A q \in Procs \ {p} : call'[q] = call[q]
      BY <2>2, CallFacts
    <2>4. n.h \in issued /\ up[n.h].ready
      BY <1>1, <2>2, CallFacts DEF NamedCall
    <2>5. up' = up /\ issued' = issued
      BY <1>1 DEF CallOnly, ghosts
    <2>6. NamedCall(call[p])'
      BY <2>2, <2>3, <2>4, <2>5 DEF NamedCall, BeginPCs
    <2> QED BY <1>1, <2>3, <2>6, CallFacts, CallStep, CallOnlyTypes
  <1> QED BY <1>2, <1>3 DEF CommitVerify

\* Commit's Sync and Close keep the types.
LEMMA CommitSyncTypes ==
    ASSUME TypeInv, NEW p \in Procs, CommitSync(p)
    PROVE  TypeInv'
  <1>1. call[p].pc = "decide" /\ UploadOnly /\ issued' = issued
    BY DEF CommitSync, Ready, UploadOnly, ghosts
  <1>2. call[p].h \in Handles
    BY <1>1, LockedFacts DEF LockedPCs
  <1>3. up' \in [Handles -> Upload] /\ UploadsKeepNames
    <2>1. CASE up' = [up EXCEPT ![call[p].h].file = None]
      <3>1. 0 \in Nat
        OBVIOUS
      <3> QED BY <1>1, <1>2, <2>1, <3>1, CallFacts, UploadStep
    <2>2. CASE UNCHANGED up
      BY <1>1, <2>2, CallFacts, SameNames DEF UploadOnly
    <2> QED BY <2>1, <2>2 DEF CommitSync
  <1>4. call' \in [Procs -> Call] /\ Named'
    BY <1>1, <1>3, LockedStep DEF CommitSync, LockedPCs
  <1>5. WriterTypeOK'
    BY <1>1, <1>3, <1>4, CallFacts, CallFrame, StoreFrame, AnswerType DEF UploadOnly
  <1> QED BY <1>4, <1>5 DEF TypeInv

\* Recording the result of a commit keeps the types.
LEMMA CommitIntentTypes ==
    ASSUME TypeInv, NEW p \in Procs, CommitIntent(p)
    PROVE  TypeInv'
  <1>1. call[p].pc = "intent" /\ UploadsKeepNames
    BY SameNames DEF CommitIntent, Ready, UploadsKeepNames, ghosts
  <1>2. PICK h \in Handles, k \in Keys, r \in Record, e \in Nat :
            /\ h = call[p].h /\ k = up[h].key /\ r = records[k]
            /\ e = now + RequestRetention
    BY <1>1, LockedFacts, RetentionType DEF LockedPCs
  <1>3. [r EXCEPT !.evidence = "hashed", !.by = h, !.expires = e] \in Record
    BY ResultFields DEF Evidence
  <1>4. PICK new \in Record : records' = [records EXCEPT ![k] = new]
    <2>1. records' = [records EXCEPT ![k].evidence = "hashed", ![k].by = h, ![k].expires = e]
      BY <1>2 DEF CommitIntent
    <2> QED BY <1>2, <1>3, <2>1, CallFacts DEF IndexTypeOK
  <1>5. records' \in [Keys -> Record]
    BY <1>4, CallFacts DEF IndexTypeOK
  <1>6. PICK n \in Call : n = [call[p] EXCEPT !.pc = "publish", !.rec = r.id,
                                              !.previous = r.expires]
    BY CallFacts, SetRecord DEF PCs, LockedPCs, Record
  <1>7. call' = [call EXCEPT ![p] = n] /\ n.pc = "publish" /\ n.h = h
    <2>1. call' = [call EXCEPT ![p].pc = "publish", ![p].rec = r.id,
                               ![p].previous = r.expires]
      BY <1>2 DEF CommitIntent
    <2> QED BY <1>2, <1>6, <2>1, CallFacts DEF Call
  <1>8. /\ call' \in [Procs -> Call] /\ call'[p] = n
        /\ \A q \in Procs \ {p} : call'[q] = call[q]
    BY <1>7, CallFacts
  <1>9. h \in issued' /\ up'[h].ready
    BY <1>1, <1>2, CallFacts, LockedFacts DEF NamedCall, UploadsKeepNames, LockedPCs
  <1>10. NamedCall(call[p])'
    BY <1>7, <1>8, <1>9 DEF NamedCall, BeginPCs
  <1>11. Named'
    BY <1>1, <1>8, <1>10, CallFacts, CallStep
  <1>12. IndexTypeOK' /\ disk' \in [Keys -> Entry]
    BY <1>5, CallFacts, ImageType DEF IndexTypeOK, CommitIntent
  <1>13. WriterTypeOK'
    BY <1>8, <1>12, CallFacts, IndexFrame, AnswerType DEF CommitIntent
  <1> QED BY <1>11, <1>13 DEF TypeInv

\* Taking a result back.
LEMMA WithdrawTypes ==
    ASSUME TypeInv, NEW p \in Procs, CommitUnrecorded(p) \/ CommitDemote(p)
    PROVE  TypeInv'
  <1>1. /\ call[p].pc \in {"intent", "demote"} /\ Goto(p, "drop") /\ Silent
        /\ UNCHANGED <<storeVars, uploads, digests, up, now, phase, ghosts>>
    BY DEF CommitUnrecorded, CommitDemote, Ready
  <1>2. call' \in [Procs -> Call] /\ Named'
    BY <1>1, LockedStep, SameNames DEF LockedPCs
  <1>3. PICK k \in Keys, r \in Record, e \in Nat :
            k = up[call[p].h].key /\ r = records[k] /\ e = call[p].previous
    BY <1>1, LockedFacts, CallFacts DEF LockedPCs, Call
  <1>4. records' \in [Keys -> Record]
    <2>1. CASE UNCHANGED records
      BY <2>1, CallFacts DEF IndexTypeOK
    <2>2. CASE records' = [records EXCEPT ![k].evidence = None, ![k].by = None]
      <3>1. [r EXCEPT !.evidence = None, !.by = None] \in Record
        BY ResultFields DEF Evidence
      <3> QED BY <1>3, <2>2, <3>1, CallFacts DEF IndexTypeOK
    <2>3. CASE records' = [records EXCEPT ![k].evidence = None, ![k].by = None,
                                          ![k].expires = e]
      <3>1. PICK new \in Record : new = [r EXCEPT !.evidence = None, !.by = None, !.expires = e]
        BY ResultFields DEF Evidence
      <3>2. records' = [records EXCEPT ![k] = new]
        BY <1>3, <2>3, <3>1, CallFacts DEF IndexTypeOK
      <3> QED BY <3>2, CallFacts DEF IndexTypeOK
    <2> QED BY <1>3, <2>1, <2>2, <2>3 DEF CommitUnrecorded, CommitDemote
  <1>5. disk' \in [Keys -> Entry]
    <2>1. Save \/ UNCHANGED disk
      BY DEF CommitUnrecorded, CommitDemote
    <2> QED BY <1>4, <2>1, CallFacts, SaveType
  <1>6. IndexTypeOK'
    BY <1>1, <1>4, CallFacts DEF IndexTypeOK
  <1>7. WriterTypeOK'
    BY <1>1, <1>2, <1>5, <1>6, CallFacts, IndexFrame, AnswerType
  <1> QED BY <1>2, <1>7 DEF TypeInv

\* The provider's publishing step keeps the types.
LEMMA CommitPublishTypes ==
    ASSUME TypeInv, NEW p \in Procs, CommitPublish(p)
    PROVE  TypeInv'
  <1>1. call[p].pc = "publish" /\ Goto(p, "confirm") /\ FilesOnly
    BY DEF CommitPublish, Ready
  <1>2. call' \in [Procs -> Call] /\ Named'
    BY <1>1, LockedStep, SameNames DEF LockedPCs, FilesOnly
  <1>3. PICK h \in Handles, d \in Digests, x \in Places \cup {None} :
            h = call[p].h /\ d = up[h].digest /\ x = up[h].place
    BY <1>1, LockedFacts DEF LockedPCs, Upload
  <1>4. RemoveStaged(h, d, x) \/ Rename(d)
    BY <1>3 DEF CommitPublish
  <1>5. StoreTypeOK'
    BY <1>4, CallFacts, StoreOpsType
  <1>6. WriterTypeOK'
    BY <1>1, <1>2, <1>5, CallFacts, CallFrame, AnswerType DEF FilesOnly
  <1> QED BY <1>2, <1>6 DEF TypeInv

\* A commit whose object was not published or not found keeps the types.
LEMMA CommitGoesOnTypes ==
    ASSUME TypeInv, NEW p \in Procs, CommitUnpublished(p) \/ CommitLost(p)
    PROVE  TypeInv'
  <1>1. call[p].pc \in {"publish", "confirm"} /\ Goto(p, "demote") /\ CallOnly
    BY DEF CommitUnpublished, CommitLost, Ready
  <1> QED BY <1>1, LockedStep, SameNames, CallOnlyTypes DEF LockedPCs, CallOnly

\* The end of a successful commit keeps the types.
LEMMA CommitFinishTypes ==
    ASSUME TypeInv, NEW p \in Procs, CommitFinish(p)
    PROVE  TypeInv'
  <1>1. PICK h \in Handles, d \in Digests, k \in Keys :
            h = call[p].h /\ d = up[h].digest /\ k = up[h].key
    BY LockedFacts DEF CommitFinish, Ready, LockedPCs
  <1>2. /\ up' = [up EXCEPT ![h].done = TRUE] /\ issued' = issued
        /\ Unlink(h, FALSE) /\ Reply("committed", "hashed", d, k) /\ Return(p)
    BY <1>1 DEF CommitFinish, ghosts
  <1>3. up' \in [Handles -> Upload] /\ UploadsKeepNames
    <2>1. 0 \in Nat
      OBVIOUS
    <2> QED BY <1>2, <2>1, CallFacts, UploadStep
  <1>4. call' \in [Procs -> Call] /\ Named'
    BY <1>2, <1>3, ReturnStep
  <1>5. IndexTypeOK' /\ disk' \in [Keys -> Entry]
    BY <1>2, CallFacts, UnlinkType DEF CommitFinish
  <1>6. answer' \in Answers
    BY <1>2, ReplyType DEF Evidence
  <1>7. WriterTypeOK'
    BY <1>3, <1>4, <1>5, <1>6, CallFacts, IndexFrame DEF CommitFinish
  <1> QED BY <1>4, <1>7 DEF TypeInv

\* The last critical section of a drop keeps the types.
LEMMA UnlinkStepTypes ==
    ASSUME TypeInv, NEW p \in Procs, Unlinking(p)
    PROVE  TypeInv'
  <1>1. UnlinkAndSave(call[p].h, call[p].forget) /\ IndexOnly /\ Return(p)
    BY DEF Unlinking
  <1> QED BY <1>1, ReturnStep, SameNames, UnlinkingTypes DEF IndexOnly

-----------------------------------------------------------------------------
(* The environment.                                                        *)

\* Close keeps the types.
LEMMA CloseTypes ==
    ASSUME TypeInv, Close
    PROVE  TypeInv'
  <1>1. PICK hs \in SUBSET Handles : hs = call[Ticker].todo \cup uploads
    BY CallFacts, TickerProc DEF Call, IndexTypeOK
  <1>2. call' = [call EXCEPT ![Ticker].todo = hs]
    BY <1>1 DEF Close
  <1>3. call' \in [Procs -> Call] /\ Named'
    BY <1>2, TickerProc, TodoStep, SameNames DEF Close
  <1>4. IndexTypeOK'
    BY CallFacts, TickerProc, UnindexType, NoRecordType DEF Close, IndexTypeOK
  <1>5. WriterTypeOK'
    BY <1>3, <1>4, StoreFrame, AnswerType DEF TypeInv, WriterTypeOK, IndexTypeOK, Close, ghosts
  <1> QED BY <1>3, <1>5 DEF TypeInv

\* A crash keeps the types.
LEMMA CrashTypes ==
    ASSUME TypeInv, Crash
    PROVE  TypeInv'
  <1>1. call' \in [Procs -> Call] /\ up' \in [Handles -> Upload]
    BY NoCallType, NoUploadType DEF Crash
  <1>2. IndexTypeOK'
    BY CallFacts, TickerProc, UnindexType, NoRecordType DEF Crash, IndexTypeOK
  <1>3. Named'
    <2>1. \A h \in Handles : ~up'[h].ready
      BY DEF Crash, NoUpload
    <2>2. \A q \in Procs : NamedCall(call[q])'
      BY DEF Crash, NamedCall, NoCall, BeginPCs, LockedPCs
    <2> QED BY <2>1, <2>2 DEF Named, TypeInv, Crash, ghosts
  <1>4. WriterTypeOK'
    BY <1>1, <1>2, StoreFrame, AnswerType DEF TypeInv, WriterTypeOK, IndexTypeOK, Crash, ghosts
  <1> QED BY <1>3, <1>4 DEF TypeInv

\* A step that leaves the calls and the uploads alone.
LEMMA NamedFrame ==
    ASSUME Named, UNCHANGED <<up, call, ghosts>>
    PROVE  Named'
  BY DEF Named, NamedCall, ghosts

\* load restores well-typed records.
LEMMA RestoredType ==
    ASSUME TypeInv, NEW e \in Entry
    PROVE  Restored(e) \in Record
  <1>1. PICK v \in Evidence : v = IF Find(e.digest) THEN e.evidence ELSE None
    BY DEF Entry, Evidence
  <1>2. [NoRecord EXCEPT !.digest = e.digest, !.size = e.size, !.expires = e.expires,
                         !.evidence = v] \in Record
    BY DEF Record, NoRecord, Entry, Evidence
  <1> QED BY <1>1, <1>2, NoRecordType DEF Restored

\* Startup keeps the types, whether it can save or not.
LEMMA StartupTypes ==
    ASSUME TypeInv, Startup \/ StartupRefused
    PROVE  TypeInv'
  <1>1. Named'
    BY NamedFrame DEF TypeInv, Startup, StartupRefused
  <1>2. StoreTypeOK'
    BY DEF TypeInv, WriterTypeOK, StoreTypeOK, Startup, StartupRefused, CleanStaging
  <1>3. records' \in [Keys -> Record]
    BY RestoredType DEF TypeInv, WriterTypeOK, Startup, StartupRefused, memory
  <1>4. disk' \in [Keys -> Entry]
    BY <1>3, ImageType DEF TypeInv, WriterTypeOK, Startup, StartupRefused
  <1>5. WriterTypeOK'
    BY <1>2, <1>3, <1>4, AnswerType
       DEF TypeInv, WriterTypeOK, Startup, StartupRefused, memory, ghosts
  <1> QED BY <1>1, <1>5 DEF TypeInv

\* The clock keeps the types.
LEMMA TickTypes ==
    ASSUME TypeInv, Tick
    PROVE  TypeInv'
  <1>1. Named'
    BY NamedFrame DEF TypeInv, Tick
  <1>2. now' \in 0 .. MaxTime
    BY WriterAssumption DEF TypeInv, WriterTypeOK, Tick
  <1>3. WriterTypeOK'
    BY <1>2, StoreFrame, AnswerType DEF TypeInv, WriterTypeOK, Tick, memory, ghosts
  <1> QED BY <1>1, <1>3 DEF TypeInv

\* Publishes and removals of other owners keep the types.
LEMMA OtherOwnerTypes ==
    ASSUME TypeInv, Publish \/ Collect
    PROVE  TypeInv'
  <1>1. UNCHANGED <<memory, disk, up, call, now, phase, ghosts>> /\ Silent
    BY DEF Publish, Collect
  <1>2. Named'
    BY <1>1, NamedFrame DEF TypeInv
  <1>3. StoreTypeOK'
    <2>1. PICK d \in Digests : ExternalPublish(d) \/ Remove(d)
      BY DEF Publish, Collect
    <2>2. Content[d] \in Bytes
      BY ContentAssumption DEF Bytes
    <2> QED BY <2>1, <2>2
         DEF TypeInv, WriterTypeOK, StoreTypeOK, ExternalPublish, Remove, Inodes
  <1>4. WriterTypeOK'
    BY <1>1, <1>3, AnswerType DEF TypeInv, WriterTypeOK, memory, ghosts
  <1> QED BY <1>2, <1>4 DEF TypeInv

-----------------------------------------------------------------------------
(* Coherence.  A step of one call leaves the other calls alone; what it    *)
(* does to the indexes and to the records is summed up by MemoryStep.      *)

OneCall(p) == \A q \in Procs \ {p} : call'[q] = call[q]

\* The call of p neither enters nor leaves the committing part of Commit, and
\* an upload it prepares is prepared, or settled, by the same call.
Steady(p) ==
    /\ OneCall(p)
    /\ call[p].pc \in CommittingPCs =>
           call'[p].pc \in CommittingPCs /\ call'[p].h = call[p].h
    /\ call'[p].pc \in PreparePCs =>
           /\ call[p].pc \in PreparePCs /\ call'[p].h = call[p].h
           /\ call'[p].key = call[p].key /\ call'[p].digest = call[p].digest
    /\ call'[p].pc = "idle" \/ call[p].pc # "idle"

\* An upload that leaves the index is ready, or it is the caller's own and is
\* settled by this step.
LeavesReady(p) ==
    \A h \in uploads \ uploads' :
        up[h].ready \/ (call[p].h = h /\ call[p].pc \in PreparePCs /\ call'[p].pc \notin PreparePCs)

\* A step of one call leaves every upload in preparation to its one Begin, if
\* it enters no preparation and makes no such upload ready or unindexed.
LEMMA PreparedStep ==
    ASSUME TypeInv, Prepared, NEW p \in Procs, OneCall(p),
           call'[p].pc \in PreparePCs =>
               /\ call[p].pc \in PreparePCs /\ call'[p].h = call[p].h
               /\ call'[p].key = call[p].key /\ call'[p].digest = call[p].digest,
           LeavesReady(p), UploadsKeepNames, phase' = phase
    PROVE  Prepared'
  <1>1. ASSUME NEW q \in Procs, call'[q].pc \in PreparePCs
        PROVE  /\ call[q].pc \in PreparePCs /\ call'[q].h = call[q].h
               /\ call'[q].key = call[q].key /\ call'[q].digest = call[q].digest
               /\ Prepares(call[q]) /\ call[q].h \in Handles
    BY <1>1, CallFacts DEF OneCall, Prepared, PreparePCs
  <1>2. ASSUME NEW q \in Procs, call'[q].pc \in PreparePCs PROVE Prepares(call[q])'
    <2>1. /\ call'[q].h = call[q].h /\ call'[q].key = call[q].key
          /\ call'[q].digest = call[q].digest /\ Prepares(call[q]) /\ call[q].h \in Handles
          /\ call[q].pc \in PreparePCs
      BY <1>1, <1>2
    <2>2. call[q].h \in uploads => call[q].h \in uploads'
      <3>1. ASSUME call[q].h \in uploads \ uploads' PROVE FALSE
        <4>1. ~up[call[q].h].ready
          BY <2>1 DEF Prepares
        <4>2. call[p].h = call[q].h /\ call[p].pc \in PreparePCs /\ call'[p].pc \notin PreparePCs
          BY <3>1, <4>1 DEF LeavesReady
        <4>3. p = q
          BY <2>1, <4>2 DEF Prepared
        <4> QED BY <1>2, <4>2, <4>3
      <3> QED BY <3>1
    <2> QED BY <2>1, <2>2 DEF Prepares, UploadsKeepNames
  <1>3. \A q, r \in Procs :
            /\ call'[q].pc \in PreparePCs /\ call'[r].pc \in PreparePCs
            /\ call'[q].h = call'[r].h
            => q = r
    BY <1>1 DEF Prepared
  <1> QED BY <1>2, <1>3 DEF Prepared

\* Committing(h)', for a handle read before the step as well.
WillCommit(h) == \E p \in Procs : call'[p].h = h /\ call'[p].pc \in CommittingPCs

\* What a step may do to the indexes and the records: uploads leave them
\* together, records lose their upload, and a record with a live upload has a
\* result only while that upload is being committed.
RecordStep(r, s) ==
    /\ s.handle = None \/ (s.handle = r.handle /\ s.handle \in uploads')
    /\ s.handle = r.handle \/ r.handle \notin uploads' \/ WillCommit(r.handle)
    /\ s.digest = None => s.handle = None
    /\ r.digest = None => s.digest = None
    /\ s.handle # None /\ s.evidence # None => WillCommit(s.handle)

NamesStay ==
    /\ issued' = issued
    /\ \A h \in Handles : up'[h].key = up[h].key /\ up'[h].digest = up[h].digest

MemoryStep ==
    /\ NamesStay
    /\ phase' = phase
    /\ uploads' \subseteq uploads
    /\ \A d \in Digests : digests'[d] = IF digests[d] \in uploads' THEN digests[d] ELSE None
    /\ \A h \in uploads' : Committing(h) => WillCommit(h)
    /\ \A k \in Keys : RecordStep(records[k], records'[k])

\* Coherence follows from what a step may do to the indexes (MemoryStep).
LEMMA MemoryCoherent ==
    ASSUME TypeInv, IndexCoherent, MemoryStep
    PROVE  IndexCoherent'
  <1>1. uploads \subseteq Handles /\ uploads' \subseteq uploads
    BY DEF TypeInv, WriterTypeOK, MemoryStep
  <1>2. \A h \in uploads' : up'[h].key = up[h].key /\ up'[h].digest = up[h].digest
    BY <1>1 DEF MemoryStep, NamesStay
  <1>3. ASSUME NEW h \in uploads'
        PROVE  /\ up[h].digest \in Digests /\ digests'[up[h].digest] = h
               /\ up[h].key \in Keys
               /\ records'[up[h].key].handle = h \/ WillCommit(h)
    <2>1. /\ h \in uploads /\ up[h].digest \in Digests /\ digests[up[h].digest] = h
          /\ up[h].key \in Keys
          /\ records[up[h].key].handle = h \/ Committing(h)
      BY <1>1 DEF IndexCoherent
    <2>2. RecordStep(records[up[h].key], records'[up[h].key])
      BY <2>1 DEF MemoryStep
    <2>3. records'[up[h].key].handle = h \/ WillCommit(h)
      BY <1>3, <2>1, <2>2 DEF MemoryStep, RecordStep
    <2> QED BY <2>1, <2>3 DEF MemoryStep
  <1>4. \A d \in Digests :
            digests'[d] # None => digests'[d] \in uploads' /\ up[digests'[d]].digest = d
    BY DEF MemoryStep, IndexCoherent
  <1>5. ASSUME NEW k \in Keys, records'[k].handle # None
        PROVE  records'[k].handle \in uploads' /\ up[records'[k].handle].key = k
    BY <1>5 DEF MemoryStep, RecordStep, IndexCoherent
  <1>6. \A h \in uploads' : WillCommit(h) => Committing(h)'
    BY DEF WillCommit, Committing, CommittingPCs
  <1> QED BY <1>2, <1>3, <1>4, <1>5, <1>6 DEF IndexCoherent

\* So does the correspondence of records and commits.
LEMMA MemoryRecorded ==
    ASSUME Recorded, MemoryStep, NEW p \in Procs, OneCall(p),
           call'[p].pc = "idle" \/ call[p].pc # "idle"
    PROVE  Recorded'
  <1>1. (uploads \subseteq issued)'
    BY DEF Recorded, MemoryStep, NamesStay
  <1>2. \A k \in Keys : /\ records'[k].digest = None => records'[k].handle = None
                        /\ records'[k].handle # None /\ records'[k].evidence # None
                               => WillCommit(records'[k].handle)
    BY DEF MemoryStep, RecordStep
  <1>3. phase' # "serving" => uploads' = {} /\ \A k \in Keys : records'[k].digest = None
    BY DEF Recorded, MemoryStep, RecordStep
  <1>4. phase' = "down" => \A q \in Procs : call'[q].pc = "idle"
    BY DEF Recorded, MemoryStep, OneCall
  <1>5. (\A k \in Keys : records[k].handle # None /\ records[k].evidence # None
                         => Committing(records[k].handle))'
    BY <1>2 DEF WillCommit, Committing, CommittingPCs
  <1> QED BY <1>1, <1>2, <1>3, <1>4, <1>5 DEF Recorded

\* A step that leaves the commits alone leaves every upload its commit.
LEMMA SteadyCommit ==
    ASSUME NEW p \in Procs, Steady(p), NEW h, Committing(h)
    PROVE  WillCommit(h)
  BY DEF Committing, WillCommit, Steady, OneCall, CommittingPCs

\* The state after a step of p that changes no index.
Coherence == Prepared /\ Recorded /\ IndexCoherent

\* A step that leaves the indexes alone is a memory step.
LEMMA QuietMemory ==
    ASSUME Coherence, NEW p \in Procs, Steady(p), NamesStay, UNCHANGED <<memory, phase>>
    PROVE  MemoryStep
  <1>1. \A h \in uploads' : Committing(h) => WillCommit(h)
    BY SteadyCommit
  <1>2. \A d \in Digests : digests'[d] = IF digests[d] \in uploads' THEN digests[d] ELSE None
    BY DEF Coherence, IndexCoherent, memory
  <1>3. ASSUME NEW k \in Keys PROVE RecordStep(records[k], records'[k])
    <2>1. records[k].handle # None => records[k].handle \in uploads'
      BY DEF Coherence, IndexCoherent, memory
    <2>2. records[k].handle # None /\ records[k].evidence # None
              => WillCommit(records[k].handle)
      BY SteadyCommit DEF Coherence, Recorded
    <2> QED BY <2>1, <2>2 DEF RecordStep, Coherence, Recorded, memory
  <1> QED BY <1>1, <1>2, <1>3 DEF MemoryStep, memory

\* A step of one call that touches neither the indexes nor the names of uploads
\* keeps coherence; the lemmas after this one apply it action by action.
LEMMA QuietStep ==
    ASSUME TypeInv, Coherence, NEW p \in Procs, Steady(p), UploadsKeepNames,
           UNCHANGED <<memory, phase>>
    PROVE  Coherence'
  <1>1. LeavesReady(p)
    BY DEF LeavesReady, memory
  <1>2. Prepared'
    BY <1>1, PreparedStep DEF Coherence, Steady
  <1>3. MemoryStep
    BY QuietMemory DEF UploadsKeepNames, NamesStay
  <1> QED BY <1>2, <1>3, MemoryCoherent, MemoryRecorded DEF Coherence, Steady

\* Returning from outside the committing steps is such a step.
LEMMA ReturnSteady ==
    ASSUME TypeInv, NEW p \in Procs, Return(p), call[p].pc \notin CommittingPCs
    PROVE  Steady(p)
  BY CallFacts DEF Return, Steady, OneCall, NoCall, PreparePCs

\* So is going on within a call.
LEMMA GotoSteady ==
    ASSUME TypeInv, NEW p \in Procs, NEW pc, Goto(p, pc), call[p].pc # "idle",
           pc \notin PreparePCs,
           call[p].pc \in CommittingPCs => pc \in CommittingPCs
    PROVE  Steady(p)
  <1>1. OneCall(p) /\ call'[p].pc = pc /\ call'[p].h = call[p].h
    BY CallFacts DEF Goto, OneCall, Call
  <1> QED BY <1>1 DEF Steady

\* The steps of Begin, Append and Commit that leave the indexes alone.
LEMMA QuietReturns ==
    ASSUME TypeInv, Coherence, NEW p \in Procs,
           \/ BeginReplay(p) \/ Await(p) \/ BeginCleanup(p)
           \/ CallEnds(p) \/ CommitRefused(p)
           \/ (CommitLookup(p) /\ ~Live(call[p].h))
           \/ (AbortUpload(p) /\ ~Live(call[p].h))
    PROVE  Coherence'
  <1>1. /\ Return(p) /\ UNCHANGED <<memory, phase, up, ghosts>>
        /\ call[p].pc \notin CommittingPCs
    BY DEF BeginReplay, Await, BeginCleanup, CallEnds, CommitRefused, CommitLookup,
           AbortUpload, Ready, CallOnly, FilesOnly, IndexOnly, CommittingPCs
  <1> QED BY <1>1, ReturnSteady, SameNames, QuietStep

\* Steps of Commit that only move on keep coherence.
LEMMA QuietGotos ==
    ASSUME TypeInv, Coherence, NEW p \in Procs,
           \/ CommitLookup(p) /\ Live(call[p].h)
           \/ CommitPublish(p) \/ CommitUnpublished(p) \/ CommitLost(p)
    PROVE  Coherence'
  <1>1. PICK pc \in {"verify", "confirm", "demote"} : Goto(p, pc) /\ (pc = "verify" <=> call[p].pc = "lookup")
    BY DEF CommitLookup, CommitPublish, CommitUnpublished, CommitLost, Ready
  <1>2. /\ UNCHANGED <<memory, phase, up, ghosts>>
        /\ call[p].pc \in {"lookup", "publish", "confirm"}
    BY DEF CommitLookup, CommitPublish, CommitUnpublished, CommitLost, Ready, CallOnly, FilesOnly
  <1>3. Steady(p)
    BY <1>1, <1>2, GotoSteady DEF PreparePCs, CommittingPCs
  <1> QED BY <1>2, <1>3, SameNames, QuietStep

\* The steps that also end an upload, or its idle time.
LEMMA QuietUploads ==
    ASSUME TypeInv, Coherence, NEW p \in Procs,
           AppendAdmit(p) \/ AppendFails(p) \/ CommitSync(p) \/ CommitDrop(p)
    PROVE  Coherence'
  <1>1. PICK h \in Handles, e \in Nat : h = call[p].h /\ e = now + IdleLifetime
    BY CallFacts, RetentionType DEF AppendAdmit, AppendFails, CommitSync, CommitDrop, Ready
  <1>2. UNCHANGED <<memory, phase, ghosts>> /\ issued' = issued
    BY DEF AppendAdmit, AppendFails, CommitSync, CommitDrop, UploadOnly, ghosts
  <1>3. \/ up' = [up EXCEPT ![h].done = TRUE, ![h].file = None]
        \/ up' = [up EXCEPT ![h].file = None]
        \/ up' = [up EXCEPT ![h].expires = e]
        \/ UNCHANGED up
    BY <1>1 DEF AppendAdmit, AppendFails, CommitSync, CommitDrop
  <1>4. UploadsKeepNames
    BY <1>2, <1>3, CallFacts, UploadStep, SameNames
  <1>5. Steady(p)
    <2>1. CASE AppendAdmit(p)
      BY <2>1, ReturnSteady, GotoSteady DEF AppendAdmit, Ready, PreparePCs, CommittingPCs
    <2>2. CASE AppendFails(p)
      BY <2>2, GotoSteady DEF AppendFails, Ready, PreparePCs, CommittingPCs
    <2>3. CASE CommitSync(p)
      BY <2>3, GotoSteady DEF CommitSync, Ready, PreparePCs, CommittingPCs
    <2>4. CASE CommitDrop(p)
      BY <2>4, GotoSteady DEF CommitDrop, Ready, PreparePCs, CommittingPCs
    <2> QED BY <2>1, <2>2, <2>3, <2>4
  <1> QED BY <1>2, <1>4, <1>5, QuietStep

\* Commit's verification keeps coherence.
LEMMA QuietVerify ==
    ASSUME TypeInv, Coherence, NEW p \in Procs, CommitVerify(p)
    PROVE  Coherence'
  <1>1. call[p].pc = "verify" /\ UNCHANGED <<memory, phase, up, ghosts>>
    BY DEF CommitVerify, Ready, CallOnly
  <1>2. CASE Goto(p, "decide")
    BY <1>1, <1>2, GotoSteady, SameNames, QuietStep DEF PreparePCs, CommittingPCs
  <1>3. CASE call' = [call EXCEPT ![p].pc = "drop", ![p].forget = TRUE]
    <2>1. OneCall(p) /\ call'[p].pc = "drop"
      BY <1>3, CallFacts DEF OneCall, Call
    <2>2. Steady(p)
      BY <1>1, <2>1 DEF Steady, PreparePCs, CommittingPCs
    <2> QED BY <1>1, <2>2, SameNames, QuietStep
  <1> QED BY <1>2, <1>3 DEF CommitVerify

\* Append's write keeps coherence.
LEMMA QuietWrite ==
    ASSUME TypeInv, Coherence, NEW p \in Procs, AppendWrite(p)
    PROVE  Coherence'
  <1>1. Return(p) /\ UNCHANGED <<memory, phase>> /\ issued' = issued /\ call[p].pc = "write"
    BY DEF AppendWrite, Ready, ghosts
  <1>2. UploadsKeepNames
    <2>1. PICK h, s : up' = [up EXCEPT ![h].sum = s] \/ UNCHANGED up
      BY DEF AppendWrite
    <2>2. CASE up' = [up EXCEPT ![h].sum = s]
      BY <1>1, <2>2, CallFacts DEF UploadsKeepNames, Upload
    <2>3. CASE UNCHANGED up
      BY <1>1, <2>3 DEF UploadsKeepNames
    <2> QED BY <2>1, <2>2, <2>3
  <1> QED BY <1>1, <1>2, ReturnSteady, QuietStep DEF CommittingPCs

\* Resuming an upload keeps coherence.
LEMMA QuietResume ==
    ASSUME TypeInv, Coherence, NEW p \in Procs, BeginResume(p)
    PROVE  Coherence'
  <1>1. PICK h : up' = [up EXCEPT ![h].expires = now + IdleLifetime]
    BY DEF BeginResume
  <1>2. UNCHANGED <<memory, phase>> /\ issued' = issued /\ call[p].pc = "begin"
    BY DEF BeginResume, Ready, UploadOnly, ghosts
  <1>3. UploadsKeepNames
    BY <1>1, <1>2, CallFacts DEF UploadsKeepNames, Upload
  <1>4. OneCall(p) /\ call'[p].pc = "await"
    BY CallFacts DEF BeginResume, OneCall, Call
  <1>5. Steady(p)
    BY <1>2, <1>4 DEF Steady, PreparePCs, CommittingPCs
  <1> QED BY <1>2, <1>3, <1>5, QuietStep

\* discard keeps coherence.
LEMMA QuietDiscard ==
    ASSUME TypeInv, Coherence, NEW p \in Procs, Discard(p)
    PROVE  Coherence'
  <1>1. PICK h \in Handles :
            /\ up' = [up EXCEPT ![h].done = TRUE, ![h].file = None]
            /\ call' = [call EXCEPT ![p].todo = @ \ {h}]
    BY CallFacts DEF Discard, Call
  <1>2. UNCHANGED <<memory, phase>> /\ issued' = issued
    BY DEF Discard, ghosts
  <1>3. UploadsKeepNames
    <2>1. 0 \in Nat
      OBVIOUS
    <2> QED BY <1>1, <1>2, <2>1, CallFacts, UploadStep
  <1>4. /\ OneCall(p) /\ call'[p].pc = call[p].pc /\ call'[p].h = call[p].h
        /\ call'[p].key = call[p].key /\ call'[p].digest = call[p].digest
    BY <1>1, CallFacts DEF OneCall, Call
  <1>5. Steady(p)
    BY <1>4 DEF Steady
  <1> QED BY <1>2, <1>3, <1>5, QuietStep

\* prepare's steps keep coherence.
LEMMA QuietPrepare ==
    ASSUME TypeInv, Coherence, NEW p \in Procs,
           PrepareFind(p) \/ PreparePlace(p) \/ PrepareOpen(p) \/ PrepareCheck(p) \/ PrepareFails(p)
    PROVE  Coherence'
  <1>1. /\ call[p].pc \in PreparePCs /\ UNCHANGED <<memory, phase>> /\ UploadsKeepNames
    BY SameNames DEF PrepareFind, PreparePlace, PrepareOpen, PrepareCheck, PrepareFails,
           Ready, PreparePCs, CallOnly, FilesOnly, UploadsKeepNames, ghosts
  <1>2. /\ OneCall(p) /\ call'[p].pc \in PreparePCs /\ call'[p].h = call[p].h
        /\ call'[p].key = call[p].key /\ call'[p].digest = call[p].digest
    BY CallFacts DEF PrepareFind, PreparePlace, PrepareOpen, PrepareCheck, PrepareFails,
           Settle, GiveUp, Goto, OneCall, Call, PreparePCs
  <1>3. Steady(p)
    BY <1>1, <1>2 DEF Steady, PreparePCs, CommittingPCs
  <1> QED BY <1>1, <1>3, QuietStep

-----------------------------------------------------------------------------
(* The steps that change an index or a record.                             *)

\* A step of one call that changes the indexes only as MemoryStep allows keeps
\* coherence.
LEMMA IndexStep ==
    ASSUME TypeInv, Coherence, NEW p \in Procs, MemoryStep, UploadsKeepNames, LeavesReady(p),
           OneCall(p), call'[p].pc = "idle" \/ call[p].pc # "idle",
           call'[p].pc \in PreparePCs =>
               /\ call[p].pc \in PreparePCs /\ call'[p].h = call[p].h
               /\ call'[p].key = call[p].key /\ call'[p].digest = call[p].digest
    PROVE  Coherence'
  BY PreparedStep, MemoryCoherent, MemoryRecorded DEF Coherence, MemoryStep

\* The records lose the handle h, or go, and their upload leaves the indexes.
LEMMA UnlinkStep ==
    ASSUME TypeInv, Coherence, NEW p \in Procs, NEW h \in Handles, NEW forget \in BOOLEAN,
           Unlink(h, forget), NamesStay, phase' = phase, OneCall(p),
           up[h].key \in Keys,
           call[p].pc \in CommittingPCs => call[p].h = h
    PROVE  MemoryStep
  <1>1. /\ uploads' = uploads \ {h}
        /\ \A d \in Digests : digests'[d] = IF digests[d] \in {h} THEN None ELSE digests[d]
        /\ records' = [records EXCEPT ![up[h].key] = Dropped(@, h, forget)]
    BY DEF Unlink, Unindex
  <1>2. \A g \in uploads' : Committing(g) => WillCommit(g)
    BY <1>1 DEF Committing, WillCommit, OneCall, CommittingPCs
  <1>3. \A d \in Digests : digests'[d] = IF digests[d] \in uploads' THEN digests[d] ELSE None
    BY <1>1 DEF Coherence, IndexCoherent
  <1>4. ASSUME NEW k \in Keys PROVE RecordStep(records[k], records'[k])
    <2>1. /\ records[k].handle # None => records[k].handle \in uploads
          /\ records[k].handle = h => k = up[h].key
          /\ records[k].digest = None => records[k].handle = None
          /\ records[k].handle # None /\ records[k].evidence # None
                => Committing(records[k].handle)
          /\ records[k] \in Record /\ h # None
      BY CallFacts, NamesAssumption DEF Coherence, IndexCoherent, Recorded, IndexTypeOK, Inodes
    <2>2. CASE records[k].handle = h
      <3>1. records'[k] = IF forget THEN NoRecord ELSE [records[k] EXCEPT !.handle = None]
        BY <1>1, <2>1, <2>2, CallFacts DEF Dropped, IndexTypeOK
      <3>2. records'[k].handle = None /\ (records[k].digest = None => records'[k].digest = None)
        BY <2>1, <3>1 DEF NoRecord, Record
      <3> QED BY <1>1, <2>2, <3>2 DEF RecordStep
    <2>3. CASE records[k].handle # h
      <3>1. records'[k] = records[k]
        BY <1>1, <2>3, CallFacts DEF Dropped, IndexTypeOK
      <3>2. records[k].handle # None => records[k].handle \in uploads'
        BY <1>1, <2>1, <2>3
      <3>3. records[k].handle # None /\ records[k].evidence # None
                => WillCommit(records[k].handle)
        BY <1>2, <2>1, <3>2
      <3> QED BY <2>1, <3>1, <3>2, <3>3 DEF RecordStep
    <2> QED BY <2>2, <2>3
  <1> QED BY <1>1, <1>2, <1>3, <1>4 DEF MemoryStep

\* unlink of an upload that was made ready, by a call that returns, keeps
\* coherence.
LEMMA UnlinkReady ==
    ASSUME TypeInv, Coherence, NEW p \in Procs, NEW h \in Handles, NEW forget \in BOOLEAN,
           Unlink(h, forget), up[h].ready, UploadsKeepNames, phase' = phase, OneCall(p),
           call[p].pc \in CommittingPCs => call[p].h = h,
           call[p].pc # "idle", call'[p].pc = "idle"
    PROVE  Coherence'
  <1>1. up[h].key \in Keys
    BY CallFacts DEF Named
  <1>2. MemoryStep
    BY <1>1, UnlinkStep DEF UploadsKeepNames, NamesStay
  <1>3. LeavesReady(p)
    BY DEF LeavesReady, Unlink, Unindex
  <1> QED BY <1>2, <1>3, IndexStep DEF PreparePCs

\* The end of a drop, of a commit and of an abort keep coherence.
LEMMA UnlinkCoherent ==
    ASSUME TypeInv, Coherence, NEW p \in Procs,
           Unlinking(p) \/ CommitFinish(p) \/ (AbortUpload(p) /\ Live(call[p].h))
    PROVE  Coherence'
  <1>1. PICK h \in Handles : h = call[p].h /\ up[h].ready
    BY LockedFacts, CallFacts
       DEF Unlinking, CommitFinish, AbortUpload, Ready, Live, LockedPCs
  <1>2. \E forget \in BOOLEAN : Unlink(h, forget)
    BY <1>1, CallFacts DEF Unlinking, CommitFinish, AbortUpload, UnlinkAndSave, Call
  <1>3. OneCall(p) /\ call[p].pc # "idle" /\ call'[p].pc = "idle" /\ phase' = phase
    <2>1. CASE Return(p)
      BY <2>1, CallFacts DEF Unlinking, CommitFinish, AbortUpload, Ready, Return, NoCall,
                             OneCall, IndexOnly
    <2>2. CASE call' = [call EXCEPT ![p] = [NoCall EXCEPT !.todo = {h}]]
      BY <2>2, CallFacts DEF Unlinking, CommitFinish, AbortUpload, Ready, NoCall, OneCall,
                             IndexOnly
    <2> QED BY <1>1, <2>1, <2>2 DEF Unlinking, CommitFinish, AbortUpload
  <1>4. UploadsKeepNames
    <2>1. CASE CommitFinish(p)
      <3>1. up' = [up EXCEPT ![h].done = TRUE] /\ issued' = issued /\ 0 \in Nat
        BY <1>1, <2>1 DEF CommitFinish, ghosts
      <3> QED BY <3>1, CallFacts, UploadStep
    <2>2. CASE Unlinking(p) \/ AbortUpload(p)
      BY <2>2, SameNames DEF Unlinking, AbortUpload, IndexOnly
    <2> QED BY <2>1, <2>2
  <1> QED BY <1>1, <1>2, <1>3, <1>4, UnlinkReady

\* Begin settles its upload by taking it out of the indexes.
LEMMA BeginFailedCoherent ==
    ASSUME TypeInv, Coherence, NEW p \in Procs, BeginFailed(p)
    PROVE  Coherence'
  <1>1. PICK h \in Handles : h = call[p].h
    BY CallFacts DEF BeginFailed, Ready
  <1>2. /\ call[p].pc = "settle" /\ Unlink(h, TRUE) /\ phase' = phase
        /\ UNCHANGED <<up, ghosts>>
    BY <1>1 DEF BeginFailed, Ready, UnlinkAndSave, IndexOnly
  <1>3. OneCall(p) /\ call'[p].pc \in {"cleanup", "idle"}
    BY CallFacts DEF BeginFailed, Goto, Return, NoCall, OneCall, Call
  <1>4. up[h].key \in Keys
    BY <1>1, <1>2, CallFacts DEF Coherence, Prepared, Prepares, PreparePCs, NamedCall, BeginPCs
  <1>5. UploadsKeepNames /\ NamesStay
    BY <1>2, SameNames DEF UploadsKeepNames, NamesStay
  <1>6. MemoryStep
    BY <1>2, <1>3, <1>4, <1>5, UnlinkStep DEF CommittingPCs
  <1>7. LeavesReady(p)
    BY <1>1, <1>2, <1>3 DEF LeavesReady, Unlink, Unindex, PreparePCs
  <1> QED BY <1>2, <1>3, <1>5, <1>6, <1>7, IndexStep DEF PreparePCs

\* A present answer replaces its own upload by its result.
LEMMA BeginPresentCoherent ==
    ASSUME TypeInv, Coherence, NEW p \in Procs, BeginPresent(p)
    PROVE  Coherence'
  <1>1. PICK h \in Handles, k \in Keys : h = call[p].h /\ k = call[p].key
    BY CallFacts DEF BeginPresent, Ready, NamedCall, BeginPCs
  <1>2. /\ call[p].pc = "settle" /\ Unindex({h}) /\ phase' = phase
        /\ UNCHANGED <<up, ghosts>> /\ Return(p)
    BY <1>1 DEF BeginPresent, Ready
  <1>3. OneCall(p) /\ call'[p].pc = "idle"
    BY <1>2, CallFacts DEF Return, NoCall, OneCall
  <1>4. up[h].key = k /\ ~up[h].ready /\ (h \in uploads \/ phase # "serving")
    BY <1>1, <1>2 DEF Coherence, Prepared, Prepares, PreparePCs
  <1>5. ~Committing(h)
    BY <1>4, CallFacts DEF Committing, Named, NamedCall, LockedPCs
  <1>6. UploadsKeepNames /\ NamesStay
    BY <1>2, SameNames DEF UploadsKeepNames, NamesStay
  <1>7. /\ uploads' = uploads \ {h}
        /\ \A d \in Digests : digests'[d] = IF digests[d] \in {h} THEN None ELSE digests[d]
    BY <1>2 DEF Unindex
  <1>8. \A g \in uploads' : Committing(g) => WillCommit(g)
    BY <1>2, <1>3 DEF Committing, WillCommit, OneCall, CommittingPCs
  <1>9. \A d \in Digests : digests'[d] = IF digests[d] \in uploads' THEN digests[d] ELSE None
    BY <1>7 DEF Coherence, IndexCoherent
  <1>10. SameRecord(k, call[p].rec) => records[k].handle = h
    BY <1>4, <1>5 DEF SameRecord, Coherence, IndexCoherent, Recorded
  <1>11. \/ records' = [records EXCEPT ![k] = Dropped(@, h, FALSE)]
         \/ records' = [records EXCEPT ![k] =
                            [Dropped(@, h, FALSE) EXCEPT !.evidence = "named", !.by = h,
                                !.expires = now + RequestRetention]]
    BY <1>1 DEF BeginPresent
  <1>12. ASSUME NEW j \in Keys PROVE RecordStep(records[j], records'[j])
    <2>1. /\ records[j].handle # None => records[j].handle \in uploads
          /\ records[j].handle = h => j = k
          /\ records[j].digest = None => records[j].handle = None
          /\ records[j].handle # None /\ records[j].evidence # None
                => Committing(records[j].handle)
          /\ records[j] \in Record /\ h # None
      BY <1>4, CallFacts, NamesAssumption
         DEF Coherence, IndexCoherent, Recorded, IndexTypeOK, Inodes
    <2>2. CASE j = k /\ records[k].handle = h
      <3>1. PICK r \in Record :
              /\ r = Dropped(records[k], h, FALSE)
              /\ r.handle = None /\ r.digest = records[k].digest
        <4>1. Dropped(records[k], h, FALSE) = [records[k] EXCEPT !.handle = None]
          BY <2>2 DEF Dropped
        <4>2. [records[k] EXCEPT !.handle = None] \in Record
          BY <2>1, <2>2 DEF Record
        <4> QED BY <2>1, <2>2, <4>1, <4>2 DEF Record
      <3>2. \/ records'[k] = r
            \/ records'[k] = [r EXCEPT !.evidence = "named", !.by = h,
                                       !.expires = now + RequestRetention]
        BY <1>11, <3>1, CallFacts DEF IndexTypeOK
      <3>3. /\ records'[k].handle = None
            /\ records[k].digest = None => records'[k].digest = None
        BY <3>1, <3>2 DEF Record
      <3> QED BY <1>7, <2>2, <3>3 DEF RecordStep
    <2>3. CASE j # k \/ records[k].handle # h
      <3>1. records'[j] = records[j]
        BY <1>1, <1>10, <2>3, CallFacts DEF BeginPresent, Dropped, IndexTypeOK
      <3>2. records[j].handle # None => records[j].handle \in uploads'
        BY <1>7, <2>1, <2>3
      <3> QED BY <1>8, <2>1, <3>1, <3>2 DEF RecordStep
    <2> QED BY <2>2, <2>3
  <1>13. MemoryStep
    BY <1>2, <1>6, <1>7, <1>8, <1>9, <1>12 DEF MemoryStep
  <1>14. LeavesReady(p)
    BY <1>1, <1>2, <1>3, <1>7 DEF LeavesReady, PreparePCs
  <1> QED BY <1>2, <1>3, <1>6, <1>13, <1>14, IndexStep DEF PreparePCs

\* Making an upload ready keeps coherence.
LEMMA BeginReadyCoherent ==
    ASSUME TypeInv, Coherence, NEW p \in Procs, BeginReady(p)
    PROVE  Coherence'
  <1>1. PICK h \in Handles : h = call[p].h
    BY CallFacts DEF BeginReady, Ready
  <1>2. /\ call[p].pc = "settle" /\ UNCHANGED <<memory, phase, ghosts>> /\ Return(p)
        /\ issued' = issued
    BY DEF BeginReady, Ready, UploadOnly, ghosts
  <1>3. OneCall(p) /\ call'[p].pc = "idle"
    BY <1>2, CallFacts DEF Return, NoCall, OneCall
  <1>4. /\ \A g \in Handles \ {h} : up'[g] = up[g]
        /\ \A g \in Handles : up'[g].key = up[g].key /\ up'[g].digest = up[g].digest
    BY <1>1, CallFacts DEF BeginReady, Upload
  <1>5. Steady(p)
    BY <1>2, <1>3 DEF Steady, PreparePCs, CommittingPCs
  <1>6. MemoryStep
    BY <1>2, <1>4, <1>5, QuietMemory DEF NamesStay
  <1>7. Prepared'
    <2>1. ASSUME NEW q \in Procs, call'[q].pc \in PreparePCs
          PROVE  /\ q # p /\ call'[q] = call[q] /\ Prepares(call[q]) /\ call[q].h # h
                 /\ call[q].h \in Handles
      BY <1>1, <1>2, <1>3, <2>1, CallFacts DEF OneCall, Coherence, Prepared, PreparePCs
    <2>2. ASSUME NEW q \in Procs, call'[q].pc \in PreparePCs PROVE Prepares(call[q])'
      BY <1>2, <1>4, <2>1, <2>2 DEF Prepares, memory
    <2>3. \A q, r \in Procs :
            /\ call'[q].pc \in PreparePCs /\ call'[r].pc \in PreparePCs
            /\ call'[q].h = call'[r].h
            => q = r
      BY <2>1 DEF Coherence, Prepared
    <2> QED BY <2>2, <2>3 DEF Prepared
  <1> QED BY <1>2, <1>3, <1>6, <1>7, MemoryCoherent, MemoryRecorded DEF Coherence

\* The sweep takes out ready uploads; a lapsed result whose upload stays
\* indexed is that of a commit in progress.
LEMMA SweepStep ==
    ASSUME TypeInv, Coherence, Sweep, NamesStay, phase' = phase,
           \A h \in Handles : Committing(h) => WillCommit(h)
    PROVE  MemoryStep
  <1>1. /\ uploads' = uploads \ Expired
        /\ \A d \in Digests : digests'[d] = IF digests[d] \in Expired THEN None ELSE digests[d]
        /\ Expired \subseteq uploads /\ uploads \subseteq Handles
    BY CallFacts, TickerProc DEF Sweep, Unindex, Expired, IndexTypeOK
  <1>2. \A d \in Digests : digests'[d] = IF digests[d] \in uploads' THEN digests[d] ELSE None
    BY <1>1 DEF Coherence, IndexCoherent
  <1>3. ASSUME NEW k \in Keys PROVE RecordStep(records[k], records'[k])
    <2>1. /\ records[k].handle # None => records[k].handle \in uploads
          /\ records[k].digest = None => records[k].handle = None
          /\ records[k].handle # None /\ records[k].evidence # None
                => Committing(records[k].handle)
          /\ records[k] \in Record /\ None \notin Handles
      BY <1>1, CallFacts, TickerProc, NamesAssumption
         DEF Coherence, IndexCoherent, Recorded, IndexTypeOK, Inodes
    <2>2. PICK r \in Record :
            /\ r = Released(records[k])
            /\ r.digest = records[k].digest /\ r.evidence = records[k].evidence
            /\ r.handle = IF records[k].handle \in Expired THEN None ELSE records[k].handle
      <3>1. [records[k] EXCEPT !.handle = None] \in Record
        BY <2>1 DEF Record
      <3> QED BY <2>1, <3>1 DEF Released, Record
    <2>3. CASE Lapsed(r)
      <3>1. records'[k] = NoRecord
        BY <2>2, <2>3, CallFacts DEF Sweep, IndexTypeOK
      <3>2. records[k].handle \notin uploads' \/ WillCommit(records[k].handle)
        BY <1>1, <2>1, <2>2, <2>3 DEF Lapsed
      <3> QED BY <3>1, <3>2 DEF RecordStep, NoRecord
    <2>4. CASE ~Lapsed(r)
      <3>1. records'[k] = r
        BY <2>2, <2>4, CallFacts DEF Sweep, IndexTypeOK
      <3>2. r.handle = None \/ (r.handle = records[k].handle /\ r.handle \in uploads')
        BY <1>1, <2>1, <2>2
      <3>3. r.handle = records[k].handle \/ records[k].handle \notin uploads'
        BY <1>1, <2>2
      <3>4. r.handle # None /\ r.evidence # None => WillCommit(r.handle)
        BY <1>1, <2>1, <2>2
      <3> QED BY <2>1, <2>2, <3>1, <3>2, <3>3, <3>4 DEF RecordStep
    <2> QED BY <2>3, <2>4
  <1> QED BY <1>1, <1>2, <1>3 DEF MemoryStep

\* The sweep that starts a call, and the ticker's, keep coherence.
LEMMA StartCoherent ==
    ASSUME TypeInv, Coherence, NEW p \in Procs,
           (p \in Callers /\ CallStarts(p)) \/ (SweepTick /\ p = Ticker)
    PROVE  Coherence'
  <1>1. /\ Sweep /\ IndexOnly /\ phase = "serving" /\ phase' = phase /\ call[p].pc = "idle"
        /\ UNCHANGED <<up, ghosts>>
    BY DEF CallStarts, BeginCall, AppendCall, CommitCall, AbortCall, SweepTick, Start, Idle,
           IndexOnly
  <1>2. OneCall(p) /\ call'[p].pc \in {"idle", "begin", "admit", "lookup", "abort"}
    <2>1. CASE p \in Callers /\ CallStarts(p)
      <3>1. PICK fields \in Call : Start(p, fields) /\ StartFields(fields)
        BY <2>1, CallStartsFields
      <3> QED BY <3>1, CallFacts DEF Start, StartFields, OneCall, Call
    <2>2. CASE SweepTick /\ p = Ticker
      BY <1>1, <2>2, CallFacts DEF SweepTick, OneCall, Call
    <2> QED BY <2>1, <2>2
  <1>3. UploadsKeepNames /\ NamesStay
    BY <1>1, SameNames DEF UploadsKeepNames, NamesStay
  <1>4. \A h \in Handles : Committing(h) => WillCommit(h)
    BY <1>1, <1>2 DEF Committing, WillCommit, OneCall, CommittingPCs
  <1>5. MemoryStep
    BY <1>1, <1>3, <1>4, SweepStep
  <1>6. LeavesReady(p)
    BY <1>1 DEF LeavesReady, Sweep, Unindex, Expired
  <1>7. Prepared'
    BY <1>1, <1>2, <1>3, <1>6, PreparedStep DEF Coherence, PreparePCs
  <1>8. IndexCoherent'
    BY <1>5, MemoryCoherent DEF Coherence
  <1>9. Recorded'
    <2>1. (uploads \subseteq issued)'
      BY <1>5 DEF Coherence, Recorded, MemoryStep, NamesStay
    <2>2. (\A k \in Keys : records[k].digest = None => records[k].handle = None)'
      BY <1>5 DEF MemoryStep, RecordStep
    <2>3. (\A k \in Keys : records[k].handle # None /\ records[k].evidence # None
                             => Committing(records[k].handle))'
      BY <1>5 DEF MemoryStep, RecordStep, WillCommit, Committing, CommittingPCs
    <2>4. phase' = "serving"
      BY <1>1
    <2> QED BY <2>1, <2>2, <2>3, <2>4 DEF Recorded
  <1> QED BY <1>7, <1>8, <1>9 DEF Coherence

\* A step that changes what the records say, and not which uploads they name.
LEMMA ResultStep ==
    ASSUME TypeInv, Coherence, NEW p \in Procs, OneCall(p), NamesStay,
           UNCHANGED <<uploads, digests, phase>>,
           \A h \in Handles : Committing(h) => WillCommit(h),
           \A k \in Keys :
               /\ records'[k].handle = records[k].handle
               /\ records'[k].digest = records[k].digest
               /\ \/ records'[k].evidence \in {records[k].evidence, None}
                  \/ WillCommit(records[k].handle)
    PROVE  MemoryStep
  <1>1. \A d \in Digests : digests'[d] = IF digests[d] \in uploads' THEN digests[d] ELSE None
    BY DEF Coherence, IndexCoherent
  <1>2. ASSUME NEW k \in Keys PROVE RecordStep(records[k], records'[k])
    <2>1. /\ records[k].handle # None => records[k].handle \in uploads
          /\ records[k].digest = None => records[k].handle = None
          /\ records[k].handle # None /\ records[k].evidence # None
                => Committing(records[k].handle)
      BY DEF Coherence, IndexCoherent, Recorded
    <2>2. uploads \subseteq Handles
      BY CallFacts DEF IndexTypeOK
    <2> QED BY <2>1, <2>2 DEF RecordStep
  <1>3. \A h \in uploads' : Committing(h) => WillCommit(h)
    BY CallFacts DEF IndexTypeOK
  <1> QED BY <1>1, <1>2, <1>3 DEF MemoryStep

\* A Begin that returns early keeps coherence.
LEMMA KeepCoherent ==
    ASSUME TypeInv, Coherence, NEW p \in Procs, BeginRefused(p) \/ BeginUnsaved(p)
    PROVE  Coherence'
  <1>1. /\ call[p].pc = "begin" /\ Keep(call[p]) /\ Return(p)
        /\ UNCHANGED <<uploads, digests, phase, up, ghosts>>
    BY DEF BeginRefused, BeginUnsaved, Ready, IndexOnly
  <1>2. OneCall(p) /\ call'[p].pc = "idle"
    BY <1>1, CallFacts DEF Return, NoCall, OneCall
  <1>3. UploadsKeepNames /\ NamesStay
    BY <1>1, SameNames DEF UploadsKeepNames, NamesStay
  <1>4. \A h \in Handles : Committing(h) => WillCommit(h)
    BY <1>1, <1>2 DEF Committing, WillCommit, OneCall, CommittingPCs
  <1>5. PICK k \in Keys, r \in Record : k = call[p].key /\ r = Current(call[p])
    BY <1>1, BeginFacts DEF BeginPCs
  <1>6. /\ r.handle = records[k].handle /\ r.digest = records[k].digest
        /\ r.evidence \in {records[k].evidence, None}
    BY <1>5, CallFacts DEF Current, IndexTypeOK, Record
  <1>7. records' = [records EXCEPT ![k] = r]
    BY <1>1, <1>5 DEF Keep
  <1>8. MemoryStep
    <2>1. \A j \in Keys : records'[j] = IF j = k THEN r ELSE records[j]
      BY <1>7, CallFacts DEF IndexTypeOK
    <2> QED BY <1>1, <1>2, <1>3, <1>4, <1>6, <2>1, ResultStep
  <1>9. LeavesReady(p)
    BY <1>1 DEF LeavesReady
  <1> QED BY <1>1, <1>2, <1>3, <1>8, <1>9, IndexStep DEF PreparePCs

\* The recorded result of CommitIntent is that of the commit that goes on.
LEMMA IntentCoherent ==
    ASSUME TypeInv, Coherence, NEW p \in Procs, CommitIntent(p)
    PROVE  Coherence'
  <1>1. PICK h \in Handles, k \in Keys : h = call[p].h /\ k = up[h].key
    BY LockedFacts DEF CommitIntent, Ready, LockedPCs
  <1>2. /\ call[p].pc = "intent" /\ records[k].handle = h
        /\ UNCHANGED <<uploads, digests, phase, up, ghosts>>
    BY <1>1 DEF CommitIntent, Ready, Owned
  <1>3. OneCall(p) /\ call'[p].pc = "publish" /\ call'[p].h = h
    BY <1>1, CallFacts DEF CommitIntent, OneCall, Call
  <1>4. UploadsKeepNames /\ NamesStay
    BY <1>2, SameNames DEF UploadsKeepNames, NamesStay
  <1>5. (\A g \in Handles : Committing(g) => WillCommit(g)) /\ WillCommit(h)
    BY <1>2, <1>3 DEF Committing, WillCommit, OneCall, CommittingPCs
  <1>6. records' = [records EXCEPT ![k].evidence = "hashed", ![k].by = h,
                                   ![k].expires = now + RequestRetention]
    BY <1>1 DEF CommitIntent
  <1>7. /\ records'[k].handle = records[k].handle /\ records'[k].digest = records[k].digest
        /\ \A j \in Keys \ {k} : records'[j] = records[j]
    BY <1>6, CallFacts DEF IndexTypeOK, Record
  <1>8. MemoryStep
    BY <1>2, <1>3, <1>4, <1>5, <1>7, ResultStep
  <1>9. LeavesReady(p)
    BY <1>2 DEF LeavesReady
  <1> QED BY <1>2, <1>3, <1>4, <1>8, <1>9, IndexStep DEF PreparePCs

\* Taking a commit's result back keeps coherence.
LEMMA WithdrawCoherent ==
    ASSUME TypeInv, Coherence, NEW p \in Procs, CommitUnrecorded(p) \/ CommitDemote(p)
    PROVE  Coherence'
  <1>1. PICK h \in Handles, k \in Keys : h = call[p].h /\ k = up[h].key
    BY LockedFacts DEF CommitUnrecorded, CommitDemote, Ready, LockedPCs
  <1>2. /\ call[p].pc \in {"intent", "demote"} /\ Goto(p, "drop")
        /\ UNCHANGED <<uploads, digests, phase, up, ghosts>>
    BY DEF CommitUnrecorded, CommitDemote, Ready
  <1>3. OneCall(p) /\ call'[p].pc = "drop" /\ call'[p].h = h
    BY <1>1, <1>2, CallFacts DEF Goto, OneCall, Call
  <1>4. UploadsKeepNames /\ NamesStay
    BY <1>2, SameNames DEF UploadsKeepNames, NamesStay
  <1>5. \A g \in Handles : Committing(g) => WillCommit(g)
    BY <1>1, <1>2, <1>3 DEF Committing, WillCommit, OneCall, CommittingPCs
  <1>6. \/ UNCHANGED records
        \/ records' = [records EXCEPT ![k].evidence = None, ![k].by = None]
        \/ records' = [records EXCEPT ![k].evidence = None, ![k].by = None,
                                      ![k].expires = call[p].previous]
    BY <1>1 DEF CommitUnrecorded, CommitDemote
  <1>7. /\ records'[k].handle = records[k].handle /\ records'[k].digest = records[k].digest
        /\ records'[k].evidence \in {records[k].evidence, None}
        /\ \A j \in Keys \ {k} : records'[j] = records[j]
    BY <1>6, CallFacts DEF IndexTypeOK, Record
  <1>8. MemoryStep
    BY <1>2, <1>3, <1>4, <1>5, <1>7, ResultStep
  <1>9. LeavesReady(p)
    BY <1>2 DEF LeavesReady
  <1> QED BY <1>2, <1>3, <1>4, <1>8, <1>9, IndexStep DEF PreparePCs

\* A new upload takes a free digest and an identity without an upload.
LEMMA BeginStartCoherent ==
    ASSUME TypeInv, Coherence, NEW p \in Procs, BeginStart(p)
    PROVE  Coherence'
  <1>1. PICK k \in Keys, d \in Digests, r \in Record :
            k = call[p].key /\ d = call[p].digest /\ r = Current(call[p])
    BY BeginFacts DEF BeginStart, Ready, BeginPCs
  <1>2. PICK h \in Handles \ issued :
        /\ issued' = issued \cup {h}
        /\ up' = [up EXCEPT ![h] = [NoUpload EXCEPT !.key = k, !.digest = d,
                                                    !.size = call[p].size]]
        /\ uploads' = uploads \cup {h}
        /\ digests' = [digests EXCEPT ![d] = h]
        /\ records' = [records EXCEPT ![k] =
                        [NoRecord EXCEPT !.digest = d, !.size = call[p].size, !.handle = h,
                            !.expires = now + RequestRetention,
                            !.id = IF r.digest = None THEN h ELSE r.id]]
        /\ call' = [call EXCEPT ![p].pc = "find", ![p].h = h, ![p].rec = records'[k].id]
    BY <1>1 DEF BeginStart
  <1>3. /\ \A g \in Handles \ {h} : up'[g] = up[g]
        /\ up'[h].key = k /\ up'[h].digest = d /\ ~up'[h].ready
    BY <1>2, CallFacts DEF NoUpload
  <1>4. /\ \A j \in Keys \ {k} : records'[j] = records[j]
        /\ records'[k].handle = h /\ records'[k].digest = d /\ records'[k].evidence = None
    BY <1>2, CallFacts DEF IndexTypeOK, NoRecord
  <1>5. /\ \A e \in Digests \ {d} : digests'[e] = digests[e]
        /\ digests'[d] = h
    BY <1>2, CallFacts DEF IndexTypeOK
  <1>6. /\ OneCall(p) /\ call'[p].pc = "find" /\ call'[p].h = h
        /\ call'[p].key = k /\ call'[p].digest = d
    <2>1. PICK id : call' = [call EXCEPT ![p].pc = "find", ![p].h = h, ![p].rec = id]
      BY <1>2
    <2> QED BY <1>1, <2>1, CallFacts DEF OneCall, Call
  <1>7. /\ call[p].pc = "begin" /\ digests[d] = None /\ phase' = phase /\ phase = "serving"
    BY <1>1, CallFacts
       DEF BeginStart, Ready, Startable, Coherence, Recorded, TypeInv, WriterTypeOK
  <1>8. records[k].handle = None
    <2>1. r.handle = records[k].handle /\ r.digest = records[k].digest
      BY <1>1, CallFacts DEF Current, IndexTypeOK, Record
    <2> QED BY <1>1, <2>1 DEF BeginStart, Startable, Unfinished, Coherence, Recorded
  <1>9. \A g \in Handles : Committing(g) => WillCommit(g)
    BY <1>6, <1>7 DEF Committing, WillCommit, OneCall, CommittingPCs
  <1>10. h \notin uploads /\ h # None /\ d # None /\ uploads \subseteq Handles
    BY <1>2, CallFacts, NamesAssumption DEF Coherence, Recorded, IndexTypeOK, Inodes
  <1>11. Prepared'
    <2>1. ASSUME NEW q \in Procs \ {p}, call'[q].pc \in PreparePCs
          PROVE  call'[q] = call[q] /\ call[q].h \in issued /\ Prepares(call[q])
      BY <1>6, <2>1, CallFacts
         DEF OneCall, Coherence, Prepared, Named, NamedCall, PreparePCs
    <2>2. ASSUME NEW q \in Procs, call'[q].pc \in PreparePCs PROVE Prepares(call[q])'
      <3>1. CASE q = p
        BY <1>2, <1>3, <1>6, <3>1 DEF Prepares
      <3>2. CASE q # p
        <4>1. call[q].h \in issued /\ call[q].h # h /\ call'[q] = call[q] /\ Prepares(call[q])
          BY <1>2, <2>1, <2>2, <3>2
        <4>2. up'[call[q].h] = up[call[q].h]
          BY <1>3, <4>1, CallFacts
        <4>3. call[q].h \in uploads => call[q].h \in uploads'
          BY <1>2
        <4> QED BY <1>7, <4>1, <4>2, <4>3 DEF Prepares
      <3> QED BY <3>1, <3>2
    <2>3. ASSUME NEW q \in Procs, NEW s \in Procs, call'[q].pc \in PreparePCs,
                 call'[s].pc \in PreparePCs, call'[q].h = call'[s].h
          PROVE  q = s
      <3>1. q # p => call'[q].h \in issued /\ call'[q] = call[q]
        BY <2>1, <2>3
      <3>2. s # p => call'[s].h \in issued /\ call'[s] = call[s]
        BY <2>1, <2>3
      <3> QED BY <1>2, <1>6, <2>3, <3>1, <3>2 DEF Coherence, Prepared
    <2> QED BY <2>2, <2>3 DEF Prepared
  <1>12. IndexCoherent'
    <2>1. ASSUME NEW g \in uploads'
          PROVE  /\ up'[g].digest \in Digests /\ digests'[up'[g].digest] = g
                 /\ up'[g].key \in Keys
                 /\ records'[up'[g].key].handle = g \/ WillCommit(g)
      <3>1. CASE g = h
        BY <1>3, <1>4, <1>5, <3>1
      <3>2. CASE g # h
        <4>1. /\ g \in uploads /\ g \in Handles /\ up'[g] = up[g]
              /\ up[g].digest \in Digests /\ digests[up[g].digest] = g /\ up[g].key \in Keys
              /\ records[up[g].key].handle = g \/ Committing(g)
          BY <1>2, <1>3, <1>10, <2>1, <3>2 DEF Coherence, IndexCoherent
        <4>2. up[g].digest # d
          BY <1>7, <1>10, <4>1, NamesAssumption DEF Inodes
        <4>3. records'[up[g].key].handle = g \/ WillCommit(g)
          BY <1>4, <1>8, <1>9, <4>1, NamesAssumption DEF Inodes
        <4> QED BY <1>5, <4>1, <4>2, <4>3
      <3> QED BY <3>1, <3>2
    <2>2. ASSUME NEW e \in Digests, digests'[e] # None
          PROVE  digests'[e] \in uploads' /\ up'[digests'[e]].digest = e
      BY <1>2, <1>3, <1>5, <1>10, <2>2 DEF Coherence, IndexCoherent
    <2>3. ASSUME NEW j \in Keys, records'[j].handle # None
          PROVE  records'[j].handle \in uploads' /\ up'[records'[j].handle].key = j
      BY <1>2, <1>3, <1>4, <1>10, <2>3 DEF Coherence, IndexCoherent
    <2>4. \A g \in uploads' : WillCommit(g) => Committing(g)'
      BY DEF WillCommit, Committing, CommittingPCs
    <2> QED BY <2>1, <2>2, <2>3, <2>4 DEF IndexCoherent
  <1>13. Recorded'
    <2>1. (uploads \subseteq issued)'
      BY <1>2 DEF Coherence, Recorded
    <2>2. \A j \in Keys : records'[j].digest = None => records'[j].handle = None
      BY <1>4, <1>10 DEF Coherence, Recorded
    <2>3. ASSUME NEW j \in Keys, records'[j].handle # None, records'[j].evidence # None
          PROVE  WillCommit(records'[j].handle)
      <3>1. j # k /\ records'[j] = records[j]
        BY <1>4, <2>3
      <3>2. Committing(records[j].handle) /\ records[j].handle \in Handles
        BY <2>3, <3>1, CallFacts DEF Coherence, Recorded, IndexTypeOK, Record
      <3> QED BY <1>9, <3>1, <3>2
    <2>4. (\A j \in Keys : records[j].handle # None /\ records[j].evidence # None
                             => Committing(records[j].handle))'
      BY <2>3 DEF WillCommit, Committing, CommittingPCs
    <2> QED BY <1>7, <2>1, <2>2, <2>4 DEF Recorded
  <1> QED BY <1>11, <1>12, <1>13 DEF Coherence

-----------------------------------------------------------------------------
(* The environment, and the theorems.                                      *)

\* Close and Crash empty the indexes and forget the records in memory.
LEMMA CloseCoherent ==
    ASSUME TypeInv, Coherence, Close
    PROVE  Coherence'
  <1>1. /\ uploads' = {} /\ digests' = [d \in Digests |-> None]
        /\ records' = [k \in Keys |-> NoRecord] /\ phase' = "closed"
        /\ UNCHANGED <<up, ghosts>> /\ issued' = issued
    <2>1. digests' = [d \in Digests |-> IF digests[d] \in uploads THEN None ELSE digests[d]]
      BY DEF Close, Unindex
    <2>2. digests' = [d \in Digests |-> None]
      BY <2>1 DEF Coherence, IndexCoherent
    <2> QED BY <2>2 DEF Close, Unindex, ghosts
  <1>2. \A q \in Procs : /\ call'[q].pc = call[q].pc /\ call'[q].h = call[q].h
                         /\ call'[q].key = call[q].key /\ call'[q].digest = call[q].digest
    BY CallFacts, TickerProc DEF Close, Call
  <1>3. Prepared'
    <2>1. ASSUME NEW q \in Procs, call'[q].pc \in PreparePCs PROVE Prepares(call[q])'
      BY <1>1, <1>2, <2>1 DEF Coherence, Prepared, Prepares
    <2> QED BY <1>2, <2>1 DEF Coherence, Prepared
  <1>4. IndexCoherent'
    BY <1>1 DEF IndexCoherent, NoRecord
  <1>5. Recorded'
    BY <1>1 DEF Recorded, NoRecord
  <1> QED BY <1>3, <1>4, <1>5 DEF Coherence

\* A crash leaves nothing indexed.
LEMMA CrashCoherent ==
    ASSUME TypeInv, Coherence, Crash
    PROVE  Coherence'
  <1>1. /\ uploads' = {} /\ digests' = [d \in Digests |-> None]
        /\ records' = [k \in Keys |-> NoRecord] /\ phase' = "down"
    <2>1. digests' = [d \in Digests |-> IF digests[d] \in uploads THEN None ELSE digests[d]]
      BY DEF Crash, Unindex
    <2>2. digests' = [d \in Digests |-> None]
      BY <2>1 DEF Coherence, IndexCoherent
    <2> QED BY <2>2 DEF Crash, Unindex
  <1>2. \A q \in Procs : call'[q].pc = "idle"
    BY DEF Crash, NoCall
  <1>3. Prepared'
    BY <1>2 DEF Prepared, PreparePCs
  <1>4. IndexCoherent'
    BY <1>1 DEF IndexCoherent, NoRecord
  <1>5. Recorded'
    BY <1>1, <1>2 DEF Recorded, NoRecord
  <1> QED BY <1>3, <1>4, <1>5 DEF Coherence

\* Startup restores records without uploads.
LEMMA StartupCoherent ==
    ASSUME TypeInv, Coherence, Startup
    PROVE  Coherence'
  <1>1. /\ uploads = {} /\ UNCHANGED <<uploads, digests, up, call, issued>>
        /\ \A q \in Procs : call[q].pc = "idle"
    BY DEF Startup, Coherence, Recorded, ghosts
  <1>2. \A k \in Keys : records'[k].handle = None
    BY DEF Startup, Restored, NoRecord
  <1>3. Prepared'
    BY <1>1 DEF Prepared, PreparePCs
  <1>4. IndexCoherent'
    BY <1>1, <1>2 DEF Coherence, IndexCoherent
  <1>5. Recorded'
    BY <1>1, <1>2 DEF Coherence, Recorded, Startup
  <1> QED BY <1>3, <1>4, <1>5 DEF Coherence

\* A step that leaves the writer alone keeps coherence.
LEMMA CoherenceFrame ==
    ASSUME Coherence, UNCHANGED <<memory, up, call, phase, ghosts>>
    PROVE  Coherence'
  <1>1. Prepared'
    BY DEF Coherence, Prepared, Prepares, memory
  <1>2. IndexCoherent'
    BY DEF Coherence, IndexCoherent, Committing, memory
  <1>3. Recorded'
    BY DEF Coherence, Recorded, Committing, memory, ghosts
  <1> QED BY <1>1, <1>2, <1>3 DEF Coherence

\* The invariant holds initially.
LEMMA InitInv == Init => TypeInv /\ Coherence
  <1> SUFFICES ASSUME Init PROVE TypeInv /\ Coherence
    OBVIOUS
  <1>1. WriterTypeOK
    <2>1. StoreTypeOK
      BY DEF Init, StoreInit, StoreTypeOK, Bytes
    <2>2. records \in [Keys -> Record]
      BY NoRecordType DEF Init
    <2>3. disk \in [Keys -> Entry]
      BY <2>2, ImageType DEF Init
    <2> QED BY <2>1, <2>2, <2>3, NoCallType, NoUploadType, AnswerType, WriterAssumption
         DEF Init, WriterTypeOK
  <1>2. Named
    BY DEF Init, Named, NamedCall, NoCall, NoUpload, BeginPCs, LockedPCs
  <1>3. Prepared
    BY DEF Init, Prepared, NoCall, PreparePCs
  <1>4. IndexCoherent
    BY DEF Init, IndexCoherent, NoRecord
  <1>5. Recorded
    BY DEF Init, Recorded, NoRecord
  <1> QED BY <1>1, <1>2, <1>3, <1>4, <1>5 DEF TypeInv, Coherence

\* Every step of a call in progress keeps the invariant.
LEMMA WorkInv ==
    ASSUME TypeInv, Coherence, NEW p \in Procs, Work(p)
    PROVE  TypeInv' /\ Coherence'
  <1>1. CASE Waiting(p)
    BY <1>1, DiscardTypes, AwaitTypes, AppendWriteTypes, CommitVerifyTypes,
       QuietDiscard, QuietReturns, QuietWrite, QuietVerify DEF Waiting
  <1>2. CASE Begin(p)
    <2>1. CASE BeginRefused(p) \/ BeginUnsaved(p)
      BY <2>1, BeginKeepTypes, KeepCoherent
    <2>2. CASE BeginReplay(p) \/ BeginCleanup(p)
      BY <2>2, BeginReplayTypes, BeginCleanupTypes, QuietReturns
    <2>3. CASE BeginResume(p) \/ BeginStart(p)
      BY <2>3, BeginResumeTypes, BeginStartTypes, QuietResume, BeginStartCoherent
    <2>4. CASE PrepareFind(p) \/ PreparePlace(p) \/ PrepareOpen(p)
      BY <2>4, PrepareFindTypes, PreparePlaceTypes, PrepareOpenTypes, QuietPrepare
    <2>5. CASE PrepareCheck(p) \/ PrepareFails(p)
      BY <2>5, PrepareSettleTypes, QuietPrepare
    <2>6. CASE BeginPresent(p) \/ BeginReady(p) \/ BeginFailed(p)
      BY <2>6, BeginPresentTypes, BeginReadyTypes, BeginFailedTypes, BeginPresentCoherent,
         BeginReadyCoherent, BeginFailedCoherent DEF Coherence
    <2> QED BY <1>2, <2>1, <2>2, <2>3, <2>4, <2>5, <2>6 DEF Begin
  <1>3. CASE AppendAdmit(p) \/ AppendFails(p)
    BY <1>3, AppendAdmitTypes, DropTypes, QuietUploads
  <1>4. CASE AbortUpload(p)
    BY <1>4, AbortTypes, QuietReturns, UnlinkCoherent
  <1>5. CASE Commit(p)
    <2>1. CASE CommitLookup(p)
      BY <2>1, CommitLookupTypes, QuietReturns, QuietGotos
    <2>2. CASE CallEnds(p) \/ CommitRefused(p)
      <3>1. TypeInv'
        BY <2>2, CallReturnsTypes DEF CallEnds, CommitRefused
      <3>2. Coherence'
        BY <2>2, QuietReturns
      <3> QED BY <3>1, <3>2
    <2>3. CASE CommitSync(p) \/ CommitDrop(p)
      BY <2>3, CommitSyncTypes, DropTypes, QuietUploads
    <2>4. CASE CommitIntent(p) \/ CommitUnrecorded(p) \/ CommitDemote(p)
      BY <2>4, CommitIntentTypes, WithdrawTypes, IntentCoherent, WithdrawCoherent
    <2>5. CASE CommitPublish(p) \/ CommitUnpublished(p) \/ CommitLost(p)
      BY <2>5, CommitPublishTypes, CommitGoesOnTypes, QuietGotos
    <2>6. CASE CommitFinish(p) \/ Unlinking(p)
      BY <2>6, CommitFinishTypes, UnlinkStepTypes, UnlinkCoherent
    <2> QED BY <1>5, <2>1, <2>2, <2>3, <2>4, <2>5, <2>6 DEF Commit
  <1> QED BY <1>1, <1>2, <1>3, <1>4, <1>5 DEF Work

\* Every step keeps the invariant.
LEMMA NextInv ==
    ASSUME TypeInv, Coherence, [Next]_vars
    PROVE  TypeInv' /\ Coherence'
  <1>1. CASE \E p \in Procs : Work(p)
    BY <1>1, WorkInv
  <1>2. CASE \E p \in Callers : CallStarts(p)
    <2>1. PICK p \in Callers : CallStarts(p)
      BY <1>2
    <2>2. p \in Procs
      BY DEF Procs
    <2> QED BY <2>1, <2>2, CallStartsTypes, StartCoherent
  <1>3. CASE SweepTick
    BY <1>3, TickerProc, SweepTickTypes, StartCoherent
  <1>4. CASE Close \/ Crash
    BY <1>4, CloseTypes, CrashTypes, CloseCoherent, CrashCoherent
  <1>5. CASE Startup \/ StartupRefused
    BY <1>5, StartupTypes, StartupCoherent, CoherenceFrame DEF StartupRefused
  <1>6. CASE Tick \/ Publish \/ Collect
    BY <1>6, TickTypes, OtherOwnerTypes, CoherenceFrame DEF Tick, Publish, Collect
  <1>7. CASE UNCHANGED vars
    <2>1. UNCHANGED <<storeVars, memory, disk, up, call, now, phase, answer, ghosts>>
      BY <1>7 DEF vars
    <2>2. TypeInv'
      BY <2>1, NamedFrame, StoreFrame DEF TypeInv, WriterTypeOK, memory, ghosts
    <2> QED BY <2>1, <2>2, CoherenceFrame
  <1> QED BY <1>1, <1>2, <1>3, <1>4, <1>5, <1>6, <1>7 DEF Next, Environment

\* The inductive invariant of WriterInvariant holds in every reachable state.
THEOREM WriterInvariantHolds == Spec => []WriterInv
  <1>1. Init => TypeInv /\ Coherence
    BY InitInv
  <1>2. (TypeInv /\ Coherence) /\ [Next]_vars => (TypeInv /\ Coherence)'
    BY NextInv
  <1>3. TypeInv /\ Coherence => WriterInv
    BY DEF TypeInv, Coherence, WriterInv
  <1> QED BY <1>1, <1>2, <1>3, PTL DEF Spec

\* Every variable keeps its type, with any number of callers, handles, digests
\* and keys and any limits: the writer's structures are used as declared.
THEOREM TypeCorrect == Spec => []WriterTypeOK
  <1>1. WriterInv => WriterTypeOK
    BY DEF WriterInv
  <1> QED BY <1>1, WriterInvariantHolds, PTL

\* The writer's three indexes name each other through every interleaving of
\* calls, sweeps, failures, crashes and restarts (writer.go, unlink and sweep).
THEOREM IndexesCohere == Spec => []IndexCoherent
  <1>1. WriterInv => IndexCoherent
    BY DEF WriterInv
  <1> QED BY <1>1, WriterInvariantHolds, PTL
=============================================================================
