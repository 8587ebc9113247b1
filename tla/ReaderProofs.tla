----------------------------- MODULE ReaderProofs -----------------------------
(***************************************************************************)
(* The reader's limits, the ownership of its files and the integrity of     *)
(* what it serves, for every number of callers, handles, files, subjects    *)
(* and every limit.                                                        *)
(***************************************************************************)
EXTENDS Reader, FiniteSetTheorems, TLAPS

-----------------------------------------------------------------------------
(* Workers and values.                                                     *)

\* The ticker and Close are workers beside the callers.
LEMMA WorkerKinds ==
    /\ \A p \in Callers : p \in Workers /\ p # Closer /\ p # Ticker
    /\ Closer \in Workers /\ Ticker \in Workers /\ Ticker # Closer
    /\ \A w \in Workers : w \in Callers \/ w = Closer \/ w = Ticker
  BY ReaderAssumption DEF Workers

\* A worker that does nothing has a well-typed call.
LEMMA IdleType == Idle \in Call
  BY DEF Idle, Call, PCs

\* A handle that was never drawn has a well-typed resource.
LEMMA NoResourceType == NoResource \in Resource /\ NoResource.opened = None
  BY DEF NoResource, Resource

\* Handles are finitely many, and so are the handles of the table and the opens
\* in progress, of everyone and of one subject.
LEMMA Finite ==
    ASSUME ReaderTypeOK, NEW s \in Scopes
    PROVE  /\ IsFiniteSet(table) /\ IsFiniteSet(HandlesOf(s))
           /\ IsFiniteSet(Opening) /\ IsFiniteSet(OpeningOf(s)) /\ IsFiniteSet(pending)
           /\ IsFiniteSet({q \in pending : ScopeOf[q] = s})
<1>1. table \subseteq Handles /\ HandlesOf(s) \subseteq Handles
  BY DEF ReaderTypeOK, HandlesOf
<1>2. /\ Opening \subseteq Callers /\ OpeningOf(s) \subseteq Callers /\ pending \subseteq Callers
      /\ {q \in pending : ScopeOf[q] = s} \subseteq Callers
  BY DEF ReaderTypeOK, Opening, OpeningOf
<1> QED BY <1>1, <1>2, ReaderAssumption, FS_Subset

\* Closing the file of a resource changes nothing else of it.
LEMMA CloseFile ==
    ASSUME ReaderTypeOK, NEW h \in Handles,
           resource' = [resource EXCEPT ![h].file = None]
    PROVE  /\ resource' \in [Handles -> Resource]
           /\ \A g \in Handles \ {h} : resource'[g] = resource[g]
           /\ resource'[h].file = None
           /\ resource'[h].opened = resource[h].opened
           /\ resource'[h].initial = resource[h].initial
           /\ resource'[h].scope = resource[h].scope
<1>1. [resource[h] EXCEPT !.file = None] \in Resource
  BY DEF ReaderTypeOK, Resource
<1>2. resource' = [resource EXCEPT ![h] = [resource[h] EXCEPT !.file = None]]
  BY DEF ReaderTypeOK
<1>3. resource[h] \in Resource
  BY DEF ReaderTypeOK
<1> QED BY <1>1, <1>2, <1>3 DEF ReaderTypeOK, Resource

\* A step that neither reserves nor inserts keeps the bounds.
LEMMA BoundedShrinks ==
    ASSUME ReaderInv, ReaderTypeOK', Opening' \subseteq Opening, table' \subseteq table,
           \A h \in table' : resource'[h].scope = resource[h].scope
    PROVE  Bounded'
<1>1. Cardinality(table') <= Cardinality(table) /\ Cardinality(table') \in Nat
  BY Finite, ReaderAssumption, FS_Subset, FS_CardinalityType DEF ReaderInv, ReaderTypeOK
<1>2. Cardinality(Opening') <= Cardinality(Opening) /\ Cardinality(Opening') \in Nat
  BY Finite, ReaderAssumption, FS_Subset, FS_CardinalityType DEF ReaderInv, ReaderTypeOK, Opening
<1>3. ASSUME NEW s \in Scopes
      PROVE  Cardinality(HandlesOf(s)') + Cardinality(OpeningOf(s)') <= MaxPerScope
  <2>1. HandlesOf(s)' \subseteq HandlesOf(s) /\ OpeningOf(s)' \subseteq OpeningOf(s)
    BY DEF HandlesOf, OpeningOf
  <2>2. IsFiniteSet(HandlesOf(s)) /\ IsFiniteSet(OpeningOf(s))
    BY Finite DEF ReaderInv
  <2>3. /\ Cardinality(HandlesOf(s)') <= Cardinality(HandlesOf(s))
        /\ Cardinality(OpeningOf(s)') <= Cardinality(OpeningOf(s))
        /\ Cardinality(HandlesOf(s)) \in Nat /\ Cardinality(OpeningOf(s)) \in Nat
        /\ Cardinality(HandlesOf(s)') \in Nat /\ Cardinality(OpeningOf(s)') \in Nat
    BY <2>1, <2>2, FS_Subset, FS_CardinalityType
  <2>4. Cardinality(HandlesOf(s)) + Cardinality(OpeningOf(s)) <= MaxPerScope
    BY DEF ReaderInv, Bounded
  <2> HIDE DEF HandlesOf, OpeningOf
  <2> QED BY <2>3, <2>4, ReaderAssumption
<1>4. Cardinality(table') + Cardinality(Opening') <= MaxResources
  <2>1. IsFiniteSet(table) /\ IsFiniteSet(Opening)
    BY ReaderAssumption, FS_Subset DEF ReaderInv, ReaderTypeOK, Opening
  <2>2. Cardinality(table) \in Nat /\ Cardinality(Opening) \in Nat
    BY <2>1, FS_CardinalityType
  <2> QED BY <1>1, <1>2, <2>2, ReaderAssumption DEF ReaderInv, Bounded
<1> QED BY <1>3, <1>4 DEF Bounded

-----------------------------------------------------------------------------
(* Steps.                                                                 *)

\* A worker returns: it had nothing left to close, its place is given back, and
\* a handle it drops has no open file.
LEMMA StepReturn ==
    ASSUME ReaderInv, NEW w \in Workers, Return(w),
           call[w].todo = {}, w = Closer => closed,
           UNCHANGED <<object, version, resource, closed, now>>,
           table' \subseteq table, \A h \in table \ table' : ~OpenFileOf(h),
           pending' = pending \ {w}
    PROVE  ReaderInv'
<1>0. w \in Workers /\ Closer \in Workers /\ Ticker \in Workers /\ Ticker # Closer
  BY WorkerKinds
<1>1. /\ call' \in [Workers -> Call]
      /\ \A u \in Workers \ {w} : call'[u] = call[u]
  BY <1>0, IdleType DEF ReaderInv, ReaderTypeOK, Return
<1>2. call'[w] = Idle
  BY <1>0 DEF ReaderInv, ReaderTypeOK, Return
<1>3. /\ object' = object /\ version' = version /\ resource' = resource /\ closed' = closed
      /\ now' = now
  OBVIOUS
<1>4. /\ table' \subseteq table
      /\ pending' = pending \ {w}
      /\ pending' \in SUBSET Callers
      /\ call[w].todo = {}
      /\ w = Closer => closed
  BY DEF ReaderInv, ReaderTypeOK
<1>5. ReaderTypeOK'
  BY <1>1, <1>2, <1>3, <1>4 DEF ReaderInv, ReaderTypeOK
<1>6. TodoKnown'
  BY <1>0, <1>1, <1>2, <1>3, <1>4 DEF ReaderInv, TodoKnown, Idle, Drawn
<1>7. HandlesKnown'
  BY <1>0, <1>1, <1>2, <1>3, <1>4, WorkerKinds DEF ReaderInv, HandlesKnown, Idle, Drawn
<1>8. OneHolder'
  BY <1>0, <1>1, <1>2, <1>3, <1>4, WorkerKinds DEF ReaderInv, OneHolder, Holding, Idle
<1>9. VersionsOrdered'
  BY <1>0, <1>1, <1>2, <1>3, <1>4, WorkerKinds DEF ReaderInv, VersionsOrdered, HandlesKnown, ReaderTypeOK, Resource, Drawn, Idle
<1>10. Bounded'
  <2>1. Opening' \subseteq Opening
    BY <1>0, <1>1, <1>2, WorkerKinds DEF Opening, Idle
  <2>2. table' \subseteq table /\ \A h \in table' : resource'[h].scope = resource[h].scope
    BY <1>0, <1>2, <1>3, <1>4 DEF ReaderInv, ReaderTypeOK
  <2> QED BY <1>5, <2>1, <2>2, BoundedShrinks
<1>11. PendingExact'
  BY <1>0, <1>1, <1>2, <1>3, <1>4, WorkerKinds DEF ReaderInv, PendingExact, Idle
<1>12. FilesOwned'
  BY <1>0, <1>1, <1>2, <1>3, <1>4 DEF ReaderInv, FilesOwned, OpenFileOf, VersionsOrdered, Idle
<1>13. ReadsOpenFile'
  BY <1>0, <1>1, <1>2, <1>3, <1>4, WorkerKinds DEF ReaderInv, ReadsOpenFile, Holding, Idle
<1>14. ChunkOfOpened'
  BY <1>0, <1>1, <1>2, <1>3, <1>4, WorkerKinds DEF ReaderInv, ChunkOfOpened, Idle
<1> QED BY <1>5, <1>6, <1>7, <1>8, <1>9, <1>10, <1>11, <1>12, <1>13, <1>14 DEF ReaderInv

\* Open has seen a regular file, or fails.
LEMMA StepOpenLstat ==
    ASSUME ReaderInv, NEW p \in Callers, OpenLstat(p)
    PROVE  ReaderInv'
<1>0. p \in Workers /\ p # Closer /\ p # Ticker /\ Closer \in Workers /\ Ticker \in Workers
  BY WorkerKinds
<1>1. /\ call' \in [Workers -> Call]
      /\ \A u \in Workers \ {p} : call'[u] = call[u]
  BY <1>0 DEF ReaderInv, ReaderTypeOK, Call, PCs, OpenLstat, Goto
<1>2. call[p].pc = "lstat" /\ call[p].todo = {} /\ call'[p].todo = {}
  BY <1>0 DEF ReaderInv, ReaderTypeOK, TodoKnown, Call, OpenLstat, Goto
<1>3. \/ call'[p].pc = "opening" /\ call'[p].digest \in Digests /\ call'[p].file \in Files
      \/ call'[p].pc = "release"
  BY <1>0 DEF ReaderInv, ReaderTypeOK, HandlesKnown, Call, Idle, OpenLstat, Goto
<1>4. /\ object' = object /\ version' = version /\ table' = table /\ resource' = resource
      /\ pending' = pending /\ closed' = closed /\ now' = now
  BY DEF OpenLstat, Goto
<1>5. ReaderTypeOK'
  BY <1>1, <1>2, <1>4 DEF ReaderInv, ReaderTypeOK
<1>6. TodoKnown'
  BY <1>0, <1>1, <1>2, <1>4 DEF ReaderInv, TodoKnown, Idle, Drawn
<1>7. HandlesKnown'
  BY <1>0, <1>1, <1>2, <1>3, <1>4, WorkerKinds DEF ReaderInv, HandlesKnown, Idle, Drawn
<1>8. OneHolder'
  BY <1>0, <1>1, <1>2, <1>3, <1>4, WorkerKinds DEF ReaderInv, OneHolder, Holding, Idle
<1>9. VersionsOrdered'
  BY <1>0, <1>1, <1>2, <1>3, <1>4, WorkerKinds DEF ReaderInv, VersionsOrdered, HandlesKnown, ReaderTypeOK, Resource, Drawn, Idle
<1>10. Bounded'
  <2>1. Opening' \subseteq Opening
    BY <1>0, <1>1, <1>2, <1>3, WorkerKinds DEF Opening, Idle
  <2>2. table' \subseteq table /\ \A h \in table' : resource'[h].scope = resource[h].scope
    BY <1>0, <1>2, <1>4 DEF ReaderInv, ReaderTypeOK
  <2> QED BY <1>5, <2>1, <2>2, BoundedShrinks
<1>11. PendingExact'
  BY <1>0, <1>1, <1>2, <1>3, <1>4, WorkerKinds DEF ReaderInv, PendingExact, Idle
<1>12. FilesOwned'
  BY <1>0, <1>1, <1>2, <1>4 DEF ReaderInv, FilesOwned, OpenFileOf, VersionsOrdered, Idle
<1>13. ReadsOpenFile'
  BY <1>0, <1>1, <1>2, <1>3, <1>4, WorkerKinds DEF ReaderInv, ReadsOpenFile, Holding, Idle
<1>14. ChunkOfOpened'
  BY <1>0, <1>1, <1>2, <1>3, <1>4, WorkerKinds DEF ReaderInv, ChunkOfOpened, Idle
<1> QED BY <1>5, <1>6, <1>7, <1>8, <1>9, <1>10, <1>11, <1>12, <1>13, <1>14 DEF ReaderInv

\* Open has the file, at a version, or fails.
LEMMA StepOpenFile ==
    ASSUME ReaderInv, NEW p \in Callers, OpenFile(p)
    PROVE  ReaderInv'
<1>0. p \in Workers /\ p # Closer /\ p # Ticker /\ Closer \in Workers /\ Ticker \in Workers
  BY WorkerKinds
<1>1. /\ call' \in [Workers -> Call]
      /\ \A u \in Workers \ {p} : call'[u] = call[u]
  <2>1. call[p].file \in Files
    BY DEF ReaderInv, HandlesKnown, OpenFile
  <2>2. version[call[p].file] \in Nat
    BY <2>1 DEF ReaderInv, ReaderTypeOK
  <2> QED BY <1>0, <2>1, <2>2 DEF ReaderInv, ReaderTypeOK, Call, PCs, OpenFile, Goto
<1>2. call[p].pc = "opening" /\ call[p].todo = {} /\ call'[p].todo = {}
  BY <1>0 DEF ReaderInv, ReaderTypeOK, TodoKnown, Call, OpenFile, Goto
<1>3. \/ /\ call'[p].pc = "insert" /\ call'[p].digest \in Digests /\ call'[p].file \in Files
         /\ call'[p].version = version[call'[p].file]
      \/ call'[p].pc = "release"
  BY <1>0 DEF ReaderInv, ReaderTypeOK, HandlesKnown, Call, Idle, OpenFile, Goto
<1>4. /\ object' = object /\ version' = version /\ table' = table /\ resource' = resource
      /\ pending' = pending /\ closed' = closed /\ now' = now
  BY DEF OpenFile, Goto
<1>5. ReaderTypeOK'
  BY <1>1, <1>2, <1>4 DEF ReaderInv, ReaderTypeOK
<1>6. TodoKnown'
  BY <1>0, <1>1, <1>2, <1>4 DEF ReaderInv, TodoKnown, Idle, Drawn
<1>7. HandlesKnown'
  BY <1>0, <1>1, <1>2, <1>3, <1>4, WorkerKinds DEF ReaderInv, HandlesKnown, Idle, Drawn
<1>8. OneHolder'
  BY <1>0, <1>1, <1>2, <1>3, <1>4, WorkerKinds DEF ReaderInv, OneHolder, Holding, Idle
<1>9. VersionsOrdered'
  BY <1>0, <1>1, <1>2, <1>3, <1>4, WorkerKinds DEF ReaderInv, VersionsOrdered, HandlesKnown, ReaderTypeOK, Resource, Drawn, Idle
<1>10. Bounded'
  <2>1. Opening' \subseteq Opening
    BY <1>0, <1>1, <1>2, <1>3, WorkerKinds DEF Opening, Idle
  <2>2. table' \subseteq table /\ \A h \in table' : resource'[h].scope = resource[h].scope
    BY <1>0, <1>2, <1>4 DEF ReaderInv, ReaderTypeOK
  <2> QED BY <1>5, <2>1, <2>2, BoundedShrinks
<1>11. PendingExact'
  BY <1>0, <1>1, <1>2, <1>3, <1>4, WorkerKinds DEF ReaderInv, PendingExact, Idle
<1>12. FilesOwned'
  BY <1>0, <1>1, <1>2, <1>4 DEF ReaderInv, FilesOwned, OpenFileOf, VersionsOrdered, Idle
<1>13. ReadsOpenFile'
  BY <1>0, <1>1, <1>2, <1>3, <1>4, WorkerKinds DEF ReaderInv, ReadsOpenFile, Holding, Idle
<1>14. ChunkOfOpened'
  BY <1>0, <1>1, <1>2, <1>3, <1>4, WorkerKinds DEF ReaderInv, ChunkOfOpened, Idle
<1> QED BY <1>5, <1>6, <1>7, <1>8, <1>9, <1>10, <1>11, <1>12, <1>13, <1>14 DEF ReaderInv

\* Open comes too late.
LEMMA StepOpenLate ==
    ASSUME ReaderInv, NEW p \in Callers, OpenLate(p)
    PROVE  ReaderInv'
<1>0. p \in Workers /\ p # Closer /\ p # Ticker /\ Closer \in Workers /\ Ticker \in Workers
  BY WorkerKinds
<1>1. /\ call' \in [Workers -> Call]
      /\ \A u \in Workers \ {p} : call'[u] = call[u]
  <2>1. [Idle EXCEPT !.pc = "release"] \in Call
    BY IdleType DEF Call, PCs
  <2> QED BY <1>0, <2>1 DEF ReaderInv, ReaderTypeOK, OpenLate
<1>2. /\ call[p].pc = "insert" /\ call[p].todo = {} /\ call'[p].todo = {}
      /\ call'[p].pc = "release"
  BY <1>0 DEF ReaderInv, ReaderTypeOK, TodoKnown, OpenLate, Idle
<1>3. /\ object' = object /\ version' = version /\ table' = table /\ resource' = resource
      /\ pending' = pending /\ closed' = closed /\ now' = now
  BY DEF OpenLate
<1>4. ReaderTypeOK'
  BY <1>1, <1>2, <1>3 DEF ReaderInv, ReaderTypeOK
<1>5. TodoKnown'
  BY <1>0, <1>1, <1>2, <1>3 DEF ReaderInv, TodoKnown, Idle, Drawn
<1>6. HandlesKnown'
  BY <1>0, <1>1, <1>2, <1>3, WorkerKinds DEF ReaderInv, HandlesKnown, Idle, Drawn
<1>7. OneHolder'
  BY <1>0, <1>1, <1>2, <1>3, WorkerKinds DEF ReaderInv, OneHolder, Holding, Idle
<1>8. VersionsOrdered'
  BY <1>0, <1>1, <1>2, <1>3, WorkerKinds DEF ReaderInv, VersionsOrdered, HandlesKnown, ReaderTypeOK, Resource, Drawn, Idle
<1>9. Bounded'
  <2>1. Opening' \subseteq Opening
    BY <1>0, <1>1, <1>2, WorkerKinds DEF Opening, Idle
  <2>2. table' \subseteq table /\ \A h \in table' : resource'[h].scope = resource[h].scope
    BY <1>0, <1>2, <1>3 DEF ReaderInv, ReaderTypeOK
  <2> QED BY <1>4, <2>1, <2>2, BoundedShrinks
<1>10. PendingExact'
  BY <1>0, <1>1, <1>2, <1>3, WorkerKinds DEF ReaderInv, PendingExact, Idle
<1>11. FilesOwned'
  BY <1>0, <1>1, <1>2, <1>3 DEF ReaderInv, FilesOwned, OpenFileOf, VersionsOrdered, Idle
<1>12. ReadsOpenFile'
  BY <1>0, <1>1, <1>2, <1>3, WorkerKinds DEF ReaderInv, ReadsOpenFile, Holding, Idle
<1>13. ChunkOfOpened'
  BY <1>0, <1>1, <1>2, <1>3, WorkerKinds DEF ReaderInv, ChunkOfOpened, Idle
<1> QED BY <1>4, <1>5, <1>6, <1>7, <1>8, <1>9, <1>10, <1>11, <1>12, <1>13 DEF ReaderInv

\* Read found a handle of its subject, or returns.
LEMMA StepReadFind ==
    ASSUME ReaderInv, NEW p \in Callers, ReadFind(p)
    PROVE  ReaderInv'
<1>0. p \in Workers /\ p # Closer /\ p # Ticker /\ Closer \in Workers /\ Ticker \in Workers
  BY WorkerKinds
<1>1. /\ call' \in [Workers -> Call]
      /\ \A u \in Workers \ {p} : call'[u] = call[u]
  BY <1>0, IdleType DEF ReaderInv, ReaderTypeOK, Call, PCs, ReadFind, Return
<1>2. call[p].pc = "read" /\ call[p].todo = {} /\ call'[p].todo = {}
  BY <1>0 DEF ReaderInv, ReaderTypeOK, Call, Idle, ReadFind, Swept, Return
<1>3. \/ call'[p].pc = "admit" /\ call'[p].handle \in Handles /\ Drawn(call'[p].handle)
      \/ call'[p] = Idle
  <2>1. PICK h \in Handles :
          IF Own(p, h) THEN call' = [call EXCEPT ![p].pc = "admit", ![p].handle = h]
          ELSE Return(p)
    BY DEF ReadFind
  <2>2. CASE Own(p, h)
    BY <1>0, <2>1, <2>2 DEF ReaderInv, ReaderTypeOK, HandlesKnown, Call, Own
  <2>3. CASE ~Own(p, h)
    BY <1>0, <2>1, <2>3 DEF ReaderInv, ReaderTypeOK, Return
  <2> QED BY <2>2, <2>3
<1>4. /\ object' = object /\ version' = version /\ table' = table /\ resource' = resource
      /\ pending' = pending /\ closed' = closed /\ now' = now
  BY DEF ReadFind, Swept, Own, Return
<1>5. ReaderTypeOK'
  BY <1>1, <1>2, <1>4 DEF ReaderInv, ReaderTypeOK
<1>6. TodoKnown'
  BY <1>0, <1>1, <1>2, <1>4 DEF ReaderInv, TodoKnown, Idle, Drawn
<1>7. HandlesKnown'
  BY <1>0, <1>1, <1>2, <1>3, <1>4, WorkerKinds DEF ReaderInv, HandlesKnown, Idle, Drawn
<1>8. OneHolder'
  BY <1>0, <1>1, <1>2, <1>3, <1>4, WorkerKinds DEF ReaderInv, OneHolder, Holding, Idle
<1>9. VersionsOrdered'
  BY <1>0, <1>1, <1>2, <1>3, <1>4, WorkerKinds DEF ReaderInv, VersionsOrdered, HandlesKnown, ReaderTypeOK, Resource, Drawn, Idle
<1>10. Bounded'
  <2>1. Opening' \subseteq Opening
    BY <1>0, <1>1, <1>2, <1>3, WorkerKinds DEF Opening, Idle
  <2>2. table' \subseteq table /\ \A h \in table' : resource'[h].scope = resource[h].scope
    BY <1>0, <1>2, <1>4 DEF ReaderInv, ReaderTypeOK
  <2> QED BY <1>5, <2>1, <2>2, BoundedShrinks
<1>11. PendingExact'
  BY <1>0, <1>1, <1>2, <1>3, <1>4, WorkerKinds DEF ReaderInv, PendingExact, Idle
<1>12. FilesOwned'
  BY <1>0, <1>1, <1>2, <1>4 DEF ReaderInv, FilesOwned, OpenFileOf, VersionsOrdered, Idle
<1>13. ReadsOpenFile'
  BY <1>0, <1>1, <1>2, <1>3, <1>4, WorkerKinds DEF ReaderInv, ReadsOpenFile, Holding, Idle
<1>14. ChunkOfOpened'
  BY <1>0, <1>1, <1>2, <1>3, <1>4, WorkerKinds DEF ReaderInv, ChunkOfOpened, Idle
<1> QED BY <1>5, <1>6, <1>7, <1>8, <1>9, <1>10, <1>11, <1>12, <1>13, <1>14 DEF ReaderInv

\* Read has read what the file is at this moment.
LEMMA StepReadData ==
    ASSUME ReaderInv, NEW p \in Callers, ReadData(p)
    PROVE  ReaderInv'
<1>0. p \in Workers /\ p # Closer /\ p # Ticker /\ Closer \in Workers /\ Ticker \in Workers
  BY WorkerKinds
<1>1. /\ call' \in [Workers -> Call]
      /\ \A u \in Workers \ {p} : call'[u] = call[u]
  <2>1. call[p].handle \in Handles /\ resource[call[p].handle].file # None
    BY DEF ReaderInv, HandlesKnown, ReadsOpenFile, ReadData
  <2>2. resource[call[p].handle].file \in Files
    BY <2>1 DEF ReaderInv, ReaderTypeOK, Resource
  <2>3. version[resource[call[p].handle].file] \in Nat
    BY <2>2 DEF ReaderInv, ReaderTypeOK
  <2>4. [call[p] EXCEPT !.pc = "check", !.version = version[resource[call[p].handle].file]] \in Call
    BY <1>0, <2>3 DEF ReaderInv, ReaderTypeOK, Call, PCs
  <2> QED BY <1>0, <2>4 DEF ReaderInv, ReaderTypeOK, ReadData
<1>2. /\ call[p].pc = "data" /\ call[p].todo = {} /\ call'[p].todo = {}
      /\ call'[p].pc = "check"
  BY <1>0 DEF ReaderInv, ReaderTypeOK, TodoKnown, Call, ReadData
<1>3. /\ call'[p].handle = call[p].handle
      /\ call'[p].version = version[resource[call[p].handle].opened]
  <2>1. /\ call[p].handle \in Handles
        /\ resource[call[p].handle].file = resource[call[p].handle].opened
    BY DEF ReaderInv, HandlesKnown, VersionsOrdered, ReadsOpenFile, ReadData
  <2> QED BY <1>0, <2>1 DEF ReaderInv, ReaderTypeOK, Call, ReadData
<1>4. /\ object' = object /\ version' = version /\ table' = table /\ resource' = resource
      /\ pending' = pending /\ closed' = closed /\ now' = now
  BY DEF ReadData
<1>5. ReaderTypeOK'
  BY <1>1, <1>2, <1>4 DEF ReaderInv, ReaderTypeOK
<1>6. TodoKnown'
  BY <1>0, <1>1, <1>2, <1>4 DEF ReaderInv, TodoKnown, Idle, Drawn
<1>7. HandlesKnown'
  BY <1>0, <1>1, <1>2, <1>3, <1>4, WorkerKinds DEF ReaderInv, HandlesKnown, Idle, Drawn
<1>8. OneHolder'
  BY <1>0, <1>1, <1>2, <1>3, <1>4, WorkerKinds DEF ReaderInv, OneHolder, Holding, Idle
<1>9. VersionsOrdered'
  BY <1>0, <1>1, <1>2, <1>3, <1>4, WorkerKinds DEF ReaderInv, VersionsOrdered, HandlesKnown, ReaderTypeOK, Resource, Drawn, Idle
<1>10. Bounded'
  <2>1. Opening' \subseteq Opening
    BY <1>0, <1>1, <1>2, <1>3, WorkerKinds DEF Opening, Idle
  <2>2. table' \subseteq table /\ \A h \in table' : resource'[h].scope = resource[h].scope
    BY <1>0, <1>2, <1>4 DEF ReaderInv, ReaderTypeOK
  <2> QED BY <1>5, <2>1, <2>2, BoundedShrinks
<1>11. PendingExact'
  BY <1>0, <1>1, <1>2, <1>3, <1>4, WorkerKinds DEF ReaderInv, PendingExact, Idle
<1>12. FilesOwned'
  BY <1>0, <1>1, <1>2, <1>4 DEF ReaderInv, FilesOwned, OpenFileOf, VersionsOrdered, Idle
<1>13. ReadsOpenFile'
  BY <1>0, <1>1, <1>2, <1>3, <1>4, WorkerKinds DEF ReaderInv, ReadsOpenFile, Holding, Idle
<1>14. ChunkOfOpened'
  BY <1>0, <1>1, <1>2, <1>3, <1>4, WorkerKinds DEF ReaderInv, ChunkOfOpened, Idle
<1> QED BY <1>5, <1>6, <1>7, <1>8, <1>9, <1>10, <1>11, <1>12, <1>13, <1>14 DEF ReaderInv

\* Read closes a file that changed, while it holds v.mu alone.
LEMMA StepDiscard ==
    ASSUME ReaderInv, NEW p \in Callers, Discards(p),
           call[p].pc \in {"lock", "check"},
           call[p].pc = "lock" => ~Locked(call[p].handle),
           UNCHANGED <<object, version, table, pending, closed, now>>
    PROVE  ReaderInv'
<1>0. p \in Workers /\ p # Closer /\ p # Ticker /\ Closer \in Workers /\ Ticker \in Workers
  BY WorkerKinds
<1>1. /\ call' \in [Workers -> Call]
      /\ \A u \in Workers \ {p} : call'[u] = call[u]
  BY <1>0 DEF ReaderInv, ReaderTypeOK, Call, PCs, Discards, Goto
<1>2. /\ call[p].todo = {} /\ call'[p].todo = {}
      /\ call'[p].pc = "drop" /\ call'[p].handle = call[p].handle
      /\ call[p].handle \in Handles /\ Drawn(call[p].handle)
  BY <1>0 DEF ReaderInv, ReaderTypeOK, TodoKnown, HandlesKnown, Call, Discards, Goto
<1>3. \A q \in Callers \ {p} : call[q].pc \in Holding => call[q].handle # call[p].handle
  BY DEF ReaderInv, OneHolder, Locked, Holding
<1>4. /\ object' = object /\ version' = version /\ table' = table /\ pending' = pending
      /\ closed' = closed /\ now' = now
  OBVIOUS
<1>5. /\ resource' \in [Handles -> Resource]
      /\ \A g \in Handles \ {call[p].handle} : resource'[g] = resource[g]
      /\ resource'[call[p].handle].file = None
      /\ resource'[call[p].handle].opened = resource[call[p].handle].opened
      /\ resource'[call[p].handle].initial = resource[call[p].handle].initial
      /\ resource'[call[p].handle].scope = resource[call[p].handle].scope
  BY <1>2, CloseFile DEF ReaderInv, Discards
<1>6. /\ \A g \in Handles : /\ resource'[g].opened = resource[g].opened
                         /\ resource'[g].initial = resource[g].initial
                         /\ Drawn(g)' <=> Drawn(g)
      /\ table \subseteq Handles /\ \A u \in Workers : call[u].todo \subseteq Handles
  BY <1>2, <1>3, <1>4, <1>5 DEF ReaderInv, ReaderTypeOK, Call, Drawn
<1>7. ReaderTypeOK'
  BY <1>1, <1>2, <1>4, <1>5, <1>6 DEF ReaderInv, ReaderTypeOK
<1>8. TodoKnown'
  BY <1>0, <1>1, <1>2, <1>4, <1>5, <1>6 DEF ReaderInv, TodoKnown, Idle
<1>9. HandlesKnown'
  BY <1>0, <1>1, <1>2, <1>3, <1>4, <1>5, <1>6, WorkerKinds DEF ReaderInv, HandlesKnown, Idle
<1>10. OneHolder'
  BY <1>0, <1>1, <1>2, <1>3, <1>4, <1>5, <1>6, WorkerKinds DEF ReaderInv, OneHolder, Holding, Idle
<1>11. VersionsOrdered'
  BY <1>0, <1>1, <1>2, <1>3, <1>4, <1>5, <1>6, WorkerKinds DEF ReaderInv, VersionsOrdered, HandlesKnown, Idle
<1>12. Bounded'
  <2>1. Opening' \subseteq Opening
    BY <1>0, <1>1, <1>2, <1>3, WorkerKinds DEF Opening, Idle
  <2>2. table' \subseteq table /\ \A h \in table' : resource'[h].scope = resource[h].scope
    BY <1>0, <1>2, <1>4, <1>5, <1>6 DEF ReaderInv, ReaderTypeOK
  <2> QED BY <1>7, <2>1, <2>2, BoundedShrinks
<1>13. PendingExact'
  BY <1>0, <1>1, <1>2, <1>3, <1>4, <1>5, <1>6, WorkerKinds DEF ReaderInv, PendingExact, Idle
<1>14. FilesOwned'
  BY <1>0, <1>1, <1>2, <1>4, <1>5, <1>6 DEF ReaderInv, FilesOwned, OpenFileOf, VersionsOrdered, Idle
<1>15. ReadsOpenFile'
  BY <1>0, <1>1, <1>2, <1>3, <1>4, <1>5, <1>6, WorkerKinds DEF ReaderInv, ReadsOpenFile, Holding, Idle, HandlesKnown
<1>16. ChunkOfOpened'
  BY <1>0, <1>1, <1>2, <1>3, <1>4, <1>5, <1>6, WorkerKinds DEF ReaderInv, ChunkOfOpened, Idle, HandlesKnown
<1> QED BY <1>7, <1>8, <1>9, <1>10, <1>11, <1>12, <1>13, <1>14, <1>15, <1>16 DEF ReaderInv

\* Read holds v.mu of an open file whose metadata is what Open saw.
LEMMA StepAdmitted ==
    ASSUME ReaderInv, NEW p \in Callers, Goto(p, "data"),
           call[p].pc = "lock", ~Locked(call[p].handle), resource[call[p].handle].file # None,
           UNCHANGED <<object, version, table, resource, pending, closed, now>>
    PROVE  ReaderInv'
<1>0. p \in Workers /\ p # Closer /\ p # Ticker /\ Closer \in Workers /\ Ticker \in Workers
  BY WorkerKinds
<1>1. /\ call' \in [Workers -> Call]
      /\ \A u \in Workers \ {p} : call'[u] = call[u]
  BY <1>0 DEF ReaderInv, ReaderTypeOK, Call, PCs, Goto
<1>2. /\ call[p].todo = {} /\ call'[p].todo = {} /\ call[p].pc = "lock" /\ call'[p].pc = "data"
      /\ call'[p].handle = call[p].handle
      /\ call[p].handle \in Handles /\ Drawn(call[p].handle)
  BY <1>0 DEF ReaderInv, ReaderTypeOK, TodoKnown, HandlesKnown, Call, Goto
<1>3. /\ \A q \in Callers \ {p} : call[q].pc \in Holding => call[q].handle # call[p].handle
      /\ resource[call[p].handle].file # None
  BY DEF Locked
<1>4. /\ object' = object /\ version' = version /\ table' = table /\ resource' = resource
      /\ pending' = pending /\ closed' = closed /\ now' = now
  OBVIOUS
<1>5. ReaderTypeOK'
  BY <1>1, <1>2, <1>4 DEF ReaderInv, ReaderTypeOK
<1>6. TodoKnown'
  BY <1>0, <1>1, <1>2, <1>4 DEF ReaderInv, TodoKnown, Idle, Drawn
<1>7. HandlesKnown'
  BY <1>0, <1>1, <1>2, <1>3, <1>4, WorkerKinds DEF ReaderInv, HandlesKnown, Idle, Drawn
<1>8. OneHolder'
  BY <1>0, <1>1, <1>2, <1>3, <1>4, WorkerKinds DEF ReaderInv, OneHolder, Holding, Idle
<1>9. VersionsOrdered'
  BY <1>0, <1>1, <1>2, <1>3, <1>4, WorkerKinds DEF ReaderInv, VersionsOrdered, HandlesKnown, ReaderTypeOK, Resource, Drawn, Idle
<1>10. Bounded'
  <2>1. Opening' \subseteq Opening
    BY <1>0, <1>1, <1>2, <1>3, WorkerKinds DEF Opening, Idle
  <2>2. table' \subseteq table /\ \A h \in table' : resource'[h].scope = resource[h].scope
    BY <1>0, <1>2, <1>4 DEF ReaderInv, ReaderTypeOK
  <2> QED BY <1>5, <2>1, <2>2, BoundedShrinks
<1>11. PendingExact'
  BY <1>0, <1>1, <1>2, <1>3, <1>4, WorkerKinds DEF ReaderInv, PendingExact, Idle
<1>12. FilesOwned'
  BY <1>0, <1>1, <1>2, <1>4 DEF ReaderInv, FilesOwned, OpenFileOf, VersionsOrdered, Idle
<1>13. ReadsOpenFile'
  BY <1>0, <1>1, <1>2, <1>3, <1>4, WorkerKinds DEF ReaderInv, ReadsOpenFile, Holding, Idle
<1>14. ChunkOfOpened'
  BY <1>0, <1>1, <1>2, <1>3, <1>4, WorkerKinds DEF ReaderInv, ChunkOfOpened, Idle
<1> QED BY <1>5, <1>6, <1>7, <1>8, <1>9, <1>10, <1>11, <1>12, <1>13, <1>14 DEF ReaderInv

\* The metadata is still what Open saw, and so is what ReadAt read.
LEMMA StepServed ==
    ASSUME ReaderInv, NEW p \in Callers, Goto(p, "reply"),
           call[p].pc = "check",
           version[resource[call[p].handle].file] = resource[call[p].handle].initial,
           UNCHANGED <<object, version, table, resource, pending, closed, now>>
    PROVE  ReaderInv'
<1>0. p \in Workers /\ p # Closer /\ p # Ticker /\ Closer \in Workers /\ Ticker \in Workers
  BY WorkerKinds
<1>1. /\ call' \in [Workers -> Call]
      /\ \A u \in Workers \ {p} : call'[u] = call[u]
  BY <1>0 DEF ReaderInv, ReaderTypeOK, Call, PCs, Goto
<1>2. /\ call[p].todo = {} /\ call'[p].todo = {} /\ call[p].pc = "check" /\ call'[p].pc = "reply"
      /\ call'[p].handle = call[p].handle /\ call'[p].version = call[p].version
      /\ call[p].handle \in Handles /\ Drawn(call[p].handle)
  BY <1>0 DEF ReaderInv, ReaderTypeOK, TodoKnown, HandlesKnown, Call, Goto
<1>3. call[p].version = resource[call[p].handle].initial
  <2>1. resource[call[p].handle].file = resource[call[p].handle].opened
    BY <1>2 DEF ReaderInv, VersionsOrdered, ReadsOpenFile
  <2>2. /\ resource[call[p].handle].initial <= call[p].version
        /\ call[p].version <= version[resource[call[p].handle].opened]
    BY DEF ReaderInv, VersionsOrdered
  <2>3. resource[call[p].handle].initial \in Nat /\ call[p].version \in Nat
    BY <1>0, <1>2 DEF ReaderInv, ReaderTypeOK, Resource, Call
  <2> QED BY <2>1, <2>2, <2>3
<1>4. /\ object' = object /\ version' = version /\ table' = table /\ resource' = resource
      /\ pending' = pending /\ closed' = closed /\ now' = now
  OBVIOUS
<1>5. ReaderTypeOK'
  BY <1>1, <1>2, <1>4 DEF ReaderInv, ReaderTypeOK
<1>6. TodoKnown'
  BY <1>0, <1>1, <1>2, <1>4 DEF ReaderInv, TodoKnown, Idle, Drawn
<1>7. HandlesKnown'
  BY <1>0, <1>1, <1>2, <1>3, <1>4, WorkerKinds DEF ReaderInv, HandlesKnown, Idle, Drawn
<1>8. OneHolder'
  BY <1>0, <1>1, <1>2, <1>3, <1>4, WorkerKinds DEF ReaderInv, OneHolder, Holding, Idle
<1>9. VersionsOrdered'
  BY <1>0, <1>1, <1>2, <1>3, <1>4, WorkerKinds DEF ReaderInv, VersionsOrdered, HandlesKnown, ReaderTypeOK, Resource, Drawn, Idle
<1>10. Bounded'
  <2>1. Opening' \subseteq Opening
    BY <1>0, <1>1, <1>2, <1>3, WorkerKinds DEF Opening, Idle
  <2>2. table' \subseteq table /\ \A h \in table' : resource'[h].scope = resource[h].scope
    BY <1>0, <1>2, <1>4 DEF ReaderInv, ReaderTypeOK
  <2> QED BY <1>5, <2>1, <2>2, BoundedShrinks
<1>11. PendingExact'
  BY <1>0, <1>1, <1>2, <1>3, <1>4, WorkerKinds DEF ReaderInv, PendingExact, Idle
<1>12. FilesOwned'
  BY <1>0, <1>1, <1>2, <1>4 DEF ReaderInv, FilesOwned, OpenFileOf, VersionsOrdered, Idle
<1>13. ReadsOpenFile'
  BY <1>0, <1>1, <1>2, <1>3, <1>4, WorkerKinds DEF ReaderInv, ReadsOpenFile, Holding, Idle
<1>14. ChunkOfOpened'
  BY <1>0, <1>1, <1>2, <1>3, <1>4, WorkerKinds DEF ReaderInv, ChunkOfOpened, Idle
<1> QED BY <1>5, <1>6, <1>7, <1>8, <1>9, <1>10, <1>11, <1>12, <1>13, <1>14 DEF ReaderInv

\* Read refreshes the resource it looked up twice.
LEMMA StepReadAdmit ==
    ASSUME ReaderInv, NEW p \in Callers, ReadAdmit(p)
    PROVE  ReaderInv'
<1>0. p \in Workers /\ p # Closer /\ p # Ticker /\ Closer \in Workers /\ Ticker \in Workers
  BY WorkerKinds
<1>1. /\ call' \in [Workers -> Call]
      /\ \A u \in Workers \ {p} : call'[u] = call[u]
  BY <1>0 DEF ReaderInv, ReaderTypeOK, Call, PCs, ReadAdmit, Goto
<1>2. /\ call[p].pc = "admit" /\ call[p].todo = {} /\ call'[p].todo = {}
      /\ call'[p].pc = "lock"
  BY <1>0 DEF ReaderInv, ReaderTypeOK, TodoKnown, Call, ReadAdmit, Goto
<1>3. call'[p].handle = call[p].handle /\ call[p].handle \in Handles /\ Drawn(call[p].handle)
  BY <1>0 DEF ReaderInv, ReaderTypeOK, HandlesKnown, Call, ReadAdmit, Goto
<1>4. /\ object' = object /\ version' = version /\ table' = table /\ pending' = pending
      /\ closed' = closed /\ now' = now
  BY DEF ReadAdmit, Goto
<1>5. /\ resource' \in [Handles -> Resource]
      /\ \A g \in Handles : /\ resource'[g].file = resource[g].file
                         /\ resource'[g].opened = resource[g].opened
                         /\ resource'[g].initial = resource[g].initial
                         /\ resource'[g].scope = resource[g].scope
  <2>1. [resource[call[p].handle] EXCEPT !.expires = now + IdleLifetime] \in Resource
    BY <1>3, ReaderAssumption DEF ReaderInv, ReaderTypeOK, Resource
  <2>2. resource' = [resource EXCEPT ![call[p].handle] =
                        [resource[call[p].handle] EXCEPT !.expires = now + IdleLifetime]]
    BY <1>3 DEF ReaderInv, ReaderTypeOK, ReadAdmit
  <2>3. resource[call[p].handle] \in Resource
    BY <1>3 DEF ReaderInv, ReaderTypeOK
  <2> QED BY <1>3, <2>1, <2>2, <2>3 DEF ReaderInv, ReaderTypeOK, Resource
<1>6. /\ \A g \in Handles : /\ resource'[g].opened = resource[g].opened
                         /\ resource'[g].initial = resource[g].initial
                         /\ Drawn(g)' <=> Drawn(g)
      /\ table \subseteq Handles /\ \A u \in Workers : call[u].todo \subseteq Handles
  BY <1>2, <1>3, <1>4, <1>5 DEF ReaderInv, ReaderTypeOK, Call, Drawn
<1>7. ReaderTypeOK'
  BY <1>1, <1>2, <1>4, <1>5, <1>6 DEF ReaderInv, ReaderTypeOK
<1>8. TodoKnown'
  BY <1>0, <1>1, <1>2, <1>4, <1>5, <1>6 DEF ReaderInv, TodoKnown, Idle
<1>9. HandlesKnown'
  BY <1>0, <1>1, <1>2, <1>3, <1>4, <1>5, <1>6, WorkerKinds DEF ReaderInv, HandlesKnown, Idle
<1>10. OneHolder'
  BY <1>0, <1>1, <1>2, <1>3, <1>4, <1>5, <1>6, WorkerKinds DEF ReaderInv, OneHolder, Holding, Idle
<1>11. VersionsOrdered'
  BY <1>0, <1>1, <1>2, <1>3, <1>4, <1>5, <1>6, WorkerKinds DEF ReaderInv, VersionsOrdered, HandlesKnown, Idle
<1>12. Bounded'
  <2>1. Opening' \subseteq Opening
    BY <1>0, <1>1, <1>2, <1>3, WorkerKinds DEF Opening, Idle
  <2>2. table' \subseteq table /\ \A h \in table' : resource'[h].scope = resource[h].scope
    BY <1>0, <1>2, <1>4, <1>5, <1>6 DEF ReaderInv, ReaderTypeOK
  <2> QED BY <1>7, <2>1, <2>2, BoundedShrinks
<1>13. PendingExact'
  BY <1>0, <1>1, <1>2, <1>3, <1>4, <1>5, <1>6, WorkerKinds DEF ReaderInv, PendingExact, Idle
<1>14. FilesOwned'
  BY <1>0, <1>1, <1>2, <1>4, <1>5, <1>6 DEF ReaderInv, FilesOwned, OpenFileOf, VersionsOrdered, Idle
<1>15. ReadsOpenFile'
  BY <1>0, <1>1, <1>2, <1>3, <1>4, <1>5, <1>6, WorkerKinds DEF ReaderInv, ReadsOpenFile, Holding, Idle, HandlesKnown
<1>16. ChunkOfOpened'
  BY <1>0, <1>1, <1>2, <1>3, <1>4, <1>5, <1>6, WorkerKinds DEF ReaderInv, ChunkOfOpened, Idle, HandlesKnown
<1> QED BY <1>7, <1>8, <1>9, <1>10, <1>11, <1>12, <1>13, <1>14, <1>15, <1>16 DEF ReaderInv

\* A worker closes a resource it took from the table, and nobody holds v.mu.
LEMMA StepCloseOne ==
    ASSUME ReaderInv, NEW w \in Workers, CloseOne(w)
    PROVE  ReaderInv'
<1>0. w \in Workers /\ Closer \in Workers /\ Ticker \in Workers /\ Ticker # Closer
  BY WorkerKinds
<1>p. PICK h \in call[w].todo :
          /\ ~Locked(h)
          /\ resource' = [resource EXCEPT ![h].file = None]
          /\ call' = [call EXCEPT ![w].todo = @ \ {h}]
  BY DEF CloseOne
<1>1. /\ call' \in [Workers -> Call]
      /\ \A u \in Workers \ {w} : call'[u] = call[u]
  BY <1>0, <1>p DEF ReaderInv, ReaderTypeOK, Call
<1>2. /\ call'[w].todo \subseteq call[w].todo /\ call[w].todo \ {h} \subseteq call'[w].todo
      /\ call'[w].pc = call[w].pc /\ call'[w].handle = call[w].handle /\ call'[w].digest = call[w].digest
      /\ call'[w].file = call[w].file /\ call'[w].version = call[w].version
      /\ h \in Handles /\ Drawn(h) /\ ~(w = Closer /\ ~closed)
  BY <1>0, <1>p DEF ReaderInv, ReaderTypeOK, TodoKnown, Call, Idle
<1>3. \A q \in Callers : call[q].pc \in Holding => call[q].handle # h
  BY <1>p DEF Locked
<1>4. /\ object' = object /\ version' = version /\ table' = table /\ pending' = pending
      /\ closed' = closed /\ now' = now
  BY DEF CloseOne
<1>5. /\ resource' \in [Handles -> Resource]
      /\ \A g \in Handles \ {h} : resource'[g] = resource[g]
      /\ resource'[h].file = None
      /\ resource'[h].opened = resource[h].opened
      /\ resource'[h].initial = resource[h].initial
      /\ resource'[h].scope = resource[h].scope
  BY <1>p, <1>2, CloseFile DEF ReaderInv
<1>6. /\ \A g \in Handles : /\ resource'[g].opened = resource[g].opened
                         /\ resource'[g].initial = resource[g].initial
                         /\ Drawn(g)' <=> Drawn(g)
      /\ table \subseteq Handles /\ \A u \in Workers : call[u].todo \subseteq Handles
  BY <1>2, <1>3, <1>4, <1>5 DEF ReaderInv, ReaderTypeOK, Call, Drawn
<1>7. ReaderTypeOK'
  BY <1>1, <1>2, <1>4, <1>5, <1>6 DEF ReaderInv, ReaderTypeOK
<1>8. TodoKnown'
  BY <1>0, <1>1, <1>2, <1>4, <1>5, <1>6 DEF ReaderInv, TodoKnown, Idle
<1>9. HandlesKnown'
  BY <1>0, <1>1, <1>2, <1>3, <1>4, <1>5, <1>6, WorkerKinds DEF ReaderInv, HandlesKnown, Idle
<1>10. OneHolder'
  BY <1>0, <1>1, <1>2, <1>3, <1>4, <1>5, <1>6, WorkerKinds DEF ReaderInv, OneHolder, Holding, Idle
<1>11. VersionsOrdered'
  BY <1>0, <1>1, <1>2, <1>3, <1>4, <1>5, <1>6, WorkerKinds DEF ReaderInv, VersionsOrdered, HandlesKnown, Idle
<1>12. Bounded'
  <2>1. Opening' \subseteq Opening
    BY <1>0, <1>1, <1>2, <1>3, WorkerKinds DEF Opening, Idle
  <2>2. table' \subseteq table /\ \A g \in table' : resource'[g].scope = resource[g].scope
    BY <1>0, <1>2, <1>4, <1>5, <1>6 DEF ReaderInv, ReaderTypeOK
  <2> QED BY <1>7, <2>1, <2>2, BoundedShrinks
<1>13. PendingExact'
  BY <1>0, <1>1, <1>2, <1>3, <1>4, <1>5, <1>6, WorkerKinds DEF ReaderInv, PendingExact, Idle
<1>14. FilesOwned'
  BY <1>0, <1>1, <1>2, <1>4, <1>5, <1>6 DEF ReaderInv, FilesOwned, OpenFileOf, VersionsOrdered, Idle
<1>15. ReadsOpenFile'
  BY <1>0, <1>1, <1>2, <1>3, <1>4, <1>5, <1>6, WorkerKinds DEF ReaderInv, ReadsOpenFile, Holding, Idle, HandlesKnown
<1>16. ChunkOfOpened'
  BY <1>0, <1>1, <1>2, <1>3, <1>4, <1>5, <1>6, WorkerKinds DEF ReaderInv, ChunkOfOpened, Idle, HandlesKnown
<1> QED BY <1>7, <1>8, <1>9, <1>10, <1>11, <1>12, <1>13, <1>14, <1>15, <1>16 DEF ReaderInv

\* Whoever sweeps closes what it takes from the table.
LEMMA StepSweep ==
    ASSUME ReaderInv, NEW w \in Workers \ {Closer},
           NEW pc \in {"open", "read", "close", "ending"}, Sweep(w, pc),
           w = Ticker => pc = "ending"
    PROVE  ReaderInv'
<1>0. w \in Workers /\ Closer \in Workers /\ Ticker \in Workers /\ Ticker # Closer
  BY WorkerKinds
<1>p. [Idle EXCEPT !.pc = pc, !.todo = Expired] \in Call
  BY IdleType DEF ReaderInv, ReaderTypeOK, Expired, Call, PCs
<1>1. /\ call' \in [Workers -> Call]
      /\ \A u \in Workers \ {w} : call'[u] = call[u]
  BY <1>0, <1>p DEF ReaderInv, ReaderTypeOK, Sweep
<1>2. /\ call'[w].todo = Expired /\ call'[w].pc = pc
      /\ Expired \subseteq table /\ call[w].todo = {} /\ call[w].pc = "idle" /\ w # Closer
  BY <1>0 DEF ReaderInv, ReaderTypeOK, TodoKnown, Sweep, Idle, Expired
<1>3. /\ object' = object /\ version' = version /\ resource' = resource /\ pending' = pending
      /\ closed' = closed /\ now' = now
  BY DEF Sweep
<1>4. table' = table \ Expired
  BY DEF Sweep
<1>5. ReaderTypeOK'
  BY <1>1, <1>2, <1>3, <1>4 DEF ReaderInv, ReaderTypeOK
<1>6. TodoKnown'
  BY <1>0, <1>1, <1>2, <1>3, <1>4 DEF ReaderInv, TodoKnown, Idle, Drawn, HandlesKnown
<1>7. HandlesKnown'
  BY <1>0, <1>1, <1>2, <1>3, <1>4, WorkerKinds DEF ReaderInv, HandlesKnown, Idle, Drawn
<1>8. OneHolder'
  BY <1>0, <1>1, <1>2, <1>3, <1>4, WorkerKinds DEF ReaderInv, OneHolder, Holding, Idle
<1>9. VersionsOrdered'
  BY <1>0, <1>1, <1>2, <1>3, <1>4, WorkerKinds DEF ReaderInv, VersionsOrdered, HandlesKnown, ReaderTypeOK, Resource, Drawn, Idle
<1>10. Bounded'
  <2>1. Opening' \subseteq Opening
    BY <1>0, <1>1, <1>2, WorkerKinds DEF Opening, Idle
  <2>2. table' \subseteq table /\ \A h \in table' : resource'[h].scope = resource[h].scope
    BY <1>0, <1>2, <1>3, <1>4 DEF ReaderInv, ReaderTypeOK
  <2> QED BY <1>5, <2>1, <2>2, BoundedShrinks
<1>11. PendingExact'
  BY <1>0, <1>1, <1>2, <1>3, <1>4, WorkerKinds DEF ReaderInv, PendingExact, Idle
<1>12. FilesOwned'
  BY <1>0, <1>1, <1>2, <1>3, <1>4 DEF ReaderInv, FilesOwned, OpenFileOf, VersionsOrdered, Idle
<1>13. ReadsOpenFile'
  BY <1>0, <1>1, <1>2, <1>3, <1>4, WorkerKinds DEF ReaderInv, ReadsOpenFile, Holding, Idle
<1>14. ChunkOfOpened'
  BY <1>0, <1>1, <1>2, <1>3, <1>4, WorkerKinds DEF ReaderInv, ChunkOfOpened, Idle
<1> QED BY <1>5, <1>6, <1>7, <1>8, <1>9, <1>10, <1>11, <1>12, <1>13, <1>14 DEF ReaderInv

\* Close takes one handle of its subject from the table and closes it next.
LEMMA StepCloseHandle ==
    ASSUME ReaderInv, NEW p \in Callers, CloseHandle(p)
    PROVE  ReaderInv'
<1>0. p \in Workers /\ p # Closer /\ p # Ticker /\ Closer \in Workers /\ Ticker \in Workers
  BY WorkerKinds
<1>1. /\ call' \in [Workers -> Call]
      /\ \A u \in Workers \ {p} : call'[u] = call[u]
  <2>1. \A h \in Handles : [call[p] EXCEPT !.pc = "ending", !.todo = {h}] \in Call
    BY <1>0 DEF ReaderInv, ReaderTypeOK, Call, PCs
  <2> QED BY <1>0, <2>1, IdleType DEF ReaderInv, ReaderTypeOK, CloseHandle, Return
<1>2. call[p].pc = "close" /\ call[p].todo = {}
  BY DEF CloseHandle, Swept
<1>3. \/ /\ call'[p].pc = "ending"
         /\ \E h \in table : call'[p].todo = {h} /\ table' = table \ {h}
      \/ call'[p] = Idle /\ table' = table
  <2>1. PICK h \in Handles :
          IF Own(p, h)
          THEN /\ table' = table \ {h}
               /\ call' = [call EXCEPT ![p].pc = "ending", ![p].todo = {h}]
          ELSE Return(p) /\ UNCHANGED table
    BY DEF CloseHandle
  <2>2. CASE Own(p, h)
    BY <1>0, <2>1, <2>2 DEF ReaderInv, ReaderTypeOK, Call, Own
  <2>3. CASE ~Own(p, h)
    BY <1>0, <2>1, <2>3 DEF ReaderInv, ReaderTypeOK, Return
  <2> QED BY <2>2, <2>3
<1>4. /\ object' = object /\ version' = version /\ resource' = resource /\ pending' = pending
      /\ closed' = closed /\ now' = now
  BY DEF CloseHandle, Swept, Own, Return
<1>5. table' \subseteq table
  BY DEF CloseHandle
<1>6. ReaderTypeOK'
  BY <1>1, <1>2, <1>4, <1>5 DEF ReaderInv, ReaderTypeOK
<1>7. TodoKnown'
  BY <1>0, <1>1, <1>2, <1>3, <1>4, <1>5 DEF ReaderInv, TodoKnown, HandlesKnown, Idle, Drawn
<1>8. HandlesKnown'
  BY <1>0, <1>1, <1>2, <1>3, <1>4, <1>5, WorkerKinds DEF ReaderInv, HandlesKnown, Idle, Drawn
<1>9. OneHolder'
  BY <1>0, <1>1, <1>2, <1>3, <1>4, <1>5, WorkerKinds DEF ReaderInv, OneHolder, Holding, Idle
<1>10. VersionsOrdered'
  BY <1>0, <1>1, <1>2, <1>3, <1>4, <1>5, WorkerKinds DEF ReaderInv, VersionsOrdered, HandlesKnown, ReaderTypeOK, Resource, Drawn, Idle
<1>11. Bounded'
  <2>1. Opening' \subseteq Opening
    BY <1>0, <1>1, <1>2, <1>3, WorkerKinds DEF Opening, Idle
  <2>2. table' \subseteq table /\ \A h \in table' : resource'[h].scope = resource[h].scope
    BY <1>0, <1>2, <1>4, <1>5 DEF ReaderInv, ReaderTypeOK
  <2> QED BY <1>6, <2>1, <2>2, BoundedShrinks
<1>12. PendingExact'
  BY <1>0, <1>1, <1>2, <1>3, <1>4, <1>5, WorkerKinds DEF ReaderInv, PendingExact, Idle
<1>13. FilesOwned'
  BY <1>0, <1>1, <1>2, <1>3, <1>4, <1>5 DEF ReaderInv, FilesOwned, OpenFileOf, Idle
<1>14. ReadsOpenFile'
  BY <1>0, <1>1, <1>2, <1>3, <1>4, <1>5, WorkerKinds DEF ReaderInv, ReadsOpenFile, Holding, Idle
<1>15. ChunkOfOpened'
  BY <1>0, <1>1, <1>2, <1>3, <1>4, <1>5, WorkerKinds DEF ReaderInv, ChunkOfOpened, Idle
<1> QED BY <1>6, <1>7, <1>8, <1>9, <1>10, <1>11, <1>12, <1>13, <1>14, <1>15 DEF ReaderInv
\* Open counts itself under the limits.
LEMMA StepOpenReserve ==
    ASSUME ReaderInv, NEW p \in Callers, OpenReserve(p)
    PROVE  ReaderInv'
<1>0. p \in Workers /\ p # Closer /\ p # Ticker /\ Closer \in Workers /\ Ticker \in Workers
  BY WorkerKinds
<1>1. PICK d \in Digests : call' = [call EXCEPT ![p].pc = "lstat", ![p].digest = d]
  BY DEF OpenReserve
<1>2. /\ call' \in [Workers -> Call]
      /\ \A u \in Workers \ {p} : call'[u] = call[u]
      /\ call'[p].digest = d /\ call'[p].pc = "lstat" /\ call'[p].todo = call[p].todo
  <2>1. [call[p] EXCEPT !.pc = "lstat", !.digest = d] \in Call
    BY <1>0 DEF ReaderInv, ReaderTypeOK, Call, PCs
  <2>2. call' = [call EXCEPT ![p] = [call[p] EXCEPT !.pc = "lstat", !.digest = d]]
    BY <1>0, <1>1 DEF ReaderInv, ReaderTypeOK
  <2> QED BY <1>0, <2>1, <2>2 DEF ReaderInv, ReaderTypeOK, Call
<1>3. call[p].pc = "open" /\ call[p].todo = {}
  BY DEF OpenReserve, Swept
<1>4. /\ object' = object /\ version' = version /\ table' = table /\ resource' = resource
      /\ closed' = closed /\ now' = now /\ pending' = pending \cup {p}
  BY DEF OpenReserve
<1>5. ReaderTypeOK'
  BY <1>2, <1>4 DEF ReaderInv, ReaderTypeOK
<1>6. TodoKnown'
  BY <1>0, <1>2, <1>3, <1>4 DEF ReaderInv, TodoKnown, Idle, Drawn
<1>7. HandlesKnown'
  BY <1>0, <1>2, <1>3, <1>4, WorkerKinds DEF ReaderInv, HandlesKnown, Idle, Drawn
<1>8. OneHolder'
  BY <1>0, <1>2, <1>3, <1>4, WorkerKinds DEF ReaderInv, OneHolder, Holding
<1>9. VersionsOrdered'
  BY <1>0, <1>2, <1>3, <1>4, WorkerKinds DEF ReaderInv, VersionsOrdered, Drawn
<1>10. PendingExact'
  BY <1>0, <1>2, <1>3, <1>4, WorkerKinds DEF ReaderInv, PendingExact
<1>11. FilesOwned'
  BY <1>0, <1>2, <1>3, <1>4 DEF ReaderInv, FilesOwned, OpenFileOf
<1>12. ReadsOpenFile'
  BY <1>0, <1>2, <1>3, <1>4, WorkerKinds DEF ReaderInv, ReadsOpenFile, Holding
<1>13. ChunkOfOpened'
  BY <1>0, <1>2, <1>3, <1>4, WorkerKinds DEF ReaderInv, ChunkOfOpened
<1>14. p \notin pending /\ Opening \subseteq pending /\ Opening' \subseteq pending \cup {p}
  BY <1>0, <1>2, <1>3, WorkerKinds DEF ReaderInv, PendingExact, Opening
<1>15. /\ IsFiniteSet(table) /\ IsFiniteSet(pending) /\ IsFiniteSet(pending \cup {p})
       /\ Cardinality(pending \cup {p}) = Cardinality(pending) + 1
       /\ Cardinality(table) \in Nat /\ Cardinality(pending) \in Nat
  <2>1. IsFiniteSet(table) /\ IsFiniteSet(pending)
    BY ReaderAssumption, FS_Subset DEF ReaderInv, ReaderTypeOK
  <2> QED BY <1>14, <2>1, FS_AddElement, FS_CardinalityType
<1>16. Cardinality(Opening') <= Cardinality(pending) + 1 /\ Cardinality(Opening') \in Nat
  BY <1>14, <1>15, FS_Subset, FS_CardinalityType
<1>17. Cardinality(table') + Cardinality(Opening') <= MaxResources
  <2>1. ~(Cardinality(table) + Cardinality(pending) >= MaxResources)
    BY DEF OpenReserve, Taken
  <2> QED BY <1>4, <1>15, <1>16, <2>1, ReaderAssumption
<1>18. ASSUME NEW s \in Scopes
       PROVE  Cardinality(HandlesOf(s)') + Cardinality(OpeningOf(s)') <= MaxPerScope
  <2>1. HandlesOf(s)' = HandlesOf(s)
    BY <1>4 DEF HandlesOf
  <2>2. CASE s # ScopeOf[p]
    <3>1. OpeningOf(s)' = OpeningOf(s)
      BY <1>0, <1>2, <1>3, <2>2, WorkerKinds DEF OpeningOf, Opening
    <3> QED BY <2>1, <3>1 DEF ReaderInv, Bounded
  <2>3. CASE s = ScopeOf[p]
    <3> DEFINE mine == {q \in pending : ScopeOf[q] = s}
    <3>1. p \notin mine /\ OpeningOf(s)' \subseteq mine \cup {p}
      BY <1>14 DEF OpeningOf
    <3>2. /\ IsFiniteSet(mine) /\ IsFiniteSet(mine \cup {p}) /\ Cardinality(mine) \in Nat
          /\ Cardinality(mine \cup {p}) = Cardinality(mine) + 1
      <4>1. IsFiniteSet(mine)
        BY <1>15, FS_Subset
      <4> QED BY <3>1, <4>1, FS_AddElement, FS_CardinalityType
    <3>3. Cardinality(OpeningOf(s)') <= Cardinality(mine) + 1 /\ Cardinality(OpeningOf(s)') \in Nat
      BY <3>1, <3>2, FS_Subset, FS_CardinalityType
    <3>4. ~(Cardinality(HandlesOf(s)) + Cardinality(mine) >= MaxPerScope)
      BY <2>3 DEF OpenReserve, Taken, HandlesOf
    <3>5. Cardinality(HandlesOf(s)) \in Nat
      <4>1. HandlesOf(s) \subseteq table
        BY DEF HandlesOf
      <4> QED BY <4>1, <1>15, FS_Subset, FS_CardinalityType
    <3> HIDE DEF mine
    <3> QED BY <2>1, <3>2, <3>3, <3>4, <3>5, ReaderAssumption
  <2> QED BY <2>2, <2>3
<1>19. Bounded'
  BY <1>17, <1>18 DEF Bounded
<1> QED BY <1>5, <1>6, <1>7, <1>8, <1>9, <1>10, <1>11, <1>12, <1>13, <1>19 DEF ReaderInv

\* Open's place in the count becomes a handle of the table.
LEMMA StepOpenInsert ==
    ASSUME ReaderInv, NEW p \in Callers, OpenInsert(p)
    PROVE  ReaderInv'
<1>0. p \in Workers /\ p # Closer /\ p # Ticker /\ Closer \in Workers /\ Ticker \in Workers
  BY WorkerKinds
<1> DEFINE new == [file |-> call[p].file, opened |-> call[p].file,
                   initial |-> call[p].version, scope |-> ScopeOf[p],
                   expires |-> now + IdleLifetime]
<1>1. PICK h \in Handles : /\ ~Drawn(h)
                           /\ resource' = [resource EXCEPT ![h] = new]
                           /\ table' = table \cup {h}
  BY DEF OpenInsert
<1>2. /\ call[p].pc = "insert" /\ call[p].todo = {} /\ ~closed
      /\ call[p].file \in Files /\ call[p].version \in Nat /\ call[p].file # None
      /\ call[p].version <= version[call[p].file]
  BY <1>0, ReaderAssumption
     DEF ReaderInv, ReaderTypeOK, TodoKnown, HandlesKnown, VersionsOrdered, Call, OpenInsert, Admits
<1>3. /\ call' \in [Workers -> Call]
      /\ \A u \in Workers \ {p} : call'[u] = call[u]
      /\ call'[p].pc = "release" /\ call'[p].todo = {}
  <2>1. [Idle EXCEPT !.pc = "release"] \in Call
    BY IdleType DEF Call, PCs
  <2> QED BY <1>0, <2>1 DEF ReaderInv, ReaderTypeOK, OpenInsert, Idle
<1>4. /\ object' = object /\ version' = version /\ pending' = pending
      /\ closed' = closed /\ now' = now
  BY DEF OpenInsert
<1>5. new \in Resource
  BY <1>2, ReaderAssumption DEF ReaderInv, ReaderTypeOK, Resource
<1>6. /\ resource' \in [Handles -> Resource] /\ resource'[h] = new
      /\ \A g \in Handles \ {h} : resource'[g] = resource[g]
  BY <1>1, <1>5 DEF ReaderInv, ReaderTypeOK
<1>7. /\ h \notin table /\ table \subseteq Handles
      /\ \A u \in Workers : h \notin call[u].todo /\ call[u].todo \subseteq Handles
      /\ \A q \in Callers : call[q].pc \in {"admit", "lock", "data", "check", "drop", "reply"}
                              => call[q].handle \in Handles \ {h}
  <2>1. \A q \in Callers : call[q].pc \in {"admit", "lock", "data", "check", "drop", "reply"}
                             => call[q].handle \in Handles \ {h}
    BY <1>1 DEF ReaderInv, HandlesKnown
  <2>2. \A u \in Workers : h \notin call[u].todo /\ call[u].todo \subseteq Handles
    BY <1>1 DEF ReaderInv, ReaderTypeOK, TodoKnown, Call
  <2> QED BY <1>1, <2>1, <2>2 DEF ReaderInv, ReaderTypeOK, HandlesKnown
<1>8. /\ Drawn(h)' /\ resource'[h].file = resource'[h].opened
      /\ resource'[h].initial <= version[resource'[h].opened]
      /\ resource'[h].scope = ScopeOf[p]
      /\ \A g \in Handles \ {h} : Drawn(g)' <=> Drawn(g)
  BY <1>2, <1>6 DEF Drawn
<1> HIDE DEF new
<1>9. ReaderTypeOK'
  BY <1>1, <1>3, <1>4, <1>6, <1>7 DEF ReaderInv, ReaderTypeOK
<1>10. TodoKnown'
  BY <1>0, <1>3, <1>4, <1>7, <1>8 DEF ReaderInv, TodoKnown
<1>11. HandlesKnown'
  BY <1>0, <1>1, <1>3, <1>4, <1>7, <1>8, WorkerKinds DEF ReaderInv, HandlesKnown
<1>12. OneHolder'
  BY <1>0, <1>3, WorkerKinds DEF ReaderInv, OneHolder, Holding
<1>13. VersionsOrdered'
  BY <1>0, <1>3, <1>4, <1>6, <1>7, <1>8, WorkerKinds DEF ReaderInv, VersionsOrdered
<1>14. PendingExact'
  BY <1>0, <1>2, <1>3, <1>4, WorkerKinds DEF ReaderInv, PendingExact
<1>15. FilesOwned'
  BY <1>0, <1>1, <1>2, <1>3, <1>4, <1>6 DEF ReaderInv, FilesOwned, OpenFileOf
<1>16. ReadsOpenFile'
  BY <1>0, <1>3, <1>6, <1>7, WorkerKinds DEF ReaderInv, ReadsOpenFile, Holding
<1>17. ChunkOfOpened'
  BY <1>0, <1>3, <1>6, <1>7, WorkerKinds DEF ReaderInv, ChunkOfOpened
<1>18. p \in Opening /\ Opening' = Opening \ {p}
  BY <1>0, <1>2, <1>3, WorkerKinds DEF Opening
<1>19. IsFiniteSet(table) /\ IsFiniteSet(Opening)
  BY ReaderAssumption, FS_Subset DEF ReaderInv, ReaderTypeOK, Opening
<1>20. Cardinality(table') + Cardinality(Opening') <= MaxResources
  <2>1. Cardinality(table') = Cardinality(table) + 1
    BY <1>1, <1>7, <1>19, FS_AddElement
  <2>2. Cardinality(Opening') = Cardinality(Opening) - 1
    BY <1>18, <1>19, FS_RemoveElement
  <2>3. Cardinality(table) \in Nat /\ Cardinality(Opening) \in Nat
    BY <1>19, FS_CardinalityType
  <2> QED BY <2>1, <2>2, <2>3, ReaderAssumption DEF ReaderInv, Bounded
<1>21. ASSUME NEW s \in Scopes
       PROVE  Cardinality(HandlesOf(s)') + Cardinality(OpeningOf(s)') <= MaxPerScope
  <2>1. Cardinality(HandlesOf(s)) + Cardinality(OpeningOf(s)) <= MaxPerScope
    BY DEF ReaderInv, Bounded
  <2>2. CASE s # ScopeOf[p]
    <3>1. HandlesOf(s)' = HandlesOf(s)
      BY <1>1, <1>6, <1>7, <1>8, <2>2 DEF HandlesOf
    <3>2. OpeningOf(s)' = OpeningOf(s)
      BY <1>18, <2>2 DEF OpeningOf
    <3> QED BY <2>1, <3>1, <3>2
  <2>3. CASE s = ScopeOf[p]
    <3>1. h \notin HandlesOf(s) /\ HandlesOf(s)' = HandlesOf(s) \cup {h}
      BY <1>1, <1>6, <1>7, <1>8, <2>3 DEF HandlesOf
    <3>2. p \in OpeningOf(s) /\ OpeningOf(s)' = OpeningOf(s) \ {p}
      BY <1>18, <2>3 DEF OpeningOf
    <3>3. IsFiniteSet(HandlesOf(s)) /\ IsFiniteSet(OpeningOf(s))
      BY Finite DEF ReaderInv
    <3>4. Cardinality(HandlesOf(s)') = Cardinality(HandlesOf(s)) + 1
      BY <3>1, <3>3, FS_AddElement
    <3>5. Cardinality(OpeningOf(s)') = Cardinality(OpeningOf(s)) - 1
      BY <3>2, <3>3, FS_RemoveElement
    <3>6. Cardinality(HandlesOf(s)) \in Nat /\ Cardinality(OpeningOf(s)) \in Nat
      BY <3>3, FS_CardinalityType
    <3> QED BY <2>1, <3>4, <3>5, <3>6, ReaderAssumption
  <2> QED BY <2>2, <2>3
<1>22. Bounded'
  BY <1>20, <1>21 DEF Bounded
<1> QED BY <1>9, <1>10, <1>11, <1>12, <1>13, <1>14, <1>15, <1>16, <1>17, <1>22 DEF ReaderInv

\* Component.Close empties the table and closes everything that was in it.
LEMMA StepComponentCloses ==
    ASSUME ReaderInv, ComponentCloses
    PROVE  ReaderInv'
<1>0. Closer \in Workers /\ Ticker \in Workers /\ Ticker # Closer
  BY WorkerKinds
<1>1. /\ call' = [call EXCEPT ![Closer].pc = "ending", ![Closer].todo = table]
      /\ table' = {} /\ closed' = TRUE /\ call[Closer] = Idle
      /\ object' = object /\ version' = version /\ resource' = resource
      /\ pending' = pending /\ now' = now
  BY DEF ReaderInv, TodoKnown, ComponentCloses, Retained
<1>2. /\ call' \in [Workers -> Call]
      /\ \A u \in Workers \ {Closer} : call'[u] = call[u]
      /\ call'[Closer].pc = "ending" /\ call'[Closer].todo = table
  <2>1. [Idle EXCEPT !.pc = "ending", !.todo = table] \in Call
    BY IdleType DEF ReaderInv, ReaderTypeOK, Call, PCs
  <2>2. call' = [call EXCEPT ![Closer] = [Idle EXCEPT !.pc = "ending", !.todo = table]]
    BY <1>0, <1>1 DEF ReaderInv, ReaderTypeOK
  <2> QED BY <1>0, <2>1, <2>2 DEF ReaderInv, ReaderTypeOK, Idle
<1>3. \A q \in Callers : q \in Workers \ {Closer}
  BY WorkerKinds
<1>4. ReaderTypeOK'
  BY <1>1, <1>2 DEF ReaderInv, ReaderTypeOK
<1>5. TodoKnown'
  BY <1>0, <1>1, <1>2 DEF ReaderInv, TodoKnown, HandlesKnown, Drawn
<1>6. HandlesKnown'
  BY <1>1, <1>2, <1>3 DEF ReaderInv, HandlesKnown, Drawn
<1>7. OneHolder'
  BY <1>2, <1>3 DEF ReaderInv, OneHolder
<1>8. VersionsOrdered'
  BY <1>1, <1>2, <1>3 DEF ReaderInv, VersionsOrdered, Drawn
<1>9. Bounded'
  <2>1. Opening' \subseteq Opening
    BY <1>2, <1>3 DEF Opening
  <2> QED BY <1>1, <1>4, <2>1, BoundedShrinks
<1>10. PendingExact'
  BY <1>1, <1>2, <1>3 DEF ReaderInv, PendingExact
<1>11. FilesOwned'
  BY <1>0, <1>1, <1>2 DEF ReaderInv, FilesOwned, OpenFileOf, Idle
<1>12. ReadsOpenFile'
  BY <1>1, <1>2, <1>3 DEF ReaderInv, ReadsOpenFile
<1>13. ChunkOfOpened'
  BY <1>1, <1>2, <1>3 DEF ReaderInv, ChunkOfOpened
<1> QED BY <1>4, <1>5, <1>6, <1>7, <1>8, <1>9, <1>10, <1>11, <1>12, <1>13 DEF ReaderInv

\* Files are written, replaced and removed, and time passes.
LEMMA StepEnvironment ==
    ASSUME ReaderInv, Rewrite \/ Replace \/ Tick
    PROVE  ReaderInv'
<1>1. /\ call' = call /\ table' = table /\ resource' = resource
      /\ pending' = pending /\ closed' = closed
  BY DEF Rewrite, Replace, Tick
<1>2. /\ object' \in [Digests -> Files \cup {None}] /\ now' \in Nat
      /\ version' \in [Files -> Nat]
  BY DEF ReaderInv, ReaderTypeOK, Rewrite, Replace, Tick
<1>3. \A f \in Files : version[f] <= version'[f] /\ version[f] \in Nat
  BY DEF ReaderInv, ReaderTypeOK, Rewrite, Replace, Tick
<1>4. ReaderTypeOK'
  BY <1>1, <1>2 DEF ReaderInv, ReaderTypeOK
<1>5. TodoKnown' /\ HandlesKnown' /\ OneHolder' /\ PendingExact'
  BY <1>1 DEF ReaderInv, TodoKnown, HandlesKnown, OneHolder, PendingExact, Drawn
<1>6. VersionsOrdered'
  <2>1. \A h \in Handles :
          /\ resource[h].file \in {None, resource[h].opened}
          /\ Drawn(h) => resource[h].initial <= version'[resource[h].opened]
    BY <1>2, <1>3 DEF ReaderInv, ReaderTypeOK, VersionsOrdered, Resource, Drawn
  <2>2. \A p \in Callers : call[p].pc = "insert" => call[p].version <= version'[call[p].file]
    BY <1>2, <1>3, WorkerKinds DEF ReaderInv, ReaderTypeOK, VersionsOrdered, HandlesKnown, Call
  <2>3. ASSUME NEW p \in Callers, call[p].pc = "check"
        PROVE  /\ resource[call[p].handle].initial <= call[p].version
               /\ call[p].version <= version'[resource[call[p].handle].opened]
    <3>1. call[p].handle \in Handles /\ Drawn(call[p].handle)
      BY <2>3 DEF ReaderInv, HandlesKnown
    <3>2. resource[call[p].handle].opened \in Files
      BY <3>1 DEF ReaderInv, ReaderTypeOK, Resource, Drawn
    <3>3. /\ resource[call[p].handle].initial <= call[p].version
          /\ call[p].version <= version[resource[call[p].handle].opened]
          /\ call[p].version \in Nat
      BY <2>3, WorkerKinds DEF ReaderInv, ReaderTypeOK, VersionsOrdered, Call
    <3> QED BY <1>2, <1>3, <3>2, <3>3
  <2>4. \A p \in Callers : call[p].pc = "drop" => resource[call[p].handle].file = None
    BY DEF ReaderInv, VersionsOrdered
  <2> QED BY <1>1, <2>1, <2>2, <2>3, <2>4 DEF VersionsOrdered, Drawn
<1>7. Bounded' /\ FilesOwned' /\ ReadsOpenFile' /\ ChunkOfOpened'
  BY <1>1 DEF ReaderInv, Bounded, HandlesOf, OpeningOf, Opening, FilesOwned, OpenFileOf,
              ReadsOpenFile, ChunkOfOpened
<1> QED BY <1>4, <1>5, <1>6, <1>7 DEF ReaderInv

-----------------------------------------------------------------------------
(* The steps that return.                                                  *)

\* Every return gives back what the caller held.
LEMMA StepReturns ==
    ASSUME ReaderInv, NEW p \in Callers,
           \/ OpenRefused(p) \/ OpenRelease(p) \/ ReadNotAdmitted(p) \/ ReadFails(p)
           \/ ReadDrop(p) \/ ReadReplies(p)
    PROVE  ReaderInv'
<1>0. p \in Workers /\ p # Closer
  BY WorkerKinds
<1>1. Return(p) /\ UNCHANGED <<object, version, resource, closed, now>> /\ call[p].todo = {}
  BY <1>0 DEF ReaderInv, TodoKnown, OpenRefused, Swept, OpenRelease, ReadNotAdmitted, ReadFails,
              ReadDrop, ReadReplies
<1>2. pending' = pending \ {p}
  BY DEF ReaderInv, PendingExact, OpenRefused, Swept, OpenRelease, Unreserved,
         ReadNotAdmitted, ReadFails, ReadDrop, ReadReplies
<1>3. table' \subseteq table /\ \A h \in table \ table' : ~OpenFileOf(h)
  BY DEF ReaderInv, VersionsOrdered, OpenFileOf, OpenRefused, OpenRelease, ReadNotAdmitted,
         ReadFails, ReadDrop, ReadReplies
<1> QED BY <1>0, <1>1, <1>2, <1>3, StepReturn

\* The worker that closed everything it had to returns.
LEMMA StepEnds ==
    ASSUME ReaderInv, NEW w \in Workers, Ends(w)
    PROVE  ReaderInv'
<1>1. /\ Return(w) /\ UNCHANGED <<object, version, table, resource, closed, now>>
      /\ call[w].todo = {} /\ call[w].pc = "ending" /\ pending' = pending
  BY DEF Ends
<1>2. w = Closer => closed
  BY <1>1 DEF ReaderInv, TodoKnown, Idle
<1>3. pending' = pending \ {w}
  BY <1>1 DEF ReaderInv, PendingExact
<1> QED BY <1>1, <1>2, <1>3, StepReturn

\* A Read at the lock finds the file closed, changed or as it was.
LEMMA StepReadLock ==
    ASSUME ReaderInv, NEW p \in Callers, ReadLock(p)
    PROVE  ReaderInv'
<1>0. p \in Workers /\ p # Closer /\ call[p].todo = {}
  BY WorkerKinds DEF ReaderInv, TodoKnown, ReadLock
<1>1. /\ call[p].pc = "lock" /\ ~Locked(call[p].handle)
      /\ UNCHANGED <<object, version, table, pending, closed, now>>
  BY DEF ReadLock
<1>2. CASE Return(p) /\ UNCHANGED resource
  <2>1. pending' = pending \ {p}
    BY <1>1 DEF ReaderInv, PendingExact
  <2> QED BY <1>0, <1>1, <1>2, <2>1, StepReturn
<1>3. CASE Discards(p)
  BY <1>1, <1>3, StepDiscard
<1>4. CASE resource[call[p].handle].file # None /\ Goto(p, "data") /\ UNCHANGED resource
  BY <1>1, <1>4, StepAdmitted
<1> QED BY <1>2, <1>3, <1>4 DEF ReadLock

\* After ReadAt, the file changed or the chunk is served.
LEMMA StepReadCheck ==
    ASSUME ReaderInv, NEW p \in Callers, ReadCheck(p)
    PROVE  ReaderInv'
<1>1. call[p].pc = "check" /\ UNCHANGED <<object, version, table, pending, closed, now>>
  BY DEF ReadCheck
<1>2. CASE Discards(p)
  BY <1>1, <1>2, StepDiscard
<1>3. CASE /\ version[resource[call[p].handle].file] = resource[call[p].handle].initial
           /\ Goto(p, "reply") /\ UNCHANGED resource
  BY <1>1, <1>3, StepServed
<1> QED BY <1>2, <1>3 DEF ReadCheck, Changed

-----------------------------------------------------------------------------
(* The invariant.                                                          *)

\* The reader starts with nothing open.
LEMMA InitInv ==
    ASSUME Init
    PROVE  ReaderInv
<1>1. ReaderTypeOK
  BY IdleType, NoResourceType DEF Init, ReaderTypeOK
<1>2. \A w \in Workers : call[w] = Idle
  BY DEF Init
<1>3. /\ Idle.pc = "idle" /\ Idle.todo = {}
      /\ \A h \in Handles : resource[h].opened = None /\ resource[h].file = None
  BY DEF Idle, Init, NoResource
<1>4. TodoKnown /\ HandlesKnown /\ OneHolder /\ VersionsOrdered /\ PendingExact /\ FilesOwned
      /\ ReadsOpenFile /\ ChunkOfOpened
  BY <1>2, <1>3, WorkerKinds
     DEF Init, TodoKnown, HandlesKnown, OneHolder, VersionsOrdered, PendingExact, FilesOwned,
         OpenFileOf, ReadsOpenFile, ChunkOfOpened, Holding, Drawn
<1>5. Bounded
  <2>1. Opening = {} /\ table = {}
    BY <1>2, <1>3, WorkerKinds DEF Opening, Init
  <2>2. \A s \in Scopes : OpeningOf(s) = {} /\ HandlesOf(s) = {}
    BY <2>1 DEF OpeningOf, HandlesOf
  <2> QED BY <2>1, <2>2, FS_EmptySet, ReaderAssumption DEF Bounded
<1> QED BY <1>1, <1>4, <1>5 DEF ReaderInv

\* No step breaks it.
LEMMA NextInv ==
    ASSUME ReaderInv, Next
    PROVE  ReaderInv'
<1>1. ASSUME NEW p \in Callers, Calls(p)
      PROVE  ReaderInv'
  BY <1>1, StepSweep, WorkerKinds DEF Calls
<1>2. ASSUME NEW p \in Callers, Open(p)
      PROVE  ReaderInv'
  BY <1>2, StepOpenReserve, StepReturns, StepOpenLstat, StepOpenFile, StepOpenInsert,
     StepOpenLate DEF Open
<1>3. ASSUME NEW p \in Callers, Read(p)
      PROVE  ReaderInv'
  BY <1>3, StepReadFind, StepReadAdmit, StepReturns, StepReadLock, StepReadData, StepReadCheck
     DEF Read
<1>4. ASSUME TickerSweeps
      PROVE  ReaderInv'
  BY <1>4, StepSweep, WorkerKinds DEF TickerSweeps
<1> QED BY <1>1, <1>2, <1>3, <1>4, StepCloseHandle, StepCloseOne, StepEnds,
           StepComponentCloses, StepEnvironment DEF Next

\* A stuttering step leaves it alone.
LEMMA StutterInv ==
    ASSUME ReaderInv, UNCHANGED vars
    PROVE  ReaderInv'
  BY DEF vars, ReaderInv, ReaderTypeOK, TodoKnown, HandlesKnown, OneHolder, VersionsOrdered,
         Bounded, HandlesOf, OpeningOf, Opening, PendingExact, FilesOwned, OpenFileOf,
         ReadsOpenFile, ChunkOfOpened, Drawn

\* The inductive invariant holds of every behaviour of the reader: a Read past
\* its locks owns an open file, whatever sweeps, closes and rewrites meanwhile.
THEOREM ReaderInvHolds == Spec => []ReaderInv
<1>1. Init => ReaderInv
  BY InitInv
<1>2. ReaderInv /\ [Next]_vars => ReaderInv'
  BY NextInv, StutterInv
<1> QED BY <1>1, <1>2, PTL DEF Spec

\* The table never holds more handles than the limits, in all and of one
\* subject, however many opens are between counting and inserting, and no open
\* leaks its place (resources.go:143-215).
THEOREM LimitsHold == Spec => []WithinLimits
<1>1. ReaderInv => WithinLimits
  <2> SUFFICES ASSUME ReaderInv
               PROVE  WithinLimits
    OBVIOUS
  <2>1. IsFiniteSet(table) /\ IsFiniteSet(Opening)
    BY ReaderAssumption, FS_Subset DEF ReaderInv, ReaderTypeOK, Opening
  <2>2. Cardinality(table) <= MaxResources
    <3>1. Cardinality(table) \in Nat /\ Cardinality(Opening) \in Nat
      BY <2>1, FS_CardinalityType
    <3> QED BY <3>1, ReaderAssumption DEF ReaderInv, Bounded
  <2>3. ASSUME NEW s \in Scopes
        PROVE  Cardinality({h \in table : resource[h].scope = s}) <= MaxPerScope
    <3>1. IsFiniteSet(HandlesOf(s)) /\ IsFiniteSet(OpeningOf(s))
      BY Finite DEF ReaderInv
    <3>2. Cardinality(HandlesOf(s)) \in Nat /\ Cardinality(OpeningOf(s)) \in Nat
      BY <3>1, FS_CardinalityType
    <3>3. Cardinality(HandlesOf(s)) + Cardinality(OpeningOf(s)) <= MaxPerScope
      BY DEF ReaderInv, Bounded
    <3>4. Cardinality(HandlesOf(s)) <= MaxPerScope
      BY <3>2, <3>3, ReaderAssumption
    <3> QED BY <3>4 DEF HandlesOf
  <2> QED BY <2>2, <2>3 DEF ReaderInv, WithinLimits
<1> QED BY <1>1, ReaderInvHolds, PTL

\* Every open file is in the table or about to be closed, and none is in the
\* table of a closed component (resources.go:59-83, :210-216).
THEOREM FilesOwnedHolds == Spec => []FilesOwned
<1>1. ReaderInv => FilesOwned
  BY DEF ReaderInv
<1> QED BY <1>1, ReaderInvHolds, PTL

\* A chunk is of the version that Open saw (resources.go:269-298).
THEOREM ChunkOfOpenedHolds == Spec => []ChunkOfOpened
<1>1. ReaderInv => ChunkOfOpened
  BY DEF ReaderInv
<1> QED BY <1>1, ReaderInvHolds, PTL

\* Nobody closes a file under a Read (resources.go:37-44, :256-299).
THEOREM ReadsOpenFileHolds == Spec => []ReadsOpenFile
<1>1. ReaderInv => ReadsOpenFile
  BY DEF ReaderInv
<1> QED BY <1>1, ReaderInvHolds, PTL

=============================================================================
