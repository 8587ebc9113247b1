---------------------------- MODULE WriterInvariant ----------------------------
(***************************************************************************)
(* The inductive invariant behind the coherence of the writer's indexes.   *)
(* TLC checks it on small instances, WriterProofs proves it.               *)
(***************************************************************************)
EXTENDS Writer

\* Where Begin is between indexing its upload and settling it, and where Commit
\* is once it recorded its result.
PreparePCs == {"find", "place", "open", "check", "settle"}
CommittingPCs == {"publish", "confirm", "demote", "drop", "unlink"}

\* What a call names by the time it is at a program counter.
NamedCall(c) ==
    /\ c.pc \in BeginPCs => c.key \in Keys /\ c.digest \in Digests
    /\ c.pc \notin {"idle", "begin"} => c.h \in issued
    /\ c.pc \in LockedPCs \cup {"write", "verify"} => up[c.h].ready
    /\ c.pc = "open" => c.place \in {"blob", "incoming"}
    /\ c.pc \in {"admit", "write"} => c.chunk \in Chunks

Named ==
    /\ issued \subseteq Handles
    /\ \A h \in Handles :
        up[h].ready => /\ h \in issued
                       /\ up[h].key \in Keys /\ up[h].digest \in Digests
    /\ \A p \in Procs : NamedCall(call[p])

\* Only Begin knows an upload that is not ready, and the upload stays indexed
\* until Begin settles it, unless the component closes.
Prepares(c) ==
    /\ up[c.h].key = c.key /\ up[c.h].digest = c.digest
    /\ ~up[c.h].ready
    /\ c.h \in uploads \/ phase # "serving"

Prepared ==
    /\ \A p \in Procs : call[p].pc \in PreparePCs => Prepares(call[p])
    /\ \A p, q \in Procs :
        /\ call[p].pc \in PreparePCs /\ call[q].pc \in PreparePCs
        /\ call[p].h = call[q].h
        => p = q

\* A record with a result and a live upload belongs to a commit in progress;
\* nothing is indexed or recorded while the writer is closed or down.
Recorded ==
    /\ uploads \subseteq issued
    /\ \A k \in Keys : records[k].digest = None => records[k].handle = None
    /\ \A k \in Keys : records[k].handle # None /\ records[k].evidence # None
                        => Committing(records[k].handle)
    /\ phase # "serving" => uploads = {} /\ \A k \in Keys : records[k].digest = None
    /\ phase = "down" => \A p \in Procs : call[p].pc = "idle"

WriterInv == WriterTypeOK /\ Named /\ Prepared /\ Recorded /\ IndexCoherent

-----------------------------------------------------------------------------
(* Beside the indexes: what the record file has of the records in memory.  *)

\* An identity in memory is in the file too, with its object; one that has a
\* hashed result has it there until the same time.  Only Commit and load make
\* such results, and both write the file; a save that fails leaves it as it was.
RecordsSaved ==
    \A k \in Keys :
        /\ records[k].digest # None =>
            disk[k].digest = records[k].digest /\ disk[k].size = records[k].size
        /\ records[k].evidence = "hashed" =>
            disk[k].evidence = "hashed" /\ disk[k].expires = records[k].expires
        /\ records[k].digest = None => records[k].evidence = None
        /\ disk[k].digest = None => disk[k].evidence = None

-----------------------------------------------------------------------------
(* Who holds an upload's mutex, and who will discard its staging file.     *)

Holds(q, h) == call[q].pc \in LockedPCs /\ call[q].h = h

OneHolder == \A p, q \in Procs, h \in Handles : Holds(p, h) /\ Holds(q, h) => p = q

\* What a call may know of an upload: one that is ready, or not indexed any more.
CallStaged(c) ==
    /\ c.todo \subseteq issued /\ \A h \in c.todo : up[h].ready \/ h \notin uploads
    /\ c.pc = "await" => up[c.h].ready
    /\ c.pc = "unlink" => up[c.h].done
    /\ c.pc = "decide" => up[c.h].file # None
    /\ c.pc = "check" \/ (c.pc = "settle" /\ c.outcome = "ready") => c.file # None
    /\ c.pc = "confirm" /\ up[c.h].place = "incoming" => incoming[up[c.h].digest] # c.h

\* A ready upload is done, or will be: it is indexed, or waits to be discarded;
\* only a commit closes its file before it is done.
UploadStaged(h) ==
    /\ up[h].ready /\ ~up[h].done => h \in uploads \/ \E q \in Procs : h \in call[q].todo
    /\ up[h].ready /\ ~up[h].done /\ up[h].file = None => \E q \in Procs : Holds(q, h)
    /\ h \in uploads /\ ~up[h].ready => ~up[h].done

Staged ==
    /\ OneHolder
    /\ \A p \in Procs : CallStaged(call[p])
    /\ \A h \in Handles : UploadStaged(h)

\* The upload that created the staging file of d still has it to remove.
UploadOwns(h, d) ==
    up[h].digest = d /\ up[h].place = "incoming" /\ up[h].ready /\ ~up[h].done

CallOwns(c, h, d) ==
    /\ c.h = h /\ c.digest = d /\ c.place = "incoming"
    /\ \/ c.pc = "check" /\ c.file = h
       \/ c.pc = "settle" /\ c.outcome = "ready"
       \/ c.pc = "cleanup"

\* Within one lifetime: a crash forgets the owners.
Reserved ==
    \A d \in Digests : incoming[d] # None =>
        /\ incoming[d] \in Handles
        /\ UploadOwns(incoming[d], d) \/ \E p \in Procs : CallOwns(call[p], incoming[d], d)

-----------------------------------------------------------------------------
(* Which file is whose, and what is in it.                                 *)

\* A Begin that has a staging file open, and one that has opened the staging
\* path of d.
Opens(c) == c.pc \in {"check", "settle"} /\ c.place # None

CallUses(q, d) ==
    /\ call[q].digest = d /\ call[q].place = "incoming"
    /\ call[q].pc \in {"check", "settle", "cleanup"}

\* A staging path that was never shared has one user at a time.
OneUser ==
    \A d \in Digests \ shared :
        /\ \A g, h \in Handles : UploadOwns(g, d) /\ UploadOwns(h, d) => g = h
        /\ \A p, q \in Procs : CallUses(p, d) /\ CallUses(q, d) => p = q
        /\ \A h \in Handles, p \in Procs : ~(UploadOwns(h, d) /\ CallUses(p, d))

\* i is a file of d: a path of d names it, or it is open for d.
FileOf(i, d) ==
    \/ blob[d] = i \/ incoming[d] = i
    \/ \E h \in Handles : up[h].file = i /\ up[h].digest = d
    \/ \E q \in Procs : Opens(call[q]) /\ call[q].file = i /\ call[q].digest = d

\* The inode an upload creates when it opens a path that names nothing.
Fresh(h) ==
    h \notin issued \/ \E q \in Procs : call[q].h = h /\ call[q].pc \in {"find", "place", "open"}

\* h has a possession file open.
Possesses(h) ==
    \/ up[h].file # None /\ up[h].place = "possession"
    \/ \E q \in Procs : /\ Opens(call[q]) /\ call[q].place = "possession"
                        /\ call[q].h = h

\* No file is of two objects, shared or not: an object is never written through
\* the path of another one.
FilesApart ==
    /\ \A i \in Inodes, d, e \in Digests : FileOf(i, d) /\ FileOf(i, e) => d = e
    /\ \A h \in Handles, d \in Digests : Fresh(h) => ~FileOf(h, d)
    /\ \A h \in Handles, d \in Digests : Possesses(h) => blob[d] # h /\ incoming[d] # h
    /\ \A d, e \in Digests : incoming[d] # e /\ (blob[d] = e => d = e)
    /\ \A d \in Digests : Find(d) => blob[d] # incoming[d]

\* What an upload has in its file: the accepted chunks, in order and no more.
UploadWhole(h) ==
    LET u == up[h] IN
    /\ u.file # None => u.ready /\ ~u.done
    /\ u.ready => u.place # None /\ phase # "down"
    /\ ~u.ready => u.sum = <<>>
    /\ u.ready /\ u.place = "blob" => u.digest \in shared
    /\ u.file # None /\ u.place = "possession" => u.file = h
    /\ \A d \in Digests \ shared :
        UploadOwns(h, d) /\ u.file # None => incoming[d] = u.file /\ data[u.file] = u.sum

\* What a call has in the file it opened, or is about to publish.
CallWhole(c) ==
    LET u == up[c.h] IN
    /\ c.pc \in LockedPCs \ {"unlink"} => ~u.done
    /\ c.pc \in {"intent", "publish", "confirm", "demote"} => u.file = None
    /\ c.pc \in {"decide", "intent", "publish"} => u.sum = Content[u.digest]
    /\ c.pc \in {"intent", "publish"} /\ u.place = "incoming" /\ u.digest \notin shared
        => incoming[u.digest] # None /\ data[incoming[u.digest]] = Content[u.digest]
    /\ c.pc \in {"begin", "find", "place"} => c.place = None
    /\ c.pc = "check" => c.place \in {"blob", "incoming"}
    /\ c.pc = "settle" /\ c.outcome = "ready" => c.place # None
    /\ Opens(c) => c.file # None
    /\ Opens(c) /\ c.place = "blob" => c.digest \in shared
    /\ Opens(c) /\ c.place = "possession" => c.file = c.h
    /\ Opens(c) /\ c.place = "incoming" /\ c.digest \notin shared
        => incoming[c.digest] = c.file /\ data[c.file] = <<>>

Whole ==
    /\ OneUser /\ FilesApart
    /\ \A h \in Handles : UploadWhole(h)
    /\ \A p \in Procs : CallWhole(call[p])
    /\ PublishedWholeUnlessShared
=============================================================================
