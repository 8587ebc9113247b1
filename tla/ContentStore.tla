----------------------------- MODULE ContentStore -----------------------------
(***************************************************************************)
(* The provider of go/content.go: a store addressed by digest, which keeps *)
(*                                                                         *)
(*     blobs/<digest>      the bytes, once committed                       *)
(*     incoming/<digest>   a reservation, until then                       *)
(*                                                                         *)
(* and the possession files that service/writer.go keeps beside its        *)
(* records.  A path names an inode and the bytes belong to the inode, so   *)
(* that a file that two descriptors share, one truncated while it is being *)
(* written and one renamed while it is open behave as on a POSIX file      *)
(* system: most of what can go wrong in the writer goes wrong there.       *)
(*                                                                         *)
(* An object is a sequence of chunks.  Content[d] is the only sequence     *)
(* whose SHA-256 is d (the hash is taken to be collision free), and a hole *)
(* left by a write beyond the end of a file reads as Hole.                 *)
(***************************************************************************)
EXTENDS Integers, Sequences, FiniteSets

CONSTANTS Digests,      \* digests callers may name
          Handles,      \* handles the writer may draw; each is drawn once
          Chunks,       \* values of one chunk of bytes
          Content,      \* the object each digest names
          Hole,         \* a chunk of zeroes nobody wrote
          None          \* no such file, handle, digest, ...

\* A file is created by an upload or by somebody else's publish of a digest.
Inodes == Handles \cup Digests

\* Where a reservation, or an upload's staging file, is.
Places == {"blob", "incoming", "possession"}

ASSUME NamesAssumption ==
    /\ Handles \cap Digests = {}
    /\ None \notin Inodes
    /\ Hole \notin Chunks

ASSUME ContentAssumption ==
    /\ Content \in [Digests -> Seq(Chunks)]
    /\ \A d, e \in Digests : Content[d] = Content[e] => d = e

VARIABLES blob,         \* digest -> inode under blobs/, or None
          incoming,     \* digest -> inode under incoming/, or None
          possession,   \* the uploads whose possession file exists
          data          \* inode -> bytes

storeVars == <<blob, incoming, possession, data>>

Bytes == Seq(Chunks \cup {Hole})

StoreTypeOK ==
    /\ blob \in [Digests -> Inodes \cup {None}]
    /\ incoming \in [Digests -> Inodes \cup {None}]
    /\ possession \in SUBSET Handles
    /\ data \in [Inodes -> Bytes]

StoreInit ==
    /\ blob = [d \in Digests |-> None]
    /\ incoming = [d \in Digests |-> None]
    /\ possession = {}
    /\ data = [i \in Inodes |-> <<>>]

-----------------------------------------------------------------------------
(* The provider's operations.                                              *)

Find(d) == blob[d] # None

\* Place settles where and writes nothing; an object already here is answered
\* by the place of its bytes.
Place(d) == IF Find(d) THEN "blob" ELSE "incoming"

\* The inode a staging path names.
At(h, d, place) ==
    CASE place = "blob"       -> blob[d]
      [] place = "incoming"   -> incoming[d]
      [] place = "possession" -> IF h \in possession THEN h ELSE None

\* os.OpenFile(path, O_RDWR|O_CREATE|O_TRUNC): an existing file keeps its
\* inode and loses its bytes, whoever else has it open.
Opened(h, d, place) == IF At(h, d, place) = None THEN h ELSE At(h, d, place)

OpenStaging(h, d, place) ==
    /\ data' = [data EXCEPT ![Opened(h, d, place)] = <<>>]
    /\ blob' = IF place = "blob" THEN [blob EXCEPT ![d] = Opened(h, d, place)] ELSE blob
    /\ incoming' = IF place = "incoming"
                   THEN [incoming EXCEPT ![d] = Opened(h, d, place)] ELSE incoming
    /\ UNCHANGED possession

\* os.CreateTemp of a possession file: a fresh inode.
CreatePossession(h) ==
    /\ possession' = possession \cup {h}
    /\ data' = [data EXCEPT ![h] = <<>>]
    /\ UNCHANGED <<blob, incoming>>

\* os.Remove(path); one that is already gone is not a failure.
RemoveStaged(h, d, place) ==
    /\ blob' = IF place = "blob" THEN [blob EXCEPT ![d] = None] ELSE blob
    /\ incoming' = IF place = "incoming" THEN [incoming EXCEPT ![d] = None] ELSE incoming
    /\ possession' = IF place = "possession" THEN possession \ {h} ELSE possession
    /\ UNCHANGED data

\* file.WriteAt(<<chunk>>, offset)
Written(bytes, offset, chunk) ==
    [k \in 1 .. (IF Len(bytes) > offset THEN Len(bytes) ELSE offset + 1) |->
        IF k = offset + 1 THEN chunk
        ELSE IF k <= Len(bytes) THEN bytes[k] ELSE Hole]

WriteStaged(i, offset, chunk) ==
    /\ data' = [data EXCEPT ![i] = Written(data[i], offset, chunk)]
    /\ UNCHANGED <<blob, incoming, possession>>

\* Commit renames the reservation into blobs/.  Nothing reserved and the
\* object already there is success too.
CommitSucceeds(d) == incoming[d] # None \/ Find(d)

Rename(d) ==
    /\ CommitSucceeds(d)
    /\ IF incoming[d] # None
       THEN /\ blob' = [blob EXCEPT ![d] = incoming[d]]
            /\ incoming' = [incoming EXCEPT ![d] = None]
       ELSE UNCHANGED <<blob, incoming>>
    /\ UNCHANGED <<possession, data>>

-----------------------------------------------------------------------------
(* Other owners of the same directory: the writer's contract allows        *)
(* publishes and removals it did not make (CONTRACT.md, STO-O1, STO-O3).   *)

\* Another program publishes the whole object from a staging file of its own.
ExternalPublish(d) ==
    /\ ~Find(d)
    /\ blob' = [blob EXCEPT ![d] = d]
    /\ data' = [data EXCEPT ![d] = Content[d]]
    /\ UNCHANGED <<incoming, possession>>

\* ContentStore.Remove, or a collector of another program.
Remove(d) ==
    /\ Find(d)
    /\ blob' = [blob EXCEPT ![d] = None]
    /\ UNCHANGED <<incoming, possession, data>>
=============================================================================
