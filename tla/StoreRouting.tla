----------------------------- MODULE StoreRouting -----------------------------
(***************************************************************************)
(* An ordered list of stores as one store (go/stores.go), over stores of   *)
(* our own (go/content.go) and read-only ones of other programs            *)
(* (go/foreign.go).  A file is a place; files is the set of places where   *)
(* one exists.  Stores may name the same directory: the layout is shared   *)
(* with other programs on purpose.                                         *)
(***************************************************************************)
EXTENDS Sequences, SequencesExt, FiniteSets

CONSTANTS Names, Roots, Digests,
          Malformed,    \* stands for every digest hexOf refuses
          Absent        \* no reference, no path

StoreOf == [name : Names, kind : {"content", "foreign"}, root : Roots]

Blob(s, d) == [root |-> s.root, dir |-> "blobs", digest |-> d]
Incoming(s, d) == [root |-> s.root, dir |-> "incoming", digest |-> d]

RefTo(s, d, place) == [store |-> s.name, digest |-> d, locator |-> place]

FindIn(files, s, d) ==
    IF d # Malformed /\ Blob(s, d) \in files THEN RefTo(s, d, Blob(s, d)) ELSE Absent

Takes(s, d) == s.kind = "content" /\ d # Malformed

\* Place settles where the bytes go and writes nothing.
PlaceIn(files, s, d) ==
    IF FindIn(files, s, d) # Absent THEN FindIn(files, s, d)
    ELSE RefTo(s, d, Incoming(s, d))

\* Commit renames what is staged; what is there already is success.
CommitIn(files, s, d) ==
    IF Incoming(s, d) \in files
    THEN [done |-> TRUE, files |-> (files \ {Incoming(s, d)}) \cup {Blob(s, d)}]
    ELSE [done |-> Blob(s, d) \in files, files |-> files]

\* The first store of a list, if there is one.
First(stores) == IF stores = <<>> THEN Absent ELSE Head(stores)

Find(files, all, d) ==
    LET holding == SelectSeq(all, LAMBDA s : FindIn(files, s, d) # Absent)
    IN IF holding = <<>> THEN Absent ELSE FindIn(files, Head(holding), d)

\* Mutant of Again: every hit is another copy.
AgainNever(refs, ref) == FALSE

Again(refs, ref) == \E i \in DOMAIN refs : refs[i].locator = ref.locator

FindAll(files, all, d) ==
    LET Hit(refs, s) ==
            LET ref == FindIn(files, s, d)
            IN IF ref = Absent \/ Again(refs, ref) THEN refs ELSE Append(refs, ref)
    IN FoldLeft(Hit, <<>>, all)

\* Absent stands for the last store's error.
Place(files, all, d) ==
    LET taking == SelectSeq(all, LAMBDA s : Takes(s, d))
    IN IF taking = <<>> THEN Absent ELSE PlaceIn(files, Head(taking), d)

\* Both kinds of store are Local: the first of the reference's name answers.
Path(all, ref) == IF \E i \in DOMAIN all : all[i].name = ref.store
                  THEN ref.locator ELSE Absent

\* Mutant of Committer: any store that can take bytes commits.
CommitterAny(all, ref) == First(SelectSeq(all, LAMBDA s : s.kind = "content"))

\* The first store of the reference's name; it refuses if it cannot take bytes.
Committer(all, ref) == First(SelectSeq(all, LAMBDA s : s.name = ref.store))

Commit(files, all, ref) ==
    LET s == Committer(all, ref)
    IN IF s = Absent THEN [done |-> FALSE, files |-> files]
       ELSE IF Takes(s, ref.digest) THEN CommitIn(files, s, ref.digest)
       ELSE [done |-> FALSE, files |-> files]

-----------------------------------------------------------------------------
(* What a list of stores promises.                                         *)

Locations == [root : Roots, dir : {"blobs", "incoming"}, digest : Digests]

\* A host gives a store of its own a name that no other store has; foreign
\* stores share theirs (one for every repository of a cache, foreign.go:76-90).
Lists == {all \in BoundedSeq(StoreOf, 3) :
            \A i, j \in DOMAIN all :
                i # j /\ all[i].kind = "content" => all[i].name # all[j].name}

\* Each place with the bytes once, the preferred store's first.
FindsEveryCopy(files, all, d) ==
    LET found == FindAll(files, all, d)
        places == [i \in DOMAIN found |-> found[i].locator]
    IN /\ ToSet(places) = {Blob(all[i], d) : i \in DOMAIN all} \cap files
       /\ IsInjective(places)
       /\ First(found) = Find(files, all, d)

\* Whichever store of the list placed them, bytes written where it said become
\* findable by Commit, in that store and nowhere else; committing twice is
\* committing once.
Delivers(files, all, d) ==
    \A s \in {s \in ToSet(all) : Takes(s, d)} :
        LET ref == PlaceIn(files, s, d)
            written == files \cup {Path(all, ref)}
            committed == Commit(written, all, ref)
        IN ref.locator.dir = "incoming" =>
             /\ Path(all, ref) = ref.locator
             /\ committed.done
             /\ committed.files = (files \ {ref.locator}) \cup {Blob(s, d)}
             /\ Find(committed.files, all, d) # Absent
             /\ Commit(committed.files, all, ref) = committed

\* A place is found for every digest as soon as one store takes bytes.
Placed(files, all, d) ==
    LET taking == {s \in ToSet(all) : Takes(s, d)}
    IN Place(files, all, d) \in IF taking = {} THEN {Absent}
                                ELSE {PlaceIn(files, s, d) : s \in taking}

Misrouted ==
    {<<files, all, d>> \in (SUBSET Locations) \X Lists \X (Digests \cup {Malformed}) :
        ~(FindsEveryCopy(files, all, d) /\ Placed(files, all, d)
          /\ Delivers(files, all, d))}

\* A digest is found in every store that has it, and a delivery goes to the store
\* that placed it (stores.go:55-116, content.go:58-114, foreign.go:42-59).
RoutesExactly == Misrouted = {}

=============================================================================
