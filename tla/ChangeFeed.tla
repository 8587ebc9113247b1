------------------------------ MODULE ChangeFeed ------------------------------
(***************************************************************************)
(* What observation promises (CONTRACT.md, STO-O1 to STO-O5), with no      *)
(* ring, cursor, channel, page or listing in it: within one lifetime of    *)
(* the provider the known objects go through a history of states, one      *)
(* change apart; every client follows that history with a replica of its   *)
(* own, as far as its read policy lets it see, and never backwards.        *)
(* Changes is shown to implement it.                                       *)
(***************************************************************************)
EXTENDS Integers, Sequences

CONSTANTS Digests, Clients,
          Readable,         \* client -> the digests its read policy permits
          None

VARIABLES epoch,    \* the provider's lifetime
          history,  \* what was known in it: at first, and after every change
          replica   \* client -> what it has gathered, and as of which state

feed == <<epoch, history, replica>>

Replica == [stage : {"gathering", "following"}, epoch : Nat, at : Nat \ {0},
            view : SUBSET Digests]

\* A client that gathers knows which state it will have, not yet the state.
Gathering(at) == [stage |-> "gathering", epoch |-> epoch, at |-> at, view |-> {}]

Following(c, at) == [stage |-> "following", epoch |-> epoch, at |-> at,
                     view |-> history[at] \cap Readable[c]]

Init ==
    /\ epoch = 0
    /\ \E known \in SUBSET Digests : history = <<known>>
    /\ replica = [c \in Clients |-> None]

OneChange(S, T) == \E d \in Digests : (S \ T) \cup (T \ S) = {d}

\* The provider learns of changes, one after the other.
Changes ==
    /\ Len(history') > Len(history)
    /\ SubSeq(history', 1, Len(history)) = history
    /\ \A i \in Len(history) .. Len(history') - 1 :
        /\ history'[i + 1] \subseteq Digests
        /\ OneChange(history'[i], history'[i + 1])
    /\ UNCHANGED <<epoch, replica>>

\* It starts again, and knows nothing of the history before; a client that was
\* still gathering has lost what it gathered.
StartsAgain ==
    /\ epoch' = epoch + 1
    /\ \E known \in SUBSET Digests : history' = <<known>>
    /\ \A c \in Clients : \/ replica'[c] = replica[c]
                          \/ replica[c].stage = "gathering" /\ replica'[c] = None

\* A client asks for the objects and is answered as of the present state, at
\* once or after some time.
Asks(c) ==
    /\ replica[c] = None
    /\ replica'[c] \in {Gathering(Len(history)), Following(c, Len(history))}

Gathers(c) ==
    /\ replica[c] # None /\ replica[c].stage = "gathering"
    /\ replica'[c] = Following(c, replica[c].at)

\* It moves on to a later state of the same lifetime, and is told no other.
Follows(c) ==
    /\ replica[c] # None /\ replica[c].stage = "following" /\ replica[c].epoch = epoch
    /\ \E at \in replica[c].at + 1 .. Len(history) : replica'[c] = Following(c, at)

\* It is told that it must begin again.
Loses(c) == replica'[c] = None

ClientsMove ==
    /\ \A c \in Clients : \/ replica'[c] = replica[c]
                          \/ Asks(c) \/ Gathers(c) \/ Follows(c) \/ Loses(c)
    /\ DOMAIN replica' = Clients
    /\ UNCHANGED <<epoch, history>>

Next == ClientsMove \/ Changes \/ StartsAgain

Spec == Init /\ [][Next]_feed

=============================================================================
