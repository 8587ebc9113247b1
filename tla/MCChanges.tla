------------------------------ MODULE MCChanges ------------------------------
(* Small instances of Changes: two objects, of which the first client may   *)
(* read both and the second only the second.                               *)
EXTENDS Changes, TLC

CONSTANTS c1, c2, w1, w2, t1, t2, t3

MCReadable == [c \in Clients |-> IF c = c1 THEN Digests ELSE Digests \ {1}]

\* Bounds: the second client calls in the first lifetime, before time passes and
\* while listings succeed; together with the first only while there is one
\* object and one more publish or removal may come.
Together ==
    client[c2] # NewClient =>
        /\ epoch = 0 /\ now = 0 /\ listing /\ ~closed
        /\ client[c1] # NewClient => steps < MaxSteps /\ 1 \notin store \cup known \cup history[1]

\* Time passes in the first lifetime and while nobody waits; the component
\* closes or a listing fails while there is one object; after a restart with two
\* objects, one publish or removal less has happened.
Apart ==
    /\ now > 0 => epoch = 0 /\ \A c \in Clients : client[c].pc = "idle"
    /\ closed \/ ~listing => epoch = 0 /\ now = 0 /\ 1 \notin store \cup known \cup history[1]
    /\ epoch > 0 => steps < MaxSteps \/ 1 \notin store \cup known \cup history[1]

Symmetry == Permutations(Tokens) \cup Permutations(Writers)
=============================================================================
