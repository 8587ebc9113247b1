--------------------------------- MODULE Host ---------------------------------
(* The lifetime of a storage host (go/service/service.go and EnableInventory *)
(* in inventory.go): the profiles that are configured before Serve, the      *)
(* accept loop and its connection goroutines, the two background goroutines, *)
(* and everything that closes them, from several goroutines at once.         *)
(*                                                                          *)
(* Calls are the processes that close: the goroutine of Serve, the functions *)
(* it and Start leave with context.AfterFunc, and callers of Host.Close and  *)
(* of Component.Close.  h.lifecycle is held by one call at a time; a section *)
(* of it that calls nothing is one step.  A receiver is the registry         *)
(* ("reader") or a profile.                                                 *)
EXTENDS Naturals, FiniteSets, Sequences

CONSTANTS Connections,       \* what peers open, each once
          Slots,             \* cap(h.slots)
          Profiles,          \* the profiles somebody enables
          HostClosers,       \* callers of Host.Close
          ComponentClosers,  \* callers of Component.Close
          Nothing

Order == <<"writer", "changes", "inventory">>   \* in which Component.Close closes them
Server == "serve"            \* the goroutine of Serve
OnStart == "on_start"        \* AfterFunc in Start: Component.Close
OnServe == "on_serve"        \* AfterFunc in Serve: Host.Close
ClosesHost == HostClosers \cup {Server, OnServe}
Calls == ClosesHost \cup ComponentClosers \cup {OnStart}
Loops == {"ticker", "poller"}

ASSUME HostAssumption == /\ Slots \in Nat \ {0}
                         /\ Profiles \subseteq {"writer", "changes", "inventory"}
                         /\ IsFiniteSet(Connections)
                         /\ Nothing \notin Profiles \cup Connections
                         /\ HostClosers \cap ComponentClosers = {}
                         /\ {Server, OnStart, OnServe} \cap (HostClosers \cup ComponentClosers) = {}

VARIABLES
    enabling,     \* the profile whose Enable holds h.lifecycle, or Nothing
    configured,   \* those of h.writers, h.changes and h.inventory that are set
    serving,      \* h.serving
    swept,        \* the profiles Start read for the background goroutines
    cancelled,    \* h.ctx is done
    parentDone,   \* the context given to Serve is done
    armed,        \* the AfterFuncs that would run
    listening,    \* h.listener is open
    shut,         \* the receivers whose close has run
    hostOnce,     \* h.once of the Host: "new", "running" or "done"
    once,         \* h.once of the Component
    at,           \* where each closing call is
    taken,        \* the profiles each Component.Close has read, until it is through
    workers,      \* h.workers of the Component
    loop,         \* the background goroutines: "off", "added", "idle", "busy" or "ended"
    serve,        \* where Serve is
    accepted,     \* the connection Serve holds
    slots,        \* len(h.slots)
    handlers,     \* h.workers of the Host
    conn,         \* where each connection is
    open,         \* the accepted connections that are open
    offered       \* the receivers each connection's call is offered

config == <<enabling, configured>>
life == <<serving, swept, cancelled, parentDone, armed, listening>>
closing == <<shut, hostOnce, once, at, taken>>
background == <<workers, loop>>
accepting == <<serve, accepted>>
connections == <<slots, handlers, conn, open, offered>>
vars == <<config, life, closing, background, accepting, connections>>

Init ==
    /\ enabling = Nothing /\ configured = {}
    /\ serving = FALSE /\ swept = {} /\ cancelled = FALSE /\ parentDone = FALSE
    /\ armed = {} /\ listening = TRUE
    /\ shut = {} /\ hostOnce = "new" /\ once = "new"
    /\ at = [p \in Calls |-> "idle"] /\ taken = [p \in Calls |-> {}]
    /\ workers = {} /\ loop = [g \in Loops |-> "off"]
    /\ serve = "idle" /\ accepted = Nothing
    /\ slots = 0 /\ handlers = {} /\ open = {}
    /\ conn = [c \in Connections |-> "none"] /\ offered = [c \in Connections |-> {}]

Unlocked == enabling = Nothing

-----------------------------------------------------------------------------
(* Configuration.                                                           *)

\* Mutant of MayEnable: a host that has been closed can be configured.
MayEnableClosed == ~serving

\* Mutant of MayEnable: a host that serves can be configured.
MayEnableServing == ~cancelled

MayEnable == ~serving /\ ~cancelled

\* EnableWriter, EnableChanges, EnableInventory: the checks, and the lock.
EnableBegins(q) ==
    /\ Unlocked /\ MayEnable
    /\ enabling' = q
    /\ UNCHANGED <<configured, life, closing, background, accepting, connections>>

\* The rest of them, which may fail: a provider that cannot, records that cannot be read.
EnableEnds ==
    /\ enabling # Nothing
    /\ enabling' = Nothing
    /\ configured' \in {configured, configured \cup {enabling}}
    /\ UNCHANGED <<life, closing, background, accepting, connections>>

-----------------------------------------------------------------------------
(* Serve and Start.                                                         *)

\* Start, under h.lifecycle.
Start ==
    /\ serve = "idle" /\ Unlocked /\ ~serving /\ ~cancelled /\ ~parentDone
    /\ serve' = "launching"
    /\ serving' = TRUE /\ swept' = configured /\ armed' = armed \cup {OnStart}
    /\ LET added == {g \in Loops : g = "poller" => "changes" \in configured} IN
          /\ workers' = workers \cup added
          /\ loop' = [g \in Loops |-> IF g \in added THEN "added" ELSE loop[g]]
    /\ UNCHANGED <<config, cancelled, parentDone, listening, closing, accepted, connections>>

\* Start returns an error and Serve with it; nothing is closed.
StartRefuses ==
    /\ serve = "idle" /\ Unlocked /\ (serving \/ cancelled \/ parentDone)
    /\ serve' = "refused"
    /\ UNCHANGED <<config, life, closing, background, accepted, connections>>

\* Mutant of Hooked: Serve relies on the function Start has left.
HookedNever == {}

\* What Serve leaves with AfterFunc.
Hooked == {OnServe}

\* The rest of Start, and what Serve does before it accepts.
Launch ==
    /\ serve = "launching"
    /\ serve' = "accepting"
    /\ loop' = [g \in Loops |-> IF loop[g] = "added" THEN "idle" ELSE loop[g]]
    /\ armed' = armed \cup Hooked
    /\ UNCHANGED <<config, serving, swept, cancelled, parentDone, listening, closing, workers, accepted,
                   connections>>

Accept(c) ==
    /\ serve = "accepting" /\ listening /\ conn[c] = "none"
    /\ serve' = "offering" /\ accepted' = c
    /\ UNCHANGED <<config, life, closing, background, connections>>

\* The select on h.slots.
Offer ==
    /\ serve = "offering"
    /\ serve' = "accepting" /\ accepted' = Nothing
    /\ IF slots < Slots
       THEN /\ slots' = slots + 1
            /\ handlers' = handlers \cup {accepted}
            /\ open' = open \cup {accepted}
            /\ conn' = [conn EXCEPT ![accepted] = "receiving"]
       ELSE /\ conn' = [conn EXCEPT ![accepted] = "gone"]
            /\ UNCHANGED <<slots, handlers, open>>
    /\ UNCHANGED <<config, life, closing, background, offered>>

\* Accept fails once the listener is closed: OnStopped, then the deferred h.Close.
AcceptFails ==
    /\ serve = "accepting" /\ ~listening
    /\ serve' = "closing"
    /\ at' = [at EXCEPT ![Server] = "host"]
    /\ UNCHANGED <<config, life, shut, hostOnce, once, taken, background, accepted, connections>>

\* Mutant of Joined: the connections are not waited for.
JoinedNever == TRUE

\* h.workers.Wait
Joined == handlers = {}

ServeReturns ==
    /\ serve = "closing" /\ at[Server] = "closed" /\ Joined
    /\ serve' = "returned"
    /\ armed' = armed \ {OnServe}
    /\ UNCHANGED <<config, serving, swept, cancelled, parentDone, listening, closing, background, accepted,
                   connections>>

-----------------------------------------------------------------------------
(* The background goroutines: the sweeps of every second, the journal's poll. *)

Ticks(g) ==
    /\ loop[g] = "idle"
    /\ loop' = [loop EXCEPT ![g] = "busy"]
    /\ UNCHANGED <<config, life, closing, workers, accepting, connections>>

Ticked(g) ==
    /\ loop[g] = "busy"
    /\ loop' = [loop EXCEPT ![g] = "idle"]
    /\ UNCHANGED <<config, life, closing, workers, accepting, connections>>

LoopEnds(g) ==
    /\ loop[g] = "idle" /\ cancelled
    /\ loop' = [loop EXCEPT ![g] = "ended"]
    /\ workers' = workers \ {g}
    /\ UNCHANGED <<config, life, closing, accepting, connections>>

-----------------------------------------------------------------------------
(* A connection and its goroutine.                                          *)

\* Mutant of Deferred: the slot is given back before the connection is closed.
DeferredEarly == <<"free", "close", "leave">>

\* The deferred calls in the order they run: conn.Close, the slot, Done.
Deferred == <<"close", "free", "leave">>

Moves(c, from, to) ==
    /\ conn[c] = from
    /\ conn' = [conn EXCEPT ![c] = to]
    /\ UNCHANGED <<config, life, closing, background, accepting>>

\* ReceiveFramed, and Services for a frame that has come.
Receive(c) ==
    /\ Unlocked
    /\ Moves(c, "receiving", "answering")
    /\ offered' = [offered EXCEPT ![c] = {"reader"} \cup configured]
    /\ UNCHANGED <<slots, handlers, open>>

\* The peer is gone, proves nothing or sends nothing for 35 seconds, or h.ctx is done.
ReceiveFails(c) ==
    /\ Moves(c, "receiving", Deferred[1])
    /\ UNCHANGED <<slots, handlers, open, offered>>

\* ServeEndpoint and Reply: whether there is a reply is Wire's question, and the
\* connection ends either way.
Answer(c) ==
    /\ Moves(c, "answering", Deferred[1])
    /\ UNCHANGED <<slots, handlers, open, offered>>

DeferredCall(c) ==
    \E i \in 1 .. 3 :
        /\ Moves(c, Deferred[i], IF i = 3 THEN "gone" ELSE Deferred[i + 1])
        /\ open' = IF Deferred[i] = "close" THEN open \ {c} ELSE open
        /\ slots' = IF Deferred[i] = "free" THEN slots - 1 ELSE slots
        /\ handlers' = IF Deferred[i] = "leave" THEN handlers \ {c} ELSE handlers
        /\ offered' = [offered EXCEPT ![c] = {}]

-----------------------------------------------------------------------------
(* Closing.                                                                 *)

ParentEnds ==
    /\ ~parentDone
    /\ parentDone' = TRUE
    /\ UNCHANGED <<config, serving, swept, cancelled, armed, listening, closing, background, accepting,
                   connections>>

\* The context runs the function it was left.
AfterFunc(p) ==
    /\ parentDone /\ p \in armed
    /\ armed' = armed \ {p}
    /\ at' = [at EXCEPT ![p] = IF p = OnServe THEN "host" ELSE "component"]
    /\ UNCHANGED <<config, serving, swept, cancelled, parentDone, listening, shut, hostOnce, once, taken,
                   background, accepting, connections>>

Close(p) ==
    /\ at[p] = "idle"
    /\ at' = [at EXCEPT ![p] = IF p \in HostClosers THEN "host" ELSE "component"]
    /\ UNCHANGED <<config, life, shut, hostOnce, once, taken, background, accepting, connections>>

\* Host.Close: h.once.Do, which its other callers wait for.
HostOnce(p) ==
    /\ at[p] = "host" /\ hostOnce # "running"
    /\ IF hostOnce = "done"
       THEN at' = [at EXCEPT ![p] = "closed"] /\ UNCHANGED hostOnce
       ELSE at' = [at EXCEPT ![p] = "listener"] /\ hostOnce' = "running"
    /\ UNCHANGED <<config, life, shut, once, taken, background, accepting, connections>>

CloseListener(p) ==
    /\ at[p] = "listener"
    /\ at' = [at EXCEPT ![p] = "component"]
    /\ listening' = FALSE
    /\ UNCHANGED <<config, serving, swept, cancelled, parentDone, armed, shut, hostOnce, once, taken,
                   background, accepting, connections>>

\* Component.Close: c.once.Do, whose caller cancels first.
ComponentOnce(p) ==
    /\ at[p] = "component" /\ once # "running"
    /\ IF once = "done"
       THEN at' = [at EXCEPT ![p] = "wait"] /\ UNCHANGED <<once, cancelled>>
       ELSE at' = [at EXCEPT ![p] = "registry"] /\ once' = "running" /\ cancelled' = TRUE
    /\ UNCHANGED <<config, serving, swept, parentDone, armed, listening, shut, hostOnce, taken, background,
                   accepting, connections>>

CloseRegistry(p) ==
    /\ at[p] = "registry"
    /\ at' = [at EXCEPT ![p] = "read"]
    /\ shut' = shut \cup {"reader"}
    /\ UNCHANGED <<config, life, hostOnce, once, taken, background, accepting, connections>>

\* What is configured is read under h.lifecycle; then stopStart runs.
ReadProfiles(p) ==
    /\ at[p] = "read" /\ Unlocked
    /\ at' = [at EXCEPT ![p] = "profiles"]
    /\ taken' = [taken EXCEPT ![p] = configured]
    /\ armed' = armed \ {OnStart}
    /\ UNCHANGED <<config, serving, swept, cancelled, parentDone, listening, shut, hostOnce, once,
                   background, accepting, connections>>

\* The profiles that were read are closed in their order, and c.once.Do is over.
CloseProfile(p) ==
    /\ at[p] = "profiles"
    /\ \E i \in 1 .. 3 :
          /\ Order[i] \in taken[p] \ shut
          /\ \A j \in 1 .. i - 1 : Order[j] \notin taken[p] \ shut
          /\ shut' = shut \cup {Order[i]}
    /\ UNCHANGED <<config, life, hostOnce, once, at, taken, background, accepting, connections>>

ProfilesClosed(p) ==
    /\ at[p] = "profiles" /\ taken[p] \subseteq shut
    /\ at' = [at EXCEPT ![p] = "wait"]
    /\ taken' = [taken EXCEPT ![p] = {}]
    /\ once' = "done"
    /\ UNCHANGED <<config, life, shut, hostOnce, background, accepting, connections>>

\* c.workers.Wait, with which a Host.Close is over too.
WaitWorkers(p) ==
    /\ at[p] = "wait" /\ workers = {}
    /\ at' = [at EXCEPT ![p] = "closed"]
    /\ hostOnce' = IF p \in ClosesHost THEN "done" ELSE hostOnce
    /\ UNCHANGED <<config, life, shut, once, taken, background, accepting, connections>>

CloseStep(p) ==
    \/ HostOnce(p) \/ CloseListener(p) \/ ComponentOnce(p) \/ CloseRegistry(p) \/ ReadProfiles(p)
    \/ CloseProfile(p) \/ ProfilesClosed(p) \/ WaitWorkers(p)

ServeStep == Launch \/ (\E c \in Connections : Accept(c)) \/ Offer \/ AcceptFails \/ ServeReturns

ConnectionStep(c) == Receive(c) \/ ReceiveFails(c) \/ Answer(c) \/ DeferredCall(c)

Next ==
    \/ \E q \in Profiles : EnableBegins(q)
    \/ EnableEnds \/ Start \/ StartRefuses \/ ServeStep \/ ParentEnds
    \/ \E g \in Loops : Ticks(g) \/ Ticked(g) \/ LoopEnds(g)
    \/ \E c \in Connections : ConnectionStep(c)
    \/ \E p \in {OnStart, OnServe} : AfterFunc(p)
    \/ \E p \in HostClosers \cup ComponentClosers : Close(p)
    \/ \E p \in Calls : CloseStep(p)

Spec == Init /\ [][Next]_vars

Progress ==
    \/ ServeStep
    \/ \E c \in Connections : ConnectionStep(c)
    \/ \E p \in {OnStart, OnServe} : AfterFunc(p)
    \/ \E p \in Calls : CloseStep(p)

\* While something of the host can go on, something does: Go runs its goroutines, a
\* receive ends after 35 seconds at the latest and the calls on the other
\* components return.  A background goroutine whose context and ticker are both
\* ready picks either, so that it is not for ever the ticker.  Nothing makes peers
\* connect, the context end or anyone close.
FairSpec ==
    /\ Spec
    /\ WF_vars(Progress) /\ WF_vars(EnableEnds)
    /\ \A g \in Loops : WF_vars(Ticked(g)) /\ SF_vars(LoopEnds(g))

-----------------------------------------------------------------------------
(* The inductive invariant.                                                 *)

Receivers == {"reader", "writer", "changes", "inventory"}
InComponentClose == {"registry", "read", "profiles"}     \* inside c.once.Do
InHostClose == {"listener", "component", "wait"} \cup InComponentClose
Serving == {"launching", "accepting", "offering", "closing", "returned"}

\* The places of a connection where it holds a slot, is open, is waited for.
HoldsSlot == {c \in Connections : conn[c] \in {"receiving", "answering", "close", "free"}}
IsOpen == {c \in Connections : conn[c] \in {"receiving", "answering", "close"}}
IsHandled == {c \in Connections : conn[c] \in {"receiving", "answering", "close", "free", "leave"}}

HostTypeOK ==
    /\ enabling \in Profiles \cup {Nothing} /\ configured \subseteq Profiles
    /\ serving \in BOOLEAN /\ swept \subseteq Profiles
    /\ cancelled \in BOOLEAN /\ parentDone \in BOOLEAN /\ listening \in BOOLEAN
    /\ armed \subseteq {OnStart, OnServe}
    /\ shut \subseteq Receivers
    /\ hostOnce \in {"new", "running", "done"} /\ once \in {"new", "running", "done"}
    /\ at \in [Calls -> {"idle", "host", "closed"} \cup InHostClose]
    /\ taken \in [Calls -> SUBSET Profiles]
    /\ workers \subseteq Loops /\ loop \in [Loops -> {"off", "added", "idle", "busy", "ended"}]
    /\ serve \in {"idle", "refused"} \cup Serving
    /\ accepted \in Connections \cup {Nothing}
    /\ conn \in [Connections -> {"none", "receiving", "answering", "close", "free", "leave", "gone"}]
    /\ offered \in [Connections -> SUBSET Receivers]

\* Nothing is configured while the host serves, and nothing runs before it does.
Configuration ==
    /\ serving <=> serve \in Serving
    /\ serving => enabling = Nothing /\ swept = configured
    /\ ~serving => \A g \in Loops : loop[g] = "off"
    /\ \A c \in Connections : conn[c] # "none" => serving
    /\ workers = {g \in Loops : loop[g] \notin {"off", "ended"}}

\* Who runs has not run.
Hooks ==
    /\ \A p \in armed : at[p] = "idle"
    /\ serve \in {"idle", "refused"} => at[OnStart] = "idle" /\ armed = {}
    /\ serve \in {"idle", "refused", "launching"} => at[OnServe] = "idle" /\ OnServe \notin armed
    /\ serve \notin {"closing", "returned"} => at[Server] = "idle"

\* One call is inside each once.Do, and what it has done stays done.
ComponentCloses ==
    /\ cancelled <=> once # "new"
    /\ \A p \in Calls : at[p] \in InComponentClose => once = "running"
    /\ \A p, q \in Calls : at[p] \in InComponentClose /\ at[q] \in InComponentClose => p = q
    /\ \A p \in Calls : at[p] \in {"read", "profiles"} => "reader" \in shut
    /\ \A p \in Calls : at[p] = "profiles" => enabling = Nothing /\ taken[p] = configured
    /\ once = "done" => enabling = Nothing /\ {"reader"} \cup configured \subseteq shut
    /\ \A p \in Calls : at[p] \in {"wait", "closed"} => once = "done"

HostCloses ==
    /\ \A p \in Calls \ ClosesHost : at[p] \notin {"host", "listener"}
    /\ \A p \in ClosesHost : at[p] \in InHostClose => hostOnce = "running"
    /\ \A p, q \in ClosesHost : at[p] \in InHostClose /\ at[q] \in InHostClose => p = q
    /\ \A p \in ClosesHost : at[p] \in InHostClose \ {"listener"} => ~listening
    /\ \A p \in ClosesHost : at[p] = "closed" => hostOnce = "done"
    /\ hostOnce = "done" => ~listening /\ once = "done"
    /\ (hostOnce = "done" \/ \E p \in Calls : at[p] = "closed") => once = "done" /\ workers = {}

\* The connections are where the slots and the WaitGroup say.
Handling ==
    /\ slots = Cardinality(HoldsSlot) /\ slots <= Slots
    /\ open = IsOpen /\ handlers = IsHandled
    /\ accepted \in Connections <=> serve = "offering"
    /\ serve = "offering" => conn[accepted] = "none"
    /\ serve = "returned" => at[Server] = "closed" /\ handlers = {}
    /\ \A c \in Connections : offered[c] \in {{}, {"reader"} \cup swept}
    /\ \A c \in Connections : conn[c] = "none" => offered[c] = {}

\* Nothing is configured once the host serves or is closed; each once.Do is run by
\* one call, whose effects stand; and the connections agree with the slots and the
\* WaitGroup (service.go:82-138, 187-300).
HostInv == HostTypeOK /\ Configuration /\ Hooks /\ ComponentCloses /\ HostCloses /\ Handling

-----------------------------------------------------------------------------
(* Properties.                                                              *)

Quiet == \A g \in Loops : loop[g] \in {"off", "ended"}

\* When Serve has returned after serving, nothing of the host is left: no
\* connection's goroutine, no background goroutine, no open connection or listener,
\* and every receiver that was configured has been closed (service.go:187-199,
\* 92-115), whoever closed the host and however many at once.
ServeJoins ==
    serve = "returned" =>
        /\ ~listening /\ open = {} /\ slots = 0
        /\ \A c \in Connections : conn[c] \in {"none", "gone"}
        /\ Quiet /\ {"reader"} \cup configured \subseteq shut

\* Once any Component.Close or Host.Close has returned, everything that was ever
\* configured is closed and no background goroutine runs, then and for good: no
\* Enable or Start that was under way adds anything afterwards (service.go:92-115).
ClosedForGood ==
    (\E p \in Calls : at[p] = "closed") =>
        cancelled /\ Quiet /\ {"reader"} \cup configured \subseteq shut

\* No more connections are open at once than the host has slots, until each is
\* closed (service.go:208-218).
ConnectionsBounded == Cardinality(open) <= Slots

\* What a call is offered is what the background goroutine sweeps: nothing is
\* configured that expires nowhere (service.go:126, 156, 252, 325).
OfferedIsSwept ==
    \A c \in Connections : offered[c] \in {{}, {"reader"} \cup swept}

\* A host whose context ends, or that somebody closes, stops: Serve returns, and so
\* does every Close (service.go:187-199, 82-115).
HostStops ==
    /\ (serve \in {"launching", "accepting", "offering", "closing"} /\ (parentDone \/ hostOnce # "new"))
          ~> serve = "returned"
    /\ (\E p \in Calls : at[p] \notin {"idle", "closed"}) ~> (\A p \in Calls : at[p] \in {"idle", "closed"})
=============================================================================
