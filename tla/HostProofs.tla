------------------------------ MODULE HostProofs ------------------------------
(* Whatever is configured, however many connections come and whoever closes  *)
(* the host: what Serve, Host.Close and Component.Close promise when they    *)
(* have returned, the bound on connections, and that what is offered is      *)
(* swept.                                                                   *)
EXTENDS Host, FiniteSetTheorems, TLAPS

\* The invariant holds before anything is configured.
LEMMA InitInv == Init => HostInv
<1> SUFFICES ASSUME Init PROVE HostInv
  OBVIOUS
<1>1. HoldsSlot = {} /\ IsOpen = {} /\ IsHandled = {}
  BY DEF Init, HoldsSlot, IsOpen, IsHandled
<1>2. HostTypeOK
  BY HostAssumption DEF Init, HostTypeOK
<1>3. Configuration /\ Hooks
  BY HostAssumption DEF Init, Configuration, Hooks, Serving, Calls, ClosesHost
<1>4. ComponentCloses /\ HostCloses
  BY DEF Init, ComponentCloses, HostCloses, InComponentClose, InHostClose, ClosesHost, Calls
<1>5. Handling
  BY <1>1, FS_EmptySet, HostAssumption DEF Init, Handling
<1> QED BY <1>2, <1>3, <1>4, <1>5 DEF HostInv

\* Every step keeps the variables in their sets.
LEMMA HostTypeOKStep == ASSUME HostInv, Next PROVE HostTypeOK'
<1> USE HostAssumption DEF HostInv, vars, config, life, closing, background, accepting,
     connections
<1>1. ASSUME NEW q \in Profiles, EnableBegins(q) PROVE HostTypeOK'
  BY <1>1 DEF EnableBegins, Unlocked, MayEnable, HostTypeOK
<1>2. ASSUME EnableEnds PROVE HostTypeOK'
  BY <1>2 DEF EnableEnds, HostTypeOK
<1>3. ASSUME Start PROVE HostTypeOK'
  BY <1>3 DEF Start, Unlocked, Serving, HostTypeOK
<1>4. ASSUME StartRefuses PROVE HostTypeOK'
  BY <1>4 DEF StartRefuses, Unlocked, Serving, HostTypeOK
<1>5. ASSUME Launch PROVE HostTypeOK'
  BY <1>5 DEF Launch, Hooked, Serving, HostTypeOK
<1>6. ASSUME NEW c \in Connections, Accept(c) PROVE HostTypeOK'
  BY <1>6 DEF Accept, Serving, HostTypeOK
<1>7. ASSUME Offer PROVE HostTypeOK'
  BY <1>7 DEF Offer, Serving, HostTypeOK
<1>8. ASSUME AcceptFails PROVE HostTypeOK'
  BY <1>8 DEF AcceptFails, Calls, ClosesHost, InHostClose, InComponentClose, Serving, HostTypeOK
<1>9. ASSUME ServeReturns PROVE HostTypeOK'
  BY <1>9 DEF ServeReturns, Joined, Serving, HostTypeOK
<1>10. ASSUME ParentEnds PROVE HostTypeOK'
  BY <1>10 DEF ParentEnds, HostTypeOK
<1>11. ASSUME NEW g \in Loops, Ticks(g) PROVE HostTypeOK'
  BY <1>11 DEF Ticks, HostTypeOK
<1>12. ASSUME NEW g \in Loops, Ticked(g) PROVE HostTypeOK'
  BY <1>12 DEF Ticked, HostTypeOK
<1>13. ASSUME NEW g \in Loops, LoopEnds(g) PROVE HostTypeOK'
  BY <1>13 DEF LoopEnds, HostTypeOK
<1>14. ASSUME NEW c \in Connections, Receive(c) PROVE HostTypeOK'
  BY <1>14 DEF Receive, Moves, Deferred, Unlocked, Receivers, HostTypeOK
<1>15. ASSUME NEW c \in Connections, ReceiveFails(c) PROVE HostTypeOK'
  BY <1>15 DEF ReceiveFails, Moves, Deferred, HostTypeOK
<1>16. ASSUME NEW c \in Connections, Answer(c) PROVE HostTypeOK'
  BY <1>16 DEF Answer, Moves, Deferred, HostTypeOK
<1>17. ASSUME NEW c \in Connections, DeferredCall(c) PROVE HostTypeOK'
  BY <1>17 DEF DeferredCall, Moves, Deferred, HostTypeOK
<1>18. ASSUME NEW p \in {OnStart, OnServe}, AfterFunc(p) PROVE HostTypeOK'
  BY <1>18 DEF AfterFunc, Calls, ClosesHost, InHostClose, InComponentClose, HostTypeOK
<1>19. ASSUME NEW p \in HostClosers \cup ComponentClosers, Close(p) PROVE HostTypeOK'
  BY <1>19 DEF Close, Calls, ClosesHost, InHostClose, InComponentClose, HostTypeOK
<1>20. ASSUME NEW p \in Calls, HostOnce(p) PROVE HostTypeOK'
  BY <1>20 DEF HostOnce, InHostClose, InComponentClose, HostTypeOK
<1>21. ASSUME NEW p \in Calls, CloseListener(p) PROVE HostTypeOK'
  BY <1>21 DEF CloseListener, InHostClose, InComponentClose, HostTypeOK
<1>22. ASSUME NEW p \in Calls, ComponentOnce(p) PROVE HostTypeOK'
  BY <1>22 DEF ComponentOnce, InHostClose, InComponentClose, HostTypeOK
<1>23. ASSUME NEW p \in Calls, CloseRegistry(p) PROVE HostTypeOK'
  BY <1>23 DEF CloseRegistry, InHostClose, InComponentClose, Receivers, HostTypeOK
<1>24. ASSUME NEW p \in Calls, ReadProfiles(p) PROVE HostTypeOK'
  BY <1>24 DEF ReadProfiles, Unlocked, InHostClose, InComponentClose, HostTypeOK
<1>25. ASSUME NEW p \in Calls, CloseProfile(p) PROVE HostTypeOK'
  <2>1. PICK i \in 1 .. 3 : Order[i] \in taken[p] /\ shut' = shut \cup {Order[i]}
    BY <1>25 DEF CloseProfile
  <2>2. Order[i] \in Receivers
    BY <2>1 DEF Order, Receivers
  <2> QED BY <1>25, <2>1, <2>2 DEF CloseProfile, HostTypeOK
<1>26. ASSUME NEW p \in Calls, ProfilesClosed(p) PROVE HostTypeOK'
  BY <1>26 DEF ProfilesClosed, InHostClose, InComponentClose, HostTypeOK
<1>27. ASSUME NEW p \in Calls, WaitWorkers(p) PROVE HostTypeOK'
  BY <1>27 DEF WaitWorkers, InHostClose, InComponentClose, HostTypeOK
<1> QED BY <1>1, <1>2, <1>3, <1>4, <1>5, <1>6, <1>7, <1>8, <1>9, <1>10, <1>11, <1>12, <1>13,
     <1>14, <1>15, <1>16, <1>17, <1>18, <1>19, <1>20, <1>21, <1>22, <1>23, <1>24, <1>25, <1>26,
          <1>27
      DEF Next, ServeStep, ConnectionStep, CloseStep

\* Once the host serves nothing is configured, and the background goroutines are
\* those that were added: Start and Enable hold h.lifecycle.
LEMMA ConfigurationStep == ASSUME HostInv, Next PROVE Configuration'
<1> USE HostAssumption DEF HostInv, vars, config, life, closing, background, accepting,
     connections
<1>1. ASSUME NEW q \in Profiles, EnableBegins(q) PROVE Configuration'
  BY <1>1 DEF EnableBegins, Unlocked, MayEnable, Configuration, HostTypeOK, Serving
<1>2. ASSUME EnableEnds PROVE Configuration'
  BY <1>2 DEF EnableEnds, Configuration, HostTypeOK, Serving
<1>3. ASSUME Start PROVE Configuration'
  BY <1>3 DEF Start, Unlocked, Configuration, HostTypeOK, Serving
<1>4. ASSUME StartRefuses PROVE Configuration'
  BY <1>4 DEF StartRefuses, Unlocked, Configuration, HostTypeOK, Serving
<1>5. ASSUME Launch PROVE Configuration'
  BY <1>5 DEF Launch, Hooked, Configuration, HostTypeOK, Serving
<1>6. ASSUME NEW c \in Connections, Accept(c) PROVE Configuration'
  BY <1>6 DEF Accept, Configuration, HostTypeOK, Serving
<1>7. ASSUME Offer PROVE Configuration'
  BY <1>7 DEF Offer, Configuration, HostTypeOK, Serving
<1>8. ASSUME AcceptFails PROVE Configuration'
  BY <1>8 DEF AcceptFails, Configuration, HostTypeOK, Serving
<1>9. ASSUME ServeReturns PROVE Configuration'
  BY <1>9 DEF ServeReturns, Joined, Configuration, HostTypeOK, Serving
<1>10. ASSUME NEW g \in Loops, Ticks(g) PROVE Configuration'
  BY <1>10 DEF Ticks, Configuration, HostTypeOK, Serving
<1>11. ASSUME NEW g \in Loops, Ticked(g) PROVE Configuration'
  BY <1>11 DEF Ticked, Configuration, HostTypeOK, Serving
<1>12. ASSUME NEW g \in Loops, LoopEnds(g) PROVE Configuration'
  BY <1>12 DEF LoopEnds, Configuration, HostTypeOK, Serving
<1>13. ASSUME NEW c \in Connections, Receive(c) PROVE Configuration'
  BY <1>13 DEF Receive, Moves, Deferred, Unlocked, Configuration, HostTypeOK, Serving
<1>14. ASSUME NEW c \in Connections, ReceiveFails(c) PROVE Configuration'
  BY <1>14 DEF ReceiveFails, Moves, Deferred, Configuration, HostTypeOK, Serving
<1>15. ASSUME NEW c \in Connections, Answer(c) PROVE Configuration'
  BY <1>15 DEF Answer, Moves, Deferred, Configuration, HostTypeOK, Serving
<1>16. ASSUME NEW c \in Connections, DeferredCall(c) PROVE Configuration'
  BY <1>16 DEF DeferredCall, Moves, Deferred, Configuration, HostTypeOK, Serving
<1>17. ASSUME \/ ParentEnds
               \/ (\E p \in {OnStart, OnServe} : AfterFunc(p))
               \/ (\E p \in HostClosers \cup ComponentClosers : Close(p))
               \/ (\E p \in Calls : HostOnce(p))
               \/ (\E p \in Calls : CloseListener(p))
               \/ (\E p \in Calls : ComponentOnce(p))
               \/ (\E p \in Calls : CloseRegistry(p))
               \/ (\E p \in Calls : ReadProfiles(p))
               \/ (\E p \in Calls : CloseProfile(p))
               \/ (\E p \in Calls : ProfilesClosed(p))
               \/ (\E p \in Calls : WaitWorkers(p))
      PROVE Configuration'
  BY <1>17 DEF AfterFunc, Close, CloseListener, CloseProfile, CloseRegistry, ComponentOnce,
       HostOnce, ParentEnds, ProfilesClosed, ReadProfiles, WaitWorkers, Configuration
<1> QED BY <1>1, <1>2, <1>3, <1>4, <1>5, <1>6, <1>7, <1>8, <1>9, <1>10, <1>11, <1>12, <1>13,
     <1>14, <1>15, <1>16, <1>17
      DEF Next, ServeStep, ConnectionStep, CloseStep

\* The functions left with AfterFunc run once, and Serve closes once.
LEMMA HooksStep == ASSUME HostInv, Next PROVE Hooks'
<1> USE HostAssumption DEF HostInv, vars, config, life, closing, background, accepting,
     connections
<1>1. ASSUME Start PROVE Hooks'
  BY <1>1 DEF Start, Unlocked, Server, OnStart, OnServe, Hooks, HostTypeOK, Serving, Calls,
       ClosesHost
<1>2. ASSUME StartRefuses PROVE Hooks'
  BY <1>2 DEF StartRefuses, Unlocked, Hooks, HostTypeOK, Serving, Calls, ClosesHost
<1>3. ASSUME Launch PROVE Hooks'
  BY <1>3 DEF Launch, Hooked, Server, OnStart, OnServe, Hooks, HostTypeOK, Serving, Calls,
       ClosesHost
<1>4. ASSUME NEW c \in Connections, Accept(c) PROVE Hooks'
  BY <1>4 DEF Accept, Hooks, HostTypeOK, Serving, Calls, ClosesHost
<1>5. ASSUME Offer PROVE Hooks'
  BY <1>5 DEF Offer, Hooks, HostTypeOK, Serving, Calls, ClosesHost
<1>6. ASSUME AcceptFails PROVE Hooks'
  BY <1>6 DEF AcceptFails, Server, OnStart, OnServe, Hooks, HostTypeOK, Serving, Calls, ClosesHost
<1>7. ASSUME ServeReturns PROVE Hooks'
  BY <1>7 DEF ServeReturns, Joined, Hooks, HostTypeOK, Serving, Calls, ClosesHost
<1>8. ASSUME NEW p \in {OnStart, OnServe}, AfterFunc(p) PROVE Hooks'
  BY <1>8 DEF AfterFunc, Server, OnStart, OnServe, Hooks, HostTypeOK, Serving, Calls, ClosesHost
<1>9. ASSUME NEW p \in HostClosers \cup ComponentClosers, Close(p) PROVE Hooks'
  BY <1>9 DEF Close, Hooks, HostTypeOK, Serving, Calls, ClosesHost
<1>10. ASSUME NEW p \in Calls, HostOnce(p) PROVE Hooks'
  BY <1>10 DEF HostOnce, Hooks, HostTypeOK, Serving, Calls, ClosesHost
<1>11. ASSUME NEW p \in Calls, CloseListener(p) PROVE Hooks'
  BY <1>11 DEF CloseListener, Hooks, HostTypeOK, Serving, Calls, ClosesHost
<1>12. ASSUME NEW p \in Calls, ComponentOnce(p) PROVE Hooks'
  BY <1>12 DEF ComponentOnce, Hooks, HostTypeOK, Serving, Calls, ClosesHost
<1>13. ASSUME NEW p \in Calls, CloseRegistry(p) PROVE Hooks'
  BY <1>13 DEF CloseRegistry, Hooks, HostTypeOK, Serving, Calls, ClosesHost
<1>14. ASSUME NEW p \in Calls, ReadProfiles(p) PROVE Hooks'
  BY <1>14 DEF ReadProfiles, Unlocked, Hooks, HostTypeOK, Serving, Calls, ClosesHost
<1>15. ASSUME NEW p \in Calls, ProfilesClosed(p) PROVE Hooks'
  BY <1>15 DEF ProfilesClosed, Hooks, HostTypeOK, Serving, Calls, ClosesHost
<1>16. ASSUME NEW p \in Calls, WaitWorkers(p) PROVE Hooks'
  BY <1>16 DEF WaitWorkers, Hooks, HostTypeOK, Serving, Calls, ClosesHost
<1>17. ASSUME \/ (\E q \in Profiles : EnableBegins(q))
               \/ EnableEnds
               \/ ParentEnds
               \/ (\E g \in Loops : Ticks(g))
               \/ (\E g \in Loops : Ticked(g))
               \/ (\E g \in Loops : LoopEnds(g))
               \/ (\E c \in Connections : Receive(c))
               \/ (\E c \in Connections : ReceiveFails(c))
               \/ (\E c \in Connections : Answer(c))
               \/ (\E c \in Connections : DeferredCall(c))
               \/ (\E p \in Calls : CloseProfile(p))
      PROVE Hooks'
  BY <1>17 DEF Answer, CloseProfile, DeferredCall, EnableBegins, EnableEnds, LoopEnds, Moves,
       ParentEnds, Receive, ReceiveFails, Ticked, Ticks, Hooks
<1> QED BY <1>1, <1>2, <1>3, <1>4, <1>5, <1>6, <1>7, <1>8, <1>9, <1>10, <1>11, <1>12, <1>13,
     <1>14, <1>15, <1>16, <1>17
      DEF Next, ServeStep, ConnectionStep, CloseStep

\* One call runs the body of Component.Close, and reads what is configured when
\* nothing can be configured any more.
LEMMA ComponentClosesStep == ASSUME HostInv, Next PROVE ComponentCloses'
<1> USE HostAssumption DEF HostInv, vars, config, life, closing, background, accepting,
     connections
<1>1. ASSUME NEW q \in Profiles, EnableBegins(q) PROVE ComponentCloses'
  BY <1>1 DEF EnableBegins, Unlocked, MayEnable, ComponentCloses, Configuration, HostTypeOK,
       InComponentClose
<1>2. ASSUME EnableEnds PROVE ComponentCloses'
  BY <1>2 DEF EnableEnds, ComponentCloses, Configuration, HostTypeOK, InComponentClose
<1>3. ASSUME AcceptFails PROVE ComponentCloses'
  BY <1>3 DEF AcceptFails, ComponentCloses, Configuration, HostTypeOK, InComponentClose
<1>4. ASSUME NEW p \in {OnStart, OnServe}, AfterFunc(p) PROVE ComponentCloses'
  BY <1>4 DEF AfterFunc, ComponentCloses, Configuration, HostTypeOK, InComponentClose
<1>5. ASSUME NEW p \in HostClosers \cup ComponentClosers, Close(p) PROVE ComponentCloses'
  BY <1>5 DEF Close, ComponentCloses, Configuration, HostTypeOK, InComponentClose
<1>6. ASSUME NEW p \in Calls, HostOnce(p) PROVE ComponentCloses'
  <2>1. CASE hostOnce = "done"
    <3>1. once = "done" /\ at' = [at EXCEPT ![p] = "closed"]
      BY <1>6, <2>1 DEF HostOnce, HostCloses
    <3> QED BY <1>6, <3>1 DEF HostOnce, HostTypeOK, ComponentCloses, InComponentClose
  <2>2. CASE hostOnce # "done"
    <3>1. at' = [at EXCEPT ![p] = "listener"]
      BY <1>6, <2>2 DEF HostOnce
    <3> QED BY <1>6, <3>1 DEF HostOnce, HostTypeOK, ComponentCloses, InComponentClose
  <2> QED BY <2>1, <2>2
<1>7. ASSUME NEW p \in Calls, CloseListener(p) PROVE ComponentCloses'
  BY <1>7 DEF CloseListener, ComponentCloses, Configuration, HostTypeOK, InComponentClose
<1>8. ASSUME NEW p \in Calls, ComponentOnce(p) PROVE ComponentCloses'
  BY <1>8 DEF ComponentOnce, ComponentCloses, Configuration, HostTypeOK, InComponentClose
<1>9. ASSUME NEW p \in Calls, CloseRegistry(p) PROVE ComponentCloses'
  BY <1>9 DEF CloseRegistry, ComponentCloses, Configuration, HostTypeOK, InComponentClose
<1>10. ASSUME NEW p \in Calls, ReadProfiles(p) PROVE ComponentCloses'
  BY <1>10 DEF ReadProfiles, Unlocked, ComponentCloses, Configuration, HostTypeOK,
       InComponentClose
<1>11. ASSUME NEW p \in Calls, CloseProfile(p) PROVE ComponentCloses'
  BY <1>11 DEF CloseProfile, Order, ComponentCloses, Configuration, HostTypeOK, InComponentClose
<1>12. ASSUME NEW p \in Calls, ProfilesClosed(p) PROVE ComponentCloses'
  BY <1>12 DEF ProfilesClosed, ComponentCloses, Configuration, HostTypeOK, InComponentClose
<1>13. ASSUME NEW p \in Calls, WaitWorkers(p) PROVE ComponentCloses'
  BY <1>13 DEF WaitWorkers, ComponentCloses, Configuration, HostTypeOK, InComponentClose
<1>14. ASSUME \/ Start
               \/ StartRefuses
               \/ Launch
               \/ (\E c \in Connections : Accept(c))
               \/ Offer
               \/ ServeReturns
               \/ ParentEnds
               \/ (\E g \in Loops : Ticks(g))
               \/ (\E g \in Loops : Ticked(g))
               \/ (\E g \in Loops : LoopEnds(g))
               \/ (\E c \in Connections : Receive(c))
               \/ (\E c \in Connections : ReceiveFails(c))
               \/ (\E c \in Connections : Answer(c))
               \/ (\E c \in Connections : DeferredCall(c))
      PROVE ComponentCloses'
  BY <1>14 DEF Accept, Answer, DeferredCall, Launch, LoopEnds, Moves, Offer, ParentEnds, Receive,
       ReceiveFails, ServeReturns, Start, StartRefuses, Ticked, Ticks, ComponentCloses
<1> QED BY <1>1, <1>2, <1>3, <1>4, <1>5, <1>6, <1>7, <1>8, <1>9, <1>10, <1>11, <1>12, <1>13, <1>14
      DEF Next, ServeStep, ConnectionStep, CloseStep

\* One call runs the body of Host.Close, and no worker is added after it.
LEMMA HostClosesStep == ASSUME HostInv, Next PROVE HostCloses'
<1> USE HostAssumption DEF HostInv, vars, config, life, closing, background, accepting,
     connections
<1>1. ASSUME Start PROVE HostCloses'
  BY <1>1 DEF Start, Unlocked, HostCloses, ComponentCloses, Configuration, HostTypeOK,
       InComponentClose, InHostClose, Hooks, Calls, ClosesHost
<1>2. ASSUME AcceptFails PROVE HostCloses'
  BY <1>2 DEF AcceptFails, HostCloses, ComponentCloses, Configuration, HostTypeOK,
       InComponentClose, InHostClose, Hooks, Calls, ClosesHost
<1>3. ASSUME NEW g \in Loops, LoopEnds(g) PROVE HostCloses'
  BY <1>3 DEF LoopEnds, HostCloses, ComponentCloses, Configuration, HostTypeOK, InComponentClose,
       InHostClose, Hooks, Calls, ClosesHost
<1>4. ASSUME NEW p \in {OnStart, OnServe}, AfterFunc(p) PROVE HostCloses'
  BY <1>4 DEF AfterFunc, Server, OnStart, OnServe, HostCloses, ComponentCloses, Configuration,
       HostTypeOK, InComponentClose, InHostClose, Hooks, Calls, ClosesHost
<1>5. ASSUME NEW p \in HostClosers \cup ComponentClosers, Close(p) PROVE HostCloses'
  BY <1>5 DEF Close, HostCloses, ComponentCloses, Configuration, HostTypeOK, InComponentClose,
       InHostClose, Hooks, Calls, ClosesHost
<1>6. ASSUME NEW p \in Calls, HostOnce(p) PROVE HostCloses'
  BY <1>6 DEF HostOnce, HostCloses, ComponentCloses, Configuration, HostTypeOK, InComponentClose,
       InHostClose, Hooks, Calls, ClosesHost
<1>7. ASSUME NEW p \in Calls, CloseListener(p) PROVE HostCloses'
  BY <1>7 DEF CloseListener, HostCloses, ComponentCloses, Configuration, HostTypeOK,
       InComponentClose, InHostClose, Hooks, Calls, ClosesHost
<1>8. ASSUME NEW p \in Calls, ComponentOnce(p) PROVE HostCloses'
  BY <1>8 DEF ComponentOnce, HostCloses, ComponentCloses, Configuration, HostTypeOK,
       InComponentClose, InHostClose, Hooks, Calls, ClosesHost
<1>9. ASSUME NEW p \in Calls, CloseRegistry(p) PROVE HostCloses'
  BY <1>9 DEF CloseRegistry, HostCloses, ComponentCloses, Configuration, HostTypeOK,
       InComponentClose, InHostClose, Hooks, Calls, ClosesHost
<1>10. ASSUME NEW p \in Calls, ReadProfiles(p) PROVE HostCloses'
  BY <1>10 DEF ReadProfiles, Unlocked, HostCloses, ComponentCloses, Configuration, HostTypeOK,
       InComponentClose, InHostClose, Hooks, Calls, ClosesHost
<1>11. ASSUME NEW p \in Calls, ProfilesClosed(p) PROVE HostCloses'
  BY <1>11 DEF ProfilesClosed, HostCloses, ComponentCloses, Configuration, HostTypeOK,
       InComponentClose, InHostClose, Hooks, Calls, ClosesHost
<1>12. ASSUME NEW p \in Calls, WaitWorkers(p) PROVE HostCloses'
  BY <1>12 DEF WaitWorkers, HostCloses, ComponentCloses, Configuration, HostTypeOK,
       InComponentClose, InHostClose, Hooks, Calls, ClosesHost
<1>13. ASSUME \/ (\E q \in Profiles : EnableBegins(q))
               \/ EnableEnds
               \/ StartRefuses
               \/ Launch
               \/ (\E c \in Connections : Accept(c))
               \/ Offer
               \/ ServeReturns
               \/ ParentEnds
               \/ (\E g \in Loops : Ticks(g))
               \/ (\E g \in Loops : Ticked(g))
               \/ (\E c \in Connections : Receive(c))
               \/ (\E c \in Connections : ReceiveFails(c))
               \/ (\E c \in Connections : Answer(c))
               \/ (\E c \in Connections : DeferredCall(c))
               \/ (\E p \in Calls : CloseProfile(p))
      PROVE HostCloses'
  BY <1>13 DEF Accept, Answer, CloseProfile, DeferredCall, EnableBegins, EnableEnds, Launch,
       Moves, Offer, ParentEnds, Receive, ReceiveFails, ServeReturns, StartRefuses, Ticked,
            Ticks, HostCloses
<1> QED BY <1>1, <1>2, <1>3, <1>4, <1>5, <1>6, <1>7, <1>8, <1>9, <1>10, <1>11, <1>12, <1>13
      DEF Next, ServeStep, ConnectionStep, CloseStep

\* A step that moves no connection keeps what is said of them, unless it undoes
\* the close that Serve has waited for.
LEMMA HandlingKept ==
    ASSUME HostInv, UNCHANGED <<accepting, connections, swept>>,
           at[Server] = "closed" => at'[Server] = "closed"
    PROVE  Handling'
  BY DEF HostInv, Handling, accepting, connections, HoldsSlot, IsOpen, IsHandled

\* The slots, the open connections and the WaitGroup agree with the connections.
LEMMA HandlingStep == ASSUME HostInv, Next PROVE Handling'
<1> USE HostAssumption DEF HostInv, vars, config, life, closing, background, accepting,
     connections
<1>1. ASSUME Start PROVE Handling'
  BY <1>1 DEF Start, Unlocked, Serving, HoldsSlot, IsOpen, IsHandled, Handling, HostTypeOK,
       Configuration
<1>2. ASSUME StartRefuses PROVE Handling'
  BY <1>2 DEF StartRefuses, Unlocked, Serving, HoldsSlot, IsOpen, IsHandled, Handling,
       HostTypeOK, Configuration
<1>3. ASSUME Launch PROVE Handling'
  BY <1>3 DEF Launch, Hooked, Serving, HoldsSlot, IsOpen, IsHandled, Handling, HostTypeOK,
       Configuration
<1>4. ASSUME NEW c \in Connections, Accept(c) PROVE Handling'
  BY <1>4 DEF Accept, Serving, HoldsSlot, IsOpen, IsHandled, Handling, HostTypeOK, Configuration
<1>5. ASSUME Offer PROVE Handling'
  <2>1. accepted \in Connections /\ conn[accepted] = "none"
    BY <1>5 DEF Offer, Handling
  <2>2. CASE slots < Slots
    <3>1. conn' = [conn EXCEPT ![accepted] = "receiving"]
      BY <1>5, <2>2 DEF Offer
    <3>2. /\ HoldsSlot' = HoldsSlot \cup {accepted} /\ IsOpen' = IsOpen \cup {accepted}
          /\ IsHandled' = IsHandled \cup {accepted} /\ accepted \notin HoldsSlot
      BY <2>1, <3>1 DEF HoldsSlot, IsOpen, IsHandled, HostTypeOK
    <3>3. IsFiniteSet(HoldsSlot)
      BY FS_Subset DEF HoldsSlot
    <3>4. Cardinality(HoldsSlot') = Cardinality(HoldsSlot) + 1 /\ Cardinality(HoldsSlot) \in Nat
      BY <3>2, <3>3, FS_AddElement, FS_CardinalityType
    <3>5. slots' = Cardinality(HoldsSlot') /\ slots' <= Slots
      BY <1>5, <2>2, <3>4 DEF Offer, Handling
    <3> QED BY <1>5, <2>1, <2>2, <3>1, <3>2, <3>5 DEF Offer, Handling, HostTypeOK
  <2>3. CASE ~(slots < Slots)
    <3>1. HoldsSlot' = HoldsSlot /\ IsOpen' = IsOpen /\ IsHandled' = IsHandled
      BY <1>5, <2>1, <2>3 DEF Offer, HoldsSlot, IsOpen, IsHandled, HostTypeOK
    <3> QED BY <1>5, <2>1, <2>3, <3>1 DEF Offer, Handling, HostTypeOK
  <2> QED BY <2>2, <2>3
<1>6. ASSUME AcceptFails PROVE Handling'
  BY <1>6 DEF AcceptFails, Serving, HoldsSlot, IsOpen, IsHandled, Handling, HostTypeOK,
       Configuration
<1>7. ASSUME ServeReturns PROVE Handling'
  BY <1>7 DEF ServeReturns, Joined, Serving, HoldsSlot, IsOpen, IsHandled, Handling, HostTypeOK,
       Configuration
<1>8. ASSUME NEW c \in Connections, Receive(c) PROVE Handling'
  <2>1. HoldsSlot' = HoldsSlot /\ IsOpen' = IsOpen /\ IsHandled' = IsHandled
    BY <1>8 DEF Receive, Moves, HoldsSlot, IsOpen, IsHandled, HostTypeOK
  <2>2. swept = configured
    BY <1>8 DEF Receive, Moves, Configuration
  <2> QED BY <1>8, <2>1, <2>2 DEF Receive, Moves, Handling, HostTypeOK
<1>9. ASSUME NEW c \in Connections, ReceiveFails(c) PROVE Handling'
  <2>1. HoldsSlot' = HoldsSlot /\ IsOpen' = IsOpen /\ IsHandled' = IsHandled
    BY <1>9 DEF ReceiveFails, Moves, Deferred, HoldsSlot, IsOpen, IsHandled, HostTypeOK
  <2> QED BY <1>9, <2>1 DEF ReceiveFails, Moves, Deferred, Handling, HostTypeOK
<1>10. ASSUME NEW c \in Connections, Answer(c) PROVE Handling'
  <2>1. HoldsSlot' = HoldsSlot /\ IsOpen' = IsOpen /\ IsHandled' = IsHandled
    BY <1>10 DEF Answer, Moves, Deferred, HoldsSlot, IsOpen, IsHandled, HostTypeOK
  <2> QED BY <1>10, <2>1 DEF Answer, Moves, Deferred, Handling, HostTypeOK
<1>11. ASSUME NEW c \in Connections, DeferredCall(c) PROVE Handling'
  <2>1. CASE conn[c] = "close" /\ conn' = [conn EXCEPT ![c] = "free"]
    <3>1. HoldsSlot' = HoldsSlot /\ IsOpen' = IsOpen \ {c} /\ IsHandled' = IsHandled
      BY <2>1 DEF HoldsSlot, IsOpen, IsHandled, HostTypeOK
    <3> QED BY <1>11, <2>1, <3>1 DEF DeferredCall, Moves, Deferred, Handling, HostTypeOK
  <2>2. CASE conn[c] = "free" /\ conn' = [conn EXCEPT ![c] = "leave"]
    <3>1. HoldsSlot' = HoldsSlot \ {c} /\ c \in HoldsSlot /\ IsOpen' = IsOpen /\ IsHandled' = IsHandled
      BY <2>2 DEF HoldsSlot, IsOpen, IsHandled, HostTypeOK
    <3>2. IsFiniteSet(HoldsSlot)
      BY FS_Subset DEF HoldsSlot
    <3>3. Cardinality(HoldsSlot') = Cardinality(HoldsSlot) - 1 /\ Cardinality(HoldsSlot) \in Nat
      BY <3>1, <3>2, FS_RemoveElement, FS_CardinalityType
    <3>4. slots' = slots - 1
      BY <1>11, <2>2 DEF DeferredCall, Moves, Deferred
    <3>5. slots' = Cardinality(HoldsSlot') /\ slots' <= Slots
      BY <3>3, <3>4 DEF Handling
    <3> QED BY <1>11, <2>2, <3>1, <3>5 DEF DeferredCall, Moves, Deferred, Handling, HostTypeOK
  <2>3. CASE conn[c] = "leave" /\ conn' = [conn EXCEPT ![c] = "gone"]
    <3>1. HoldsSlot' = HoldsSlot /\ IsOpen' = IsOpen /\ IsHandled' = IsHandled \ {c}
      BY <2>3 DEF HoldsSlot, IsOpen, IsHandled, HostTypeOK
    <3> QED BY <1>11, <2>3, <3>1 DEF DeferredCall, Moves, Deferred, Handling, HostTypeOK
  <2>4. PICK i \in 1 .. 3 : Moves(c, Deferred[i], IF i = 3 THEN "gone" ELSE Deferred[i + 1])
    BY <1>11 DEF DeferredCall
  <2>5. conn[c] = Deferred[i] /\ conn' = [conn EXCEPT ![c] = IF i = 3 THEN "gone" ELSE Deferred[i + 1]]
    BY <2>4 DEF Moves
  <2>6. CASE i = 1
    BY <2>1, <2>5, <2>6 DEF Deferred
  <2>7. CASE i = 2
    BY <2>2, <2>5, <2>7 DEF Deferred
  <2>8. CASE i = 3
    BY <2>3, <2>5, <2>8 DEF Deferred
  <2> QED BY <2>6, <2>7, <2>8
<1>12. ASSUME NEW p \in {OnStart, OnServe}, AfterFunc(p) PROVE Handling'
  <2>1. at[Server] = "closed" => at'[Server] = "closed"
    BY <1>12 DEF AfterFunc, HostTypeOK, Calls, ClosesHost, Server, OnStart, OnServe
  <2> QED BY <1>12, <2>1, HandlingKept DEF AfterFunc
<1>13. ASSUME NEW p \in HostClosers \cup ComponentClosers, Close(p) PROVE Handling'
  <2>1. at[Server] = "closed" => at'[Server] = "closed"
    BY <1>13 DEF Close, HostTypeOK, Calls, ClosesHost
  <2> QED BY <1>13, <2>1, HandlingKept DEF Close
<1>14. ASSUME NEW p \in Calls, HostOnce(p) PROVE Handling'
  <2>1. at[Server] = "closed" => at'[Server] = "closed"
    BY <1>14 DEF HostOnce, HostTypeOK, Calls, ClosesHost
  <2> QED BY <1>14, <2>1, HandlingKept DEF HostOnce
<1>15. ASSUME NEW p \in Calls, CloseListener(p) PROVE Handling'
  <2>1. at[Server] = "closed" => at'[Server] = "closed"
    BY <1>15 DEF CloseListener, HostTypeOK, Calls, ClosesHost
  <2> QED BY <1>15, <2>1, HandlingKept DEF CloseListener
<1>16. ASSUME NEW p \in Calls, ComponentOnce(p) PROVE Handling'
  <2>1. at[Server] = "closed" => at'[Server] = "closed"
    BY <1>16 DEF ComponentOnce, HostTypeOK, Calls, ClosesHost
  <2> QED BY <1>16, <2>1, HandlingKept DEF ComponentOnce
<1>17. ASSUME NEW p \in Calls, CloseRegistry(p) PROVE Handling'
  <2>1. at[Server] = "closed" => at'[Server] = "closed"
    BY <1>17 DEF CloseRegistry, HostTypeOK, Calls, ClosesHost
  <2> QED BY <1>17, <2>1, HandlingKept DEF CloseRegistry
<1>18. ASSUME NEW p \in Calls, ReadProfiles(p) PROVE Handling'
  <2>1. at[Server] = "closed" => at'[Server] = "closed"
    BY <1>18 DEF ReadProfiles, HostTypeOK, Calls, ClosesHost
  <2> QED BY <1>18, <2>1, HandlingKept DEF ReadProfiles
<1>19. ASSUME NEW p \in Calls, ProfilesClosed(p) PROVE Handling'
  <2>1. at[Server] = "closed" => at'[Server] = "closed"
    BY <1>19 DEF ProfilesClosed, HostTypeOK, Calls, ClosesHost
  <2> QED BY <1>19, <2>1, HandlingKept DEF ProfilesClosed
<1>20. ASSUME NEW p \in Calls, WaitWorkers(p) PROVE Handling'
  <2>1. at[Server] = "closed" => at'[Server] = "closed"
    BY <1>20 DEF WaitWorkers, HostTypeOK, Calls, ClosesHost
  <2> QED BY <1>20, <2>1, HandlingKept DEF WaitWorkers
<1>21. ASSUME \/ (\E q \in Profiles : EnableBegins(q))
               \/ EnableEnds
               \/ ParentEnds
               \/ (\E g \in Loops : Ticks(g))
               \/ (\E g \in Loops : Ticked(g))
               \/ (\E g \in Loops : LoopEnds(g))
               \/ (\E p \in Calls : CloseProfile(p))
      PROVE Handling'
  BY <1>21 DEF CloseProfile, EnableBegins, EnableEnds, LoopEnds, ParentEnds, Ticked, Ticks,
       Handling, HoldsSlot, IsOpen, IsHandled
<1> QED BY <1>1, <1>2, <1>3, <1>4, <1>5, <1>6, <1>7, <1>8, <1>9, <1>10, <1>11, <1>12, <1>13,
     <1>14, <1>15, <1>16, <1>17, <1>18, <1>19, <1>20, <1>21
      DEF Next, ServeStep, ConnectionStep, CloseStep

-----------------------------------------------------------------------------
(* Theorems.                                                                *)

\* The inductive invariant holds of every behaviour.
THEOREM HostInvHolds == Spec => []HostInv
<1>1. HostInv /\ [Next]_vars => HostInv'
  <2> SUFFICES ASSUME HostInv, [Next]_vars PROVE HostInv'
    OBVIOUS
  <2>1. CASE Next
    BY <2>1, HostTypeOKStep, ConfigurationStep, HooksStep, ComponentClosesStep, HostClosesStep,
       HandlingStep DEF HostInv
  <2>2. CASE UNCHANGED vars
    BY <2>2 DEF vars, config, life, closing, background, accepting, connections, HostInv,
         HostTypeOK,
       Configuration, Hooks, ComponentCloses, HostCloses, Handling, HoldsSlot, IsOpen, IsHandled
  <2> QED BY <2>1, <2>2
<1> QED BY <1>1, InitInv, PTL DEF Spec

\* Whoever has closed the host or its component, everything is closed for good when
\* the call returns (service.go:92-115).
THEOREM ClosedForGoodHolds == Spec => []ClosedForGood
<1>1. HostInv => ClosedForGood
  <2> SUFFICES ASSUME HostInv, NEW p \in Calls, at[p] = "closed"
               PROVE cancelled /\ Quiet /\ {"reader"} \cup configured \subseteq shut
    BY DEF ClosedForGood
  <2>1. once = "done" /\ workers = {}
    BY DEF HostInv, HostCloses
  <2>2. Quiet
    BY <2>1 DEF HostInv, HostTypeOK, Configuration, Quiet
  <2> QED BY <2>1, <2>2 DEF HostInv, ComponentCloses
<1> QED BY <1>1, HostInvHolds, PTL

\* Nothing of a host is left when Serve has returned (service.go:192-200).
THEOREM ServeJoinsHolds == Spec => []ServeJoins
<1>1. HostInv => ServeJoins
  <2> SUFFICES ASSUME HostInv, serve = "returned" PROVE ServeJoins
    BY DEF ServeJoins
  <2>1. at[Server] = "closed" /\ handlers = {} /\ Server \in ClosesHost /\ Server \in Calls
    BY DEF HostInv, Handling, ClosesHost, Calls
  <2>2. ~listening /\ once = "done" /\ workers = {}
    BY <2>1 DEF HostInv, HostCloses
  <2>3. Quiet /\ {"reader"} \cup configured \subseteq shut
    BY <2>2 DEF HostInv, HostTypeOK, Configuration, ComponentCloses, Quiet
  <2>4. \A c \in Connections : conn[c] \in {"none", "gone"}
    BY <2>1 DEF HostInv, HostTypeOK, Handling, IsHandled
  <2>5. open = {} /\ HoldsSlot = {}
    BY <2>4 DEF HostInv, Handling, IsOpen, HoldsSlot
  <2>6. slots = 0
    BY <2>5, FS_EmptySet DEF HostInv, Handling
  <2> QED BY <2>2, <2>3, <2>4, <2>5, <2>6 DEF ServeJoins
<1> QED BY <1>1, HostInvHolds, PTL

\* No more connections are open than there are slots (service.go:214-224).
THEOREM ConnectionsBoundedHolds == Spec => []ConnectionsBounded
<1>1. HostInv => ConnectionsBounded
  <2> SUFFICES ASSUME HostInv PROVE Cardinality(open) <= Slots
    BY DEF ConnectionsBounded
  <2>1. IsFiniteSet(HoldsSlot) /\ open \subseteq HoldsSlot
    BY FS_Subset, HostAssumption DEF HostInv, Handling, IsOpen, HoldsSlot
  <2>2. Cardinality(open) <= Cardinality(HoldsSlot) /\ Cardinality(open) \in Nat
        /\ Cardinality(HoldsSlot) \in Nat
    BY <2>1, FS_Subset, FS_CardinalityType
  <2> QED BY <2>2, HostAssumption DEF HostInv, Handling
<1> QED BY <1>1, HostInvHolds, PTL

\* What a call is offered is what the background goroutine sweeps
\* (service.go:127, 159, 275, 327).
THEOREM OfferedIsSweptHolds == Spec => []OfferedIsSwept
<1>1. HostInv => OfferedIsSwept
  BY DEF HostInv, Handling, OfferedIsSwept
<1> QED BY <1>1, HostInvHolds, PTL
=============================================================================
