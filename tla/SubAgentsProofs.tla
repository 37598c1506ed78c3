---------------------------- MODULE SubAgentsProofs ----------------------------
(***************************************************************************)
(* Proofs about SubAgents for every set of sessions, every capacity and    *)
(* every bound: the type invariant, that the capacity holds although it is *)
(* tested twice, that a session whose thread runs is alive, and that the   *)
(* card of /task settles.                                                  *)
(***************************************************************************)
EXTENDS SubAgents, TLAPS, FiniteSetTheorems

(* Where a spawning thread is says where its session is: no other thread   *)
(* moves a session before its own has stored and launched it.              *)
Spawning ==
  /\ \A c \in Callers :
       /\ pc[c].agent # NoAgent =>
            /\ Place(pc[c].agent) # "unused"
            /\ session[pc[c].agent].mode \in Modes
       /\ pc[c].at \in {"checking", "spawning"} =>
            pc[c].agent \in Agents /\ Place(pc[c].agent) = "asked"
       /\ pc[c].at = "launching" =>
            pc[c].agent \in Agents /\ Place(pc[c].agent) = "stored"
       /\ pc[c].at \in {"returning", "inside"} =>
            /\ pc[c].agent \in Agents
            /\ Place(pc[c].agent) \notin {"unused", "asked", "refused", "stored"}
       /\ pc[c].at \in {"idle", "joining"} => pc[c].agent = NoAgent
  /\ \A c, d \in Callers : pc[c].agent = pc[d].agent /\ c # d => pc[c].agent = NoAgent

(* A result is delivered by the step that says so, and by no other.        *)
DeliveredOnce ==
  \A a \in Agents : Place(a) \notin {"delivered", "finished"} => injected[a] = 0

(* CancelAll holds sessions only while the user-interface thread is in it. *)
TakenWhileJoining == pc["ui"].at # "joining" => taken = {}

(* The verdict is there when it is shown, and /task's card keeps it.       *)
VerdictShown ==
  \A a \in Agents :
    /\ Place(a) \in {"judged", "reported", "delivered"} => session[a].verdict \in Verdicts
    /\ session[a].mode = "task" /\ Place(a) \in {"reported", "delivered"} =>
         card[a] # "running"

(* The inductive invariant, and the invariants that rest on it.            *)
IInv == TypeOK /\ Spawning /\ DeliveredOnce
Capacity == IsFiniteSet(active) /\ CapacityHolds
Cards == VerdictShown /\ TaskCardsSettle
Alive == TakenWhileJoining /\ RunningIsAlive

-----------------------------------------------------------------------------
(*                          TYPES AND PLACES                               *)

(* What a step does to one session keeps its type. *)
LEMMA SessionTypes ==
  ASSUME NEW s \in Sessions
  PROVE  /\ \A p \in Places : [s EXCEPT !.place = p] \in Sessions
         /\ \A m \in Modes, p \in Places :
              [[s EXCEPT !.mode = m] EXCEPT !.place = p] \in Sessions
         /\ \A x \in BOOLEAN, p \in Places :
              [[s EXCEPT !.place = p] EXCEPT !.text = x] \in Sessions
         /\ [s EXCEPT !.expired = TRUE] \in Sessions
         /\ \A m \in BOOLEAN : Stopped(s, m) \in Sessions
         /\ TimedOut(s) \in Sessions
         /\ s.tools < MaxProgress => [s EXCEPT !.tools = s.tools + 1] \in Sessions
         /\ \A v \in Verdicts : Judged(s, v) \in Sessions
         /\ Fresh \in Sessions
<1>1. ASSUME NEW p \in Places
      PROVE  [s EXCEPT !.place = p] \in Sessions
  BY DEF Sessions
<1>2. ASSUME NEW m \in Modes, NEW p \in Places
      PROVE  [[s EXCEPT !.mode = m] EXCEPT !.place = p] \in Sessions
  BY DEF Sessions
<1>3. ASSUME NEW x \in BOOLEAN, NEW p \in Places
      PROVE  [[s EXCEPT !.place = p] EXCEPT !.text = x] \in Sessions
  BY DEF Sessions
<1>4. [s EXCEPT !.expired = TRUE] \in Sessions
  BY DEF Sessions
<1>5. ASSUME NEW m \in BOOLEAN
      PROVE  Stopped(s, m) \in Sessions
  BY DEF Sessions, Stopped
<1>6. TimedOut(s) \in Sessions
  BY <1>5 DEF Sessions, TimedOut
<1>7. s.tools < MaxProgress => [s EXCEPT !.tools = s.tools + 1] \in Sessions
  BY SubAgentsAssumption DEF Sessions
<1>8. Fresh \in Sessions
  BY SubAgentsAssumption DEF Sessions, Fresh, Places
<1>9. ASSUME NEW v \in Verdicts
      PROVE  Judged(s, v) \in Sessions
  <2>1. s.mode \in Modes \cup {"none"} /\ "judged" \in Places
    BY DEF Sessions, Places
  <2> QED
    BY <1>8, <2>1 DEF Sessions, Judged
<1> QED
  BY <1>1, <1>2, <1>3, <1>4, <1>5, <1>6, <1>7, <1>8, <1>9

(* So does what a step does to a thread. *)
LEMMA ThreadTypes ==
  /\ Idle \in Threads
  /\ \A t \in Threads :
       \A p \in {"spawning", "launching", "returning", "inside"} :
         [t EXCEPT !.at = p] \in Threads
  /\ \A a \in Agents : [at |-> "checking", agent |-> a] \in Threads
  /\ [at |-> "joining", agent |-> NoAgent] \in Threads
BY DEF Threads, Idle

(* The initial state satisfies every part of the invariant. *)
LEMMA InitInv == Init => IInv /\ Cards /\ Alive /\ Capacity
<1>1. Init => TypeOK
  BY SubAgentsAssumption, ThreadTypes
  DEF Init, TypeOK, Sessions, Fresh, Places, Verdicts
<1>2. Init => Spawning /\ DeliveredOnce
  BY DEF Init, Spawning, DeliveredOnce, Fresh, Idle, Place, Callers
<1>3. Init => Cards /\ Alive
  BY DEF Init, Cards, VerdictShown, TaskCardsSettle, Alive, TakenWhileJoining,
         RunningIsAlive, Busy, Place, Fresh, Idle
<1>4. Init => Capacity
  BY SubAgentsAssumption, FS_EmptySet DEF Init, Capacity, CapacityHolds
<1> QED
  BY <1>1, <1>2, <1>3, <1>4 DEF IInv

(* Every step keeps the types. *)
LEMMA TypeStep == IInv /\ [Next]_vars => TypeOK'
<1> SUFFICES ASSUME IInv, [Next]_vars PROVE TypeOK'
  OBVIOUS
<1> USE DEF IInv
<1>1. ASSUME NEW c \in Callers, NEW a \in Agents, NEW mode \in Modes, Call(c, a, mode)
     PROVE  TypeOK'
  BY <1>1, SessionTypes, ThreadTypes DEF Call, TypeOK, Place, Kept, Places
<1>2. ASSUME NEW c \in Callers, CheckCapacity(c)
     PROVE  TypeOK'
  <2>1. pc[c].agent \in Agents /\ pc[c] \in Threads /\ session[pc[c].agent] \in Sessions
    BY <1>2 DEF CheckCapacity, Spawning, TypeOK
  <2>2. session' \in [Agents -> Sessions]
    BY SessionTypes, <1>2, <2>1 DEF CheckCapacity, TypeOK, Places
  <2>3. pc' \in [Callers -> Threads]
    BY ThreadTypes, <1>2, <2>1 DEF CheckCapacity, TypeOK
  <2>4. card' \in [Agents -> Verdicts \cup {"none", "running"}]
    BY <1>2, <2>1 DEF CheckCapacity, TypeOK, Verdicts
  <2> QED
    BY <1>2, <2>2, <2>3, <2>4 DEF CheckCapacity, TypeOK
<1>3. ASSUME NEW c \in Callers, Store(c)
     PROVE  TypeOK'
  <2>1. pc[c].agent \in Agents /\ pc[c] \in Threads /\ session[pc[c].agent] \in Sessions
    BY <1>3 DEF Store, Spawning, TypeOK
  <2>2. \E p \in Places : session' = [session EXCEPT ![pc[c].agent].place = p]
    BY <1>3 DEF Store, Places
  <2>3. session' \in [Agents -> Sessions]
    <3>1. PICK p \in Places :
            session' = [session EXCEPT ![pc[c].agent] =
                          [session[pc[c].agent] EXCEPT !.place = p]]
      BY <2>2
    <3>2. [session[pc[c].agent] EXCEPT !.place = p] \in Sessions
      BY <2>1, SessionTypes
    <3> QED
      BY <3>1, <3>2 DEF TypeOK
  <2>4. pc' \in [Callers -> Threads]
    <3>1. \/ pc' = [pc EXCEPT ![c] = Idle]
          \/ \E p \in {"inside", "launching"} :
               pc' = [pc EXCEPT ![c] = [pc[c] EXCEPT !.at = p]]
      BY <1>3 DEF Store
    <3> QED
      BY <2>1, <3>1, ThreadTypes DEF TypeOK
  <2>5. card' \in [Agents -> Verdicts \cup {"none", "running"}]
    <3>1. session[pc[c].agent].mode \in Modes
      BY <1>3, <2>1, SubAgentsAssumption DEF Store, Spawning
    <3>2. NoPlaceCard(session[pc[c].agent].mode) \in Verdicts \cup {"none", "running"}
      BY <3>1 DEF NoPlaceCard, Verdicts, Modes
    <3>3. \/ card' = card
          \/ card' = [card EXCEPT ![pc[c].agent] = NoPlaceCard(session[pc[c].agent].mode)]
      BY <1>3 DEF Store
    <3> QED
      BY <3>2, <3>3 DEF TypeOK
  <2>6. active' \subseteq Agents
    BY <1>3, <2>1 DEF Store, TypeOK, Stored, Kept
  <2> QED
    BY <1>3, <2>3, <2>4, <2>5, <2>6 DEF Store, TypeOK
<1>4. ASSUME NEW c \in Callers, Launch(c)
     PROVE  TypeOK'
  BY <1>4, SessionTypes, ThreadTypes DEF Launch, TypeOK, Place, Places
<1>5. ASSUME NEW c \in Callers, Return(c)
     PROVE  TypeOK'
  BY <1>5, SessionTypes, ThreadTypes DEF Return, TypeOK, Place
<1>6. ASSUME NEW c \in Callers, ForegroundReturns(c)
     PROVE  TypeOK'
  BY <1>6, SessionTypes, ThreadTypes
  DEF ForegroundReturns, TypeOK, Place, Places, Verdicts
<1>7. ASSUME NEW a \in Agents, Judge(a)
     PROVE  TypeOK'
  BY <1>7, SessionTypes, ThreadTypes DEF Judge, TypeOK, Place, Verdict, Verdicts
<1>8. ASSUME NEW a \in Agents, Report(a)
     PROVE  TypeOK'
  <2> session[a] \in Sessions
    BY DEF TypeOK
  <2>1. session[a].verdict \in Verdicts \cup {"none"}
    BY DEF Sessions
  <2>2. session' \in [Agents -> Sessions]
    BY SessionTypes, <1>8, <2>1 DEF Report, TypeOK, Places
  <2>3. card' \in [Agents -> Verdicts \cup {"none", "running"}]
    BY <1>8, <2>1 DEF Report, TypeOK
  <2> QED
    BY <1>8, <2>2, <2>3 DEF Report, TypeOK
<1>9. ASSUME NEW a \in Agents, Deliver(a)
     PROVE  TypeOK'
  <2>1. session' \in [Agents -> Sessions]
    BY SessionTypes, <1>9 DEF Deliver, TypeOK, Places
  <2>2. injected[a] = 0
    BY <1>9 DEF Deliver, DeliveredOnce, Place
  <2>3. injected' \in [Agents -> 0..1]
    <3>1. injected' = [injected EXCEPT ![a] = 1]
      BY <1>9, <2>2 DEF Deliver
    <3> QED
      BY <3>1 DEF TypeOK
  <2> QED
    BY <1>9, <2>1, <2>3 DEF Deliver, TypeOK
<1>10. ASSUME NEW a \in Agents, Finish(a)
     PROVE  TypeOK'
  BY <1>10, SessionTypes, ThreadTypes DEF Finish, TypeOK, Place, Places
<1>11. ASSUME NEW a \in Agents, DeadlinePasses(a)
     PROVE  TypeOK'
  BY <1>11, SessionTypes, ThreadTypes DEF DeadlinePasses, TypeOK, Place
<1>12. ASSUME NEW a \in Agents, Watchdog(a)
     PROVE  TypeOK'
  BY <1>12, SessionTypes, ThreadTypes DEF Watchdog, TypeOK, Place
<1>13. ASSUME NEW a \in Agents, Progress(a)
     PROVE  TypeOK'
  <2> DEFINE seen == [session[a] EXCEPT !.tools = @ + 1]
  <2>1. session[a] \in Sessions /\ session[a].tools < MaxProgress
    BY <1>13 DEF Progress, TypeOK
  <2>2. seen \in Sessions
    BY <2>1, SessionTypes
  <2>3. session' \in [Agents -> Sessions]
    <3>1. session' = [session EXCEPT ![a] = Looked(seen)]
      BY <1>13 DEF Progress
    <3>2. Looked(seen) \in Sessions
      BY <2>2, SessionTypes DEF Looked
    <3> HIDE DEF seen
    <3> QED
      BY <3>1, <3>2 DEF TypeOK
  <2>4. card' \in [Agents -> Verdicts \cup {"none", "running"}]
    BY <1>13 DEF Progress, TypeOK
  <2> QED
    BY <1>13, <2>3, <2>4 DEF Progress, TypeOK
<1>14. ASSUME NEW a \in Agents, ParentStop(a)
     PROVE  TypeOK'
  BY <1>14, SessionTypes, ThreadTypes DEF ParentStop, TypeOK, Place
<1>15. ASSUME NEW a \in Agents, PromptEnds(a)
     PROVE  TypeOK'
  <2>1. PICK text \in BOOLEAN :
          session' = [session EXCEPT ![a].place = "answered", ![a].text = text]
    BY <1>15 DEF PromptEnds
  <2>2. session' = [session EXCEPT ![a] =
                     [[session[a] EXCEPT !.place = "answered"] EXCEPT !.text = text]]
    BY <2>1 DEF TypeOK
  <2>3. session' \in [Agents -> Sessions]
    BY SessionTypes, <2>2 DEF TypeOK, Places
  <2> QED
    BY <1>15, <2>3 DEF PromptEnds, TypeOK
<1>16. ASSUME NEW a \in Agents, PromptFails(a)
     PROVE  TypeOK'
  BY <1>16, SessionTypes, ThreadTypes DEF PromptFails, TypeOK, Place, Verdicts
<1>17. ASSUME NEW a \in Agents, LetGo(a)
     PROVE  TypeOK'
  BY <1>17, SessionTypes, ThreadTypes DEF LetGo, TypeOK, Place
<1>18. ASSUME CancelAll
     PROVE  TypeOK'
  BY <1>18, SessionTypes, ThreadTypes DEF CancelAll, Stopped, TypeOK, Place
<1>19. ASSUME UNCHANGED vars
     PROVE  TypeOK'
  BY <1>19, SessionTypes, ThreadTypes DEF vars, TypeOK, Place
<1> QED
  BY <1>1, <1>2, <1>3, <1>4, <1>5, <1>6, <1>7, <1>8, <1>9, <1>10, <1>11,
     <1>12, <1>13, <1>14, <1>15, <1>16, <1>17, <1>18, <1>19
  DEF Next, Spawn, Run, Clock

(* A spawning thread stays with its session, and the session with it. *)
LEMMA SpawningStep == IInv /\ [Next]_vars => Spawning'
<1> SUFFICES ASSUME IInv, [Next]_vars PROVE Spawning'
  OBVIOUS
<1>1. ASSUME NEW c \in Callers, NEW a \in Agents, NEW mode \in Modes, Call(c, a, mode)
     PROVE  Spawning'
  <2>1. /\ session'[a].place = "asked" /\ session'[a].mode = mode
        /\ \A b \in Agents \ {a} : session'[b] = session[b]
    BY <1>1 DEF Call, IInv, TypeOK, Sessions
  <2>2. /\ pc'[c] = [at |-> "checking", agent |-> a]
        /\ \A d \in Callers \ {c} : pc'[d] = pc[d]
    BY <1>1 DEF Call, IInv, TypeOK
  <2>3. \A d \in Callers : pc[d].agent # a
    BY <1>1, SubAgentsAssumption DEF Call, IInv, Spawning, Place
  <2> QED
    BY <2>1, <2>2, <2>3, SubAgentsAssumption
    DEF IInv, TypeOK, Threads, Spawning, Place
<1>2. ASSUME NEW c \in Callers, CheckCapacity(c)
     PROVE  Spawning'
  <2> DEFINE b == pc[c].agent
  <2>1. b \in Agents /\ b # NoAgent
    BY <1>2, SubAgentsAssumption DEF CheckCapacity, IInv, Spawning
  <2>2. \/ pc'[c] = Idle
        \/ pc'[c] = [pc[c] EXCEPT !.at = "spawning"] /\ session'[b].place = "asked"
    BY <1>2, <2>1 DEF CheckCapacity, IInv, TypeOK, Sessions
  <2>3. /\ \A d \in Callers \ {c} : pc'[d] = pc[d] /\ pc[d].agent # b
        /\ \A e \in Agents \ {b} : session'[e] = session[e]
        /\ session'[b].mode = session[b].mode
    BY <1>2, <2>1 DEF CheckCapacity, IInv, TypeOK, Sessions, Spawning
  <2> QED
    BY <2>1, <2>2, <2>3 DEF IInv, TypeOK, Threads, Spawning, Place, Idle
<1>3. ASSUME NEW c \in Callers, Store(c)
     PROVE  Spawning'
  <2> DEFINE b == pc[c].agent
  <2>1. b \in Agents /\ b # NoAgent
    BY <1>3, SubAgentsAssumption DEF Store, IInv, Spawning
  <2>2. \/ pc'[c] = Idle
        \/ pc'[c] = [pc[c] EXCEPT !.at = "inside"] /\ session'[b].place = "running"
        \/ pc'[c] = [pc[c] EXCEPT !.at = "launching"] /\ session'[b].place = "stored"
    BY <1>3, <2>1, SMTT(20) DEF Store, IInv, TypeOK, Sessions
  <2>3. /\ \A d \in Callers \ {c} : pc'[d] = pc[d] /\ pc[d].agent # b
        /\ \A e \in Agents \ {b} : session'[e] = session[e]
        /\ session'[b].mode = session[b].mode
    BY <1>3, <2>1 DEF Store, IInv, TypeOK, Sessions, Spawning
  <2> QED
    BY <2>1, <2>2, <2>3 DEF IInv, TypeOK, Threads, Spawning, Place, Idle
<1>4. ASSUME NEW c \in Callers, Launch(c)
     PROVE  Spawning'
  BY <1>4, SubAgentsAssumption, SMTT(20)
  DEF Launch, IInv, TypeOK, Spawning, Place, Callers
<1>5. ASSUME NEW c \in Callers, Return(c)
     PROVE  Spawning'
  BY <1>5, SubAgentsAssumption
  DEF Return, IInv, TypeOK, Spawning, Place, Callers, Idle
<1>6. ASSUME NEW c \in Callers, ForegroundReturns(c)
     PROVE  Spawning'
  BY <1>6, SubAgentsAssumption
  DEF ForegroundReturns, IInv, TypeOK, Spawning, Place, Callers, Idle
<1>7. ASSUME NEW a \in Agents, Judge(a)
     PROVE  Spawning'
  BY <1>7, SubAgentsAssumption
  DEF Judge, IInv, TypeOK, Spawning, Place, Callers, Judged
<1>8. ASSUME NEW a \in Agents, Report(a)
     PROVE  Spawning'
  BY <1>8, SubAgentsAssumption DEF Report, IInv, TypeOK, Spawning, Place, Callers
<1>9. ASSUME NEW a \in Agents, Deliver(a)
     PROVE  Spawning'
  BY <1>9, SubAgentsAssumption DEF Deliver, IInv, TypeOK, Spawning, Place, Callers
<1>10. ASSUME NEW a \in Agents, Finish(a)
     PROVE  Spawning'
  BY <1>10, SubAgentsAssumption DEF Finish, IInv, TypeOK, Spawning, Place, Callers
<1>11. ASSUME NEW a \in Agents, DeadlinePasses(a)
     PROVE  Spawning'
  BY <1>11, SubAgentsAssumption
  DEF DeadlinePasses, IInv, TypeOK, Spawning, Place, Callers
<1>12. ASSUME NEW a \in Agents, Watchdog(a)
     PROVE  Spawning'
  BY <1>12, SubAgentsAssumption
  DEF Watchdog, IInv, TypeOK, Spawning, Place, Callers, TimedOut, Stopped
<1>13. ASSUME NEW a \in Agents, Progress(a)
     PROVE  Spawning'
  BY <1>13, SubAgentsAssumption
  DEF Progress, IInv, TypeOK, Spawning, Place, Callers, Looked, TimedOut, Stopped
<1>14. ASSUME NEW a \in Agents, ParentStop(a)
     PROVE  Spawning'
  BY <1>14, SubAgentsAssumption
  DEF ParentStop, IInv, TypeOK, Spawning, Place, Callers, Stopped
<1>15. ASSUME NEW a \in Agents, PromptEnds(a)
     PROVE  Spawning'
  <2>1. PICK text \in BOOLEAN :
          session' = [session EXCEPT ![a].place = "answered", ![a].text = text]
    BY <1>15 DEF PromptEnds
  <2>2. /\ session'[a].place = "answered" /\ session'[a].mode = session[a].mode
        /\ \A b \in Agents \ {a} : session'[b] = session[b]
    BY <2>1 DEF IInv, TypeOK, Sessions
  <2>3. session[a].place = "running" /\ pc' = pc
    BY <1>15 DEF PromptEnds, Place
  <2> QED
    BY <2>2, <2>3, SubAgentsAssumption DEF IInv, TypeOK, Threads, Spawning, Place
<1>16. ASSUME NEW a \in Agents, PromptFails(a)
     PROVE  Spawning'
  BY <1>16, SubAgentsAssumption
  DEF PromptFails, IInv, TypeOK, Spawning, Place, Callers, Judged
<1>17. ASSUME NEW a \in Agents, LetGo(a)
     PROVE  Spawning'
  BY <1>17, SubAgentsAssumption
  DEF LetGo, IInv, TypeOK, Spawning, Place, Callers, Idle
<1>18. ASSUME CancelAll
     PROVE  Spawning'
  <2>1. ASSUME NEW b \in Agents
        PROVE  session'[b].place = session[b].place /\ session'[b].mode = session[b].mode
    <3>1. session[b] \in Sessions
      BY DEF IInv, TypeOK
    <3>2. session'[b] \in {session[b], Stopped(session[b], TRUE)}
      BY <1>18 DEF CancelAll
    <3> QED
      BY <3>1, <3>2 DEF Stopped, Sessions
  <2>2. ASSUME NEW c \in Callers
        PROVE  \/ pc'[c] = pc[c]
               \/ pc'[c].at = "joining" /\ pc'[c].agent = NoAgent
    BY <1>18 DEF CancelAll, IInv, TypeOK
  <2> QED
    BY <2>1, <2>2, SubAgentsAssumption DEF IInv, TypeOK, Threads, Spawning, Place
<1>19. ASSUME UNCHANGED vars
     PROVE  Spawning'
  BY <1>19 DEF vars, IInv, TypeOK, Spawning, Place, Callers
<1> QED
  BY <1>1, <1>2, <1>3, <1>4, <1>5, <1>6, <1>7, <1>8, <1>9, <1>10, <1>11,
     <1>12, <1>13, <1>14, <1>15, <1>16, <1>17, <1>18, <1>19
  DEF Next, Spawn, Run, Clock

(* A session that has not delivered its result has none delivered. *)
LEMMA DeliveredStep == IInv /\ [Next]_vars => DeliveredOnce'
<1> SUFFICES ASSUME IInv, [Next]_vars PROVE DeliveredOnce'
  OBVIOUS
<1>1. ASSUME NEW c \in Callers, NEW a \in Agents, NEW mode \in Modes, Call(c, a, mode)
     PROVE  DeliveredOnce'
  BY <1>1 DEF Call, IInv, TypeOK, DeliveredOnce, Place, Kept
<1>2. ASSUME NEW c \in Callers, CheckCapacity(c)
     PROVE  DeliveredOnce'
  BY <1>2 DEF CheckCapacity, IInv, TypeOK, DeliveredOnce, Place, Spawning
<1>3. ASSUME NEW c \in Callers, Store(c)
     PROVE  DeliveredOnce'
  BY <1>3 DEF Store, IInv, TypeOK, DeliveredOnce, Place, Spawning
<1>4. ASSUME NEW c \in Callers, Launch(c)
     PROVE  DeliveredOnce'
  BY <1>4 DEF Launch, IInv, TypeOK, DeliveredOnce, Place, Spawning
<1>5. ASSUME NEW c \in Callers, Return(c)
     PROVE  DeliveredOnce'
  BY <1>5 DEF Return, IInv, TypeOK, DeliveredOnce, Place, Idle
<1>6. ASSUME NEW c \in Callers, ForegroundReturns(c)
     PROVE  DeliveredOnce'
  BY <1>6 DEF ForegroundReturns, IInv, TypeOK, DeliveredOnce, Place, Spawning
<1>7. ASSUME NEW a \in Agents, Judge(a)
     PROVE  DeliveredOnce'
  BY <1>7 DEF Judge, IInv, TypeOK, DeliveredOnce, Place, Judged
<1>8. ASSUME NEW a \in Agents, Report(a)
     PROVE  DeliveredOnce'
  BY <1>8 DEF Report, IInv, TypeOK, DeliveredOnce, Place
<1>9. ASSUME NEW a \in Agents, Deliver(a)
     PROVE  DeliveredOnce'
  BY <1>9 DEF Deliver, IInv, TypeOK, DeliveredOnce, Place
<1>10. ASSUME NEW a \in Agents, Finish(a)
     PROVE  DeliveredOnce'
  BY <1>10 DEF Finish, IInv, TypeOK, DeliveredOnce, Place
<1>11. ASSUME NEW a \in Agents, DeadlinePasses(a)
     PROVE  DeliveredOnce'
  BY <1>11 DEF DeadlinePasses, IInv, TypeOK, DeliveredOnce, Place
<1>12. ASSUME NEW a \in Agents, Watchdog(a)
     PROVE  DeliveredOnce'
  BY <1>12 DEF Watchdog, IInv, TypeOK, DeliveredOnce, Place, TimedOut, Stopped
<1>13. ASSUME NEW a \in Agents, Progress(a)
     PROVE  DeliveredOnce'
  BY <1>13
  DEF Progress, IInv, TypeOK, DeliveredOnce, Place, Looked, TimedOut, Stopped
<1>14. ASSUME NEW a \in Agents, ParentStop(a)
     PROVE  DeliveredOnce'
  BY <1>14 DEF ParentStop, IInv, TypeOK, DeliveredOnce, Place, Stopped
<1>15. ASSUME NEW a \in Agents, PromptEnds(a)
     PROVE  DeliveredOnce'
  BY <1>15 DEF PromptEnds, IInv, TypeOK, DeliveredOnce, Place
<1>16. ASSUME NEW a \in Agents, PromptFails(a)
     PROVE  DeliveredOnce'
  BY <1>16 DEF PromptFails, IInv, TypeOK, DeliveredOnce, Place, Judged
<1>17. ASSUME NEW a \in Agents, LetGo(a)
     PROVE  DeliveredOnce'
  BY <1>17 DEF LetGo, IInv, TypeOK, DeliveredOnce, Place, Idle
<1>18. ASSUME CancelAll
     PROVE  DeliveredOnce'
  <2>1. ASSUME NEW b \in Agents
        PROVE  session'[b].place = session[b].place /\ session'[b].mode = session[b].mode
    <3>1. session[b] \in Sessions
      BY DEF IInv, TypeOK
    <3>2. session'[b] \in {session[b], Stopped(session[b], TRUE)}
      BY <1>18 DEF CancelAll
    <3> QED
      BY <3>1, <3>2 DEF Stopped, Sessions
  <2> QED
    BY <1>18, <2>1 DEF CancelAll, IInv, DeliveredOnce, Place
<1>19. ASSUME UNCHANGED vars
     PROVE  DeliveredOnce'
  BY <1>19 DEF vars, IInv, TypeOK, DeliveredOnce, Place
<1> QED
  BY <1>1, <1>2, <1>3, <1>4, <1>5, <1>6, <1>7, <1>8, <1>9, <1>10, <1>11,
     <1>12, <1>13, <1>14, <1>15, <1>16, <1>17, <1>18, <1>19
  DEF Next, Spawn, Run, Clock

-----------------------------------------------------------------------------
(*                          THE CAPACITY, THE CARDS, THE THREADS           *)

(* No step stores a session beyond the capacity. *)
LEMMA CapacityStep == Capacity /\ [Next]_vars => Capacity'
<1> SUFFICES ASSUME Capacity, [Next]_vars PROVE Capacity'
  OBVIOUS
<1>1. ASSUME NEW c \in Callers, NEW a \in Agents, NEW mode \in Modes, Call(c, a, mode)
     PROVE  Capacity'
  <2>1. active' \subseteq active
    BY <1>1 DEF Call, Kept
  <2> QED
    BY <2>1, FS_Subset, FS_CardinalityType, SubAgentsAssumption
    DEF Capacity, CapacityHolds
<1>2. ASSUME NEW c \in Callers, CheckCapacity(c)
     PROVE  Capacity'
  BY <1>2 DEF CheckCapacity, Capacity, CapacityHolds
<1>3. ASSUME NEW c \in Callers, Store(c)
     PROVE  Capacity'
  <2>1. IsFiniteSet(Kept) /\ Cardinality(Kept) <= MaxConcurrent
    BY FS_Subset, FS_CardinalityType, SubAgentsAssumption
    DEF Kept, Capacity, CapacityHolds
  <2>2. CASE ~Room /\ active' = Kept
    BY <2>1, <2>2 DEF Capacity, CapacityHolds
  <2>3. CASE Room /\ active' = Kept \cup {pc[c].agent}
    <3>1. Cardinality(Kept) \in Nat /\ Cardinality(Kept) < MaxConcurrent
      BY <2>1, <2>3, FS_CardinalityType DEF Room, Stored
    <3>2. /\ IsFiniteSet(active')
          /\ Cardinality(active') \in {Cardinality(Kept), Cardinality(Kept) + 1}
      BY <2>1, <2>3, FS_AddElement
    <3> QED
      BY <3>1, <3>2, SubAgentsAssumption DEF Capacity, CapacityHolds
  <2> QED
    BY <1>3, <2>2, <2>3 DEF Store, Stored
<1>4. ASSUME NEW c \in Callers, Launch(c)
     PROVE  Capacity'
  BY <1>4 DEF Launch, Capacity, CapacityHolds
<1>5. ASSUME NEW c \in Callers, Return(c)
     PROVE  Capacity'
  BY <1>5 DEF Return, Capacity, CapacityHolds
<1>6. ASSUME NEW c \in Callers, ForegroundReturns(c)
     PROVE  Capacity'
  <2>1. active' \subseteq active
    BY <1>6 DEF ForegroundReturns
  <2> QED
    BY <2>1, FS_Subset, FS_CardinalityType, SubAgentsAssumption
    DEF Capacity, CapacityHolds
<1>7. ASSUME NEW a \in Agents, Judge(a)
     PROVE  Capacity'
  BY <1>7 DEF Judge, Capacity, CapacityHolds
<1>8. ASSUME NEW a \in Agents, Report(a)
     PROVE  Capacity'
  BY <1>8 DEF Report, Capacity, CapacityHolds
<1>9. ASSUME NEW a \in Agents, Deliver(a)
     PROVE  Capacity'
  BY <1>9 DEF Deliver, Capacity, CapacityHolds
<1>10. ASSUME NEW a \in Agents, Finish(a)
     PROVE  Capacity'
  BY <1>10 DEF Finish, Capacity, CapacityHolds
<1>11. ASSUME NEW a \in Agents, DeadlinePasses(a)
     PROVE  Capacity'
  BY <1>11 DEF DeadlinePasses, Capacity, CapacityHolds
<1>12. ASSUME NEW a \in Agents, Watchdog(a)
     PROVE  Capacity'
  BY <1>12 DEF Watchdog, Capacity, CapacityHolds
<1>13. ASSUME NEW a \in Agents, Progress(a)
     PROVE  Capacity'
  BY <1>13 DEF Progress, Capacity, CapacityHolds
<1>14. ASSUME NEW a \in Agents, ParentStop(a)
     PROVE  Capacity'
  BY <1>14 DEF ParentStop, Capacity, CapacityHolds
<1>15. ASSUME NEW a \in Agents, PromptEnds(a)
     PROVE  Capacity'
  BY <1>15 DEF PromptEnds, Capacity, CapacityHolds
<1>16. ASSUME NEW a \in Agents, PromptFails(a)
     PROVE  Capacity'
  BY <1>16 DEF PromptFails, Capacity, CapacityHolds
<1>17. ASSUME NEW a \in Agents, LetGo(a)
     PROVE  Capacity'
  BY <1>17 DEF LetGo, Capacity, CapacityHolds
<1>18. ASSUME CancelAll
     PROVE  Capacity'
  BY <1>18, FS_EmptySet, SubAgentsAssumption DEF CancelAll, Capacity, CapacityHolds
<1>19. ASSUME UNCHANGED vars
     PROVE  Capacity'
  BY <1>19 DEF vars, Capacity, CapacityHolds
<1> QED
  BY <1>1, <1>2, <1>3, <1>4, <1>5, <1>6, <1>7, <1>8, <1>9, <1>10, <1>11,
     <1>12, <1>13, <1>14, <1>15, <1>16, <1>17, <1>18, <1>19
  DEF Next, Spawn, Run, Clock

(* The card of /task shows how its session ended. *)
LEMMA CardsStep == IInv /\ Cards /\ [Next]_vars => Cards'
<1> SUFFICES ASSUME IInv, Cards, [Next]_vars PROVE Cards'
  OBVIOUS
<1>1. ASSUME NEW c \in Callers, NEW a \in Agents, NEW mode \in Modes, Call(c, a, mode)
     PROVE  Cards'
  BY <1>1 DEF Call, IInv, TypeOK, Cards, VerdictShown, TaskCardsSettle, Place
<1>2. ASSUME NEW c \in Callers, CheckCapacity(c)
     PROVE  Cards'
  BY <1>2
  DEF CheckCapacity, IInv, TypeOK, Cards, VerdictShown, TaskCardsSettle, Place,
      Idle, Spawning
<1>3. ASSUME NEW c \in Callers, Store(c)
     PROVE  Cards'
  <2> DEFINE b == pc[c].agent
  <2>1. b \in Agents /\ b # NoAgent /\ session[b].place = "asked"
    BY <1>3, SubAgentsAssumption DEF Store, IInv, Spawning, Place
  <2>2. /\ session'[b].place \in {"refused", "running", "stored"}
        /\ session'[b].mode = session[b].mode
        /\ \A e \in Agents \ {b} : session'[e] = session[e]
    BY <1>3, <2>1 DEF Store, IInv, TypeOK, Sessions
  <2>3. /\ \A e \in Agents \ {b} : card'[e] = card[e]
        /\ session'[b].place = "refused" /\ session[b].mode = "task" => card'[b] = "error"
    BY <1>3, <2>1 DEF Store, NoPlaceCard, IInv, TypeOK, Sessions
  <2> QED
    BY <2>1, <2>2, <2>3 DEF Cards, VerdictShown, TaskCardsSettle, Place
<1>4. ASSUME NEW c \in Callers, Launch(c)
     PROVE  Cards'
  BY <1>4
  DEF Launch, IInv, TypeOK, Cards, VerdictShown, TaskCardsSettle, Place, Spawning
<1>5. ASSUME NEW c \in Callers, Return(c)
     PROVE  Cards'
  BY <1>5 DEF Return, IInv, TypeOK, Cards, VerdictShown, TaskCardsSettle, Place
<1>6. ASSUME NEW c \in Callers, ForegroundReturns(c)
     PROVE  Cards'
  BY <1>6
  DEF ForegroundReturns, IInv, TypeOK, Cards, VerdictShown, TaskCardsSettle, Place,
      Spawning
<1>7. ASSUME NEW a \in Agents, Judge(a)
     PROVE  Cards'
  BY <1>7
  DEF Judge, IInv, TypeOK, Cards, VerdictShown, TaskCardsSettle, Place, Judged,
      Verdict, Verdicts, Sessions
<1>8. ASSUME NEW a \in Agents, Report(a)
     PROVE  Cards'
  BY <1>8
  DEF Report, IInv, TypeOK, Cards, VerdictShown, TaskCardsSettle, Place, Verdicts
<1>9. ASSUME NEW a \in Agents, Deliver(a)
     PROVE  Cards'
  BY <1>9 DEF Deliver, IInv, TypeOK, Cards, VerdictShown, TaskCardsSettle, Place
<1>10. ASSUME NEW a \in Agents, Finish(a)
     PROVE  Cards'
  BY <1>10 DEF Finish, IInv, TypeOK, Cards, VerdictShown, TaskCardsSettle, Place
<1>11. ASSUME NEW a \in Agents, DeadlinePasses(a)
     PROVE  Cards'
  BY <1>11
  DEF DeadlinePasses, IInv, TypeOK, Cards, VerdictShown, TaskCardsSettle, Place
<1>12. ASSUME NEW a \in Agents, Watchdog(a)
     PROVE  Cards'
  BY <1>12
  DEF Watchdog, IInv, TypeOK, Cards, VerdictShown, TaskCardsSettle, Place,
      TimedOut, Stopped
<1>13. ASSUME NEW a \in Agents, Progress(a)
     PROVE  Cards'
  BY <1>13
  DEF Progress, IInv, TypeOK, Cards, VerdictShown, TaskCardsSettle, Place, Looked,
      TimedOut, Stopped
<1>14. ASSUME NEW a \in Agents, ParentStop(a)
     PROVE  Cards'
  BY <1>14
  DEF ParentStop, IInv, TypeOK, Cards, VerdictShown, TaskCardsSettle, Place, Stopped
<1>15. ASSUME NEW a \in Agents, PromptEnds(a)
     PROVE  Cards'
  BY <1>15 DEF PromptEnds, IInv, TypeOK, Cards, VerdictShown, TaskCardsSettle, Place
<1>16. ASSUME NEW a \in Agents, PromptFails(a)
     PROVE  Cards'
  BY <1>16
  DEF PromptFails, IInv, TypeOK, Cards, VerdictShown, TaskCardsSettle, Place,
      Judged, Verdicts, Sessions
<1>17. ASSUME NEW a \in Agents, LetGo(a)
     PROVE  Cards'
  BY <1>17 DEF LetGo, IInv, TypeOK, Cards, VerdictShown, TaskCardsSettle, Place
<1>18. ASSUME CancelAll
     PROVE  Cards'
  <2>1. ASSUME NEW b \in Agents
        PROVE  /\ session'[b].place = session[b].place /\ session'[b].mode = session[b].mode
               /\ session'[b].verdict = session[b].verdict
    <3>1. session[b] \in Sessions
      BY DEF IInv, TypeOK
    <3>2. session'[b] \in {session[b], Stopped(session[b], TRUE)}
      BY <1>18 DEF CancelAll
    <3> QED
      BY <3>1, <3>2 DEF Stopped, Sessions
  <2> QED
    BY <1>18, <2>1 DEF CancelAll, Cards, VerdictShown, TaskCardsSettle, Place
<1>19. ASSUME UNCHANGED vars
     PROVE  Cards'
  BY <1>19 DEF vars, IInv, TypeOK, Cards, VerdictShown, TaskCardsSettle, Place
<1> QED
  BY <1>1, <1>2, <1>3, <1>4, <1>5, <1>6, <1>7, <1>8, <1>9, <1>10, <1>11,
     <1>12, <1>13, <1>14, <1>15, <1>16, <1>17, <1>18, <1>19
  DEF Next, Spawn, Run, Clock

(* A session whose thread runs stays alive. *)
LEMMA AliveStep == IInv /\ Alive /\ [Next]_vars => Alive'
<1> SUFFICES ASSUME IInv, Alive, [Next]_vars PROVE Alive'
  OBVIOUS
<1>1. ASSUME NEW c \in Callers, NEW a \in Agents, NEW mode \in Modes, Call(c, a, mode)
     PROVE  Alive'
  BY <1>1
  DEF Call, IInv, TypeOK, Alive, TakenWhileJoining, RunningIsAlive, HeldBySpawner,
      Place, Busy, Callers, Kept, Finished
<1>2. ASSUME NEW c \in Callers, CheckCapacity(c)
     PROVE  Alive'
  BY <1>2
  DEF CheckCapacity, IInv, TypeOK, Alive, TakenWhileJoining, RunningIsAlive,
      HeldBySpawner, Place, Busy, Callers, Idle, Spawning
<1>3. ASSUME NEW c \in Callers, Store(c)
     PROVE  Alive'
  <2> DEFINE b == pc[c].agent
  <2>1. b \in Agents /\ b # NoAgent /\ session[b].place = "asked"
    BY <1>3, SubAgentsAssumption DEF Store, IInv, Spawning, Place
  <2>2. /\ \/ session'[b].place = "refused"
           \/ b \in active'
        /\ \A e \in Agents \ {b} : session'[e] = session[e]
    BY <1>3, <2>1 DEF Store, IInv, TypeOK, Sessions
  <2>3. /\ Kept \subseteq active' /\ taken' = taken
        /\ \A d \in Callers \ {c} : pc'[d] = pc[d]
        /\ pc[c].at = "spawning" /\ pc'[c].at # "joining"
    BY <1>3 DEF Store, Stored, IInv, TypeOK, Idle, Threads
  <2>4. TakenWhileJoining'
    BY <2>3 DEF Alive, TakenWhileJoining, Callers
  <2>5. RunningIsAlive'
    BY <2>1, <2>2, <2>3
    DEF Alive, RunningIsAlive, HeldBySpawner, Kept, Finished, Place, Busy
  <2> QED
    BY <2>4, <2>5 DEF Alive
<1>4. ASSUME NEW c \in Callers, Launch(c)
     PROVE  Alive'
  BY <1>4
  DEF Launch, IInv, TypeOK, Alive, TakenWhileJoining, RunningIsAlive,
      HeldBySpawner, Place, Busy, Callers
<1>5. ASSUME NEW c \in Callers, Return(c)
     PROVE  Alive'
  BY <1>5
  DEF Return, IInv, TypeOK, Alive, TakenWhileJoining, RunningIsAlive,
      HeldBySpawner, Place, Busy, Callers, Idle
<1>6. ASSUME NEW c \in Callers, ForegroundReturns(c)
     PROVE  Alive'
  BY <1>6
  DEF ForegroundReturns, IInv, TypeOK, Alive, TakenWhileJoining, RunningIsAlive,
      HeldBySpawner, Place, Busy, Callers, Idle
<1>7. ASSUME NEW a \in Agents, Judge(a)
     PROVE  Alive'
  BY <1>7
  DEF Judge, IInv, TypeOK, Alive, TakenWhileJoining, RunningIsAlive, HeldBySpawner,
      Place, Busy, Callers, Judged
<1>8. ASSUME NEW a \in Agents, Report(a)
     PROVE  Alive'
  BY <1>8
  DEF Report, IInv, TypeOK, Alive, TakenWhileJoining, RunningIsAlive,
      HeldBySpawner, Place, Busy, Callers
<1>9. ASSUME NEW a \in Agents, Deliver(a)
     PROVE  Alive'
  BY <1>9
  DEF Deliver, IInv, TypeOK, Alive, TakenWhileJoining, RunningIsAlive,
      HeldBySpawner, Place, Busy, Callers
<1>10. ASSUME NEW a \in Agents, Finish(a)
     PROVE  Alive'
  BY <1>10
  DEF Finish, IInv, TypeOK, Alive, TakenWhileJoining, RunningIsAlive,
      HeldBySpawner, Place, Busy, Callers
<1>11. ASSUME NEW a \in Agents, DeadlinePasses(a)
     PROVE  Alive'
  BY <1>11
  DEF DeadlinePasses, IInv, TypeOK, Alive, TakenWhileJoining, RunningIsAlive,
      HeldBySpawner, Place, Busy, Callers
<1>12. ASSUME NEW a \in Agents, Watchdog(a)
     PROVE  Alive'
  BY <1>12
  DEF Watchdog, IInv, TypeOK, Alive, TakenWhileJoining, RunningIsAlive,
      HeldBySpawner, Place, Busy, Callers, TimedOut, Stopped
<1>13. ASSUME NEW a \in Agents, Progress(a)
     PROVE  Alive'
  BY <1>13
  DEF Progress, IInv, TypeOK, Alive, TakenWhileJoining, RunningIsAlive,
      HeldBySpawner, Place, Busy, Callers, Looked, TimedOut, Stopped
<1>14. ASSUME NEW a \in Agents, ParentStop(a)
     PROVE  Alive'
  BY <1>14
  DEF ParentStop, IInv, TypeOK, Alive, TakenWhileJoining, RunningIsAlive,
      HeldBySpawner, Place, Busy, Callers, Stopped
<1>15. ASSUME NEW a \in Agents, PromptEnds(a)
     PROVE  Alive'
  BY <1>15
  DEF PromptEnds, IInv, TypeOK, Alive, TakenWhileJoining, RunningIsAlive,
      HeldBySpawner, Place, Busy, Callers
<1>16. ASSUME NEW a \in Agents, PromptFails(a)
     PROVE  Alive'
  BY <1>16
  DEF PromptFails, IInv, TypeOK, Alive, TakenWhileJoining, RunningIsAlive,
      HeldBySpawner, Place, Busy, Callers, Judged
<1>17. ASSUME NEW a \in Agents, LetGo(a)
     PROVE  Alive'
  BY <1>17
  DEF LetGo, IInv, TypeOK, Alive, TakenWhileJoining, RunningIsAlive, HeldBySpawner,
      Place, Busy, Callers, Idle, MayLetGo
<1>18. ASSUME CancelAll
     PROVE  Alive'
  <2>1. ASSUME NEW b \in Agents
        PROVE  session'[b].place = session[b].place
    <3>1. session[b] \in Sessions
      BY DEF IInv, TypeOK
    <3>2. session'[b] \in {session[b], Stopped(session[b], TRUE)}
      BY <1>18 DEF CancelAll
    <3> QED
      BY <3>1, <3>2 DEF Stopped, Sessions
  <2> QED
    BY <1>18, <2>1, ZenonT(30)
    DEF CancelAll, IInv, TypeOK, Alive, TakenWhileJoining, RunningIsAlive,
                      HeldBySpawner, Place, Callers
<1>19. ASSUME UNCHANGED vars
     PROVE  Alive'
  BY <1>19
  DEF vars, IInv, TypeOK, Alive, TakenWhileJoining, RunningIsAlive, HeldBySpawner,
      Place, Busy, Callers
<1> QED
  BY <1>1, <1>2, <1>3, <1>4, <1>5, <1>6, <1>7, <1>8, <1>9, <1>10, <1>11,
     <1>12, <1>13, <1>14, <1>15, <1>16, <1>17, <1>18, <1>19
  DEF Next, Spawn, Run, Clock

-----------------------------------------------------------------------------
(*                          THEOREMS                                       *)

(* IInv, and each part that rests on it, holds from the start and is kept. *)
LEMMA Invariant == Spec => [](IInv /\ Capacity /\ Cards /\ Alive)
<1>1. IInv /\ [Next]_vars => IInv'
  BY TypeStep, SpawningStep, DeliveredStep DEF IInv
<1> QED
  BY <1>1, InitInv, CapacityStep, CardsStep, AliveStep, PTL DEF Spec

(* Types, and that a session's result is delivered at most once            *)
(* (SubAgentManager::DeliverBackgroundResult).                             *)
THEOREM SubAgentsTypes == Spec => []TypeOK
BY Invariant, PTL DEF IInv

(* However many threads spawn sessions, no more than                       *)
(* kMaxConcurrentSubAgents are stored (SubAgentManager::TryStoreSession).  *)
THEOREM CapacityIsKept == Spec => []CapacityHolds
BY Invariant, PTL DEF Capacity

(* The card of /task never hangs (SubAgentManager::SpawnBackgroundFromUser). *)
THEOREM TaskCardsEnd == Spec => []TaskCardsSettle
BY Invariant, PTL DEF Cards

(* The pointer a session's thread captured stays valid while it runs       *)
(* (SubAgentManager::CancelAll, CleanupFinishedSessions).                  *)
THEOREM RunningSessionsLive == Spec => []RunningIsAlive
BY Invariant, PTL DEF Alive
=============================================================================
