------------------------------ MODULE SubAgents ------------------------------
(***************************************************************************)
(* SubAgentManager and the tool that calls it: the sessions it stores, the *)
(* thread of each background session, the deadline, the cancellations and  *)
(* the card the user sees for each session.                                *)
(*                                                                         *)
(* Two threads spawn sessions: the chat worker runs the sub_agent tool, in *)
(* the foreground (the session runs on the worker itself) or in the        *)
(* background, and the user-interface thread runs the /task command and    *)
(* CancelAll (a reset, or the end of the program).                         *)
(*                                                                         *)
(* A session is a shared_ptr: what keeps it alive is the map of active     *)
(* sessions, the frame of the thread that spawns it and the vector         *)
(* CancelAll moves it to; the last of them to let go joins its thread.     *)
(*                                                                         *)
(* The prompt a session runs is ChatService's: here it ends, with some     *)
(* text or none, or fails.  Progress is the events it emits meanwhile.     *)
(***************************************************************************)
EXTENDS Naturals, FiniteSets

CONSTANTS
  Agents,         \* the sessions that can be made; each is made once
  NoAgent,        \* the agent of a thread that spawns none
  MaxConcurrent,  \* kMaxConcurrentSubAgents
  MaxProgress     \* bound: events a session's prompt emits

ASSUME SubAgentsAssumption ==
  /\ MaxConcurrent \in Nat \ {0}
  /\ MaxProgress \in Nat
  /\ NoAgent \notin Agents

VARIABLES
  active,    \* active_sessions_
  session,   \* SubAgentSession of each agent, and where its code is
  card,      \* the card of each agent, as the last event showed it
  pc,        \* where each spawning thread is, and for which agent
  taken,     \* sessions CancelAll moved out of the map and has not let go
  injected   \* continuations delivered for each agent

vars == <<active, session, card, pc, taken, injected>>

Callers == {"worker", "ui"}
Modes == {"foreground", "background", "task"}
Verdicts == {"complete", "error", "cancelled"}

(* "unused" before CreateSession, "asked" from the call of the tool or of  *)
(* /task, "refused" when there was no place for it; then "stored" in the   *)
(* map, "running" its prompt, "answered" when the prompt has returned,     *)
(* "judged" when RunSession has, "reported" once its completion event is   *)
(* out, "delivered" once its continuation is, "finished" at the flag.      *)
Places == {"unused", "asked", "refused", "stored", "running", "answered",
           "judged", "reported", "delivered", "finished"}

(* The places at which the session's own code may touch the session.       *)
Busy == {"running", "answered", "judged", "reported", "delivered"}

(* The places at which its marks are still read.                           *)
Marked == {"stored", "running", "answered"}

Fresh == [mode |-> "none", place |-> "unused", stopped |-> FALSE,
          cancelled |-> FALSE, timedOut |-> FALSE, expired |-> FALSE,
          text |-> FALSE, tools |-> 0, verdict |-> "none"]

(* A session whose verdict v is built: no code reads its marks any more,   *)
(* and the model forgets them.                                             *)
Judged(s, v) == [Fresh EXCEPT !.mode = s.mode, !.place = "judged", !.verdict = v]

Idle == [at |-> "idle", agent |-> NoAgent]

Sessions ==
  [mode : Modes \cup {"none"}, place : Places, stopped : BOOLEAN,
   cancelled : BOOLEAN, timedOut : BOOLEAN, expired : BOOLEAN,
   text : BOOLEAN, tools : 0..MaxProgress, verdict : Verdicts \cup {"none"}]

Threads ==
  [at : {"idle", "checking", "spawning", "launching", "returning", "inside",
         "joining"},
   agent : Agents \cup {NoAgent}]

TypeOK ==
  /\ active \subseteq Agents
  /\ session \in [Agents -> Sessions]
  /\ card \in [Agents -> Verdicts \cup {"none", "running"}]
  /\ pc \in [Callers -> Threads]
  /\ taken \subseteq Agents
  /\ injected \in [Agents -> 0..1]

Init ==
  /\ active = {}
  /\ session = [a \in Agents |-> Fresh]
  /\ card = [a \in Agents |-> "none"]
  /\ pc = [c \in Callers |-> Idle]
  /\ taken = {}
  /\ injected = [a \in Agents |-> 0]

Place(a) == session[a].place
Finished == {a \in Agents : Place(a) = "finished"}

(* The sessions a cleanup leaves in the map: it lets go of the finished.   *)
Kept == active \ Finished

(* Whether a spawning thread's own shared_ptr keeps session a alive.       *)
HeldBySpawner(a) ==
  \E c \in Callers : /\ pc[c].agent = a
                     /\ pc[c].at \in {"launching", "returning", "inside"}

-----------------------------------------------------------------------------
(* Spawning.                                                               *)

(* The tool's call (its card is shown first) or /task: IsAtCapacity lets   *)
(* go of the finished sessions under one lock...                           *)
Call(c, a, mode) ==
  /\ pc[c].at = "idle"
  /\ Place(a) = "unused"
  /\ mode = "task" <=> c = "ui"
  /\ session' = [session EXCEPT ![a].mode = mode, ![a].place = "asked"]
  /\ active' = Kept
  /\ pc' = [pc EXCEPT ![c] = [at |-> "checking", agent |-> a]]
  /\ card' = [card EXCEPT ![a] = IF mode = "task" THEN "none" ELSE "running"]
  /\ UNCHANGED <<taken, injected>>

(* ... and compares the size of the map under another.  Refused, the tool  *)
(* answers with an error block and /task with a notice; /task with a place *)
(* shows its card before it spawns.                                        *)
CheckCapacity(c) ==
  LET a == pc[c].agent
      full == Cardinality(active) >= MaxConcurrent
      task == session[a].mode = "task"
  IN /\ pc[c].at = "checking"
     /\ pc' = [pc EXCEPT ![c] = IF full THEN Idle ELSE [@ EXCEPT !.at = "spawning"]]
     /\ session' = [session EXCEPT ![a].place = IF full THEN "refused" ELSE "asked"]
     /\ card' = [card EXCEPT ![a] =
                   IF ~full THEN "running" ELSE IF task THEN "none" ELSE "error"]
     /\ UNCHANGED <<active, taken, injected>>

(* Mutation: /task leaves the card it has shown. *)
HangingCard(mode) == IF mode = "foreground" THEN "complete" ELSE "running"

(* The card of a session that found no place left when it was stored: /task*)
(* posts an error event, the tool's background block says Running and its  *)
(* foreground block Complete.                                              *)
NoPlaceCard(mode) ==
  CASE mode = "task" -> "error"
    [] mode = "background" -> "running"
    [] mode = "foreground" -> "complete"

(* The sessions TryStoreSession compares with the capacity.                *)
Stored == Kept

(* Mutation: the caller's IsAtCapacity is believed. *)
RoomBelieved == TRUE

(* Whether TryStoreSession has room for one more.                          *)
Room == Cardinality(Stored) < MaxConcurrent

(* TryStoreSession: cleanup, capacity and insertion under one lock.        *)
Store(c) ==
  LET a == pc[c].agent
      mode == session[a].mode
  IN /\ pc[c].at = "spawning"
     /\ \/ /\ ~Room
           /\ active' = Stored
           /\ session' = [session EXCEPT ![a].place = "refused"]
           /\ card' = [card EXCEPT ![a] = NoPlaceCard(mode)]
           /\ pc' = [pc EXCEPT ![c] = Idle]
        \/ /\ Room
           /\ active' = Stored \cup {a}
           /\ session' = [session EXCEPT ![a].place =
                            IF mode = "foreground" THEN "running" ELSE "stored"]
           /\ pc' = [pc EXCEPT ![c].at =
                       IF mode = "foreground" THEN "inside" ELSE "launching"]
           /\ card' = card
     /\ UNCHANGED <<taken, injected>>

(* The session's jthread is made after the session is in the map.          *)
Launch(c) ==
  /\ pc[c].at = "launching"
  /\ session' = [session EXCEPT ![pc[c].agent].place = "running"]
  /\ pc' = [pc EXCEPT ![c].at = "returning"]
  /\ UNCHANGED <<active, card, taken, injected>>

(* The spawner's shared_ptr goes: if it is the last one, the thread is     *)
(* joined here.  The tool's block then says Running, whatever the card     *)
(* showed before.                                                          *)
Return(c) ==
  LET a == pc[c].agent
  IN /\ pc[c].at = "returning"
     /\ a \in active \cup taken \/ Place(a) = "finished"
     /\ pc' = [pc EXCEPT ![c] = Idle]
     /\ card' = IF session[a].mode = "background"
                  THEN [card EXCEPT ![a] = "running"] ELSE card
     /\ UNCHANGED <<active, session, taken, injected>>

-----------------------------------------------------------------------------
(* Running.                                                                *)

(* RequestSessionStop: both marks are only ever raised.                    *)
Stopped(s, mark) == [s EXCEPT !.cancelled = @ \/ mark, !.stopped = TRUE]
TimedOut(s) == [Stopped(s, FALSE) EXCEPT !.timedOut = TRUE]

(* A session whose event was emitted: the emitter looked at the deadline.   *)
Looked(s) == IF s.expired /\ ~s.stopped THEN TimedOut(s) ELSE s

(* The clock passes the session's deadline.                                *)
DeadlinePasses(a) ==
  /\ Place(a) \in Marked
  /\ ~session[a].expired
  /\ session' = [session EXCEPT ![a].expired = TRUE]
  /\ UNCHANGED <<active, card, pc, taken, injected>>

(* Mutation: the deadline is looked at only where events are emitted. *)
NoWatchdog(a) == a \notin Agents /\ UNCHANGED vars

(* The watchdog of RunSession, which lives until RunSession returns.       *)
Watchdog(a) ==
  /\ Place(a) \in {"running", "answered"}
  /\ session[a].expired
  /\ ~session[a].stopped
  /\ session' = [session EXCEPT ![a] = TimedOut(@)]
  /\ UNCHANGED <<active, card, pc, taken, injected>>

(* The session's prompt starts or ends a tool: the filtered emitter looks  *)
(* at the deadline and passes the event on to the card.                    *)
Progress(a) ==
  /\ Place(a) = "running"
  /\ session[a].tools < MaxProgress
  /\ session' = [session EXCEPT ![a] = Looked([session[a] EXCEPT !.tools = @ + 1])]
  /\ card' = [card EXCEPT ![a] = "running"]
  /\ UNCHANGED <<active, pc, taken, injected>>

(* The chat worker's own stop, seen through RunSession's stop callback.    *)
ParentStop(a) ==
  /\ session[a].mode = "foreground"
  /\ Place(a) \in {"running", "answered"}
  /\ ~session[a].cancelled
  /\ session' = [session EXCEPT ![a] = Stopped(@, TRUE)]
  /\ UNCHANGED <<active, card, pc, taken, injected>>

(* ProcessPrompt returns, and its last assistant text, if any, is read.    *)
PromptEnds(a) ==
  /\ Place(a) = "running"
  /\ \E text \in BOOLEAN :
       session' = [session EXCEPT ![a].place = "answered", ![a].text = text]
  /\ UNCHANGED <<active, card, pc, taken, injected>>

(* ProcessPrompt throws.                                                   *)
PromptFails(a) ==
  /\ Place(a) = "running"
  /\ session' = [session EXCEPT ![a] = Judged(@, "error")]
  /\ UNCHANGED <<active, card, pc, taken, injected>>

(* The end of RunSession: the deadline counts before a cancellation, and a *)
(* stop without a mark only when there is no text.                         *)
Verdict(s) ==
  CASE s.timedOut -> "error"
    [] ~s.timedOut /\ (s.cancelled \/ (~s.text /\ s.stopped)) -> "cancelled"
    [] OTHER -> "complete"

Judge(a) ==
  /\ Place(a) = "answered"
  /\ session' = [session EXCEPT ![a] = Judged(@, Verdict(@))]
  /\ UNCHANGED <<active, card, pc, taken, injected>>

(* EmitSessionCompleted.                                                   *)
Report(a) ==
  /\ Place(a) = "judged"
  /\ session' = [session EXCEPT ![a].place = "reported"]
  /\ card' = [card EXCEPT ![a] = session[a].verdict]
  /\ UNCHANGED <<active, pc, taken, injected>>

(* A foreground session leaves the map and its tool's block says Complete, *)
(* whatever the verdict.                                                   *)
ForegroundReturns(c) ==
  LET a == pc[c].agent
  IN /\ pc[c].at = "inside"
     /\ Place(a) = "reported"
     /\ session' = [session EXCEPT ![a].place = "finished"]
     /\ active' = active \ {a}
     /\ card' = [card EXCEPT ![a] = "complete"]
     /\ pc' = [pc EXCEPT ![c] = Idle]
     /\ UNCHANGED <<taken, injected>>

(* DeliverBackgroundResult hands the result to ChatService.                *)
Deliver(a) ==
  /\ session[a].mode # "foreground"
  /\ Place(a) = "reported"
  /\ session' = [session EXCEPT ![a].place = "delivered"]
  /\ injected' = [injected EXCEPT ![a] = @ + 1]
  /\ UNCHANGED <<active, card, pc, taken>>

(* The last step of a background session's thread.                         *)
Finish(a) ==
  /\ Place(a) = "delivered"
  /\ session' = [session EXCEPT ![a].place = "finished"]
  /\ UNCHANGED <<active, card, pc, taken, injected>>

-----------------------------------------------------------------------------
(* Cancelling.                                                             *)

(* CancelAll stops every session and empties the map under the lock...     *)
CancelAll ==
  /\ pc["ui"].at = "idle"
  /\ active # {}
  /\ session' = [a \in Agents |-> IF a \in active /\ Place(a) \in Marked
                                    THEN Stopped(session[a], TRUE)
                                    ELSE session[a]]
  /\ taken' = active
  /\ active' = {}
  /\ pc' = [pc EXCEPT !["ui"] = [at |-> "joining", agent |-> NoAgent]]
  /\ UNCHANGED <<card, injected>>

(* Letting go of a session joins its thread, unless its spawner still      *)
(* holds it: then the spawner will.                                        *)
MayLetGo(a) == Place(a) = "finished" \/ HeldBySpawner(a)

(* ... and then lets go of them, outside the lock.                         *)
LetGo(a) ==
  /\ a \in taken
  /\ MayLetGo(a)
  /\ taken' = taken \ {a}
  /\ pc' = IF taken = {a} THEN [pc EXCEPT !["ui"] = Idle] ELSE pc
  /\ UNCHANGED <<active, session, card, injected>>

-----------------------------------------------------------------------------

Spawn(c) == CheckCapacity(c) \/ Store(c) \/ Launch(c) \/ Return(c) \/ ForegroundReturns(c)
Run(a) == Judge(a) \/ Report(a) \/ Deliver(a) \/ Finish(a)
Clock(a) == DeadlinePasses(a) \/ Watchdog(a)

(* A prompt whose stop was requested returns: every provider and tool      *)
(* takes the session's stop token.                                         *)
PromptStops(a) == session[a].stopped /\ PromptEnds(a)

Next ==
  \/ \E c \in Callers, a \in Agents, mode \in Modes : Call(c, a, mode)
  \/ \E c \in Callers : Spawn(c)
  \/ \E a \in Agents :
       \/ Run(a) \/ Clock(a)
       \/ Progress(a) \/ ParentStop(a) \/ PromptEnds(a) \/ PromptFails(a)
       \/ LetGo(a)
  \/ CancelAll

Spec == Init /\ [][Next]_vars

(* Threads run and the clock advances.  A prompt answers only once it is   *)
(* stopped: until then a provider may hang.                                *)
Fairness ==
  /\ \A c \in Callers : WF_vars(Spawn(c))
  /\ \A a \in Agents : /\ WF_vars(Run(a))
                       /\ WF_vars(Clock(a))
                       /\ WF_vars(PromptStops(a))
                       /\ WF_vars(LetGo(a))

FairSpec == Spec /\ Fairness

-----------------------------------------------------------------------------
(* Properties.                                                             *)

(* No more sessions are stored than the capacity, although both spawners   *)
(* test the capacity well before they store (IsAtCapacity, then            *)
(* TryStoreSession).                                                       *)
CapacityHolds == Cardinality(active) <= MaxConcurrent

(* A session whose thread runs its code is alive: the map, the spawner or  *)
(* CancelAll still holds it, so the raw pointer the thread captured stays  *)
(* valid.                                                                  *)
RunningIsAlive ==
  \A a \in Agents : Place(a) \in Busy =>
    a \in active \cup taken \/ HeldBySpawner(a)

(* The card of /task never hangs: once its session was refused after the   *)
(* card was shown, or has finished, the card shows how it ended.           *)
TaskCardsSettle ==
  \A a \in Agents :
    /\ session[a].mode = "task"
    /\ Place(a) \in {"refused", "finished"}
    => card[a] # "running"

(* Every session that gets a place ends, even when its provider never      *)
(* answers, and a background one hands in its result exactly once.         *)
EveryAgentEnds ==
  \A a \in Agents :
    Place(a) = "stored" ~> Place(a) = "finished" /\ injected[a] = 1
=============================================================================
