------------------------------ MODULE Approvals ------------------------------
(***************************************************************************)
(* Asking the user: ToolApprovalManager, the approval gate that the worker *)
(* and the background sub-agents share, the two dialogs of the terminal UI *)
(* and the calls of the UI thread that wait for the threads that ask.      *)
(*                                                                         *)
(* A runner is a thread in ToolRoundRunner::Run: the worker of ChatService *)
(* or a background sub-agent.  It takes the gate, registers a request,     *)
(* tells the UI and sleeps on the manager's condition variable.  A tool    *)
(* approval keeps the gate until it is resolved, a question of ask_user    *)
(* gives it back as soon as the UI was told.                               *)
(*                                                                         *)
(* ChatService is the same program seen with the gate free and the agents  *)
(* reduced to what they deliver; here the conversation is left out.        *)
(***************************************************************************)
EXTENDS Naturals, Sequences, FiniteSets

CONSTANTS
  Worker,       \* the worker of ChatService
  Agents,       \* background sub-agents that may be spawned
  Kinds,        \* what a runner may ask: a set of "tool" and "ask"
  MaxAsks,      \* bound: requests of one runner
  MaxPrompts,   \* bound: prompts queued at a time
  MaxCancels,   \* bound: cancellations
  MaxResets     \* bound: resets

ASSUME WorkerAssumption == Worker \notin Agents
ASSUME KindsAssumption == Kinds \subseteq {"tool", "ask"}
ASSUME BoundsAssumption ==
  MaxAsks \in Nat /\ MaxPrompts \in Nat /\ MaxCancels \in Nat /\ MaxResets \in Nat

Runners == Agents \cup {Worker}
Ids == Runners \X (Nat \ {0})
NoId == <<>>                  \* a dialog that shows nothing

VARIABLES
  at,         \* where each runner is
  kind,       \* what it asks, or asked last
  serial,     \* how many approval ids it has drawn
  entry,      \* its entry in ToolApprovalManager::pending_
  stop,       \* runners whose stop source was asked to stop
  stale,      \* runners whose generation has moved on
  queued,     \* prompts in ChatService::pending_
  posted,     \* approval events on their way to the UI thread
  dialog,     \* the id in tool_approval_dialog_, or NoId
  question,   \* the id in ask_user_dialog_, or NoId
  u,          \* where the UI thread is
  joining,    \* the agents it joins
  late,       \* agents that ran into their deadline
  allowed,    \* the ids the user said yes to
  cancels,    \* cancellations so far (a bound)
  resets      \* resets so far (a bound)

managerVars == <<serial, entry>>
stopVars    == <<stop, stale, late>>
uiVars      == <<posted, dialog, question>>
bounds      == <<cancels, resets>>
vars == <<at, kind, managerVars, stopVars, queued, uiVars, u, joining, allowed,
          bounds>>

Places == {"away", "busy", "gate", "request", "emit", "wait", "dozing", "asleep",
           "granted", "done"}
Waiting == {"wait", "dozing", "asleep"}      \* inside WaitForResolution
Quitting == {"q_refuse", "q_worker", "q_agents", "q_join", "gone"}
UiPlaces == {"idle", "cancel", "drain", "clear", "agents", "join", "refuse"}
              \cup Quitting

TypeOK ==
  /\ at \in [Runners -> Places]
  /\ kind \in [Runners -> {"tool", "ask"}]
  /\ serial \in [Runners -> Nat]
  /\ entry \in [Runners -> {"none", "open", "yes", "no"}]
  /\ stop \subseteq Runners /\ stale \subseteq Runners
  /\ queued \in Nat
  /\ posted \in Seq([id : Ids, kind : {"tool", "ask"}])
  /\ dialog \in Ids \cup {NoId} /\ question \in Ids \cup {NoId}
  /\ u \in UiPlaces
  /\ joining \subseteq Agents /\ late \subseteq Agents
  /\ allowed \subseteq Ids
  /\ cancels \in Nat /\ resets \in Nat
  /\ \A r \in Runners : entry[r] # "none" <=> at[r] \in Waiting \cup {"emit"}
  /\ at[Worker] = "away" => Worker \notin stop

Init ==
  /\ at = [r \in Runners |-> "away"]
  /\ kind = [r \in Runners |-> "tool"]
  /\ serial = [r \in Runners |-> 0]
  /\ entry = [r \in Runners |-> "none"]
  /\ stop = {} /\ stale = {} /\ late = {}
  /\ queued = 0
  /\ posted = <<>> /\ dialog = NoId /\ question = NoId
  /\ u = "idle" /\ joining = {} /\ allowed = {}
  /\ cancels = 0 /\ resets = 0

Id(r) == <<r, serial[r]>>

Live == {a \in Agents : at[a] \notin {"away", "done"}}

(* approval_gate_, a plain mutex: held from its lock to the end of          *)
(* MaybeAwaitApproval, which for a question does not wait.                  *)
HoldsGate(r) ==
  \/ at[r] \in {"request", "emit"}
  \/ at[r] \in Waiting /\ kind[r] = "tool"
GateFree == \A r \in Runners : ~HoldsGate(r)

(* ToolApprovalManager::mutex_: a waiter that found its predicate false     *)
(* holds it until it is blocked.                                            *)
MutexFree == \A r \in Runners : at[r] # "dozing"

(* ChatService::mutex_, which a cancellation holds while it refuses the      *)
(* approvals: no event is emitted, no turn begins or ends meanwhile.         *)
ChatMutexFree == u # "cancel"

(* wake_.notify_all(): everyone that is blocked looks again. *)
Woken(f) == [r \in Runners |-> IF f[r] = "asleep" THEN "wait" ELSE f[r]]

(* request_stop() of the runners of S.  The stop callback of a waiting      *)
(* runner notifies without the mutex.                                       *)
RequestStop(S) ==
  /\ stop' = stop \cup S
  /\ stale' = stale \cup S
  /\ at' = IF \E r \in S : at[r] \in Waiting THEN Woken(at) ELSE at

(* Of the worker, if it runs a prompt. *)
StopWorker == RequestStop({Worker} \cap {r \in Runners : at[r] # "away"})

(* ToolApprovalManager::CancelPending: whatever is open is refused, whoever *)
(* asked it.                                                                *)
CancelPending ==
  /\ MutexFree
  /\ entry' = [r \in Runners |-> IF entry[r] = "open" THEN "no" ELSE entry[r]]
  /\ at' = Woken(at)

-----------------------------------------------------------------------------
(*                              THE RUNNERS                                *)

(* What a runner's step that does not touch the UI's state leaves alone. *)
Elsewhere == UNCHANGED <<uiVars, u, joining, late, allowed, bounds>>

(* WorkerLoop takes the next prompt, with a fresh stop source and the       *)
(* generation of now.                                                       *)
Activate ==
  /\ at[Worker] = "away" /\ queued > 0 /\ u \notin Quitting \ {"q_refuse"}
  /\ ChatMutexFree
  /\ queued' = queued - 1
  /\ at' = [at EXCEPT ![Worker] = "busy"]
  /\ stale' = stale \ {Worker}
  /\ UNCHANGED <<kind, managerVars, stop>>
  /\ Elsewhere

(* Defect: the stop source outlives its prompt. *)
EndTurnStopped ==
  /\ at[Worker] = "busy" /\ ChatMutexFree
  /\ at' = [at EXCEPT ![Worker] = "away"]
  /\ UNCHANGED <<kind, managerVars, stop, stale, queued>>
  /\ Elsewhere

(* ProcessPrompt returns. *)
EndTurn ==
  /\ at[Worker] = "busy" /\ ChatMutexFree
  /\ at' = [at EXCEPT ![Worker] = "away"]
  /\ stop' = stop \ {Worker}
  /\ UNCHANGED <<kind, managerVars, stale, queued>>
  /\ Elsewhere

(* A background session starts: the user's /task, or a tool of the worker. *)
Spawn(a) ==
  /\ u = "idle" \/ at[Worker] = "busy"
  /\ at[a] = "away"
  /\ at' = [at EXCEPT ![a] = "busy"]
  /\ UNCHANGED <<kind, managerVars, stop, stale, queued>>
  /\ Elsewhere

(* A background session ends and injects its continuation, which is a       *)
(* prompt for an idle worker and a message otherwise.                       *)
EndAgent(a) ==
  /\ at[a] = "busy" /\ ChatMutexFree
  /\ at' = [at EXCEPT ![a] = "done"]
  /\ queued' = IF at[Worker] = "away" /\ queued = 0 THEN 1 ELSE queued
  /\ UNCHANGED <<kind, managerVars, stop, stale>>
  /\ Elsewhere

(* A tool that needs the user comes up in a round that was not cut short. *)
NeedUser(r) ==
  /\ at[r] = "busy" /\ ChatMutexFree /\ r \notin stop \cup stale
  /\ serial[r] < MaxAsks
  /\ kind' \in {[kind EXCEPT ![r] = kd] : kd \in Kinds}
  /\ at' = [at EXCEPT ![r] = "gate"]
  /\ UNCHANGED <<managerVars, stop, stale, queued>>
  /\ Elsewhere

(* Defect: the gate is not asked for. *)
GateIgnored(r) ==
  /\ at[r] = "gate"
  /\ at' = [at EXCEPT ![r] = IF r \in stop THEN "busy" ELSE "request"]
  /\ UNCHANGED <<kind, managerVars, stop, stale, queued>>
  /\ Elsewhere

(* MaybeAwaitApproval blocks on the gate, then looks at its stop token. *)
LockGate(r) ==
  /\ at[r] = "gate" /\ GateFree
  /\ at' = [at EXCEPT ![r] = IF r \in stop THEN "busy" ELSE "request"]
  /\ UNCHANGED <<kind, managerVars, stop, stale, queued>>
  /\ Elsewhere

(* ToolApprovalManager::RequestApproval. *)
RequestApproval(r) ==
  /\ at[r] = "request" /\ MutexFree
  /\ serial' = [serial EXCEPT ![r] = @ + 1]
  /\ entry' = [entry EXCEPT ![r] = "open"]
  /\ at' = [at EXCEPT ![r] = "emit"]
  /\ UNCHANGED <<kind, stop, stale, queued>>
  /\ Elsewhere

(* ToolApprovalRequestedEvent is posted to the UI thread, until the         *)
(* callback is taken away.  A question's runner gives the gate back.        *)
EmitRequest(r) ==
  /\ at[r] = "emit" /\ ChatMutexFree
  /\ posted' = IF u \in Quitting THEN posted
               ELSE Append(posted, [id |-> Id(r), kind |-> kind[r]])
  /\ at' = [at EXCEPT ![r] = "wait"]
  /\ UNCHANGED <<kind, managerVars, stopVars, queued, dialog, question, u,
                 joining, allowed, bounds>>

Resolved(r) == entry[r] # "open" \/ r \in stop
Granted(r) == entry[r] = "yes" /\ r \notin stop

(* WaitForResolution: a runner that is resolved takes its entry out, and    *)
(* its tool runs if it was granted.                                         *)
Resolve(r) ==
  /\ at[r] = "wait" /\ MutexFree /\ Resolved(r)
  /\ entry' = [entry EXCEPT ![r] = "none"]
  /\ at' = [at EXCEPT ![r] = IF Granted(r) THEN "granted" ELSE "busy"]
  /\ UNCHANGED <<kind, serial, stop, stale, queued>>
  /\ Elsewhere

(* Any other one goes to sleep: the predicate was false, the mutex is not   *)
(* released yet...                                                          *)
Doze(r) ==
  /\ at[r] = "wait" /\ MutexFree /\ ~Resolved(r)
  /\ at' = [at EXCEPT ![r] = "dozing"]
  /\ UNCHANGED <<kind, managerVars, stop, stale, queued>>
  /\ Elsewhere

(* ...and now it is, and the runner is one of those a notification wakes. *)
FallAsleep(r) ==
  /\ at[r] = "dozing"
  /\ at' = [at EXCEPT ![r] = "asleep"]
  /\ UNCHANGED <<kind, managerVars, stop, stale, queued>>
  /\ Elsewhere

(* The tool ran. *)
RunTool(r) ==
  /\ at[r] = "granted"
  /\ at' = [at EXCEPT ![r] = "busy"]
  /\ UNCHANGED <<kind, managerVars, stop, stale, queued>>
  /\ Elsewhere

(* The watchdog of a background session, once its deadline has passed. *)
Watchdog(a) ==
  /\ a \in Live /\ a \notin stop
  /\ late' = late \cup {a}
  /\ RequestStop({a})
  /\ UNCHANGED <<kind, managerVars, queued, uiVars, u, joining, allowed, bounds>>

-----------------------------------------------------------------------------
(*                             THE UI THREAD                               *)

Quiet == UNCHANGED <<kind, serial, late, joining>>

(* HandleGlobalEvent: a dialog takes every key, a question before an        *)
(* approval; without one the user may type.                                 *)
MayType == u = "idle" /\ dialog = NoId /\ question = NoId

(* A posted event reaches the bridge, which fills the dialog of its kind. *)
ShowRequest ==
  /\ u = "idle" /\ posted # <<>>
  /\ posted' = Tail(posted)
  /\ dialog' = IF Head(posted).kind = "tool" THEN Head(posted).id ELSE dialog
  /\ question' = IF Head(posted).kind = "ask" THEN Head(posted).id ELSE question
  /\ UNCHANGED <<at, entry, stop, stale, queued, u, allowed, bounds>>
  /\ Quiet

(* Defect: the answer goes to whoever is asking, not to the id it is for. *)
AnswerAnyone(id, yes) ==
  /\ MutexFree
  /\ entry' = [r \in Runners |->
                 IF entry[r] = "open" THEN IF yes THEN "yes" ELSE "no"
                 ELSE entry[r]]
  /\ at' = Woken(at)
  /\ allowed' = IF yes THEN allowed \cup {id} ELSE allowed

(* ResolveToolApproval and ResolveAskUser: an id that is no longer pending  *)
(* is ignored.                                                              *)
Answer(id, yes) ==
  /\ MutexFree
  /\ entry' = [r \in Runners |->
                 IF entry[r] # "none" /\ Id(r) = id
                 THEN IF yes THEN "yes" ELSE "no"
                 ELSE entry[r]]
  /\ at' = Woken(at)
  /\ allowed' = IF yes THEN allowed \cup {id} ELSE allowed

AnswerApproval ==
  /\ u = "idle" /\ question = NoId /\ dialog # NoId
  /\ \E yes \in BOOLEAN : Answer(dialog, yes)
  /\ dialog' = NoId
  /\ UNCHANGED <<posted, question, stop, stale, queued, u, bounds>>
  /\ Quiet

AnswerQuestion ==
  /\ u = "idle" /\ question # NoId
  /\ \E yes \in BOOLEAN : Answer(question, yes)
  /\ question' = NoId
  /\ UNCHANGED <<posted, dialog, stop, stale, queued, u, bounds>>
  /\ Quiet

SubmitPrompt ==
  /\ MayType /\ queued < MaxPrompts
  /\ queued' = queued + 1
  /\ UNCHANGED <<at, entry, stop, stale, uiVars, u, allowed, bounds>>
  /\ Quiet

(* CancelActiveResponse: the stop first, then the approvals, all under the   *)
(* mutex of ChatService.                                                     *)
CancelResponse ==
  /\ MayType /\ at[Worker] # "away" /\ cancels < MaxCancels
  /\ StopWorker
  /\ cancels' = cancels + 1
  /\ u' = "cancel"
  /\ UNCHANGED <<entry, queued, uiVars, allowed, resets>>
  /\ Quiet

(* Defect: the approvals are left to the stop callback. *)
CancelForgets ==
  /\ u = "cancel"
  /\ u' = "idle"
  /\ UNCHANGED <<at, entry, stop, stale, queued, uiVars, allowed, bounds>>
  /\ Quiet

CancelApprovals ==
  /\ u = "cancel"
  /\ CancelPending
  /\ u' = "idle"
  /\ UNCHANGED <<stop, stale, queued, uiVars, allowed, bounds>>
  /\ Quiet

(* ResetConversation: the queue is dropped and the active prompt stopped,   *)
(* the worker is given its budget, the generation is bumped again, ...      *)
ResetStop ==
  /\ MayType /\ resets < MaxResets
  /\ queued' = 0
  /\ StopWorker
  /\ resets' = resets + 1
  /\ u' = "drain"
  /\ UNCHANGED <<entry, uiVars, allowed, cancels>>
  /\ Quiet

(* ... whether the worker came to rest or the budget ran out, ... *)
ResetDrained ==
  /\ u = "drain"
  /\ u' = "clear"
  /\ UNCHANGED <<at, entry, stop, stale, queued, uiVars, allowed, bounds>>
  /\ Quiet

ResetClear ==
  /\ u = "clear"
  /\ stale' = IF at[Worker] # "away" THEN stale \cup {Worker} ELSE stale
  /\ u' = "agents"
  /\ UNCHANGED <<at, entry, stop, queued, uiVars, allowed, bounds>>
  /\ Quiet

(* ... CancelAll stops every session and joins its thread, ... *)
CancelAll ==
  /\ u \in {"agents", "q_agents"}
  /\ RequestStop(Live)
  /\ joining' = Live
  /\ u' = IF u = "agents" THEN "join" ELSE "q_join"
  /\ UNCHANGED <<kind, managerVars, late, queued, uiVars, allowed, bounds>>

JoinAgents ==
  /\ u \in {"join", "q_join"}
  /\ \A a \in joining : at[a] = "done"
  /\ joining' = {}
  /\ u' = IF u = "join" THEN "refuse" ELSE "gone"
  /\ UNCHANGED <<at, kind, managerVars, stopVars, queued, uiVars, allowed, bounds>>

(* ... and only then the pending approvals are refused. *)
ResetApprovals ==
  /\ u = "refuse"
  /\ CancelPending
  /\ u' = "idle"
  /\ UNCHANGED <<stop, stale, queued, uiVars, allowed, bounds>>
  /\ Quiet

(* The loop of the UI ends, its callback is taken away and ~ChatService     *)
(* runs: the active prompt is stopped, ...                                  *)
Quit ==
  /\ u = "idle"
  /\ StopWorker
  /\ u' = "q_refuse"
  /\ UNCHANGED <<entry, queued, uiVars, allowed, bounds>>
  /\ Quiet

(* ... the approvals are refused, the worker is told to end... *)
QuitApprovals ==
  /\ u = "q_refuse"
  /\ CancelPending
  /\ u' = "q_worker"
  /\ UNCHANGED <<stop, stale, queued, uiVars, allowed, bounds>>
  /\ Quiet

(* ... and joined, before the sub-agents are. *)
JoinWorker ==
  /\ u = "q_worker" /\ at[Worker] = "away"
  /\ u' = "q_agents"
  /\ UNCHANGED <<at, entry, stop, stale, queued, uiVars, allowed, bounds>>
  /\ Quiet

-----------------------------------------------------------------------------
RunnerStep(r) ==
  \/ NeedUser(r) \/ LockGate(r) \/ RequestApproval(r) \/ EmitRequest(r)
  \/ Resolve(r) \/ Doze(r) \/ FallAsleep(r) \/ RunTool(r)

WorkerStep == Activate \/ EndTurn \/ RunnerStep(Worker)

AgentStep(a) == EndAgent(a) \/ RunnerStep(a)

UiChoice ==
  \/ AnswerApproval \/ AnswerQuestion \/ SubmitPrompt \/ CancelResponse
  \/ ResetStop \/ Quit

UiStep ==
  \/ ShowRequest \/ CancelApprovals \/ ResetDrained \/ ResetClear \/ CancelAll
  \/ JoinAgents \/ ResetApprovals \/ QuitApprovals \/ JoinWorker

Next ==
  \/ WorkerStep \/ UiChoice \/ UiStep
  \/ \E a \in Agents : Spawn(a) \/ AgentStep(a) \/ Watchdog(a)

Spec == Init /\ [][Next]_vars

(* Threads run, timers fire (the watchdogs, the drain budget), the UI       *)
(* thread goes on with the call it is in.  The user answers nothing.        *)
Fairness ==
  /\ WF_vars(WorkerStep) /\ WF_vars(UiStep)
  /\ \A a \in Agents : WF_vars(AgentStep(a)) /\ WF_vars(Watchdog(a))

FairSpec == Spec /\ Fairness

-----------------------------------------------------------------------------
(*                               PROPERTIES                                *)

(* A tool runs only after the user allowed that very request: an answer to  *)
(* a dialog whose request is gone never counts for the one that came after. *)
RunsOnlyAllowed ==
  [][\A r \in Runners :
       at[r] # "granted" /\ at'[r] = "granted" => Id(r) \in allowed]_vars

(* No tool approval is lost: as long as one is open it is in the dialog, or *)
(* posted to the UI thread, although there is one dialog for all runners.   *)
OnItsWay(id) == \E i \in DOMAIN posted : posted[i].id = id

ApprovalsReachUser ==
  \A r \in Runners :
    at[r] \in Waiting /\ kind[r] = "tool" /\ entry[r] = "open"
      /\ u \notin Quitting =>
        dialog = Id(r) \/ OnItsWay(Id(r))

(* A cancelled worker leaves its wait, although the notification of its     *)
(* stop callback can fall between its predicate and its sleep.              *)
CancelEndsWait ==
  u = "cancel" /\ at[Worker] \in Waiting ~> at[Worker] \notin Waiting

(* Stated by the code, and refuted: a reset does not pin the UI thread.     *)
ResetDoesNotPin == u = "join" ~> u # "join"

(* Stated by the code, and refuted: a background agent at its deadline      *)
(* stops, whatever it waits for.                                            *)
DeadlineEndsAgent == \A a \in Agents : a \in late ~> at[a] = "done"
=============================================================================
