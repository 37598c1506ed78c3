----------------------------- MODULE ChatService -----------------------------
(***************************************************************************)
(* ChatService: the prompt queue, the worker thread that runs one prompt   *)
(* at a time through model rounds and tool rounds, the calls the user      *)
(* interface makes on it, and the background sub-agents that hand their    *)
(* results back to it.                                                     *)
(*                                                                         *)
(* Three kinds of thread act:                                              *)
(*   the client   - the UI thread: submits, cancels, resets, compacts,     *)
(*                  changes mode, answers approvals.  `u` is where it is   *)
(*                  inside a call that takes several critical sections;    *)
(*   the worker   - WorkerLoop, ProcessPrompt and ToolRoundRunner::Run.    *)
(*                  `pc` is where it is;                                   *)
(*   the agents   - background sub-agent threads: what reaches             *)
(*                  ChatService of them is one continuation each.          *)
(* One action is one critical section of mutex_ (or one read of an atomic, *)
(* or one blocking call) with the local code that follows it.              *)
(***************************************************************************)
EXTENDS History

CONSTANTS
  Agents,          \* background sub-agents that may be spawned
  MaxPrompts,      \* bound: prompts the client submits
  MaxCancels,      \* bound: cancellations
  MaxResets,       \* bound: resets
  MaxRounds,       \* bound: provider rounds of one turn
  ToolRounds,      \* the sequences of tools a model may request in a round
  KeepLast,        \* keep_last of a manual compaction
  AutoKeepLast,    \* auto_compact_keep_last
  AutoCompact,     \* "off", "truncate" or "summarize"
  DrainMayExpire   \* the reset's drain budget may run out

Tools == {"read", "write", "exit"}
None == 0                       \* no plan path; conversations start at 1

ASSUME BoundsAssumption ==
  /\ MaxPrompts \in Nat /\ MaxCancels \in Nat
  /\ MaxResets \in Nat /\ MaxRounds \in Nat \ {0}
ASSUME AgentsAssumption == IsFiniteSet(Agents) /\ "client" \notin Agents
ASSUME ToolRoundsAssumption == ToolRounds \subseteq (Seq(Tools) \ {<<>>})
ASSUME KeepAssumption == KeepLast \in Nat /\ AutoKeepLast \in Nat
ASSUME ModeAssumption ==
  /\ AutoCompact \in {"off", "truncate", "summarize"}
  /\ DrainMayExpire \in BOOLEAN

VARIABLES
  history,     \* history_store_
  pending,     \* pending_: ids of the queued prompts
  active,      \* active_
  stopped,     \* stop requested on active_stop_source_
  gen,         \* generation_
  session,     \* config_.chat_session_id: the current conversation
  mode,        \* config_.agent_mode
  planPath,    \* config_.active_plan_path: the conversation it was made in
  switchPath,  \* config_.build_switch_plan_path
  heavy,       \* last_usage_ is at or above the auto-compaction threshold
  dropped,     \* how many messages the summary being written covers
  approval,    \* the worker's entry in ToolApprovalManager::pending_
  pc,          \* where the worker is
  turn,        \* the prompt the worker runs
  tgen,        \* the generation ProcessPrompt was given
  calls,       \* outcome.requested_tools
  k,           \* the tool of `calls` being handled
  round,       \* provider rounds of this turn so far
  planCopy,    \* the plan path a function of the worker holds in a local
  u,           \* where the client is
  agent,       \* where each sub-agent is, and its conversation
  joining,     \* the agents CancelAll waits for
  prompts,     \* every id given out: its conversation and its author
  open,        \* turns the UI was told are active and not yet finished
  cut,         \* turns the user cancelled or reset while they were active
  cancels,     \* cancellations so far (a bound)
  resets       \* resets so far (a bound)

convVars   == <<history, session>>
queueVars  == <<pending, active, stopped, gen>>
configVars == <<mode, planPath, switchPath>>
usage == <<heavy, dropped>>
workVars   == <<turn, tgen, calls, k, round, planCopy>>
agentVars  == <<agent, joining>>
ghostVars  == <<prompts, cut, cancels, resets>>
vars == <<convVars, queueVars, configVars, usage, approval, pc, workVars, u,
          agentVars, open, ghostVars>>

-----------------------------------------------------------------------------
(* Where the worker can be. *)
Resting   == {"check", "asleep", "notifyall"}
Arriving  == {"activated", "entered", "compact", "summarize", "append"}
Streaming == {"stream", "usage", "streamed"}
ToolPhase == {"prepare", "gate", "await", "execute", "running", "planexit",
              "record", "next", "roundend"}
Posted    == {"build", "request", "remind", "calls", "final"}
               \cup Streaming \cup ToolPhase
Places    == Resting \cup Arriving \cup Posted \cup {"leave"}

(* Where the client can be: ResetConversation has seven parts. *)
Resetting == {"r_stop", "r_drain", "r_sleep", "r_clear", "r_agents",
              "r_join", "r_approvals"}
ClientPlaces == {"idle", "notify"} \cup Resetting

AgentPlaces == {"unborn", "running", "notify", "done"}

TypeOK ==
  /\ history \in Seq(Messages) /\ session \in Nat \ {0}
  /\ pending \in Seq(Nat) /\ active \in BOOLEAN /\ stopped \in BOOLEAN
  /\ gen \in Nat
  /\ mode \in {"Build", "Plan"} /\ planPath \in Nat /\ switchPath \in Nat
  /\ heavy \in BOOLEAN /\ dropped \in Nat
  /\ approval \in {"none", "asked", "yes", "no"}
  /\ pc \in Places
  /\ turn \in Nat /\ tgen \in Nat
  /\ calls \in Seq(Tools) /\ k \in Nat \ {0} /\ round \in Nat
  /\ planCopy \in Nat
  /\ u \in ClientPlaces
  /\ agent \in [Agents -> [at : AgentPlaces, conv : Nat]]
  /\ joining \subseteq Agents
  /\ prompts \in Seq([conv : Nat, by : {"client"} \cup Agents])
  /\ open \subseteq Nat /\ cut \subseteq Nat
  /\ cancels \in Nat /\ resets \in Nat
  /\ active <=> pc \notin Resting
  /\ approval # "none" => pc = "await"
  /\ pc \in ToolPhase \cup {"calls"} => calls # <<>>
  /\ pc \in ToolPhase \ {"next", "roundend"} => k <= Len(calls)

Init ==
  /\ history = <<>> /\ session = 1
  /\ pending = <<>> /\ active = FALSE /\ stopped = FALSE /\ gen = 0
  /\ mode \in {"Build", "Plan"} /\ planPath = None /\ switchPath = None
  /\ heavy = FALSE /\ dropped = 0 /\ approval = "none"
  /\ pc = "check"
  /\ turn = 0 /\ tgen = 0 /\ calls = <<>> /\ k = 1 /\ round = 0
  /\ planCopy = None
  /\ u = "idle"
  /\ agent = [a \in Agents |-> [at |-> "unborn", conv |-> 0]] /\ joining = {}
  /\ prompts = <<>> /\ open = {} /\ cut = {} /\ cancels = 0 /\ resets = 0

NewId == Len(prompts) + 1
Stale == gen # tgen

-----------------------------------------------------------------------------
(*                               THE CLIENT                                *)

(* SubmitUserMessage up to the end of its critical section.  In Plan mode   *)
(* EnsurePlanSessionLocked makes the plan file of this conversation once.   *)
SubmitUserMessage ==
  /\ u = "idle"
  /\ Cardinality({i \in DOMAIN prompts : prompts[i].by = "client"}) < MaxPrompts
  /\ planPath' = IF mode = "Plan" /\ planPath = None THEN session ELSE planPath
  /\ pending' = Append(pending, NewId)
  /\ prompts' = Append(prompts, [conv |-> session, by |-> "client"])
  /\ u' = "notify"
  /\ UNCHANGED <<convVars, active, stopped, gen, mode, switchPath, usage,
                 approval, pc, workVars, agentVars, open, cut, cancels, resets>>

(* Defect: the worker is not notified. *)
StaysAsleep == pc

(* wake_.notify_one() after the mutex is released. *)
WorkerWoken == IF pc = "asleep" THEN "check" ELSE pc

SubmitNotify ==
  /\ u = "notify"
  /\ pc' = WorkerWoken
  /\ u' = "idle"
  /\ UNCHANGED <<convVars, queueVars, configVars, usage, approval, workVars,
                 agentVars, open, ghostVars>>

(* ToolApprovalManager::CancelPending, as far as the worker's entry goes. *)
CancelPending == approval' = IF approval = "asked" THEN "no" ELSE approval

CancelActiveResponse ==
  /\ u = "idle" /\ active
  /\ cancels < MaxCancels
  /\ gen' = gen + 1
  /\ stopped' = TRUE
  /\ CancelPending
  /\ cut' = cut \cup {turn}
  /\ cancels' = cancels + 1
  /\ UNCHANGED <<convVars, pending, active, configVars, usage, pc, workVars, u,
                 agentVars, open, prompts, resets>>

(* ResolveToolApproval: it overwrites any answer the entry already has. *)
ResolveToolApproval ==
  /\ u = "idle" /\ approval # "none"
  /\ approval' \in {"yes", "no"}
  /\ UNCHANGED <<convVars, queueVars, configVars, usage, pc, workVars, u,
                 agentVars, open, ghostVars>>

SetAgentMode(m) ==
  /\ u = "idle" /\ mode # m
  /\ mode' = m
  /\ UNCHANGED <<convVars, queueVars, planPath, switchPath, usage, approval, pc,
                 workVars, u, agentVars, open, ghostVars>>

(* CompactConversation returns at once while there is work. *)
CompactConversation ==
  /\ u = "idle" /\ ~active /\ pending = <<>>
  /\ history' = CompactHistory(history, KeepLast)
  /\ UNCHANGED <<session, queueVars, configVars, usage, approval, pc, workVars,
                 u, agentVars, open, ghostVars>>

(* ResetConversation.  First part: the generation is bumped outside the     *)
(* mutex.                                                                   *)
ResetBump ==
  /\ u = "idle" /\ resets < MaxResets
  /\ gen' = gen + 1
  /\ cut' = IF active THEN cut \cup {turn} ELSE cut
  /\ resets' = resets + 1
  /\ u' = "r_stop"
  /\ UNCHANGED <<convVars, pending, active, stopped, configVars, usage,
                 approval, pc, workVars, agentVars, open, prompts, cancels>>

(* Defect: the prompts that are queued are left in the queue. *)
QueueKept == pending

(* Second part: queued prompts are dropped, the active one told to stop. *)
QueueCleared == <<>>

ResetStop ==
  /\ u = "r_stop"
  /\ pending' = QueueCleared
  /\ stopped' = (active \/ stopped)
  /\ cut' = IF active THEN cut \cup {turn} ELSE cut
  /\ u' = "r_drain"
  /\ UNCHANGED <<convVars, active, gen, configVars, usage, approval, pc,
                 workVars, agentVars, open, prompts, cancels, resets>>

(* Defect: the reset does not wait for the active prompt. *)
DrainedAlready == TRUE

(* Third part: wake_.wait_for(lock, budget, !active_).  The client sleeps   *)
(* on the same condition variable as the worker.                            *)
Drained == ~active

ResetDrain ==
  /\ u = "r_drain"
  /\ u' = IF Drained THEN "r_clear" ELSE "r_sleep"
  /\ UNCHANGED <<convVars, queueVars, configVars, usage, approval, pc, workVars,
                 agentVars, open, ghostVars>>

(* Defect: wait instead of wait_for. *)
DrainWithoutBudget == FALSE

(* The budget runs out while the client sleeps. *)
DrainExpires ==
  /\ DrainMayExpire
  /\ u = "r_sleep"
  /\ u' = "r_clear"
  /\ UNCHANGED <<convVars, queueVars, configVars, usage, approval, pc, workVars,
                 agentVars, open, ghostVars>>

(* Defect: the generation is not bumped a second time. *)
BumpedOnce == gen

(* Fourth part: a second bump, then the conversation starts afresh. *)
BumpedTwice == gen + 1

ResetClear ==
  /\ u = "r_clear"
  /\ gen' = BumpedTwice
  /\ history' = <<>>
  /\ heavy' = FALSE /\ UNCHANGED dropped
  /\ mode' = "Build" /\ planPath' = None /\ switchPath' = None
  /\ session' = session + 1
  /\ cut' = IF active THEN cut \cup {turn} ELSE cut
  /\ u' = "r_agents"
  /\ UNCHANGED <<pending, active, stopped, approval, pc, workVars, agentVars,
                 open, prompts, cancels, resets>>

(* Fifth part: SubAgentManager::CancelAll takes the sessions out of its map *)
(* and then destroys them, which joins their threads.                       *)
ResetCancelAgents ==
  /\ u = "r_agents"
  /\ joining' = {a \in Agents : agent[a].at \in {"running", "notify"}}
  /\ u' = "r_join"
  /\ UNCHANGED <<convVars, queueVars, configVars, usage, approval, pc, workVars,
                 agent, open, ghostVars>>

ResetJoin ==
  /\ u = "r_join"
  /\ \A a \in joining : agent[a].at = "done"
  /\ joining' = {}
  /\ u' = "r_approvals"
  /\ UNCHANGED <<convVars, queueVars, configVars, usage, approval, pc, workVars,
                 agent, open, ghostVars>>

(* Last part: pending approvals are refused and the UI is cleared. *)
ResetApprovals ==
  /\ u = "r_approvals"
  /\ CancelPending
  /\ open' = {}
  /\ u' = "idle"
  /\ UNCHANGED <<convVars, queueVars, configVars, usage, pc, workVars, agentVars,
                 ghostVars>>

-----------------------------------------------------------------------------
(*                         BACKGROUND SUB-AGENTS                           *)

(* SpawnBackgroundFromUser on the client's thread, or a sub_agent tool that *)
(* the worker is running.                                                   *)
SpawnBackground(a) ==
  /\ u = "idle" \/ pc = "running"
  /\ agent[a].at = "unborn"
  /\ agent' = [agent EXCEPT ![a] = [at |-> "running", conv |-> session]]
  /\ UNCHANGED <<convVars, queueVars, configVars, usage, approval, pc, workVars,
                 u, joining, open, ghostVars>>

(* The agent a is at p. *)
Moved(a, p) == [agent EXCEPT ![a] = [at |-> p, conv |-> agent[a].conv]]

(* InjectSubAgentContinuation.  The sub-agent has ended, on its own or      *)
(* because it was stopped: DeliverBackgroundResult runs in both cases.  An  *)
(* idle service gets a prompt; a busy one gets a message in its history.    *)
InjectSubAgentContinuation(a) ==
  /\ agent[a].at = "running"
  /\ prompts' = Append(prompts, [conv |-> agent[a].conv, by |-> a])
  /\ \/ /\ ~active /\ pending = <<>>
        /\ pending' = Append(pending, NewId)
        /\ agent' = Moved(a, "notify")
        /\ UNCHANGED history
     \/ /\ active \/ pending # <<>>
        /\ history' = Append(history, UserMessage(NewId))
        /\ agent' = Moved(a, "done")
        /\ UNCHANGED pending
  /\ UNCHANGED <<session, active, stopped, gen, configVars, usage, approval, pc,
                 workVars, u, joining, open, cut, cancels, resets>>

(* wake_.notify_one(): one thread of those that sleep on wake_. *)
InjectNotify(a) ==
  /\ agent[a].at = "notify"
  /\ agent' = Moved(a, "done")
  /\ \/ pc = "asleep" /\ pc' = "check" /\ UNCHANGED u
     \/ u = "r_sleep" /\ u' = "r_drain" /\ UNCHANGED pc
     \/ pc # "asleep" /\ u # "r_sleep" /\ UNCHANGED <<pc, u>>
  /\ UNCHANGED <<convVars, queueVars, configVars, usage, approval, workVars,
                 joining, open, ghostVars>>

-----------------------------------------------------------------------------
(*                         THE WORKER: WorkerLoop                          *)

(* What a worker step that only moves the worker leaves alone. *)
Elsewhere == UNCHANGED <<session, configVars, u, agentVars, ghostVars>>

(* wake_.wait with nothing to do. *)
Sleep ==
  /\ pc = "check" /\ pending = <<>>
  /\ pc' = "asleep"
  /\ UNCHANGED <<history, queueVars, usage, approval, workVars, open>>
  /\ Elsewhere

(* The prompt is popped and becomes the active one, with a fresh stop       *)
(* source.                                                                  *)
Activate ==
  /\ pc = "check" /\ pending # <<>>
  /\ turn' = Head(pending)
  /\ pending' = Tail(pending)
  /\ active' = TRUE
  /\ stopped' = FALSE
  /\ pc' = "activated"
  /\ UNCHANGED <<history, gen, usage, approval, tgen, calls, k, round, planCopy,
                 open>>
  /\ Elsewhere

(* UserMessageActive is emitted; only then is the generation read.          *)
EnterTurn ==
  /\ pc = "activated"
  /\ open' = open \cup {turn}
  /\ tgen' = gen
  /\ pc' = "entered"
  /\ UNCHANGED <<history, queueVars, usage, approval, turn, calls, k, round,
                 planCopy>>
  /\ Elsewhere

(* The turn ends: FinishedEvent, then ProcessPrompt returns. *)
Finish ==
  /\ open' = open \ {turn}
  /\ pc' = "leave"

(* ProcessPrompt returns, and with it go its locals. *)
Deactivate ==
  /\ pc = "leave"
  /\ active' = FALSE
  /\ stopped' = FALSE
  /\ pc' = "notifyall"
  /\ turn' = 0 /\ tgen' = 0 /\ calls' = <<>> /\ k' = 1 /\ round' = 0
  /\ UNCHANGED <<history, pending, gen, usage, approval, planCopy, open>>
  /\ Elsewhere

(* Defect: the worker waits without looking at the queue first. *)
NotifyAllThenWait ==
  /\ pc = "notifyall"
  /\ u' = IF u = "r_sleep" THEN "r_drain" ELSE u
  /\ pc' = "asleep"
  /\ UNCHANGED <<convVars, queueVars, configVars, usage, approval, workVars,
                 agentVars, open, ghostVars>>

(* wake_.notify_all(): a reset that waits for the worker looks again. *)
NotifyAll ==
  /\ pc = "notifyall"
  /\ u' = IF u = "r_sleep" THEN "r_drain" ELSE u
  /\ pc' = "check"
  /\ UNCHANGED <<convVars, queueVars, configVars, usage, approval, workVars,
                 agentVars, open, ghostVars>>

-----------------------------------------------------------------------------
(*                       THE WORKER: ProcessPrompt                         *)

(* No provider is registered under the configured id. *)
NoProvider ==
  /\ pc = "entered"
  /\ Finish
  /\ UNCHANGED <<history, queueVars, usage, approval, workVars>>
  /\ Elsewhere

(* The generation check, then the decision whether to compact first.  A     *)
(* stale turn returns without an event.                                     *)
BeginTurn ==
  /\ pc = "entered"
  /\ pc' = IF Stale THEN "leave"
           ELSE IF heavy /\ AutoCompact # "off" THEN "compact"
           ELSE "append"
  /\ UNCHANGED <<history, queueVars, usage, approval, workVars, open>>
  /\ Elsewhere

(* RunTruncate. *)
Truncate ==
  /\ pc = "compact" /\ AutoCompact = "truncate"
  /\ history' = CompactHistory(history, AutoKeepLast)
  /\ pc' = "append"
  /\ UNCHANGED <<queueVars, usage, approval, workVars, open>>
  /\ Elsewhere

(* RunSummarize looks at what a compaction would drop, then has the         *)
(* provider summarize that, without the mutex.                              *)
Excess(h) == NonSystem(h) - AutoKeepLast

SummarySnapshot ==
  /\ pc = "compact" /\ AutoCompact = "summarize"
  /\ \/ /\ NonSystem(history) <= AutoKeepLast
        /\ pc' = "append"
        /\ UNCHANGED dropped
     \/ /\ NonSystem(history) > AutoKeepLast
        /\ pc' = "summarize"
        /\ dropped' = Excess(history)
  /\ UNCHANGED <<history, queueVars, heavy, approval, workVars, open>>
  /\ Elsewhere

(* The call returned, with a summary or with a failure that falls back to   *)
(* RunTruncate: both compute the boundaries from the history of now and     *)
(* leave one system message in the place of what goes.                      *)
SummaryReplace ==
  /\ pc = "summarize"
  /\ history' = CompactHistory(history, AutoKeepLast)
  /\ dropped' = 0
  /\ pc' = "append"
  /\ UNCHANGED <<queueVars, heavy, approval, workVars, open>>
  /\ Elsewhere

(* The prompt enters the history, unless the turn went stale: then          *)
(* ProcessPrompt returns without an event.                                  *)
AppendPrompt ==
  /\ pc = "append"
  /\ \/ /\ ~Stale
        /\ history' = Append(history, UserMessage(turn))
        /\ pc' = "build"
     \/ /\ Stale
        /\ pc' = "leave"
        /\ UNCHANGED history
  /\ UNCHANGED <<queueVars, usage, approval, workVars, open>>
  /\ Elsewhere

(* BuildRoundRequest begins with a snapshot of the configuration; a         *)
(* Build-mode request is to carry the reminder of an approved plan.         *)
SnapshotConfig ==
  /\ pc = "build"
  /\ pc' = "request"
  /\ planCopy' = IF mode = "Build" THEN switchPath ELSE None
  /\ UNCHANGED <<history, queueVars, usage, approval, turn, tgen, calls, k,
                 round, open>>
  /\ Elsewhere

(* Then the history is read under the mutex, behind the generation check.   *)
(* A stale turn emits its cancellation and Finished.                        *)
SendRequest ==
  /\ pc = "request"
  /\ \/ /\ ~Stale
        /\ pc' = IF planCopy = None THEN "stream" ELSE "remind"
        /\ round' = round + 1
        /\ UNCHANGED <<open, planCopy>>
     \/ /\ Stale
        /\ Finish
        /\ planCopy' = None
        /\ UNCHANGED round
  /\ UNCHANGED <<history, queueVars, usage, approval, turn, tgen, calls, k>>
  /\ Elsewhere

(* on_build_switch_reminder_used: the reminder that was sent is used up,    *)
(* unless another one has taken its place.                                  *)
UseReminder ==
  /\ pc = "remind"
  /\ pc' = "stream"
  /\ switchPath' = IF switchPath = planCopy THEN None ELSE switchPath
  /\ planCopy' = None
  /\ UNCHANGED <<convVars, queueVars, mode, planPath, usage, approval, turn,
                 tgen, calls, k, round, u, agentVars, open, ghostVars>>

(* The sink gets a usage report: it checks the generation...                *)
ReportUsage ==
  /\ pc = "stream"
  /\ pc' = IF Stale THEN "streamed" ELSE "usage"
  /\ UNCHANGED <<history, queueVars, usage, approval, workVars, open>>
  /\ Elsewhere

(* ...and stores the report under the mutex. *)
StoreUsage ==
  /\ pc = "usage"
  /\ heavy' \in BOOLEAN /\ UNCHANGED dropped
  /\ pc' = "streamed"
  /\ UNCHANGED <<history, queueVars, approval, workVars, open>>
  /\ Elsewhere

(* CompleteStream returned.  A stale round is aborted; an error or an empty *)
(* answer ends the turn; text goes to the final append, tools to a tool     *)
(* round.                                                                   *)
StreamEnds ==
  /\ pc \in {"stream", "streamed"}
  /\ \/ Finish /\ UNCHANGED calls
     \/ ~Stale /\ pc' = "final" /\ UNCHANGED <<calls, open>>
     \/ /\ ~Stale /\ round < MaxRounds
        /\ calls' \in ToolRounds
        /\ pc' = "calls"
        /\ UNCHANGED open
  /\ UNCHANGED <<history, queueVars, usage, approval, turn, tgen, k, round,
                 planCopy>>
  /\ Elsewhere

(* AppendAssistantToolRound under the mutex, behind the generation check. *)
AppendCalls ==
  /\ pc = "calls"
  /\ \/ /\ ~Stale
        /\ history' = Append(history, CallsMessage(turn, round, Len(calls)))
        /\ k' = 1
        /\ pc' = "prepare"
        /\ UNCHANGED open
     \/ /\ Stale
        /\ Finish
        /\ UNCHANGED <<history, k>>
  /\ UNCHANGED <<queueVars, usage, approval, turn, tgen, calls, round,
                 planCopy>>
  /\ Elsewhere

(* AppendFinalAssistantMessage; the turn is over either way. *)
AppendFinal ==
  /\ pc = "final"
  /\ history' = IF Stale THEN history
                ELSE Append(history, FinalMessage(turn, round))
  /\ Finish
  /\ UNCHANGED <<queueVars, usage, approval, workVars>>
  /\ Elsewhere

-----------------------------------------------------------------------------
(*                       THE WORKER: ToolRoundRunner                       *)

Tool == calls[k]

(* PlanModePermissionError: Plan mode refuses the tools that change files. *)
Denied(tool) == mode = "Plan" /\ tool = "write"

NeedsApproval(tool) == tool \in {"write", "exit"}

(* Defect: a call that cannot be prepared is skipped without a result. *)
PrepareOrSkip ==
  /\ pc = "prepare"
  /\ \/ pc' = "next"
     \/ /\ ~Denied(Tool)
        /\ pc' = IF NeedsApproval(Tool) THEN "gate" ELSE "execute"
  /\ UNCHANGED <<history, queueVars, usage, approval, workVars, open>>
  /\ Elsewhere

(* PrepareOneToolCall: a call that is denied in Plan mode, or whose         *)
(* arguments do not validate, gets an error result at once.                 *)
PrepareTool ==
  /\ pc = "prepare"
  /\ \/ pc' = "record"
     \/ /\ ~Denied(Tool)
        /\ pc' = IF NeedsApproval(Tool) THEN "gate" ELSE "execute"
  /\ UNCHANGED <<history, queueVars, usage, approval, workVars, open>>
  /\ Elsewhere

(* MaybeAwaitApproval with the approval gate in hand: a stopped turn leaves *)
(* the tool round, any other one asks.                                      *)
RequestApproval ==
  /\ pc = "gate"
  /\ \/ stopped /\ pc' = "roundend" /\ UNCHANGED approval
     \/ ~stopped /\ pc' = "await" /\ approval' = "asked"
  /\ UNCHANGED <<history, queueVars, usage, workVars, open>>
  /\ Elsewhere

(* Defect: the answer counts even when the turn has been stopped. *)
ApprovedAnyway == approval = "yes"

(* WaitForResolution returns, and the entry is erased.  A stop wins over    *)
(* any answer; without approval the result is the rejection.                *)
Approved == approval = "yes" /\ ~stopped

WaitForResolution ==
  /\ pc = "await"
  /\ approval # "asked" \/ stopped
  /\ pc' = IF Approved THEN "execute" ELSE "record"
  /\ approval' = "none"
  /\ UNCHANGED <<history, queueVars, usage, workVars, open>>
  /\ Elsewhere

(* Defect: the mode is only checked when the call is prepared. *)
ExecuteUnchecked ==
  /\ pc = "execute"
  /\ pc' = IF Tool # "exit" THEN "running" ELSE "record"
  /\ UNCHANGED <<history, queueVars, usage, approval, workVars, open>>
  /\ Elsewhere

(* ExecuteOneToolCall looks at the mode again.  For plan_exit,              *)
(* ApplyApprovedPlanExit reads the plan's path under the mutex.             *)
ExecuteTool ==
  /\ pc = "execute"
  /\ pc' = IF Denied(Tool) THEN "record"
           ELSE IF Tool # "exit" THEN "running"
           ELSE IF mode = "Plan" /\ planPath # None THEN "planexit"
           ELSE "record"
  /\ planCopy' = IF pc' = "planexit" THEN planPath ELSE planCopy
  /\ UNCHANGED <<history, queueVars, usage, approval, turn, tgen, calls, k,
                 round, open>>
  /\ Elsewhere

(* The tool ran; it returned a result or an error. *)
FinishTool ==
  /\ pc = "running"
  /\ pc' = "record"
  /\ UNCHANGED <<history, queueVars, usage, approval, workVars, open>>
  /\ Elsewhere

(* ApplyApprovedPlanExit: the plan is written without the mutex; unless     *)
(* that fails, the mode is switched and the reminder queued under it, for   *)
(* the path that was read before.                                           *)
ApplyPlanExit ==
  /\ pc = "planexit"
  /\ pc' = "record"
  /\ \/ mode' = "Build" /\ switchPath' = planCopy
     \/ UNCHANGED <<mode, switchPath>>
  /\ planCopy' = None
  /\ UNCHANGED <<convVars, queueVars, planPath, usage, approval, turn, tgen,
                 calls, k, round, u, agentVars, open, ghostVars>>

(* Defect: the result is appended without the generation check. *)
RecordUnguarded ==
  /\ pc = "record"
  /\ history' = Append(history, ResultMessage(turn, round, k))
  /\ pc' = "next"
  /\ UNCHANGED <<queueVars, usage, approval, workVars, open>>
  /\ Elsewhere

(* AppendToolResult, behind the generation check. *)
RecordResult ==
  /\ pc = "record"
  /\ \/ /\ ~Stale
        /\ history' = Append(history, ResultMessage(turn, round, k))
        /\ pc' = "next"
     \/ /\ Stale
        /\ pc' = "roundend"
        /\ UNCHANGED history
  /\ UNCHANGED <<queueVars, usage, approval, workVars, open>>
  /\ Elsewhere

(* Defect: the loop over the tools of a round runs one too far. *)
MoreToolsByOne == ~stopped /\ k <= Len(calls)

(* The stop token is looked at before the next tool of the round. *)
MoreTools == ~stopped /\ k < Len(calls)

NextTool ==
  /\ pc = "next"
  /\ \/ /\ MoreTools
        /\ k' = k + 1
        /\ pc' = "prepare"
     \/ /\ ~MoreTools
        /\ pc' = "roundend"
        /\ UNCHANGED k
  /\ UNCHANGED <<history, queueVars, usage, approval, turn, tgen, calls, round,
                 planCopy, open>>
  /\ Elsewhere

(* Back in ProcessPrompt: a stopped or stale turn is cancelled, any other   *)
(* one goes to its next round.                                              *)
EndRound ==
  /\ pc = "roundend"
  /\ \/ (stopped \/ Stale) /\ Finish
     \/ ~stopped /\ ~Stale /\ pc' = "build" /\ UNCHANGED open
  /\ calls' = <<>> /\ k' = 1
  /\ UNCHANGED <<history, queueVars, usage, approval, turn, tgen, round,
                 planCopy>>
  /\ Elsewhere

-----------------------------------------------------------------------------
ClientChoice ==
  \/ SubmitUserMessage \/ CancelActiveResponse \/ ResolveToolApproval
  \/ \E m \in {"Build", "Plan"} : SetAgentMode(m)
  \/ CompactConversation \/ ResetBump

ClientStep ==
  \/ SubmitNotify \/ ResetStop \/ ResetDrain \/ DrainExpires \/ ResetClear
  \/ ResetCancelAgents \/ ResetJoin \/ ResetApprovals

AgentStep(a) == InjectSubAgentContinuation(a) \/ InjectNotify(a)

TurnStep ==
  \/ Sleep \/ Activate \/ EnterTurn \/ Deactivate \/ NotifyAll
  \/ NoProvider \/ BeginTurn \/ Truncate \/ SummarySnapshot \/ SummaryReplace
  \/ AppendPrompt \/ SnapshotConfig \/ SendRequest \/ UseReminder
  \/ ReportUsage \/ StoreUsage \/ StreamEnds \/ AppendCalls \/ AppendFinal

ToolStep ==
  \/ PrepareTool \/ RequestApproval \/ WaitForResolution \/ ExecuteTool
  \/ FinishTool \/ ApplyPlanExit \/ RecordResult \/ NextTool \/ EndRound

WorkerStep == TurnStep \/ ToolStep

Next ==
  \/ ClientChoice \/ ClientStep \/ WorkerStep
  \/ \E a \in Agents : SpawnBackground(a) \/ AgentStep(a)

Spec == Init /\ [][Next]_vars

(* The threads run: the worker and the tools and streams it calls, a client *)
(* inside a call (where the drain budget is a timer), a sub-agent (its      *)
(* watchdog bounds it).  The user owes nothing: no choice of the client is  *)
(* fair, so an approval may stay unanswered for ever.                       *)
Fairness ==
  /\ WF_vars(WorkerStep)
  /\ WF_vars(ClientStep)
  /\ \A a \in Agents : WF_vars(AgentStep(a))

FairSpec == Spec /\ Fairness

-----------------------------------------------------------------------------
(*                               PROPERTIES                                *)

(* Every request reaches the provider with the prompt it is about, even     *)
(* when the conversation is reset, or compacted, while the turn is between  *)
(* its append and its request (the window the second generation bump of     *)
(* ResetConversation is there to close).                                    *)
SentWithPrompt ==
  [][pc = "request" /\ pc' \in {"remind", "stream"} =>
       HasPrompt(history, turn)]_vars

(* A prompt is never left in the queue with the worker asleep and nobody    *)
(* about to wake it, although ResetConversation sleeps on the same          *)
(* condition variable and submitters use notify_one.                        *)
NoSleepOnWork ==
  pc = "asleep" /\ pending # <<>> =>
    u = "notify" \/ \E a \in Agents : agent[a].at = "notify"

(* Every tool request in the history has all its answers, unless its round  *)
(* is still running or the user cut its turn short: no error, rejection,    *)
(* failed preparation or compaction loses a tool result.                    *)
RequestsAnswered ==
  \A i \in DOMAIN history : history[i].role = "calls" =>
    LET m == history[i] IN
      \/ \A j \in 1..m.n : Answered(history, i, m.turn, m.round, j)
      \/ m.turn = turn /\ m.round = round /\ pc \in ToolPhase
      \/ m.turn \in cut

(* Once a turn has been told to stop while it waits for an approval, no     *)
(* later answer of the user gets its tool executed.                         *)
LateApprovalIgnored == [][pc = "await" /\ stopped => pc' # "execute"]_vars

(* No tool that changes files starts in Plan mode, even when the mode was   *)
(* switched between the preparation of the call and its approval.           *)
PlanModeReadOnly ==
  [][pc # "running" /\ pc' = "running" /\ calls[k] = "write" =>
       mode = "Build"]_vars

(* What the threads do to the history is a transcript: see that module.     *)
Pen == IF pc \in Posted /\ ~Stale THEN turn ELSE 0

T == INSTANCE Transcript WITH
       history <- history, pen <- Pen,
       Turns <- 1..(MaxPrompts + Cardinality(Agents)),
       Rounds <- 0..MaxRounds,
       Sizes <- {Len(tools) : tools \in ToolRounds}

IsTranscript == T!Spec

(* A prompt of the user is only ever queued or answered in the conversation *)
(* it was typed in.                                                         *)
OfThisConversation(t) == prompts[t].conv = session

PromptsStayInConversation ==
  /\ \A i \in DOMAIN pending :
        prompts[pending[i]].by = "client" => OfThisConversation(pending[i])
  /\ \A i \in DOMAIN history :
        history[i].role # "system" /\ prompts[history[i].turn].by = "client" =>
          OfThisConversation(history[i].turn)

(* The reminder of an approved plan, and the plan file that plan_exit       *)
(* writes, belong to the conversation the plan was made in.                 *)
PlanStaysInConversation ==
  /\ switchPath \in {None, session}
  /\ planPath \in {None, session}

(* A queued prompt leaves the queue, unless the worker is kept by an        *)
(* approval the user never answers.                                         *)
Queued(t) == \E i \in DOMAIN pending : pending[i] = t

PromptsServed ==
  \A t \in 1..(MaxPrompts + Cardinality(Agents)) :
    Queued(t) ~> (~Queued(t) \/ pc = "await")

(* ResetConversation returns to the UI thread. *)
ResetReturns == u \in Resetting ~> u = "idle"

(* Stated by the code, and refuted: every turn the UI was told is active is *)
(* closed by a FinishedEvent, or by the clearing of the conversation.       *)
ActiveTurnsFinish ==
  \A t \in 1..(MaxPrompts + Cardinality(Agents)) :
    t \in open ~> (t \notin open \/ pc = "await")

(* Stated by the code, and refuted: the slice a summary replaces is the one *)
(* it was made of, so that nothing leaves the history unsummarized.         *)
SummaryCoversDropped ==
  [][pc = "summarize" /\ pc' # "summarize" => Excess(history) <= dropped]_vars

(* Stated by a test, and refuted: a reset leaves nothing behind; once it    *)
(* has returned, whatever is queued or in the history belongs to the        *)
(* conversation it started.                                                 *)
NothingOutlivesReset ==
  u = "idle" =>
    /\ \A i \in DOMAIN pending : OfThisConversation(pending[i])
    /\ \A i \in DOMAIN history :
          history[i].role # "system" => OfThisConversation(history[i].turn)
=============================================================================
