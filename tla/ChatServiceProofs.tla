-------------------------- MODULE ChatServiceProofs --------------------------
(***************************************************************************)
(* Proofs about ChatService for every set of agents and every bound: the   *)
(* type invariant, that every request carries its prompt, that no prompt   *)
(* is slept on, and that Plan mode starts no tool that changes files.      *)
(* Then the history: every tool request in it has its answers, unless the  *)
(* user cut the turn short, whatever the threads do and however the        *)
(* history is compacted.  Last the conversation as a whole: what a reset   *)
(* separates, and the refinement of Transcript.                            *)
(***************************************************************************)
EXTENDS ChatService, TLAPS, FiniteSetTheorems

-----------------------------------------------------------------------------
(*                      LEMMAS ABOUT THE HISTORY                           *)

(* Counting the system messages of a history gives a natural number. *)
LEMMA LeadingType ==
  ASSUME NEW h \in Seq(Messages)
  PROVE  Leading(h) \in Nat
<1>1. IsFiniteSet(1..Len(h))
  BY FS_Interval
<1>2. {i \in DOMAIN h : h[i].role = "system"} \subseteq 1..Len(h)
  OBVIOUS
<1>3. IsFiniteSet({i \in DOMAIN h : h[i].role = "system"})
  BY <1>1, <1>2, FS_Subset
<1> QED
  BY <1>3, FS_CardinalityType DEF Leading

(* The notice is a message, and so is everything the appends write. *)
LEMMA MessageTypes ==
  /\ Notice \in Messages
  /\ \A t \in Nat : UserMessage(t) \in Messages
  /\ \A t, r, n \in Nat : /\ CallsMessage(t, r, n) \in Messages
                          /\ ResultMessage(t, r, n) \in Messages
                          /\ FinalMessage(t, r) \in Messages
BY DEF Notice, UserMessage, CallsMessage, ResultMessage, FinalMessage, Message,
       Messages, Roles

(* A history with one more message is a history. *)
LEMMA AppendType ==
  ASSUME NEW h \in Seq(Messages), NEW e \in Messages
  PROVE  Append(h, e) \in Seq(Messages)
OBVIOUS

(* A compacted history is a history. *)
LEMMA CompactType ==
  ASSUME NEW h \in Seq(Messages), NEW keep \in Nat
  PROVE  CompactHistory(h, keep) \in Seq(Messages)
<1>1. CASE NonSystem(h) <= keep
  BY <1>1 DEF CompactHistory
<1>2. CASE ~(NonSystem(h) <= keep)
  <2>1. Leading(h) \in Nat /\ Len(h) \in Nat
    BY LeadingType
  <2>2. Leading(h) < Len(h) /\ keep < Len(h)
    BY <1>2, <2>1 DEF NonSystem
  <2>3. SubSeq(h, 1, Leading(h)) \in Seq(Messages)
    BY <2>1, <2>2
  <2>4. SubSeq(h, Len(h) - keep + 1, Len(h)) \in Seq(Messages)
    BY <2>1, <2>2
  <2>5. <<Notice>> \in Seq(Messages)
    BY MessageTypes
  <2> QED
    BY <1>2, <2>3, <2>4, <2>5 DEF CompactHistory
<1> QED
  BY <1>1, <1>2

(* Appending a message loses no prompt. *)
LEMMA AppendKeepsPrompt ==
  ASSUME NEW h \in Seq(Messages), NEW e \in Messages, NEW t, HasPrompt(h, t)
  PROVE  HasPrompt(Append(h, e), t)
BY DEF HasPrompt

(* Appending the prompt of a turn gives the turn its prompt. *)
LEMMA AppendPromptHas ==
  ASSUME NEW h \in Seq(Messages), NEW t \in Nat
  PROVE  HasPrompt(Append(h, UserMessage(t)), t)
<1>1. UserMessage(t) \in Messages
  BY MessageTypes
<1>2. Append(h, UserMessage(t))[Len(h) + 1] = UserMessage(t)
  BY <1>1
<1>3. Len(h) + 1 \in DOMAIN Append(h, UserMessage(t))
  BY <1>1
<1> QED
  BY <1>2, <1>3 DEF HasPrompt

-----------------------------------------------------------------------------
(*                           TYPE CORRECTNESS                              *)

(* The first state has the types.                                           *)
LEMMA InitType == Init => TypeOK
<1> SUFFICES ASSUME Init PROVE TypeOK
  OBVIOUS
<1>1. history \in Seq(Messages) /\ pending \in Seq(Nat)
        /\ calls \in Seq(Tools)
        /\ prompts \in Seq([conv : Nat, by : {"client"} \cup Agents])
  BY DEF Init
<1>2. agent \in [Agents -> [at : AgentPlaces, conv : Nat]]
  BY DEF Init, AgentPlaces
<1>3. pc \in Places /\ pc \in Resting /\ u \in ClientPlaces
        /\ pc \notin ToolPhase \cup {"calls"}
  BY DEF Init, Places, Resting, ToolPhase, ClientPlaces
<1>4. /\ session \in Nat \ {0} /\ gen \in Nat /\ turn \in Nat /\ tgen \in Nat
      /\ k \in Nat \ {0} /\ round \in Nat /\ planCopy \in Nat
      /\ planPath \in Nat /\ switchPath \in Nat /\ dropped \in Nat
      /\ cancels \in Nat /\ resets \in Nat
  BY DEF Init, None
<1>5. active = FALSE /\ stopped = FALSE /\ heavy = FALSE /\ approval = "none"
        /\ mode \in {"Build", "Plan"} /\ joining = {} /\ open = {} /\ cut = {}
  BY DEF Init
<1> QED
  BY <1>1, <1>2, <1>3, <1>4, <1>5 DEF TypeOK

(* What the client does keeps the types. *)
LEMMA ClientChoiceType == TypeOK /\ ClientChoice => TypeOK'
<1> SUFFICES ASSUME TypeOK, ClientChoice PROVE TypeOK'
  OBVIOUS
<1> USE DEF TypeOK, convVars, queueVars, configVars, usage, workVars,
            agentVars, ghostVars
<1>1. CASE SubmitUserMessage
  <2>1. NewId \in Nat
    BY DEF NewId
  <2>2. [conv |-> session, by |-> "client"]
          \in [conv : Nat, by : {"client"} \cup Agents]
    OBVIOUS
  <2>3. prompts' \in Seq([conv : Nat, by : {"client"} \cup Agents])
    BY <1>1, <2>2 DEF SubmitUserMessage
  <2>4. pending' \in Seq(Nat)
    BY <1>1, <2>1 DEF SubmitUserMessage
  <2>5. planPath' \in Nat /\ u' \in ClientPlaces
    BY <1>1 DEF SubmitUserMessage, ClientPlaces
  <2> QED
    BY <1>1, <2>3, <2>4, <2>5 DEF SubmitUserMessage
<1>2. CASE CancelActiveResponse
  BY <1>2 DEF CancelActiveResponse, CancelPending
<1>3. CASE ResolveToolApproval
  BY <1>3 DEF ResolveToolApproval
<1>4. CASE \E m \in {"Build", "Plan"} : SetAgentMode(m)
  BY <1>4 DEF SetAgentMode
<1>5. CASE CompactConversation
  BY <1>5, CompactType, KeepAssumption DEF CompactConversation
<1>6. CASE ResetBump
  BY <1>6 DEF ResetBump, ClientPlaces, Resetting
<1> QED
  BY <1>1, <1>2, <1>3, <1>4, <1>5, <1>6 DEF ClientChoice

(* So does what a call of the client goes on to do. *)
LEMMA ClientStepType == TypeOK /\ ClientStep => TypeOK'
<1> SUFFICES ASSUME TypeOK, ClientStep PROVE TypeOK'
  OBVIOUS
<1> USE DEF TypeOK, convVars, queueVars, configVars, usage, workVars,
            agentVars, ghostVars, ClientPlaces, Resetting
<1>1. CASE SubmitNotify
  BY <1>1 DEF SubmitNotify, WorkerWoken, Places, Resting, ToolPhase
<1>2. CASE ResetStop
  BY <1>2 DEF ResetStop, QueueCleared
<1>3. CASE ResetDrain
  BY <1>3 DEF ResetDrain
<1>4. CASE DrainExpires
  BY <1>4 DEF DrainExpires
<1>5. CASE ResetClear
  <2>1. history' \in Seq(Messages)
    <3>1. history' = <<>>
      BY <1>5 DEF ResetClear
    <3> QED
      BY <3>1
  <2>4. heavy' \in BOOLEAN /\ mode' \in {"Build", "Plan"}
    BY <1>5 DEF ResetClear
  <2>2. /\ gen' \in Nat /\ session' \in Nat \ {0} /\ planPath' \in Nat
        /\ switchPath' \in Nat
    BY <1>5 DEF ResetClear, BumpedTwice, None
  <2>3. cut' \subseteq Nat /\ u' \in ClientPlaces
    BY <1>5 DEF ResetClear
  <2> QED
    BY <1>5, <2>1, <2>2, <2>3, <2>4 DEF ResetClear
<1>6. CASE ResetCancelAgents
  BY <1>6 DEF ResetCancelAgents
<1>7. CASE ResetJoin
  BY <1>7 DEF ResetJoin
<1>8. CASE ResetApprovals
  BY <1>8 DEF ResetApprovals, CancelPending
<1> QED
  BY <1>1, <1>2, <1>3, <1>4, <1>5, <1>6, <1>7, <1>8 DEF ClientStep

(* And the background agents. *)
LEMMA AgentType ==
  ASSUME TypeOK, NEW a \in Agents, SpawnBackground(a) \/ AgentStep(a)
  PROVE  TypeOK'
<1> USE DEF TypeOK, convVars, queueVars, configVars, usage, workVars,
            agentVars, ghostVars, AgentPlaces, Moved
<1>1. CASE SpawnBackground(a)
  <2>1. agent' \in [Agents -> [at : AgentPlaces, conv : Nat]]
    BY <1>1 DEF SpawnBackground
  <2> QED
    BY <1>1, <2>1 DEF SpawnBackground
<1>2. CASE InjectSubAgentContinuation(a)
  <2>1. NewId \in Nat /\ UserMessage(NewId) \in Messages
    BY MessageTypes DEF NewId
  <2>2. [conv |-> agent[a].conv, by |-> a]
          \in [conv : Nat, by : {"client"} \cup Agents]
    OBVIOUS
  <2>3. prompts' \in Seq([conv : Nat, by : {"client"} \cup Agents])
    BY <1>2, <2>2 DEF InjectSubAgentContinuation
  <2>4. pending' \in Seq(Nat) /\ history' \in Seq(Messages)
    <3>1. /\ Append(pending, NewId) \in Seq(Nat)
          /\ Append(history, UserMessage(NewId)) \in Seq(Messages)
      BY <2>1
    <3>2. \/ pending' = pending /\ history' = Append(history, UserMessage(NewId))
          \/ pending' = Append(pending, NewId) /\ history' = history
      BY <1>2 DEF InjectSubAgentContinuation
    <3> QED
      BY <3>1, <3>2
  <2>5. agent' \in [Agents -> [at : AgentPlaces, conv : Nat]]
    <3>1. agent[a].conv \in Nat
      OBVIOUS
    <3>2. /\ Moved(a, "done") \in [Agents -> [at : AgentPlaces, conv : Nat]]
          /\ Moved(a, "notify") \in [Agents -> [at : AgentPlaces, conv : Nat]]
      BY <3>1
    <3>3. agent' = Moved(a, "done") \/ agent' = Moved(a, "notify")
      BY <1>2 DEF InjectSubAgentContinuation
    <3> QED
      BY <3>2, <3>3
  <2> QED
    BY <1>2, <2>3, <2>4, <2>5 DEF InjectSubAgentContinuation
<1>3. CASE InjectNotify(a)
  BY <1>3 DEF InjectNotify, Places, Resting, ToolPhase, ClientPlaces, Resetting
<1> QED
  BY <1>1, <1>2, <1>3 DEF AgentStep

(* The worker between two prompts and in its model rounds. *)
LEMMA TurnType ==
  ASSUME TypeOK, TurnStep
  PROVE  TypeOK'
<1> USE DEF TypeOK, convVars, queueVars, configVars, usage, workVars,
            agentVars, ghostVars, Elsewhere, Places, Resting, Arriving, Posted,
            Streaming, ToolPhase
<1>1. CASE Sleep
  BY <1>1 DEF Sleep
<1>2. CASE Activate
  <2>1. Head(pending) \in Nat /\ Tail(pending) \in Seq(Nat)
    BY <1>2 DEF Activate
  <2> QED
    BY <1>2, <2>1 DEF Activate
<1>3. CASE EnterTurn
  BY <1>3 DEF EnterTurn
<1>4. CASE Deactivate
  <2>1. calls' \in Seq(Tools)
    <3>1. calls' = <<>>
      BY <1>4 DEF Deactivate
    <3> QED
      BY <3>1
  <2>2. /\ pc' = "notifyall" /\ active' = FALSE /\ stopped' = FALSE
        /\ approval' = "none"
    BY <1>4 DEF Deactivate
  <2>3. turn' \in Nat /\ tgen' \in Nat /\ k' \in Nat \ {0} /\ round' \in Nat
    BY <1>4 DEF Deactivate
  <2> QED
    BY <1>4, <2>1, <2>2, <2>3 DEF Deactivate
<1>5. CASE NotifyAll
  BY <1>5 DEF NotifyAll, Resetting, ClientPlaces
<1>6. CASE NoProvider
  BY <1>6 DEF NoProvider, Finish
<1>7. CASE BeginTurn
  BY <1>7 DEF BeginTurn
<1>8. CASE Truncate
  BY <1>8, CompactType, KeepAssumption DEF Truncate
<1>9. CASE SummarySnapshot
  BY <1>9, LeadingType, KeepAssumption DEF SummarySnapshot, Excess, NonSystem
<1>10. CASE SummaryReplace
  BY <1>10, CompactType, KeepAssumption DEF SummaryReplace
<1>11. CASE AppendPrompt
  <2>1. UserMessage(turn) \in Messages
    BY MessageTypes
  <2>2. history' \in Seq(Messages)
    <3>1. \/ history' = history
          \/ history' = Append(history, UserMessage(turn))
      BY <1>11 DEF AppendPrompt
    <3>2. Append(history, UserMessage(turn)) \in Seq(Messages)
      BY <2>1, AppendType
    <3> QED
      BY <3>1, <3>2
  <2>3. pc' \in {"build", "leave"}
    BY <1>11 DEF AppendPrompt
  <2> QED
    BY <1>11, <2>2, <2>3 DEF AppendPrompt
<1>12. CASE SnapshotConfig
  BY <1>12 DEF SnapshotConfig, None
<1>13. CASE SendRequest
  <2>1. pc' \in {"stream", "remind", "leave"} /\ open' \subseteq Nat
    BY <1>13 DEF SendRequest, Finish
  <2>2. round' \in Nat /\ planCopy' \in Nat
    BY <1>13 DEF SendRequest, None
  <2> QED
    BY <1>13, <2>1, <2>2 DEF SendRequest
<1>14. CASE UseReminder
  BY <1>14 DEF UseReminder, None
<1>15. CASE ReportUsage
  BY <1>15 DEF ReportUsage
<1>16. CASE StoreUsage
  BY <1>16 DEF StoreUsage
<1>17. CASE StreamEnds
  BY <1>17, ToolRoundsAssumption DEF StreamEnds, Finish
<1>18. CASE AppendCalls
  <2>1. Len(calls) \in Nat /\ Len(calls) >= 1
    BY <1>18 DEF AppendCalls
  <2>2. CallsMessage(turn, round, Len(calls)) \in Messages
    BY <2>1, MessageTypes
  <2>3. history' \in Seq(Messages)
    <3>1. \/ history' = history
          \/ history' = Append(history, CallsMessage(turn, round, Len(calls)))
      BY <1>18 DEF AppendCalls
    <3>2. Append(history, CallsMessage(turn, round, Len(calls))) \in Seq(Messages)
      BY <2>2, AppendType
    <3> QED
      BY <3>1, <3>2
  <2>4. CASE ~Stale
    <3>1. /\ pc' = "prepare" /\ k' = 1 /\ calls # <<>> /\ open' = open
          /\ active /\ approval = "none"
      BY <1>18, <2>4 DEF AppendCalls
    <3>2. /\ pending' = pending /\ active' = active /\ stopped' = stopped
          /\ gen' = gen /\ heavy' = heavy /\ dropped' = dropped
          /\ approval' = approval /\ turn' = turn /\ tgen' = tgen
          /\ calls' = calls /\ round' = round /\ planCopy' = planCopy
      BY <1>18 DEF AppendCalls
    <3>3. /\ session' = session /\ mode' = mode /\ planPath' = planPath
          /\ switchPath' = switchPath /\ u' = u /\ agent' = agent
          /\ joining' = joining /\ prompts' = prompts /\ cut' = cut
          /\ cancels' = cancels /\ resets' = resets
      BY <1>18 DEF AppendCalls
    <3> QED
      BY <2>1, <2>3, <3>1, <3>2, <3>3
  <2>5. CASE Stale
    BY <1>18, <2>3, <2>5 DEF AppendCalls, Finish
  <2> QED
    BY <2>4, <2>5
<1>19. CASE AppendFinal
  BY <1>19, MessageTypes DEF AppendFinal, Finish
<1> QED
  BY <1>1, <1>2, <1>3, <1>4, <1>5, <1>6, <1>7, <1>8, <1>9, <1>10, <1>11, <1>12, <1>13, <1>14, <1>15, <1>16, <1>17, <1>18, <1>19 DEF TurnStep


(* The worker in a tool round. *)
LEMMA ToolType ==
  ASSUME TypeOK, ToolStep
  PROVE  TypeOK'
<1> USE DEF TypeOK, convVars, queueVars, configVars, usage, workVars,
            agentVars, ghostVars, Elsewhere, Places, Resting, Arriving, Posted,
            Streaming, ToolPhase
<1>1. CASE PrepareTool
  BY <1>1 DEF PrepareTool
<1>2. CASE RequestApproval
  BY <1>2 DEF RequestApproval
<1>3. CASE WaitForResolution
  BY <1>3 DEF WaitForResolution, Approved
<1>4. CASE ExecuteTool
  BY <1>4 DEF ExecuteTool
<1>5. CASE FinishTool
  BY <1>5 DEF FinishTool
<1>6. CASE ApplyPlanExit
  BY <1>6 DEF ApplyPlanExit, None
<1>7. CASE RecordResult
  <2>1. ResultMessage(turn, round, k) \in Messages
    BY MessageTypes
  <2>2. history' \in Seq(Messages)
    <3>1. \/ history' = history
          \/ history' = Append(history, ResultMessage(turn, round, k))
      BY <1>7 DEF RecordResult
    <3>2. Append(history, ResultMessage(turn, round, k)) \in Seq(Messages)
      BY <2>1, AppendType
    <3> QED
      BY <3>1, <3>2
  <2>3. pc' \in {"next", "roundend"} /\ calls # <<>>
    BY <1>7 DEF RecordResult
  <2> QED
    BY <1>7, <2>2, <2>3 DEF RecordResult
<1>8. CASE NextTool
  BY <1>8 DEF NextTool, MoreTools
<1>9. CASE EndRound
  <2>1. calls' \in Seq(Tools)
    <3>1. calls' = <<>>
      BY <1>9 DEF EndRound
    <3> QED
      BY <3>1
  <2>2. pc' \in {"leave", "build"} /\ open' \subseteq Nat /\ k' = 1
    BY <1>9 DEF EndRound, Finish
  <2> QED
    BY <1>9, <2>1, <2>2 DEF EndRound
<1> QED
  BY <1>1, <1>2, <1>3, <1>4, <1>5, <1>6, <1>7, <1>8, <1>9 DEF ToolStep

(* A step that changes nothing keeps the types. *)
LEMMA StutterType == TypeOK /\ UNCHANGED vars => TypeOK'
BY DEF TypeOK, vars, convVars, queueVars, configVars, usage, workVars,
       agentVars, ghostVars

(* Every thread keeps them.                                                 *)
LEMMA NextType == TypeOK /\ [Next]_vars => TypeOK'
<1> SUFFICES ASSUME TypeOK, [Next]_vars PROVE TypeOK'
  OBVIOUS
<1>1. CASE ClientChoice
  BY <1>1, ClientChoiceType
<1>2. CASE ClientStep
  BY <1>2, ClientStepType
<1>3. CASE WorkerStep
  BY <1>3, TurnType, ToolType DEF WorkerStep
<1>4. CASE \E a \in Agents : SpawnBackground(a) \/ AgentStep(a)
  BY <1>4, AgentType
<1>5. CASE UNCHANGED vars
  BY <1>5, StutterType
<1> QED
  BY <1>1, <1>2, <1>3, <1>4, <1>5 DEF Next

(* Whatever the threads do, every variable keeps its type, the worker has   *)
(* an active prompt exactly while it is not at rest, an approval is pending *)
(* only while the worker waits for it, and the tool being handled is one of *)
(* the round's.                                                             *)
THEOREM TypeCorrect == Spec => []TypeOK
<1>1. Init => TypeOK
  BY InitType
<1>2. TypeOK /\ [Next]_vars => TypeOK'
  BY NextType
<1> QED
  BY <1>1, <1>2, PTL DEF Spec

-----------------------------------------------------------------------------
(*                    REQUESTS CARRY THEIR PROMPT                          *)

(* What makes it so: a turn never runs ahead of the generation, and a turn  *)
(* that is past its append and not stale has its prompt in the history.     *)
PromptInv ==
  /\ tgen <= gen
  /\ pc \in Posted /\ tgen = gen => HasPrompt(history, turn)

(* A reset moves the generation on, and no other call of the client touches *)
(* the history or the turn.                                                 *)
LEMMA PromptClient ==
  ASSUME TypeOK, PromptInv, ClientChoice \/ ClientStep
  PROVE  PromptInv'
<1> USE DEF convVars, queueVars, configVars, usage, workVars, agentVars,
            ghostVars
<1>1. tgen \in Nat /\ gen \in Nat /\ tgen' = tgen /\ turn' = turn
  BY DEF TypeOK, ClientChoice, ClientStep, SubmitUserMessage,
         CancelActiveResponse, ResolveToolApproval, SetAgentMode,
         CompactConversation, ResetBump, SubmitNotify, ResetStop, ResetDrain,
         DrainExpires, ResetClear, ResetCancelAgents, ResetJoin, ResetApprovals
<1>2. CASE CancelActiveResponse \/ ResetBump \/ ResetClear
  <2>1. gen' = gen + 1
    BY <1>2 DEF CancelActiveResponse, ResetBump, ResetClear, BumpedTwice
  <2> QED
    BY <1>1, <2>1 DEF PromptInv
<1>3. CASE CompactConversation
  <2>1. pc' = pc /\ pc \in Resting /\ gen' = gen
    BY <1>3 DEF CompactConversation, TypeOK
  <2>2. pc' \notin Posted
    BY <2>1 DEF Resting, Posted, Streaming, ToolPhase
  <2> QED
    BY <1>1, <2>1, <2>2 DEF PromptInv
<1>4. CASE SubmitNotify
  <2>1. gen' = gen /\ history' = history
    BY <1>4 DEF SubmitNotify
  <2>2. pc' \in Posted => pc \in Posted
    BY <1>4 DEF SubmitNotify, WorkerWoken, Posted, Streaming, ToolPhase
  <2> QED
    BY <1>1, <2>1, <2>2 DEF PromptInv, HasPrompt
<1>5. CASE \/ SubmitUserMessage \/ ResolveToolApproval
           \/ \E m \in {"Build", "Plan"} : SetAgentMode(m)
           \/ ResetStop \/ ResetDrain \/ DrainExpires \/ ResetCancelAgents
           \/ ResetJoin \/ ResetApprovals
  <2>1. gen' = gen /\ history' = history /\ pc' = pc
    BY <1>5 DEF SubmitUserMessage, ResolveToolApproval, SetAgentMode, ResetStop,
                ResetDrain, DrainExpires, ResetCancelAgents, ResetJoin,
                ResetApprovals
  <2> QED
    BY <1>1, <2>1 DEF PromptInv, HasPrompt
<1> QED
  BY <1>2, <1>3, <1>4, <1>5 DEF ClientChoice, ClientStep

(* An agent only queues, or adds its own continuation to the history.       *)
LEMMA PromptAgent ==
  ASSUME TypeOK, PromptInv, NEW a \in Agents, SpawnBackground(a) \/ AgentStep(a)
  PROVE  PromptInv'
<1> USE DEF convVars, queueVars, configVars, usage, workVars, agentVars,
            ghostVars
<1>1. gen' = gen /\ tgen' = tgen /\ turn' = turn
  BY DEF AgentStep, SpawnBackground, InjectSubAgentContinuation, InjectNotify
<1>2. pc' \in Posted => pc \in Posted
  BY DEF AgentStep, SpawnBackground, InjectSubAgentContinuation, InjectNotify,
         Posted, Streaming, ToolPhase
<1>3. history' = history \/ history' = Append(history, UserMessage(NewId))
  BY DEF AgentStep, SpawnBackground, InjectSubAgentContinuation, InjectNotify
<1>4. UserMessage(NewId) \in Messages /\ history \in Seq(Messages)
  BY MessageTypes DEF TypeOK, NewId
<1>5. HasPrompt(history, turn) => HasPrompt(history', turn)
  BY <1>3, <1>4, AppendKeepsPrompt
<1> QED
  BY <1>1, <1>2, <1>5 DEF PromptInv, HasPrompt

(* The turn adds its prompt before it posts a request.                      *)
LEMMA PromptTurn ==
  ASSUME TypeOK, PromptInv, TurnStep
  PROVE  PromptInv'
<1> USE DEF convVars, queueVars, configVars, usage, workVars, agentVars,
            ghostVars, Elsewhere
<1>0. /\ tgen \in Nat /\ gen \in Nat /\ turn \in Nat /\ round \in Nat
      /\ history \in Seq(Messages) /\ Len(calls) \in Nat
  BY DEF TypeOK
<1>1. CASE \/ Sleep \/ Activate \/ EnterTurn \/ Deactivate \/ NotifyAll
           \/ NoProvider \/ BeginTurn \/ Truncate \/ SummarySnapshot
           \/ SummaryReplace
  <2>1. gen' = gen
    BY <1>1 DEF Sleep, Activate, EnterTurn, Deactivate, NotifyAll, NoProvider,
                BeginTurn, Truncate, SummarySnapshot, SummaryReplace
  <2>2. tgen' \in {0, gen, tgen}
    BY <1>1 DEF Sleep, Activate, EnterTurn, Deactivate, NotifyAll, NoProvider,
                BeginTurn, Truncate, SummarySnapshot, SummaryReplace
  <2>3. pc' \notin Posted
    BY <1>1 DEF Sleep, Activate, EnterTurn, Deactivate, NotifyAll, NoProvider,
                BeginTurn, Truncate, SummarySnapshot, SummaryReplace, Finish,
                Posted, Streaming, ToolPhase
  <2> QED
    BY <1>0, <2>1, <2>2, <2>3 DEF PromptInv
<1>2. CASE AppendPrompt
  <2>1. gen' = gen /\ tgen' = tgen /\ turn' = turn
    BY <1>2 DEF AppendPrompt
  <2>2. CASE ~Stale
    <3>1. history' = Append(history, UserMessage(turn))
      BY <1>2, <2>2 DEF AppendPrompt
    <3>2. HasPrompt(history', turn')
      BY <1>0, <2>1, <3>1, AppendPromptHas
    <3> QED
      BY <1>0, <2>1, <3>2 DEF PromptInv, HasPrompt
  <2>3. CASE Stale
    BY <1>0, <2>1, <2>3 DEF PromptInv, Stale
  <2> QED
    BY <2>2, <2>3
<1>3. CASE \/ SnapshotConfig \/ SendRequest \/ UseReminder \/ ReportUsage
           \/ StoreUsage \/ StreamEnds
  <2>1. gen' = gen /\ tgen' = tgen /\ turn' = turn /\ history' = history
    BY <1>3 DEF SnapshotConfig, SendRequest, UseReminder, ReportUsage,
                StoreUsage, StreamEnds
  <2>2. pc \in Posted
    BY <1>3 DEF SnapshotConfig, SendRequest, UseReminder, ReportUsage,
                StoreUsage, StreamEnds, Posted, Streaming
  <2> QED
    BY <2>1, <2>2 DEF PromptInv, HasPrompt
<1>4. CASE AppendCalls \/ AppendFinal
  <2>1. gen' = gen /\ tgen' = tgen /\ turn' = turn /\ pc \in Posted
    BY <1>4 DEF AppendCalls, AppendFinal, Posted
  <2>2. \/ history' = history
        \/ history' = Append(history, CallsMessage(turn, round, Len(calls)))
        \/ history' = Append(history, FinalMessage(turn, round))
    BY <1>4 DEF AppendCalls, AppendFinal
  <2>3. HasPrompt(history, turn) => HasPrompt(history', turn)
    BY <1>0, <2>2, MessageTypes, AppendKeepsPrompt
  <2> QED
    BY <2>1, <2>3 DEF PromptInv, HasPrompt
<1> QED
  BY <1>1, <1>2, <1>3, <1>4 DEF TurnStep

(* A tool adds results behind it.                                           *)
LEMMA PromptTool ==
  ASSUME TypeOK, PromptInv, ToolStep
  PROVE  PromptInv'
<1> USE DEF convVars, queueVars, configVars, usage, workVars, agentVars,
            ghostVars, Elsewhere
<1>1. gen' = gen /\ tgen' = tgen /\ turn' = turn
  BY DEF ToolStep, PrepareTool, RequestApproval, WaitForResolution, ExecuteTool,
         FinishTool, ApplyPlanExit, RecordResult, NextTool, EndRound
<1>2. pc \in Posted
  BY DEF ToolStep, PrepareTool, RequestApproval, WaitForResolution, ExecuteTool,
         FinishTool, ApplyPlanExit, RecordResult, NextTool, EndRound, Posted,
         ToolPhase
<1>3. \/ history' = history
      \/ history' = Append(history, ResultMessage(turn, round, k))
  BY DEF ToolStep, PrepareTool, RequestApproval, WaitForResolution, ExecuteTool,
         FinishTool, ApplyPlanExit, RecordResult, NextTool, EndRound
<1>4. HasPrompt(history, turn) => HasPrompt(history', turn)
  BY <1>3, MessageTypes, AppendKeepsPrompt DEF TypeOK
<1> QED
  BY <1>1, <1>2, <1>4 DEF PromptInv, HasPrompt

(* So it holds after every step.                                            *)
LEMMA PromptNext == TypeOK /\ PromptInv /\ [Next]_vars => PromptInv'
<1> SUFFICES ASSUME TypeOK, PromptInv, [Next]_vars PROVE PromptInv'
  OBVIOUS
<1>1. CASE UNCHANGED vars
  BY <1>1 DEF PromptInv, HasPrompt, vars, convVars, queueVars, workVars
<1> QED
  BY <1>1, PromptClient, PromptAgent, PromptTurn, PromptTool DEF Next, WorkerStep

(* A request that leaves its critical section was not stale in it. *)
LEMMA SendStep ==
  ASSUME TypeOK, PromptInv, [Next]_vars,
         pc = "request", pc' \in {"remind", "stream"}
  PROVE  HasPrompt(history, turn)
<1>1. pc # pc'
  OBVIOUS
<1>2. SendRequest
  BY <1>1 DEF Next, vars, ClientChoice, ClientStep, WorkerStep, TurnStep,
     ToolStep, AgentStep, SubmitUserMessage, CancelActiveResponse,
     ResolveToolApproval, SetAgentMode, CompactConversation, ResetBump,
     SubmitNotify, WorkerWoken, ResetStop, ResetDrain, DrainExpires, ResetClear,
     ResetCancelAgents, ResetJoin, ResetApprovals, SpawnBackground,
     InjectSubAgentContinuation, InjectNotify, Sleep, Activate, EnterTurn,
     Deactivate, NotifyAll, NoProvider, BeginTurn, Truncate, SummarySnapshot,
     SummaryReplace, AppendPrompt, SnapshotConfig, UseReminder, ReportUsage,
     StoreUsage, StreamEnds, AppendCalls, AppendFinal, PrepareTool,
     RequestApproval, WaitForResolution, ExecuteTool, FinishTool, ApplyPlanExit,
     RecordResult, NextTool, EndRound
<1>3. ~Stale
  BY <1>2 DEF SendRequest, Finish
<1> QED
  BY <1>3 DEF PromptInv, Stale, Posted

(* Every request reaches the provider with the prompt it is about, however  *)
(* resets, cancellations, compactions and continuations fall between the    *)
(* turn's append and its request.                                           *)
THEOREM RequestsCarryPrompt == Spec => SentWithPrompt
<1>1. Init => TypeOK /\ PromptInv
  BY InitType DEF Init, PromptInv, Posted, Streaming, ToolPhase
<1>2. TypeOK /\ PromptInv /\ [Next]_vars => (TypeOK /\ PromptInv)'
  BY NextType, PromptNext
<1>3. TypeOK /\ PromptInv /\ [Next]_vars =>
        [pc = "request" /\ pc' \in {"remind", "stream"} =>
           HasPrompt(history, turn)]_vars
  BY SendStep
<1> QED
  BY <1>1, <1>2, <1>3, PTL DEF Spec, SentWithPrompt

-----------------------------------------------------------------------------
(*                      NO PROMPT IS SLEPT ON                              *)

(* What makes it so: while a reset sleeps on wake_, the worker does not, so *)
(* a notify_one always reaches the thread it is meant for.                  *)
SleepInv ==
  /\ u = "r_sleep" => pc \notin {"check", "asleep"}
  /\ NoSleepOnWork

(* A client that makes work for the worker wakes it in the same step, or    *)
(* has the notification still to do.                                        *)
LEMMA SleepClient ==
  ASSUME TypeOK, SleepInv, ClientChoice \/ ClientStep
  PROVE  SleepInv'
<1> USE DEF convVars, queueVars, configVars, usage, workVars, agentVars,
            ghostVars, SleepInv, NoSleepOnWork
<1>1. agent' = agent
  BY DEF ClientChoice, ClientStep, SubmitUserMessage,
         CancelActiveResponse, ResolveToolApproval, SetAgentMode,
         CompactConversation, ResetBump, SubmitNotify, ResetStop, ResetDrain,
         DrainExpires, ResetClear, ResetCancelAgents, ResetJoin, ResetApprovals
<1>2. CASE SubmitUserMessage
  BY <1>2 DEF SubmitUserMessage
<1>3. CASE SubmitNotify
  BY <1>3 DEF SubmitNotify, WorkerWoken
<1>4. CASE ResetStop
  BY <1>4 DEF ResetStop, QueueCleared
<1>5. CASE ResetDrain
  <2>1. u' = "r_sleep" => pc \notin Resting
    BY <1>5 DEF ResetDrain, Drained, TypeOK
  <2>2. pc' = pc /\ pending' = pending /\ u # "notify"
    BY <1>5 DEF ResetDrain
  <2> QED
    BY <1>1, <2>1, <2>2 DEF Resting
<1>6. CASE \/ CancelActiveResponse \/ ResolveToolApproval
           \/ \E m \in {"Build", "Plan"} : SetAgentMode(m)
           \/ CompactConversation \/ ResetBump \/ DrainExpires \/ ResetClear
           \/ ResetCancelAgents \/ ResetJoin \/ ResetApprovals
  <2>1. pc' = pc /\ pending' = pending /\ u # "notify" /\ u' # "r_sleep"
    BY <1>6 DEF CancelActiveResponse, ResolveToolApproval, SetAgentMode,
         CompactConversation, ResetBump, DrainExpires, ResetClear,
         ResetCancelAgents, ResetJoin, ResetApprovals
  <2> QED
    BY <1>1, <2>1
<1> QED
  BY <1>2, <1>3, <1>4, <1>5, <1>6 DEF ClientChoice, ClientStep

(* So does an agent that injects its continuation.                          *)
LEMMA SleepAgent ==
  ASSUME TypeOK, SleepInv, NEW a \in Agents, SpawnBackground(a) \/ AgentStep(a)
  PROVE  SleepInv'
<1> USE DEF convVars, queueVars, configVars, usage, workVars, agentVars,
            ghostVars, SleepInv, NoSleepOnWork
<1>1. \A b \in Agents : b # a => agent'[b] = agent[b]
  BY DEF TypeOK, SpawnBackground, AgentStep, InjectSubAgentContinuation,
         InjectNotify, Moved
<1>2. CASE SpawnBackground(a)
  <2>1. pc' = pc /\ pending' = pending /\ u' = u /\ agent[a].at = "unborn"
    BY <1>2 DEF SpawnBackground
  <2> QED
    BY <1>1, <2>1
<1>3. CASE InjectSubAgentContinuation(a)
  <2>1. pc' = pc /\ u' = u /\ agent[a].at = "running"
    BY <1>3 DEF InjectSubAgentContinuation
  <2>2. CASE pending' = pending
    BY <1>1, <2>1, <2>2
  <2>3. CASE agent' = Moved(a, "notify")
    <3>1. agent'[a].at = "notify"
      BY <2>3 DEF Moved, TypeOK
    <3> QED
      BY <2>1, <3>1
  <2> QED
    BY <1>3, <2>2, <2>3 DEF InjectSubAgentContinuation
<1>4. CASE InjectNotify(a)
  <2>1. pending' = pending
    BY <1>4 DEF InjectNotify
  <2>2. pc' # "asleep"
    BY <1>4 DEF InjectNotify
  <2>3. u' = "r_sleep" => u = "r_sleep" /\ pc' = pc
    BY <1>4 DEF InjectNotify
  <2> QED
    BY <2>2, <2>3
<1> QED
  BY <1>2, <1>3, <1>4 DEF AgentStep

(* The worker looks for work before it falls asleep.                        *)
LEMMA SleepWorker ==
  ASSUME TypeOK, SleepInv, WorkerStep
  PROVE  SleepInv'
<1> USE DEF convVars, queueVars, configVars, usage, workVars, agentVars,
            ghostVars, Elsewhere, SleepInv, NoSleepOnWork, WorkerStep
<1>1. CASE Sleep
  BY <1>1 DEF Sleep
<1>2. CASE NotifyAll
  BY <1>2 DEF NotifyAll
<1>3. CASE TurnStep /\ ~Sleep /\ ~NotifyAll
  <2>1. pc' \notin {"check", "asleep"}
    BY <1>3 DEF TurnStep, Activate, EnterTurn, Deactivate, NoProvider,
       BeginTurn, Truncate, SummarySnapshot, SummaryReplace, AppendPrompt,
       SnapshotConfig, SendRequest, UseReminder, ReportUsage, StoreUsage,
       StreamEnds, AppendCalls, AppendFinal, Finish
  <2> QED
    BY <2>1
<1>4. CASE ToolStep
  <2>1. pc' \notin {"check", "asleep"}
    BY <1>4 DEF ToolStep, PrepareTool, RequestApproval, WaitForResolution,
       ExecuteTool, FinishTool, ApplyPlanExit, RecordResult, NextTool, EndRound,
       Finish
  <2> QED
    BY <2>1
<1> QED
  BY <1>1, <1>2, <1>3, <1>4

(* No interleaving leaves a prompt in the queue with the worker asleep and  *)
(* no notification under way, although submitters and agents notify only    *)
(* one of the threads that sleep on wake_.                                  *)
THEOREM WorkIsNeverSleptOn == Spec => []NoSleepOnWork
<1>1. Init => SleepInv
  BY DEF Init, SleepInv, NoSleepOnWork
<1>2. TypeOK /\ SleepInv /\ [Next]_vars => SleepInv'
  <2> SUFFICES ASSUME TypeOK, SleepInv, [Next]_vars PROVE SleepInv'
    OBVIOUS
  <2>1. CASE UNCHANGED vars
    BY <2>1 DEF SleepInv, NoSleepOnWork, vars, queueVars, agentVars
  <2> QED
    BY <2>1, SleepClient, SleepAgent, SleepWorker DEF Next
<1>3. SleepInv => NoSleepOnWork
  BY DEF SleepInv
<1> QED
  BY <1>1, <1>2, <1>3, TypeCorrect, PTL DEF Spec

-----------------------------------------------------------------------------
(*                      THE CHECKS BEFORE A TOOL RUNS                      *)

(* Only ExecuteTool starts a tool. *)
LEMMA OnlyExecuteStarts ==
  ASSUME [Next]_vars, pc # "running", pc' = "running"
  PROVE  ExecuteTool
BY DEF Next, vars, ClientChoice, ClientStep, WorkerStep, TurnStep,
   ToolStep, AgentStep, SubmitUserMessage, CancelActiveResponse,
   ResolveToolApproval, SetAgentMode, CompactConversation, ResetBump,
   SubmitNotify, WorkerWoken, ResetStop, ResetDrain, DrainExpires, ResetClear,
   ResetCancelAgents, ResetJoin, ResetApprovals, SpawnBackground,
   InjectSubAgentContinuation, InjectNotify, Sleep, Activate, EnterTurn,
   Deactivate, NotifyAll, NoProvider, BeginTurn, Truncate, SummarySnapshot,
   SummaryReplace, AppendPrompt, SnapshotConfig, SendRequest, UseReminder,
   ReportUsage, StoreUsage, StreamEnds, AppendCalls, AppendFinal, Finish,
   PrepareTool, RequestApproval, WaitForResolution, FinishTool, ApplyPlanExit,
   RecordResult, NextTool, EndRound

(* In Plan mode no tool that changes files starts, whenever the mode was    *)
(* switched: the second check, right before the tool runs, is enough.       *)
THEOREM PlanModeIsReadOnly == Spec => PlanModeReadOnly
<1>1. TypeOK /\ [Next]_vars =>
        [pc # "running" /\ pc' = "running" /\ calls[k] = "write" =>
           mode = "Build"]_vars
  <2> SUFFICES ASSUME TypeOK, [Next]_vars, pc # "running", pc' = "running",
                      calls[k] = "write"
               PROVE  mode = "Build"
    OBVIOUS
  <2>1. ExecuteTool
    BY OnlyExecuteStarts
  <2> QED
    BY <2>1 DEF ExecuteTool, Denied, Tool, TypeOK
<1> QED
  BY <1>1, TypeCorrect, PTL DEF Spec, PlanModeReadOnly

-----------------------------------------------------------------------------
(*                      ANSWERS IN A HISTORY                               *)

(* Appending a message takes no answer away... *)
LEMMA AppendKeepsAnswer ==
  ASSUME NEW h \in Seq(Messages), NEW e \in Messages, NEW i \in Nat,
         NEW t, NEW r, NEW j, Answered(h, i, t, r, j)
  PROVE  Answered(Append(h, e), i, t, r, j)
BY DEF Answered

(* ...and adds none but its own. *)
LEMMA AppendAddsNoAnswer ==
  ASSUME NEW h \in Seq(Messages), NEW e \in Messages, NEW i \in Nat,
         NEW t, NEW r, NEW j, Answered(Append(h, e), i, t, r, j),
         e # ResultMessage(t, r, j)
  PROVE  Answered(h, i, t, r, j)
BY DEF Answered

(* Appending an answer answers what came before. *)
LEMMA AppendAnswers ==
  ASSUME NEW h \in Seq(Messages), NEW i \in DOMAIN h,
         NEW t \in Nat, NEW r \in Nat, NEW j \in Nat
  PROVE  Answered(Append(h, ResultMessage(t, r, j)), i, t, r, j)
<1>1. ResultMessage(t, r, j) \in Messages
  BY MessageTypes
<1> DEFINE g == Append(h, ResultMessage(t, r, j))
<1>2. Len(h) + 1 \in DOMAIN g /\ g[Len(h) + 1] = ResultMessage(t, r, j)
  BY <1>1
<1>3. i < Len(h) + 1
  OBVIOUS
<1> QED
  BY <1>2, <1>3 DEF Answered

(* How many numbers there are from 1 to n. *)
LEMMA CountUpTo ==
  ASSUME NEW n \in Nat
  PROVE  IsFiniteSet(1..n) /\ Cardinality(1..n) = n
<1>1. 1 \in Int /\ n \in Int
  OBVIOUS
<1>2. /\ IsFiniteSet(1..n)
      /\ Cardinality(1..n) = IF 1 > n THEN 0 ELSE n - 1 + 1
  BY <1>1, FS_Interval
<1> QED
  BY <1>2

(* The system messages of a history that they lead are its first ones: the  *)
(* positions they stand at are an interval from 1, and an interval is       *)
(* determined by how many it holds.                                         *)
LEMMA LeadingPrefix ==
  ASSUME NEW h \in Seq(Messages), SystemsLead(h)
  PROVE  /\ Leading(h) \in 0..Len(h)
         /\ \A i \in DOMAIN h : h[i].role = "system" <=> i <= Leading(h)
<1> DEFINE S == {i \in DOMAIN h : h[i].role = "system"}
           c == Cardinality(S)
<1>1. IsFiniteSet(1..Len(h)) /\ S \subseteq 1..Len(h)
  BY CountUpTo
<1>2. IsFiniteSet(S) /\ c <= Cardinality(1..Len(h)) /\ c \in Nat
  BY <1>1, FS_Subset, FS_CardinalityType
<1>3. Cardinality(1..Len(h)) = Len(h) /\ Cardinality(1..c) = c /\ IsFiniteSet(1..c)
  <2> HIDE DEF c
  <2> QED BY <1>2, CountUpTo
<1>4. S \subseteq 1..c
  <2> SUFFICES ASSUME NEW i \in S PROVE i \in 1..c
    OBVIOUS
  <2>1. 1..i \subseteq S
    BY DEF SystemsLead
  <2>2. i \in Nat \ {0} /\ Cardinality(1..i) = i
    BY CountUpTo
  <2>3. Cardinality(1..i) <= c
    BY <1>2, <2>1, FS_Subset
  <2> QED
    BY <2>2, <2>3, <1>2
<1>5. S = 1..c
  BY <1>2, <1>3, <1>4, FS_Subset
<1> HIDE DEF c
<1>6. Leading(h) = c
  BY DEF Leading, c
<1> QED
  BY <1>2, <1>3, <1>5, <1>6

(* A concatenation, element by element. *)
LEMMA ConcatAt ==
  ASSUME NEW a \in Seq(Messages), NEW z \in Seq(Messages)
  PROVE  /\ a \o z \in Seq(Messages) /\ Len(a \o z) = Len(a) + Len(z)
         /\ \A i \in 1..Len(a) : (a \o z)[i] = a[i]
         /\ \A i \in 1..Len(z) : (a \o z)[Len(a) + i] = z[i]
OBVIOUS

(* What survives a compaction: the system messages still lead, and every    *)
(* other message is one of the old history, with all that followed it.      *)
LEMMA CompactSurvivors ==
  ASSUME NEW h \in Seq(Messages), NEW keep \in Nat, SystemsLead(h),
         NEW g, g = CompactHistory(h, keep)
  PROVE  /\ SystemsLead(g)
         /\ \E d \in Nat : \A i \in DOMAIN g : g[i].role # "system" =>
              /\ i + d \in DOMAIN h /\ g[i] = h[i + d]
              /\ \A j \in DOMAIN h : i + d < j =>
                   j - d \in DOMAIN g /\ g[j - d] = h[j]
<1>1. CASE NonSystem(h) <= keep
  <2>1. g = h
    BY <1>1 DEF CompactHistory
  <2>2. \A i \in DOMAIN h : i + 0 = i /\ i - 0 = i
    OBVIOUS
  <2> QED
    BY <2>1, <2>2
<1>2. CASE ~(NonSystem(h) <= keep)
  <2> DEFINE l == Leading(h)
             n == Len(h)
             d == n - keep - l - 1
  <2>1. /\ l \in 0..n /\ n \in Nat
        /\ \A i \in DOMAIN h : h[i].role = "system" <=> i <= l
    BY LeadingPrefix
  <2> HIDE DEF l
  <2>2. d \in Nat /\ l + keep < n
    BY <1>2, <2>1 DEF NonSystem, l
  <2>3. /\ SubSeq(h, 1, l) \in Seq(Messages) /\ Len(SubSeq(h, 1, l)) = l
        /\ \A i \in 1..l : SubSeq(h, 1, l)[i] = h[i]
    BY <2>1
  <2>4. /\ SubSeq(h, n - keep + 1, n) \in Seq(Messages)
        /\ Len(SubSeq(h, n - keep + 1, n)) = keep
        /\ \A i \in 1..keep : SubSeq(h, n - keep + 1, n)[i] = h[n - keep + i]
    <3>1. n - keep + 1 \in 1..(n + 1) /\ n - (n - keep + 1) + 1 = keep
      BY <2>1, <2>2
    <3>2. \A i \in 1..keep : n - keep + 1 + i - 1 = n - keep + i
      BY <2>1, <2>2
    <3> QED
      BY <3>1, <3>2, <2>1
  <2>5. <<Notice>> \in Seq(Messages) /\ Len(<<Notice>>) = 1 /\ <<Notice>>[1] = Notice
    BY MessageTypes
  <2>6. g = (SubSeq(h, 1, l) \o <<Notice>>) \o SubSeq(h, n - keep + 1, n)
    BY <1>2 DEF CompactHistory, l
  <2> DEFINE a == SubSeq(h, 1, l)
             z == SubSeq(h, n - keep + 1, n)
  <2> HIDE DEF a, z
  <2>7. a \o <<Notice>> \in Seq(Messages) /\ Len(a \o <<Notice>>) = l + 1
        /\ \A i \in 1..(l + 1) : (a \o <<Notice>>)[i] = IF i <= l THEN h[i] ELSE Notice
    BY <2>1, <2>3, <2>5 DEF a
  <2>8. /\ g \in Seq(Messages) /\ Len(g) = l + 1 + keep
        /\ \A i \in 1..(l + 1) : g[i] = IF i <= l THEN h[i] ELSE Notice
        /\ \A i \in 1..keep : g[l + 1 + i] = h[n - keep + i]
    <3>1. g = (a \o <<Notice>>) \o z
      BY <2>6 DEF a, z
    <3>2. z \in Seq(Messages) /\ Len(z) = keep /\ \A i \in 1..keep : z[i] = h[n - keep + i]
      BY <2>4 DEF z
    <3> DEFINE b == a \o <<Notice>>
    <3> HIDE DEF b
    <3>3. /\ b \in Seq(Messages) /\ Len(b) = l + 1
          /\ \A i \in 1..(l + 1) : b[i] = IF i <= l THEN h[i] ELSE Notice
      BY <2>7 DEF b
    <3>4. g = b \o z
      BY <3>1 DEF b
    <3>5. /\ b \o z \in Seq(Messages) /\ Len(b \o z) = Len(b) + Len(z)
          /\ \A i \in 1..Len(b) : (b \o z)[i] = b[i]
          /\ \A i \in 1..Len(z) : (b \o z)[Len(b) + i] = z[i]
      BY <3>2, <3>3, ConcatAt
    <3>6. g \in Seq(Messages) /\ Len(g) = l + 1 + keep
      BY <3>2, <3>3, <3>4, <3>5
    <3>7. \A i \in 1..(l + 1) : g[i] = IF i <= l THEN h[i] ELSE Notice
      BY <3>3, <3>4, <3>5
    <3>8. \A i \in 1..keep : g[l + 1 + i] = h[n - keep + i]
      BY <3>2, <3>3, <3>4, <3>5
    <3> QED
      BY <3>6, <3>7, <3>8
  <2>9. \A i \in 1..keep : n - keep + i = (l + 1 + i) + d
    BY <2>1, <2>2
  <2>10. \A i \in DOMAIN g : i > l + 1 =>
           /\ i - l - 1 \in 1..keep /\ i + d \in DOMAIN h /\ l < i + d
           /\ g[i] = h[i + d]
    <3> SUFFICES ASSUME NEW i \in DOMAIN g, i > l + 1
                 PROVE  /\ i - l - 1 \in 1..keep /\ i + d \in DOMAIN h /\ l < i + d
                        /\ g[i] = h[i + d]
      OBVIOUS
    <3>0. i \in Nat /\ i <= l + 1 + keep /\ l \in Nat /\ n \in Nat
      BY <2>1, <2>8
    <3>1. i - l - 1 \in 1..keep /\ l + 1 + (i - l - 1) = i
      BY <3>0
    <3>2. n - keep + (i - l - 1) = i + d
      BY <3>0
    <3>3. i + d \in 1..n /\ l < i + d
      BY <2>2, <3>0
    <3> QED
      BY <2>8, <3>1, <3>2, <3>3
  <2>11. \A i \in DOMAIN g : g[i].role = "system" <=> i <= l + 1
    <3> SUFFICES ASSUME NEW i \in DOMAIN g PROVE g[i].role = "system" <=> i <= l + 1
      OBVIOUS
    <3>1. CASE i <= l
      BY <2>1, <2>8, <3>1
    <3>2. CASE i = l + 1
      BY <2>1, <2>8, <3>2 DEF Notice, Message
    <3>3. CASE i > l + 1
      <4>1. i + d \in DOMAIN h /\ l < i + d /\ g[i] = h[i + d]
        BY <2>10, <3>3
      <4>2. i \in Nat /\ l \in Nat /\ i + d \in Nat
        BY <2>1, <2>8, <4>1
      <4> QED
        BY <2>1, <3>3, <4>1, <4>2
    <3> QED
      BY <2>1, <2>8, <3>1, <3>2, <3>3
  <2>12. SystemsLead(g)
    BY <2>1, <2>8, <2>11 DEF SystemsLead
  <2>13. \A i \in DOMAIN g : g[i].role # "system" =>
           /\ i + d \in DOMAIN h /\ g[i] = h[i + d]
           /\ \A j \in DOMAIN h : i + d < j => j - d \in DOMAIN g /\ g[j - d] = h[j]
    <3> SUFFICES ASSUME NEW i \in DOMAIN g, i > l + 1,
                        NEW j \in DOMAIN h, i + d < j
                 PROVE  j - d \in DOMAIN g /\ g[j - d] = h[j]
      BY <2>1, <2>8, <2>10, <2>11
    <3>1. j - d \in DOMAIN g /\ j - d > l + 1 /\ (j - d) + d = j
      BY <2>1, <2>2, <2>8, SMTT(20)
    <3> QED
      BY <2>10, <3>1
  <2> HIDE DEF d
  <2> QED
    BY <2>2, <2>12, <2>13
<1> QED
  BY <1>1, <1>2

-----------------------------------------------------------------------------
(*                     ROUNDS AND THEIR ANSWERS                            *)

(* The round of tools requested at position i of h has all its answers. *)
RoundAnswered(h, i) ==
  \A j \in 1..h[i].n : Answered(h, i, h[i].turn, h[i].round, j)

(* A compaction that keeps the request of a round keeps its answers. *)
LEMMA CompactKeepsAnswers ==
  ASSUME NEW h \in Seq(Messages), NEW keep \in Nat, SystemsLead(h),
         NEW i \in DOMAIN CompactHistory(h, keep),
         CompactHistory(h, keep)[i].role = "calls"
  PROVE  \E m \in DOMAIN h :
           /\ CompactHistory(h, keep)[i] = h[m]
           /\ RoundAnswered(h, m) => RoundAnswered(CompactHistory(h, keep), i)
<1> DEFINE g == CompactHistory(h, keep)
<1>1. PICK d \in Nat : \A m \in DOMAIN g : g[m].role # "system" =>
              /\ m + d \in DOMAIN h /\ g[m] = h[m + d]
              /\ \A j \in DOMAIN h : m + d < j =>
                   j - d \in DOMAIN g /\ g[j - d] = h[j]
  BY CompactSurvivors
<1>2. g \in Seq(Messages)
  BY CompactType
<1> HIDE DEF g
<1>3. i \in DOMAIN g /\ g[i].role = "calls"
  BY DEF g
<1>4. /\ i + d \in DOMAIN h /\ g[i] = h[i + d]
      /\ \A j \in DOMAIN h : i + d < j => j - d \in DOMAIN g /\ g[j - d] = h[j]
  BY <1>1, <1>3
<1>5. ASSUME RoundAnswered(h, i + d) PROVE RoundAnswered(g, i)
  <2> SUFFICES ASSUME NEW j \in 1..g[i].n
               PROVE  Answered(g, i, g[i].turn, g[i].round, j)
    BY DEF RoundAnswered
  <2>1. PICK m \in DOMAIN h :
          i + d < m /\ h[m] = ResultMessage(g[i].turn, g[i].round, j)
    BY <1>4, <1>5 DEF RoundAnswered, Answered
  <2>2. m - d \in DOMAIN g /\ g[m - d] = h[m] /\ i < m - d
    BY <1>2, <1>3, <1>4, <2>1
  <2> QED
    BY <2>1, <2>2 DEF Answered
<1> QED
  BY <1>4, <1>5 DEF g

-----------------------------------------------------------------------------
(*                   WHAT THE STEPS DO TO THE HISTORY                      *)

(* How many tools of the round that runs have their answers for sure; a     *)
(* round that was stopped owes none.                                        *)
Done ==
  IF pc = "next" THEN k
  ELSE IF pc # "roundend" THEN k - 1
  ELSE IF stopped THEN 0 ELSE Len(calls)

(* The steps that write requests or answers, end a round, or rewrite the    *)
(* history...                                                               *)
WritingStep ==
  \/ AppendPrompt \/ AppendCalls \/ RecordResult \/ EndRound
  \/ CompactConversation \/ Truncate \/ SummaryReplace \/ ResetClear

(* ...and what all the others have in common.                               *)
QuietStep ==
  /\ cut \subseteq cut'
  /\ Pen' \in {0, Pen}
  /\ \/ history' = history
     \/ \E e \in Messages :
          e.role \in {"user", "assistant"} /\ history' = Append(history, e)
  /\ pc \in ToolPhase =>
       /\ pc' \in ToolPhase /\ turn' = turn /\ round' = round /\ calls' = calls
       /\ Done' <= Done
  /\ pc' \in ToolPhase \ {"roundend"} =>
       /\ pc \in ToolPhase \ {"roundend"} /\ Done' = Done
       /\ Stale => Stale'

(* A call of the client that does not write is quiet: it leaves the round   *)
(* that runs alone.                                                         *)
LEMMA QuietClient ==
  ASSUME TypeOK, PromptInv, ClientChoice \/ ClientStep, ~WritingStep
  PROVE  QuietStep
<1> USE DEF convVars, queueVars, configVars, usage, workVars, agentVars,
            ghostVars
<1>1. /\ tgen \in Nat /\ gen \in Nat /\ k \in Nat /\ Len(calls) \in Nat
      /\ tgen <= gen /\ stopped \in BOOLEAN
  BY DEF TypeOK, PromptInv
<1>2. CASE SubmitNotify
  <2>1. /\ cut' = cut /\ history' = history /\ turn' = turn /\ tgen' = tgen
        /\ gen' = gen /\ round' = round /\ calls' = calls /\ k' = k
        /\ stopped' = stopped
    BY <1>2 DEF SubmitNotify
  <2>2. pc' = pc \/ (pc = "asleep" /\ pc' = "check")
    BY <1>2 DEF SubmitNotify, WorkerWoken
  <2>3. CASE pc' = pc
    BY <1>1, <2>1, <2>3 DEF QuietStep, Pen, Done, Stale
  <2>4. CASE pc = "asleep" /\ pc' = "check"
    BY <2>1, <2>4 DEF QuietStep, Pen, Stale, Posted, ToolPhase, Streaming
  <2> QED
    BY <2>2, <2>3, <2>4
<1>3. CASE ~SubmitNotify
  <2>1. /\ pc' = pc /\ history' = history /\ turn' = turn /\ tgen' = tgen
        /\ round' = round /\ calls' = calls /\ k' = k /\ cut \subseteq cut'
        /\ gen' = gen \/ gen' = gen + 1
    BY <1>3 DEF ClientChoice, ClientStep, SubmitUserMessage,
         CancelActiveResponse, ResolveToolApproval, SetAgentMode, ResetBump,
         ResetStop, ResetDrain, DrainExpires, ResetCancelAgents, ResetJoin,
         ResetApprovals, WritingStep
  <2>2. stopped' \in BOOLEAN /\ (stopped => stopped')
    BY <1>1, <1>3 DEF TypeOK, ClientChoice, ClientStep, SubmitUserMessage,
         CancelActiveResponse, ResolveToolApproval, SetAgentMode, ResetBump,
         ResetStop, ResetDrain, DrainExpires, ResetCancelAgents, ResetJoin,
         ResetApprovals, WritingStep
  <2>3. Pen' \in {0, Pen} /\ (Stale => Stale')
    BY <1>1, <2>1 DEF Pen, Stale
  <2>4. pc \in ToolPhase => Done' <= Done
    BY <1>1, <2>1, <2>2 DEF Done
  <2>5. pc \in ToolPhase \ {"roundend"} => Done' = Done
    BY <2>1 DEF Done
  <2> QED
    BY <2>1, <2>3, <2>4, <2>5 DEF QuietStep
<1> QED
  BY <1>2, <1>3

(* So is every step of an agent but its continuation.                       *)
LEMMA QuietAgent ==
  ASSUME TypeOK, NEW a \in Agents, SpawnBackground(a) \/ AgentStep(a)
  PROVE  QuietStep
<1> USE DEF convVars, queueVars, configVars, usage, workVars, agentVars,
            ghostVars
<1>1. /\ turn' = turn /\ tgen' = tgen /\ gen' = gen /\ round' = round
      /\ calls' = calls /\ k' = k /\ stopped' = stopped /\ cut' = cut
  BY DEF AgentStep, SpawnBackground, InjectSubAgentContinuation, InjectNotify
<1>2. pc' = pc \/ (pc = "asleep" /\ pc' = "check")
  BY DEF AgentStep, SpawnBackground, InjectSubAgentContinuation, InjectNotify
<1>3. history' = history \/ history' = Append(history, UserMessage(NewId))
  BY DEF AgentStep, SpawnBackground, InjectSubAgentContinuation, InjectNotify
<1>4. UserMessage(NewId) \in Messages /\ UserMessage(NewId).role = "user"
  BY MessageTypes DEF TypeOK, NewId, UserMessage, Message
<1>5. Pen' \in {0, Pen}
  BY <1>1, <1>2 DEF Pen, Stale, Posted, ToolPhase, Streaming
<1>6. pc \in ToolPhase \/ pc' \in ToolPhase => pc' = pc
  BY <1>2 DEF ToolPhase
<1>7. k \in Nat /\ Len(calls) \in Nat
  BY DEF TypeOK
<1>8. pc' = pc => Done' = Done /\ Done \in Int
  BY <1>1, <1>7 DEF Done
<1> QED
  BY <1>1, <1>3, <1>4, <1>5, <1>6, <1>8 DEF QuietStep, Stale

(* So are the steps of the turn between its rounds.                         *)
LEMMA QuietTurn ==
  ASSUME TypeOK, TurnStep, ~WritingStep
  PROVE  QuietStep
<1> USE DEF convVars, queueVars, configVars, usage, workVars, agentVars,
            ghostVars, Elsewhere
<1>1. pc \notin ToolPhase /\ pc' \notin ToolPhase /\ cut' = cut
  BY DEF TurnStep, WritingStep, Sleep, Activate, EnterTurn, Deactivate, NotifyAll, NoProvider,
         BeginTurn, SummarySnapshot, SnapshotConfig, SendRequest, UseReminder,
         ReportUsage, StoreUsage, StreamEnds, AppendFinal, Finish, ToolPhase
<1>2. \/ history' = history
      \/ \E e \in Messages :
           e.role \in {"user", "assistant"} /\ history' = Append(history, e)
  <2>1. FinalMessage(turn, round) \in Messages
          /\ FinalMessage(turn, round).role = "assistant"
    BY MessageTypes DEF TypeOK, FinalMessage, Message
  <2> QED
    BY <2>1 DEF TurnStep, WritingStep, Sleep, Activate, EnterTurn, Deactivate,
         NotifyAll, NoProvider, BeginTurn, SummarySnapshot, SnapshotConfig,
         SendRequest, UseReminder, ReportUsage, StoreUsage, StreamEnds,
         AppendFinal
<1>3. CASE \/ Sleep \/ Activate \/ EnterTurn \/ Deactivate \/ NotifyAll
           \/ NoProvider \/ BeginTurn \/ SummarySnapshot
  <2>1. pc' \notin Posted
    BY <1>3 DEF Sleep, Activate, EnterTurn, Deactivate, NotifyAll, NoProvider,
                BeginTurn, SummarySnapshot, Finish, Posted, Streaming, ToolPhase
  <2> QED
    BY <1>1, <1>2, <2>1 DEF QuietStep, Pen
<1>4. CASE \/ SnapshotConfig \/ SendRequest \/ UseReminder \/ ReportUsage
           \/ StoreUsage \/ StreamEnds \/ AppendFinal
  <2>1. gen' = gen /\ tgen' = tgen /\ turn' = turn /\ pc \in Posted
    BY <1>4 DEF SnapshotConfig, SendRequest, UseReminder, ReportUsage,
                StoreUsage, StreamEnds, AppendFinal, Posted, Streaming
  <2>2. Pen' \in {0, Pen}
    BY <2>1 DEF Pen, Stale
  <2> QED
    BY <1>1, <1>2, <2>2 DEF QuietStep
<1> QED
  BY <1>3, <1>4 DEF TurnStep, WritingStep

(* So are the steps of a tool before its result.                            *)
LEMMA QuietTool ==
  ASSUME TypeOK, ToolStep, ~WritingStep
  PROVE  QuietStep
<1> USE DEF convVars, queueVars, configVars, usage, workVars, agentVars,
            ghostVars, Elsewhere
<1>1. /\ gen' = gen /\ tgen' = tgen /\ turn' = turn /\ round' = round
      /\ calls' = calls /\ history' = history /\ cut' = cut /\ stopped' = stopped
  BY DEF ToolStep, WritingStep, PrepareTool, RequestApproval, WaitForResolution,
         ExecuteTool, FinishTool, ApplyPlanExit, NextTool
<1>2. pc \in ToolPhase \ {"roundend"} /\ pc' \in ToolPhase
  BY DEF ToolStep, WritingStep, PrepareTool, RequestApproval, WaitForResolution,
         ExecuteTool, FinishTool, ApplyPlanExit, NextTool, ToolPhase
<1>3. k \in Nat \ {0} /\ Len(calls) \in Nat /\ stopped \in BOOLEAN
  BY DEF TypeOK
<1>4. Pen' \in {0, Pen}
  BY <1>1, <1>2 DEF Pen, Stale, Posted
<1>5. Done' <= Done /\ (pc' # "roundend" => Done' = Done)
  <2>1. CASE NextTool
    BY <1>1, <1>3, <2>1 DEF NextTool, MoreTools, Done
  <2>2. CASE RequestApproval
    BY <1>1, <1>3, <2>2 DEF RequestApproval, Done
  <2>3. CASE ~NextTool /\ ~RequestApproval
    <3>1. pc \notin {"next", "roundend"} /\ pc' \notin {"next", "roundend"} /\ k' = k
      BY <2>3 DEF ToolStep, WritingStep, PrepareTool, WaitForResolution,
         ExecuteTool, FinishTool, ApplyPlanExit
    <3> QED
      BY <1>3, <3>1 DEF Done
  <2> QED
    BY <2>1, <2>2, <2>3
<1> QED
  BY <1>1, <1>2, <1>4, <1>5 DEF QuietStep, Stale

(* A step is quiet, or one of those that write to the history.              *)
LEMMA OtherStepsAreQuiet ==
  ASSUME TypeOK, PromptInv, [Next]_vars, ~WritingStep
  PROVE  QuietStep
<1>1. CASE UNCHANGED vars
  <2>1. k \in Nat /\ Len(calls) \in Nat
    BY DEF TypeOK
  <2> QED
    BY <1>1, <2>1 DEF QuietStep, Pen, Stale, Done, vars, convVars, queueVars,
                      workVars, ghostVars
<1> QED
  BY <1>1, QuietClient, QuietAgent, QuietTurn, QuietTool DEF Next, WorkerStep

(* The quiet steps that write are the final append and the agents'.         *)
LEMMA QuietHistory ==
  ASSUME TypeOK, [Next]_vars, ~WritingStep, ~AppendFinal,
         \A a \in Agents : ~InjectSubAgentContinuation(a)
  PROVE  history' = history
<1> USE DEF convVars, queueVars, configVars, usage, workVars, agentVars,
            ghostVars, Elsewhere
<1>1. CASE UNCHANGED vars
  BY <1>1 DEF vars
<1>2. CASE ClientChoice \/ ClientStep
  BY <1>2 DEF WritingStep, ClientChoice, ClientStep, SubmitUserMessage,
     CancelActiveResponse, ResolveToolApproval, SetAgentMode, ResetBump,
     SubmitNotify, ResetStop, ResetDrain, DrainExpires, ResetCancelAgents,
     ResetJoin, ResetApprovals
<1>3. CASE \E a \in Agents : SpawnBackground(a) \/ AgentStep(a)
  BY <1>3 DEF SpawnBackground, AgentStep, InjectNotify
<1>4. CASE TurnStep
  BY <1>4 DEF WritingStep, TurnStep, Sleep, Activate, EnterTurn, Deactivate,
     NotifyAll, NoProvider, BeginTurn, SummarySnapshot, SnapshotConfig,
     SendRequest, UseReminder, ReportUsage, StoreUsage, StreamEnds
<1>5. CASE ToolStep
  BY <1>5 DEF WritingStep, ToolStep, PrepareTool, RequestApproval,
     WaitForResolution, ExecuteTool, FinishTool, ApplyPlanExit, NextTool
<1> QED
  BY <1>1, <1>2, <1>3, <1>4, <1>5 DEF Next, WorkerStep

(* A history step by step: it stays, starts afresh, is compacted, or gets   *)
(* one more message, which is no system message.                            *)
LEMMA HistorySteps ==
  ASSUME TypeOK, PromptInv, [Next]_vars
  PROVE  \/ history' = history \/ history' = <<>>
         \/ \E keep \in Nat : history' = CompactHistory(history, keep)
         \/ \E e \in Messages :
              e.role # "system" /\ history' = Append(history, e)
<1>1. CASE ~WritingStep
  BY <1>1, OtherStepsAreQuiet DEF QuietStep
<1>2. CASE CompactConversation \/ Truncate \/ SummaryReplace \/ ResetClear
             \/ EndRound
  BY <1>2, KeepAssumption DEF CompactConversation, Truncate, SummaryReplace,
                              ResetClear, EndRound
<1>3. CASE AppendPrompt \/ AppendCalls \/ RecordResult
  <2>1. /\ turn \in Nat /\ round \in Nat /\ k \in Nat /\ Len(calls) \in Nat
    BY DEF TypeOK
  <2>2. /\ UserMessage(turn) \in Messages /\ UserMessage(turn).role = "user"
        /\ CallsMessage(turn, round, Len(calls)) \in Messages
        /\ CallsMessage(turn, round, Len(calls)).role = "calls"
        /\ ResultMessage(turn, round, k) \in Messages
        /\ ResultMessage(turn, round, k).role = "tool"
    BY <2>1, MessageTypes DEF UserMessage, CallsMessage, ResultMessage, Message
  <2> QED
    BY <1>3, <2>2 DEF AppendPrompt, AppendCalls, RecordResult
<1> QED
  BY <1>1, <1>2, <1>3 DEF WritingStep

(* So the system messages always lead. *)
LEMMA LeadStep ==
  ASSUME TypeOK, PromptInv, SystemsLead(history), [Next]_vars
  PROVE  SystemsLead(history')
<1>0. history \in Seq(Messages)
  BY DEF TypeOK
<1>1. CASE history' = history
  BY <1>1
<1>2. CASE history' = <<>>
  BY <1>2 DEF SystemsLead
<1>3. CASE \E keep \in Nat : history' = CompactHistory(history, keep)
  BY <1>0, <1>3, CompactSurvivors
<1>4. ASSUME NEW e \in Messages, e.role # "system", history' = Append(history, e)
      PROVE  SystemsLead(history')
  BY <1>0, <1>4 DEF SystemsLead
<1> QED
  BY <1>1, <1>2, <1>3, <1>4, HistorySteps

-----------------------------------------------------------------------------
(*                            CUT TURNS                                    *)

(* A turn that runs while the generation has moved on, or that was told to  *)
(* stop, is one the user cut short.                                         *)
CutInv ==
  /\ pc \notin Resting \cup {"activated"} /\ Stale => turn \in cut
  /\ active /\ stopped => turn \in cut

(* The cancel and the reset note the turn they cut in the same step.        *)
LEMMA CutStep ==
  ASSUME TypeOK, CutInv, [Next]_vars
  PROVE  CutInv'
<1> USE DEF convVars, queueVars, configVars, usage, workVars, agentVars,
            ghostVars, Elsewhere
<1>1. active <=> pc \notin Resting
  BY DEF TypeOK
<1>2. CASE CancelActiveResponse \/ ResetBump \/ ResetStop \/ ResetClear
  <2>1. /\ turn' = turn /\ pc' = pc /\ active' = active
        /\ active => turn \in cut'
    BY <1>2 DEF CancelActiveResponse, ResetBump, ResetStop, ResetClear
  <2> QED
    BY <1>1, <2>1 DEF CutInv
<1>3. CASE EnterTurn \/ Activate \/ Deactivate
  BY <1>3 DEF EnterTurn, Activate, Deactivate, CutInv, Stale, Resting
<1>4. CASE UNCHANGED vars
  BY <1>4 DEF vars, CutInv, Stale
<1>5. CASE \/ SubmitUserMessage \/ ResolveToolApproval
           \/ \E m \in {"Build", "Plan"} : SetAgentMode(m)
           \/ CompactConversation \/ SubmitNotify \/ ResetDrain \/ DrainExpires
           \/ ResetCancelAgents \/ ResetJoin \/ ResetApprovals
           \/ \E a \in Agents : SpawnBackground(a) \/ AgentStep(a)
  <2>1. /\ gen' = gen /\ tgen' = tgen /\ turn' = turn /\ cut' = cut
        /\ stopped' = stopped /\ active' = active
        /\ pc' = pc \/ (pc \in Resting /\ pc' \in Resting)
    BY <1>5 DEF SubmitUserMessage, ResolveToolApproval, SetAgentMode,
         CompactConversation, SubmitNotify, WorkerWoken, ResetDrain,
         DrainExpires, ResetCancelAgents, ResetJoin, ResetApprovals,
         SpawnBackground, AgentStep, InjectSubAgentContinuation, InjectNotify,
         Resting
  <2> QED
    BY <1>1, <2>1 DEF CutInv, Stale
<1>6. CASE TurnStep /\ ~EnterTurn /\ ~Activate /\ ~Deactivate
  <2>1. /\ gen' = gen /\ tgen' = tgen /\ turn' = turn /\ cut' = cut
        /\ stopped' = stopped /\ active' = active
    BY <1>6 DEF TurnStep, Sleep, NotifyAll, NoProvider, BeginTurn, Truncate,
         SummarySnapshot, SummaryReplace, AppendPrompt, SnapshotConfig,
         SendRequest, UseReminder, ReportUsage, StoreUsage, StreamEnds,
         AppendCalls, AppendFinal
  <2>2. pc \in Resting \cup {"activated"} => pc' \in Resting
    BY <1>6 DEF TurnStep, Sleep, NotifyAll, NoProvider, BeginTurn, Truncate,
         SummarySnapshot, SummaryReplace, AppendPrompt, SnapshotConfig,
         SendRequest, UseReminder, ReportUsage, StoreUsage, StreamEnds,
         AppendCalls, AppendFinal, Resting
  <2> QED
    BY <1>1, <2>1, <2>2 DEF CutInv, Stale
<1>7. CASE ToolStep
  <2>1. /\ gen' = gen /\ tgen' = tgen /\ turn' = turn /\ cut' = cut
        /\ stopped' = stopped /\ active' = active
    BY <1>7 DEF ToolStep, PrepareTool, RequestApproval, WaitForResolution,
         ExecuteTool, FinishTool, ApplyPlanExit, RecordResult, NextTool, EndRound
  <2>2. pc \notin Resting \cup {"activated"}
    BY <1>7 DEF ToolStep, PrepareTool, RequestApproval, WaitForResolution,
         ExecuteTool, FinishTool, ApplyPlanExit, RecordResult, NextTool,
         EndRound, Resting
  <2> QED
    BY <2>1, <2>2 DEF CutInv, Stale
<1> QED
  BY <1>2, <1>3, <1>4, <1>5, <1>6, <1>7 DEF Next, ClientChoice, ClientStep,
                                            WorkerStep

-----------------------------------------------------------------------------
(*                       PROMPTS ARE SERVED IN ORDER                       *)

(* The turns that have requested tools. *)
Requesters(h) == {h[i].turn : i \in {j \in DOMAIN h : h[j].role = "calls"}}

(* Turns are numbers.                                                       *)
LEMMA RequestersType ==
  ASSUME NEW h \in Seq(Messages)
  PROVE  Requesters(h) \subseteq Nat
<1>1. \A e \in Messages : e.turn \in Nat
  BY DEF Messages
<1>2. \A i \in DOMAIN h : h[i] \in Messages
  OBVIOUS
<1> QED
  BY <1>1, <1>2 DEF Requesters

(* Only AppendCalls adds one, the turn that runs. *)
LEMMA RequestersStep ==
  ASSUME TypeOK, PromptInv, SystemsLead(history), [Next]_vars
  PROVE  \/ Requesters(history') \subseteq Requesters(history)
         \/ /\ AppendCalls
            /\ Requesters(history') \subseteq Requesters(history) \cup {turn}
<1>0. history \in Seq(Messages)
  BY DEF TypeOK
<1>1. CASE history' = history \/ history' = <<>>
  BY <1>1 DEF Requesters
<1>2. CASE \E keep \in Nat : history' = CompactHistory(history, keep)
  BY <1>0, <1>2, CompactKeepsAnswers DEF Requesters
<1>3. ASSUME NEW e \in Messages, history' = Append(history, e)
      PROVE  /\ e.role = "calls" =>
                  Requesters(history') \subseteq Requesters(history) \cup {e.turn}
             /\ e.role # "calls" =>
                  Requesters(history') \subseteq Requesters(history)
  BY <1>0, <1>3 DEF Requesters
<1>4. CASE AppendCalls
  <2>1. CallsMessage(turn, round, Len(calls)) \in Messages
          /\ CallsMessage(turn, round, Len(calls)).turn = turn
    BY MessageTypes DEF TypeOK, CallsMessage, Message
  <2>2. \/ history' = history
        \/ history' = Append(history, CallsMessage(turn, round, Len(calls)))
    BY <1>4 DEF AppendCalls
  <2> QED
    BY <1>1, <1>3, <1>4, <2>1, <2>2
<1>5. CASE AppendPrompt \/ RecordResult
  <2>1. /\ UserMessage(turn) \in Messages /\ UserMessage(turn).role = "user"
        /\ ResultMessage(turn, round, k) \in Messages
        /\ ResultMessage(turn, round, k).role = "tool"
    BY MessageTypes DEF TypeOK, UserMessage, ResultMessage, Message
  <2>2. \/ history' = history
        \/ history' = Append(history, UserMessage(turn))
        \/ history' = Append(history, ResultMessage(turn, round, k))
    BY <1>5 DEF AppendPrompt, RecordResult
  <2> QED
    BY <1>1, <1>3, <2>1, <2>2
<1>6. CASE EndRound \/ CompactConversation \/ Truncate \/ SummaryReplace
             \/ ResetClear
  BY <1>1, <1>2, <1>6, KeepAssumption DEF EndRound, CompactConversation,
       Truncate, SummaryReplace, ResetClear
<1>7. CASE ~WritingStep
  BY <1>1, <1>3, <1>7, OtherStepsAreQuiet DEF QuietStep
<1> QED
  BY <1>4, <1>5, <1>6, <1>7 DEF WritingStep

(* Ids are given out and served in ascending order, so a turn that begins   *)
(* has requested nothing yet.                                               *)
OrderInv ==
  /\ \A i, j \in DOMAIN pending : i < j => pending[i] < pending[j]
  /\ \A i \in DOMAIN pending : pending[i] \in 1..Len(prompts)
  /\ active => /\ turn \in 1..Len(prompts)
               /\ \A i \in DOMAIN pending : turn < pending[i]
  /\ \A t \in Requesters(history) :
       /\ t <= Len(prompts)
       /\ \A i \in DOMAIN pending : t < pending[i]
       /\ active => t <= turn
       /\ pc \in Arriving => t < turn

(* The id that is given out next, put at the end of the queue or not.       *)
LEMMA OrderNewId ==
  ASSUME TypeOK, OrderInv, Requesters(history') \subseteq Requesters(history),
         active' = active, turn' = turn, pc' \in Arriving => pc \in Arriving,
         NEW p, prompts' = Append(prompts, p),
         pending' = pending \/ pending' = Append(pending, NewId)
  PROVE  OrderInv'
<1>1. Len(prompts') = Len(prompts) + 1 /\ Len(prompts) \in Nat
  BY DEF TypeOK
<1>2. turn \in Nat /\ pending \in Seq(Nat)
  BY DEF TypeOK
<1>3. \A t \in Requesters(history) : t \in Nat
  BY RequestersType DEF TypeOK
<1>4. CASE pending' = pending
  BY <1>1, <1>2, <1>3, <1>4 DEF OrderInv
<1>5. CASE pending' = Append(pending, NewId)
  <2>1. NewId = Len(prompts) + 1
    BY DEF NewId
  <2>2. /\ Len(pending') = Len(pending) + 1 /\ Len(pending) \in Nat
        /\ DOMAIN pending' = 1..(Len(pending) + 1)
        /\ DOMAIN pending = 1..Len(pending)
        /\ pending'[Len(pending) + 1] = Len(prompts) + 1
        /\ \A i \in DOMAIN pending : pending'[i] = pending[i] /\ pending[i] \in Nat
    BY <1>1, <1>2, <1>5, <2>1
  <2>3. \A i \in DOMAIN pending' : pending'[i] \in 1..Len(prompts')
    BY <1>1, <2>2 DEF OrderInv
  <2>4. \A i, j \in DOMAIN pending' : i < j => pending'[i] < pending'[j]
    BY <1>1, <2>2 DEF OrderInv
  <2>5. active' => /\ turn' \in 1..Len(prompts')
                   /\ \A i \in DOMAIN pending' : turn' < pending'[i]
    BY <1>1, <1>2, <2>2, SMTT(20) DEF OrderInv
  <2>6. \A t \in Requesters(history') :
           /\ t <= Len(prompts')
           /\ \A i \in DOMAIN pending' : t < pending'[i]
           /\ active' => t <= turn'
           /\ pc' \in Arriving => t < turn'
    BY <1>1, <1>3, <2>2 DEF OrderInv
  <2> QED
    BY <2>3, <2>4, <2>5, <2>6 DEF OrderInv
<1> QED
  BY <1>4, <1>5

(* Prompts are served in the order of their ids, which only grow.           *)
LEMMA OrderStep ==
  ASSUME TypeOK, PromptInv, SystemsLead(history), OrderInv, [Next]_vars
  PROVE  OrderInv'
<1> USE DEF convVars, queueVars, configVars, usage, workVars, agentVars,
            ghostVars, Elsewhere
<1>1. /\ turn \in Nat /\ pending \in Seq(Nat) /\ Len(prompts) \in Nat
      /\ active <=> pc \notin Resting
      /\ \A t \in Requesters(history) : t \in Nat
  BY RequestersType DEF TypeOK
<1>2. CASE SubmitUserMessage
  <2>1. history' = history
    BY <1>2 DEF SubmitUserMessage
  <2> QED
    BY <1>2, <2>1, OrderNewId DEF SubmitUserMessage
<1>3. ASSUME NEW a \in Agents, InjectSubAgentContinuation(a) PROVE OrderInv'
  <2>1. ~AppendCalls
    BY <1>3 DEF InjectSubAgentContinuation, AppendCalls
  <2>2. Requesters(history') \subseteq Requesters(history)
    BY <2>1, RequestersStep
  <2> QED
    BY <1>3, <2>2, OrderNewId DEF InjectSubAgentContinuation
<1>4. CASE Activate
  <2>1. history' = history /\ prompts' = prompts /\ active' /\ pc' = "activated"
    BY <1>4 DEF Activate
  <2>2. /\ pending # <<>> /\ turn' = pending[1] /\ Len(pending) \in Nat
        /\ DOMAIN pending' = 1..(Len(pending) - 1)
        /\ \A i \in DOMAIN pending' : pending'[i] = pending[i + 1]
    BY <1>1, <1>4 DEF Activate
  <2>3. 1 \in DOMAIN pending /\ \A i \in DOMAIN pending' : i + 1 \in DOMAIN pending /\ 1 < i + 1
    BY <1>1, <2>2
  <2>4. \A i, j \in DOMAIN pending' : i < j => i + 1 < j + 1
    BY <2>2
  <2> QED
    BY <1>1, <2>1, <2>2, <2>3, <2>4 DEF OrderInv
<1>5. CASE AppendCalls
  <2>1. /\ pending' = pending /\ prompts' = prompts /\ active' = active
        /\ turn' = turn /\ pc' \notin Arriving /\ active
    BY <1>1, <1>5 DEF AppendCalls, Finish, Arriving, Resting
  <2>2. Requesters(history') \subseteq Requesters(history) \cup {turn}
    BY RequestersStep
  <2> QED
    BY <1>1, <2>1, <2>2 DEF OrderInv
<1>6. CASE Deactivate \/ ResetStop
  <2>1. history' = history /\ prompts' = prompts
    BY <1>6 DEF Deactivate, ResetStop
  <2>2. CASE Deactivate
    BY <2>1, <2>2 DEF Deactivate, OrderInv, Arriving
  <2>3. CASE ResetStop
    BY <2>1, <2>3 DEF ResetStop, QueueCleared, OrderInv
  <2> QED
    BY <1>6, <2>2, <2>3
<1>7. CASE /\ ~SubmitUserMessage /\ ~Activate /\ ~AppendCalls /\ ~Deactivate
           /\ ~ResetStop /\ \A a \in Agents : ~InjectSubAgentContinuation(a)
  <2>1. Requesters(history') \subseteq Requesters(history)
    BY <1>7, RequestersStep
  <2>2. /\ pending' = pending /\ prompts' = prompts /\ active' = active
        /\ turn' = turn /\ (pc' \in Arriving => pc \in Arriving)
    <3>1. CASE UNCHANGED vars
      BY <3>1 DEF vars
    <3>2. CASE ClientChoice \/ ClientStep
      BY <1>7, <3>2 DEF ClientChoice, ClientStep, CancelActiveResponse,
         ResolveToolApproval, SetAgentMode, CompactConversation, ResetBump,
         SubmitNotify, WorkerWoken, ResetDrain, DrainExpires, ResetClear,
         ResetCancelAgents, ResetJoin, ResetApprovals, Arriving
    <3>3. CASE \E a \in Agents : SpawnBackground(a) \/ AgentStep(a)
      BY <1>7, <3>3 DEF SpawnBackground, AgentStep, InjectNotify, Arriving
    <3>4. CASE TurnStep
      BY <1>7, <3>4 DEF TurnStep, Sleep, EnterTurn, NotifyAll, NoProvider,
         BeginTurn, Truncate, SummarySnapshot, SummaryReplace, AppendPrompt,
         SnapshotConfig, SendRequest, UseReminder, ReportUsage, StoreUsage,
         StreamEnds, AppendFinal, Finish, Arriving
    <3>5. CASE ToolStep
      BY <3>5 DEF ToolStep, PrepareTool, RequestApproval, WaitForResolution,
         ExecuteTool, FinishTool, ApplyPlanExit, RecordResult, NextTool,
         EndRound, Finish, Arriving
    <3> QED
      BY <3>1, <3>2, <3>3, <3>4, <3>5 DEF Next, WorkerStep
  <2> QED
    BY <2>1, <2>2 DEF OrderInv
<1> QED
  BY <1>2, <1>3, <1>4, <1>5, <1>6, <1>7

-----------------------------------------------------------------------------
(*                       EVERY REQUEST IS ANSWERED                         *)

(* The turns whose requests must all be answered: those that were not cut   *)
(* short, and the one that may still write.                                 *)
Owed(t) == t \notin cut \/ (Pen # 0 /\ t = Pen)

(* Position i is the round that runs, answered as far as the worker is.     *)
InRound(i) ==
  /\ pc \in ToolPhase
  /\ history[i] = CallsMessage(turn, round, Len(calls))
  /\ \A j \in 1..Done : Answered(history, i, turn, round, j)

AnswersInv ==
  \A i \in DOMAIN history : history[i].role = "calls" /\ Owed(history[i].turn) =>
    RoundAnswered(history, i) \/ InRound(i)

(* A message after a round takes none of its answers away. *)
LEMMA AppendKeepsRound ==
  ASSUME NEW h \in Seq(Messages), NEW e \in Messages, NEW i \in DOMAIN h
  PROVE  /\ Append(h, e)[i] = h[i]
         /\ RoundAnswered(h, i) => RoundAnswered(Append(h, e), i)
<1>1. Append(h, e)[i] = h[i] /\ i \in Nat
  OBVIOUS
<1> QED
  BY <1>1, AppendKeepsAnswer DEF RoundAnswered

(* A quiet step leaves every round answered as far as it was.               *)
LEMMA AnswersQuiet ==
  ASSUME TypeOK, TypeOK', AnswersInv, QuietStep
  PROVE  AnswersInv'
<1>0. /\ history \in Seq(Messages) /\ k \in Nat \ {0} /\ Len(calls) \in Nat
      /\ stopped \in BOOLEAN
  BY DEF TypeOK
<1>1. Done \in Nat /\ Done' \in Nat
  <2>1. \A c, n \in Nat : c # 0 => {c, c - 1, 0, n} \subseteq Nat
    OBVIOUS
  <2>2. Done \in {k, k - 1, 0, Len(calls)}
    BY DEF Done
  <2>3. Done' \in {k', k' - 1, 0, Len(calls')}
    BY DEF Done
  <2>4. k' \in Nat /\ k' # 0 /\ Len(calls') \in Nat
    BY DEF TypeOK
  <2>5. {k', k' - 1, 0, Len(calls')} \subseteq Nat
    BY <2>1, <2>4
  <2>6. {k, k - 1, 0, Len(calls)} \subseteq Nat
    BY <1>0, <2>1
  <2> QED
    BY <2>2, <2>3, <2>5, <2>6, Zenon
<1> SUFFICES ASSUME NEW i \in DOMAIN history', history'[i].role = "calls",
                    Owed(history[i].turn)'
             PROVE  RoundAnswered(history', i) \/ InRound(i)'
  BY DEF AnswersInv
<1>2. /\ i \in DOMAIN history /\ history'[i] = history[i]
      /\ RoundAnswered(history, i) => RoundAnswered(history', i)
      /\ \A j \in Nat : Answered(history, i, turn, round, j) =>
                          Answered(history', i, turn, round, j)
  <2>1. CASE history' = history
    BY <2>1
  <2>2. ASSUME NEW e \in Messages, e.role \in {"user", "assistant"},
               history' = Append(history, e)
        PROVE  /\ i \in DOMAIN history /\ history'[i] = history[i]
               /\ RoundAnswered(history, i) => RoundAnswered(history', i)
               /\ \A j \in Nat : Answered(history, i, turn, round, j) =>
                                   Answered(history', i, turn, round, j)
    <3>1. i \in DOMAIN history
      BY <1>0, <2>2
    <3> QED
      BY <1>0, <2>2, <3>1, AppendKeepsRound, AppendKeepsAnswer
  <2> QED
    BY <2>1, <2>2 DEF QuietStep
<1>3. Owed(history[i].turn)
  BY <1>2 DEF Owed, QuietStep
<1>4. CASE RoundAnswered(history, i)
  BY <1>2, <1>4
<1>5. CASE InRound(i)
  <2>1. /\ pc' \in ToolPhase /\ turn' = turn /\ round' = round /\ calls' = calls
        /\ Done' <= Done
    BY <1>5 DEF InRound, QuietStep
  <2>2. \A j \in 1..Done' : j \in 1..Done /\ j \in Nat
    BY <1>1, <2>1
  <2>3. \A j \in 1..Done' : Answered(history', i, turn', round', j)
    <3> SUFFICES ASSUME NEW j \in 1..Done'
                 PROVE  Answered(history', i, turn', round', j)
      OBVIOUS
    <3>1. Answered(history, i, turn, round, j)
      BY <1>5, <2>2 DEF InRound
    <3> QED
      BY <1>2, <2>1, <2>2, <3>1
  <2>4. history'[i] = CallsMessage(turn', round', Len(calls'))
    BY <1>2, <1>5, <2>1 DEF InRound
  <2> QED
    BY <2>1, <2>3, <2>4 DEF InRound
<1> QED
  BY <1>2, <1>3, <1>4, <1>5 DEF AnswersInv

(* A step that writes answers the round that runs, or begins the next when  *)
(* the last is answered.                                                    *)
LEMMA AnswersStep ==
  ASSUME TypeOK, TypeOK', PromptInv, CutInv, SystemsLead(history), OrderInv, AnswersInv,
         [Next]_vars
  PROVE  AnswersInv'
<1> USE DEF convVars, queueVars, configVars, usage, workVars, agentVars,
            ghostVars, Elsewhere
<1>0. /\ history \in Seq(Messages) /\ k \in Nat \ {0} /\ Len(calls) \in Nat
      /\ turn \in Nat /\ round \in Nat /\ stopped \in BOOLEAN
      /\ active <=> pc \notin Resting
  BY DEF TypeOK
<1>1. CASE ~WritingStep
  BY <1>1, OtherStepsAreQuiet, AnswersQuiet
<1>2. CASE ResetClear
  <2>1. DOMAIN history' = {}
    BY <1>2 DEF ResetClear
  <2> QED
    BY <2>1 DEF AnswersInv
<1>3. CASE CompactConversation \/ Truncate \/ SummaryReplace
  <2>1. PICK keep \in Nat : history' = CompactHistory(history, keep)
    BY <1>3, KeepAssumption DEF CompactConversation, Truncate, SummaryReplace
  <2>2. /\ pc \notin Posted /\ pc' \notin Posted /\ cut' = cut
    BY <1>0, <1>3 DEF CompactConversation, Truncate, SummaryReplace, Posted,
       Streaming, ToolPhase, Resting
  <2>3. Pen = 0 /\ Pen' = 0 /\ pc \notin ToolPhase
    BY <2>2 DEF Pen, Posted
  <2> SUFFICES ASSUME NEW i \in DOMAIN history', history'[i].role = "calls",
                      Owed(history[i].turn)'
               PROVE  RoundAnswered(history', i)
    BY DEF AnswersInv
  <2>4. PICK m \in DOMAIN history :
           /\ history'[i] = history[m]
           /\ RoundAnswered(history, m) => RoundAnswered(history', i)
    BY <1>0, <2>1, CompactKeepsAnswers
  <2>5. RoundAnswered(history, m)
    BY <2>2, <2>3, <2>4 DEF Owed, AnswersInv, InRound
  <2> QED
    BY <2>4, <2>5
<1>4. CASE AppendPrompt
  <2>1. pc \notin ToolPhase /\ pc \in Arriving /\ active /\ cut' = cut
    BY <1>0, <1>4 DEF AppendPrompt, ToolPhase, Arriving, Resting
  <2>2. PICK e \in Messages : e.role = "user" /\
              (history' = history \/ history' = Append(history, e))
    <3>1. UserMessage(turn) \in Messages /\ UserMessage(turn).role = "user"
      BY <1>0, MessageTypes DEF UserMessage, Message
    <3> QED
      BY <1>4, <3>1 DEF AppendPrompt
  <2> SUFFICES ASSUME NEW i \in DOMAIN history', history'[i].role = "calls",
                      Owed(history[i].turn)'
               PROVE  RoundAnswered(history', i)
    BY DEF AnswersInv
  <2>3. i \in DOMAIN history /\ history'[i] = history[i]
          /\ (RoundAnswered(history, i) => RoundAnswered(history', i))
    <3>1. CASE history' = history
      BY <3>1
    <3>2. CASE history' = Append(history, e)
      <4>1. i \in DOMAIN history
        BY <1>0, <2>2, <3>2
      <4> QED
        BY <1>0, <3>2, <4>1, AppendKeepsRound
    <3> QED
      BY <2>2, <3>1, <3>2
  <2>4. history[i].turn < turn /\ history[i].turn \in Nat
    <3>1. history[i].turn \in Requesters(history)
      <4>1. i \in DOMAIN history /\ history[i].role = "calls"
        BY <2>3
      <4> QED
        BY <4>1 DEF Requesters
    <3> QED
      BY <1>0, <2>1, <3>1, RequestersType DEF OrderInv
  <2>5. turn' = turn /\ Pen' \in {0, turn'}
    BY <1>4 DEF AppendPrompt, Pen
  <2>6. history[i].turn \notin cut
    BY <1>0, <2>1, <2>3, <2>4, <2>5 DEF Owed
  <2> QED
    BY <2>1, <2>3, <2>6 DEF Owed, AnswersInv, InRound
<1>5. CASE AppendCalls
  <2>1. pc \notin ToolPhase /\ cut' = cut /\ turn' = turn /\ round' = round
          /\ calls' = calls /\ Pen' \in {0, Pen}
    BY <1>5 DEF AppendCalls, Finish, ToolPhase, Pen, Stale, Posted
  <2> DEFINE e == CallsMessage(turn, round, Len(calls))
  <2>2. e \in Messages
    BY <1>0, MessageTypes
  <2> HIDE DEF e
  <2> SUFFICES ASSUME NEW i \in DOMAIN history', history'[i].role = "calls",
                      Owed(history[i].turn)'
               PROVE  RoundAnswered(history', i) \/ InRound(i)'
    BY DEF AnswersInv
  <2>3. CASE i \in DOMAIN history
    <3>1. history'[i] = history[i]
            /\ (RoundAnswered(history, i) => RoundAnswered(history', i))
      <4>1. history' = history \/ history' = Append(history, e)
        BY <1>5 DEF AppendCalls, e
      <4>2. CASE history' = history
        BY <4>2
      <4>3. CASE history' = Append(history, e)
        BY <1>0, <2>2, <2>3, <4>3, AppendKeepsRound
      <4> QED
        BY <4>1, <4>2, <4>3
    <3>2. Owed(history[i].turn)
      BY <2>1, <3>1 DEF Owed
    <3> QED
      BY <2>1, <2>3, <3>1, <3>2 DEF AnswersInv, InRound
  <2>4. CASE i \notin DOMAIN history
    <3>1. history' = Append(history, e) /\ k' = 1 /\ pc' = "prepare"
      BY <1>5, <2>4 DEF AppendCalls, e
    <3>2. history'[i] = e
      BY <1>0, <2>2, <2>4, <3>1
    <3>3. pc' \in ToolPhase /\ Done' = 0
      BY <3>1 DEF Done, ToolPhase
    <3> QED
      BY <2>1, <3>2, <3>3 DEF InRound, e
  <2> QED
    BY <2>3, <2>4
<1>6. CASE RecordResult
  <2>1. /\ pc = "record" /\ pc \in ToolPhase /\ pc' \in ToolPhase /\ cut' = cut
        /\ turn' = turn /\ round' = round /\ calls' = calls /\ k' = k
        /\ gen' = gen /\ tgen' = tgen /\ pc \notin Resting \cup {"activated"}
    BY <1>6 DEF RecordResult, ToolPhase, Resting
  <2>2. Pen' = Pen /\ Done = k - 1
    BY <2>1 DEF Pen, Stale, Posted, Done
  <2> DEFINE e == ResultMessage(turn, round, k)
  <2>3. e \in Messages /\ e.role = "tool"
    BY <1>0, MessageTypes DEF ResultMessage, Message
  <2> HIDE DEF e
  <2> SUFFICES ASSUME NEW i \in DOMAIN history', history'[i].role = "calls",
                      Owed(history[i].turn)'
               PROVE  RoundAnswered(history', i) \/ InRound(i)'
    BY DEF AnswersInv
  <2>4. CASE ~Stale
    <3>1. history' = Append(history, e) /\ pc' = "next"
      BY <1>6, <2>4 DEF RecordResult, e
    <3>2. i \in DOMAIN history
      BY <1>0, <2>3, <3>1
    <3>3. history'[i] = history[i]
            /\ (RoundAnswered(history, i) => RoundAnswered(history', i))
      BY <1>0, <2>3, <3>1, <3>2, AppendKeepsRound
    <3>4. Owed(history[i].turn)
      BY <2>1, <2>2, <3>3 DEF Owed
    <3>5. CASE InRound(i)
      <4>1. Done' = k
        BY <2>1, <3>1 DEF Done
      <4>2. \A j \in 1..k : Answered(history', i, turn, round, j)
        <5> SUFFICES ASSUME NEW j \in 1..k
                     PROVE  Answered(history', i, turn, round, j)
          OBVIOUS
        <5>1. CASE j = k
          BY <1>0, <3>1, <3>2, <5>1, AppendAnswers DEF e
        <5>2. CASE j # k
          <6>1. j \in 1..Done /\ i \in Nat
            BY <1>0, <2>2, <3>2, <5>2
          <6>2. Answered(history, i, turn, round, j)
            BY <3>5, <6>1 DEF InRound
          <6> QED
            BY <1>0, <2>3, <3>1, <6>1, <6>2, AppendKeepsAnswer
        <5> QED
          BY <5>1, <5>2
      <4> QED
        BY <2>1, <3>3, <3>5, <4>1, <4>2 DEF InRound
    <3> QED
      BY <3>2, <3>3, <3>4, <3>5 DEF AnswersInv
  <2>5. CASE Stale
    <3>1. history' = history
      BY <1>6, <2>5 DEF RecordResult
    <3>2. Pen = 0 /\ turn \in cut
      BY <2>1, <2>5 DEF Pen, CutInv
    <3>3. Owed(history[i].turn) /\ history[i].turn # turn
      BY <2>1, <2>2, <3>1, <3>2 DEF Owed
    <3>4. ~InRound(i)
      BY <3>3 DEF InRound, CallsMessage, Message
    <3> QED
      BY <3>1, <3>3, <3>4 DEF AnswersInv
  <2> QED
    BY <2>4, <2>5
<1>7. CASE EndRound
  <2>1. /\ pc = "roundend" /\ history' = history /\ cut' = cut /\ turn' = turn
        /\ gen' = gen /\ tgen' = tgen /\ pc' \notin ToolPhase
        /\ pc \notin Resting \cup {"activated"} /\ active
    BY <1>0, <1>7 DEF EndRound, Finish, ToolPhase, Resting
  <2> SUFFICES ASSUME NEW i \in DOMAIN history, history[i].role = "calls",
                      Owed(history[i].turn)', InRound(i)
               PROVE  RoundAnswered(history, i)
    <3>1. Pen' \in {0, Pen}
      BY <2>1 DEF Pen, Stale, Posted, ToolPhase
    <3> QED
      BY <2>1, <3>1 DEF AnswersInv, Owed
  <2>2. history[i].turn = turn /\ history[i].round = round /\ history[i].n = Len(calls)
    BY DEF InRound, CallsMessage, Message
  <2>3. ~stopped
    <3>1. stopped => pc' = "leave" /\ turn \in cut
      BY <1>7, <2>1 DEF EndRound, Finish, CutInv
    <3>2. pc' = "leave" => Pen' = 0
      BY DEF Pen, Posted, Streaming, ToolPhase
    <3> QED
      BY <2>1, <2>2, <3>1, <3>2 DEF Owed
  <2>4. Done = Len(calls)
    BY <2>1, <2>3 DEF Done
  <2> QED
    BY <2>2, <2>4 DEF InRound, RoundAnswered
<1> QED
  BY <1>1, <1>2, <1>3, <1>4, <1>5, <1>6, <1>7 DEF WritingStep

(* The invariants about the history, together. *)
HistoryInv ==
  TypeOK /\ PromptInv /\ CutInv /\ SystemsLead(history) /\ OrderInv /\ AnswersInv

(* The history is empty at first.                                           *)
LEMMA HistoryInit == Init => HistoryInv
<1> SUFFICES ASSUME Init PROVE HistoryInv
  OBVIOUS
<1>1. TypeOK
  BY InitType
<1>2. DOMAIN history = {} /\ DOMAIN pending = {} /\ pc = "check" /\ ~active
        /\ tgen = 0 /\ gen = 0
  BY DEF Init
<1>3. PromptInv /\ CutInv
  BY <1>2 DEF PromptInv, CutInv, Posted, Streaming, ToolPhase, Resting
<1>4. SystemsLead(history) /\ AnswersInv
  BY <1>2 DEF SystemsLead, AnswersInv
<1>5. OrderInv
  BY <1>2 DEF OrderInv, Requesters
<1> QED
  BY <1>1, <1>3, <1>4, <1>5 DEF HistoryInv

(* All parts of the invariant together are kept by every step.              *)
LEMMA HistoryNext == HistoryInv /\ [Next]_vars => HistoryInv'
<1> SUFFICES ASSUME HistoryInv, [Next]_vars PROVE HistoryInv'
  OBVIOUS
<1>1. TypeOK' /\ PromptInv'
  BY NextType, PromptNext DEF HistoryInv
<1>2. CutInv' /\ OrderInv'
  BY CutStep, OrderStep DEF HistoryInv
<1>3. SystemsLead(history')
  BY LeadStep DEF HistoryInv
<1>4. AnswersInv'
  BY <1>1, AnswersStep DEF HistoryInv
<1> QED
  BY <1>1, <1>2, <1>3, <1>4 DEF HistoryInv

(* Every tool request in the history has all its answers, unless its round  *)
(* still runs or the user cut its turn short: for any number of tools,      *)
(* rounds, prompts and agents, under every compaction.                      *)
THEOREM EveryRequestAnswered == Spec => []RequestsAnswered
<1>1. HistoryInv => RequestsAnswered
  <2> SUFFICES ASSUME HistoryInv, NEW i \in DOMAIN history,
                      history[i].role = "calls", history[i].turn \notin cut
               PROVE  \/ RoundAnswered(history, i)
                      \/ /\ history[i].turn = turn /\ history[i].round = round
                         /\ pc \in ToolPhase
    BY DEF RequestsAnswered, RoundAnswered
  <2>1. RoundAnswered(history, i) \/ InRound(i)
    BY DEF HistoryInv, AnswersInv, Owed
  <2> QED
    BY <2>1 DEF InRound, CallsMessage, Message
<1> QED
  BY <1>1, HistoryInit, HistoryNext, PTL DEF Spec

(* Once a turn that waits for an approval has been told to stop, no answer  *)
(* gets its tool executed: the wait is the only way out, and it looks at    *)
(* the stop before the answer.                                              *)
THEOREM LateApprovalsAreIgnored == Spec => LateApprovalIgnored
<1>1. ASSUME [Next]_vars, pc = "await", stopped PROVE pc' # "execute"
  <2> SUFFICES ASSUME pc' = "execute" PROVE FALSE
    OBVIOUS
  <2>1. WaitForResolution
    BY <1>1 DEF Next, vars, ClientChoice, ClientStep, WorkerStep, TurnStep,
     ToolStep, AgentStep, SubmitUserMessage, CancelActiveResponse,
     ResolveToolApproval, SetAgentMode, CompactConversation, ResetBump,
     SubmitNotify, WorkerWoken, ResetStop, ResetDrain, DrainExpires, ResetClear,
     ResetCancelAgents, ResetJoin, ResetApprovals, SpawnBackground,
     InjectSubAgentContinuation, InjectNotify, Sleep, Activate, EnterTurn,
     Deactivate, NotifyAll, NoProvider, BeginTurn, Truncate, SummarySnapshot,
     SummaryReplace, AppendPrompt, SnapshotConfig, SendRequest, UseReminder,
     ReportUsage, StoreUsage, StreamEnds, AppendCalls, AppendFinal, Finish,
     PrepareTool, RequestApproval, ExecuteTool, FinishTool, ApplyPlanExit,
     RecordResult, NextTool, EndRound
  <2> QED
    BY <1>1, <2>1 DEF WaitForResolution, Approved
<1> QED
  BY <1>1, PTL DEF Spec, LateApprovalIgnored
-----------------------------------------------------------------------------
(*                          THE CONVERSATION                               *)
(* The boundary a reset draws: as long as the active prompt drains in time,*)
(* no prompt of the user crosses it, whatever the background agents do; and*)
(* no approved plan does, as long as no prompt runs when the conversation  *)
(* is cleared.  Then the refinement: ChatService implements Transcript,    *)
(* every step of its threads is a step of the transcript, or leaves history*)
(* and pen alone.                                                          *)

(* The steps whose absence the theorems suppose.                            *)
InTime == [][~DrainExpires]_vars
ClearedAtRest == [][ResetClear => ~active]_vars

-----------------------------------------------------------------------------
(*                  WHAT THE STEPS BRING INTO THE HISTORY                  *)

(* A message that is not of the history belongs to the turn that runs, or   *)
(* is the continuation an agent hands in.                                   *)
LEMMA HistoryTurns ==
  ASSUME TypeOK, SystemsLead(history), [Next]_vars,
         NEW i \in DOMAIN history', history'[i].role # "system"
  PROVE  \/ \E m \in DOMAIN history : history[m] = history'[i]
         \/ active /\ history'[i].turn = turn
         \/ \E a \in Agents :
              InjectSubAgentContinuation(a) /\ history'[i].turn = NewId
<1> USE DEF convVars, queueVars, configVars, usage, workVars, agentVars,
            ghostVars, Elsewhere
<1>0. /\ history \in Seq(Messages) /\ turn \in Nat /\ round \in Nat /\ k \in Nat
      /\ Len(calls) \in Nat /\ NewId \in Nat
  BY DEF TypeOK, NewId
<1>1. CASE history' = history
  BY <1>1
<1>2. CASE history' = <<>>
  BY <1>2
<1>3. ASSUME NEW keep \in Nat, history' = CompactHistory(history, keep)
      PROVE  \E m \in DOMAIN history : history[m] = history'[i]
  <2>1. PICK d \in Nat : \A j \in DOMAIN history' :
          history'[j].role # "system" =>
            j + d \in DOMAIN history /\ history'[j] = history[j + d]
    BY <1>0, <1>3, CompactSurvivors
  <2> QED
    BY <2>1
<1>4. ASSUME NEW e \in Messages, history' = Append(history, e)
      PROVE  (\E m \in DOMAIN history : history[m] = history'[i]) \/ history'[i] = e
  BY <1>0, <1>4
<1>5. /\ \A t \in Nat : UserMessage(t) \in Messages /\ UserMessage(t).turn = t
      /\ CallsMessage(turn, round, Len(calls)) \in Messages
      /\ CallsMessage(turn, round, Len(calls)).turn = turn
      /\ ResultMessage(turn, round, k) \in Messages
      /\ ResultMessage(turn, round, k).turn = turn
      /\ FinalMessage(turn, round) \in Messages
      /\ FinalMessage(turn, round).turn = turn
  BY <1>0, MessageTypes DEF UserMessage, CallsMessage, ResultMessage,
     FinalMessage, Message
<1>6. CASE \E a \in Agents : InjectSubAgentContinuation(a)
  BY <1>0, <1>1, <1>4, <1>5, <1>6 DEF InjectSubAgentContinuation
<1>7. CASE AppendPrompt \/ AppendCalls \/ AppendFinal \/ RecordResult
  <2>1. active
    BY <1>7 DEF AppendPrompt, AppendCalls, AppendFinal, RecordResult, TypeOK,
                Resting
  <2>2. \/ history' = history
        \/ history' = Append(history, UserMessage(turn))
        \/ history' = Append(history, CallsMessage(turn, round, Len(calls)))
        \/ history' = Append(history, ResultMessage(turn, round, k))
        \/ history' = Append(history, FinalMessage(turn, round))
    BY <1>7 DEF AppendPrompt, AppendCalls, AppendFinal, RecordResult
  <2> QED
    BY <1>0, <1>1, <1>4, <1>5, <2>1, <2>2
<1>8. CASE CompactConversation \/ Truncate \/ SummaryReplace \/ ResetClear
             \/ EndRound
  BY <1>1, <1>2, <1>3, <1>8, KeepAssumption DEF CompactConversation, Truncate,
     SummaryReplace, ResetClear, EndRound
<1>9. CASE ~WritingStep /\ ~AppendFinal
             /\ \A a \in Agents : ~InjectSubAgentContinuation(a)
  BY <1>1, <1>9, QuietHistory
<1> QED
  BY <1>6, <1>7, <1>8, <1>9 DEF WritingStep

-----------------------------------------------------------------------------
(*                    THE USER'S PROMPTS                                   *)

Client(t) == prompts[t].by = "client"

(* An id that was given out, by the client in this conversation if by it.   *)
AtHome(t) == t \in 1..Len(prompts) /\ (Client(t) => OfThisConversation(t))

Draining == {"r_drain", "r_sleep", "r_clear"}

(* Once the reset has emptied the queue, what comes into it is the agents'; *)
(* once it has drained, so is what runs.  Both may stay: only a prompt of   *)
(* the client is bound to its conversation.                                 *)
HomeInv ==
  /\ \A i \in DOMAIN pending : AtHome(pending[i])
  /\ active => AtHome(turn)
  /\ \A i \in DOMAIN history :
        history[i].role # "system" => AtHome(history[i].turn)
  /\ u \in Draining => \A i \in DOMAIN pending : ~Client(pending[i])
  /\ u = "r_clear" => ~(active /\ Client(turn))

(* What is at home stays so while ids are given out in the conversation.    *)
LEMMA HomeKept ==
  ASSUME TypeOK, session' = session, NEW p,
         prompts' = prompts \/ prompts' = Append(prompts, p)
  PROVE  \A t : AtHome(t) => /\ AtHome(t)'
                             /\ Client(t)' = Client(t)
<1>1. prompts \in Seq([conv : Nat, by : {"client"} \cup Agents])
  BY DEF TypeOK
<1>2. ASSUME NEW t \in 1..Len(prompts)
      PROVE  t \in 1..Len(prompts') /\ prompts'[t] = prompts[t]
  <2>1. CASE prompts' = prompts
    BY <2>1
  <2>2. CASE prompts' = Append(prompts, p)
    BY <1>1, <2>2
  <2> QED
    BY <2>1, <2>2
<1> QED
  BY <1>2 DEF AtHome, Client, OfThisConversation

(* Every step keeps the turns at home, as long as the drain of a reset is   *)
(* not given up.                                                            *)
LEMMA HomeStep ==
  ASSUME TypeOK, SystemsLead(history), HomeInv, [Next]_vars, ~DrainExpires
  PROVE  HomeInv'
<1> USE DEF convVars, queueVars, configVars, usage, workVars, agentVars,
            ghostVars, Elsewhere
<1>1. /\ turn \in Nat /\ pending \in Seq(Nat) /\ Len(prompts) \in Nat
      /\ active <=> pc \notin Resting
      /\ prompts \in Seq([conv : Nat, by : {"client"} \cup Agents])
  BY DEF TypeOK
<1>2. CASE SubmitUserMessage
  <2>1. /\ session' = session /\ active' = active /\ turn' = turn
        /\ history' = history /\ pending' = Append(pending, NewId)
        /\ prompts' = Append(prompts, [conv |-> session, by |-> "client"])
        /\ u' = "notify"
    BY <1>2 DEF SubmitUserMessage
  <2>2. \A t : AtHome(t) => AtHome(t)'
    BY <2>1, HomeKept
  <2>3. PICK n \in Nat : n = NewId
    BY <1>1 DEF NewId
  <2>4. AtHome(n)'
    <3>1. /\ Len(prompts') = n /\ n \in 1..Len(prompts')
          /\ prompts'[n] = [conv |-> session, by |-> "client"]
      BY <1>1, <2>1, <2>3 DEF NewId
    <3> QED
      BY <2>1, <3>1 DEF AtHome, OfThisConversation
  <2>5. ASSUME NEW i \in DOMAIN pending' PROVE AtHome(pending[i])'
    <3>1. pending'[i] = n \/ (i \in DOMAIN pending /\ pending'[i] = pending[i])
      BY <1>1, <2>1, <2>3
    <3> QED
      BY <2>2, <2>4, <3>1 DEF HomeInv
  <2> QED
    BY <2>1, <2>2, <2>5 DEF HomeInv, Draining
<1>3. ASSUME NEW a \in Agents, InjectSubAgentContinuation(a) PROVE HomeInv'
  <2>1. /\ session' = session /\ active' = active /\ turn' = turn /\ u' = u
        /\ prompts' = Append(prompts, [conv |-> agent[a].conv, by |-> a])
        /\ pending' = pending \/ pending' = Append(pending, NewId)
    BY <1>3 DEF InjectSubAgentContinuation
  <2>2. \A t : AtHome(t) => AtHome(t)' /\ Client(t)' = Client(t)
    BY <2>1, HomeKept
  <2>3. PICK n \in Nat : n = NewId
    BY <1>1 DEF NewId
  <2>4. AtHome(n)' /\ ~Client(n)'
    <3>1. [conv |-> agent[a].conv, by |-> a]
             \in [conv : Nat, by : {"client"} \cup Agents]
      BY DEF TypeOK
    <3>2. /\ Len(prompts') = n /\ n \in 1..Len(prompts')
          /\ prompts'[n] = [conv |-> agent[a].conv, by |-> a]
      BY <1>1, <2>1, <2>3, <3>1 DEF NewId
    <3> QED
      BY <3>2, AgentsAssumption DEF AtHome, Client
  <2>5. ASSUME NEW i \in DOMAIN pending'
        PROVE  /\ AtHome(pending[i])'
               /\ u \in Draining => ~Client(pending[i])'
    <3>1. pending'[i] = n \/ (i \in DOMAIN pending /\ pending'[i] = pending[i])
      <4>1. CASE pending' = pending
        BY <4>1
      <4>2. CASE pending' = Append(pending, n)
        BY <1>1, <4>2
      <4> QED
        BY <2>1, <2>3, <4>1, <4>2
    <3> QED
      BY <2>2, <2>4, <3>1 DEF HomeInv
  <2>6. ASSUME NEW i \in DOMAIN history', history'[i].role # "system"
        PROVE  AtHome(history[i].turn)'
    <3>1. \/ \E m \in DOMAIN history : history[m] = history'[i]
          \/ active /\ history'[i].turn = turn
          \/ history'[i].turn = n
      <4>1. \A b \in Agents : InjectSubAgentContinuation(b) => NewId = n
        BY <2>3
      <4> QED
        BY <2>6, <4>1, HistoryTurns
    <3>2. CASE \E m \in DOMAIN history : history[m] = history'[i]
      BY <2>2, <2>6, <3>2 DEF HomeInv
    <3>3. CASE active /\ history'[i].turn = turn
      BY <2>2, <3>3 DEF HomeInv
    <3>4. CASE history'[i].turn = n
      BY <2>4, <3>4
    <3> QED
      BY <3>1, <3>2, <3>3, <3>4
  <2>7. active' => AtHome(turn)' /\ (Client(turn)' => Client(turn))
    BY <2>1, <2>2 DEF HomeInv
  <2> QED
    BY <2>1, <2>5, <2>6, <2>7 DEF HomeInv
<1>4. CASE ResetClear
  <2>1. /\ u = "r_clear" /\ u' = "r_agents" /\ pending' = pending
        /\ active' = active /\ turn' = turn /\ prompts' = prompts
        /\ DOMAIN history' = {}
    BY <1>4 DEF ResetClear
  <2>2. \A i \in DOMAIN pending : ~Client(pending[i])
    BY <2>1 DEF HomeInv, Draining
  <2>3. \A t : AtHome(t) /\ ~Client(t) => AtHome(t)'
    BY <2>1 DEF AtHome, Client
  <2> QED
    BY <2>1, <2>2, <2>3 DEF HomeInv, Draining
<1>5. CASE Activate
  <2>1. /\ session' = session /\ prompts' = prompts /\ history' = history
        /\ u' = u /\ pending # <<>> /\ Len(pending) \in Nat
        /\ turn' = pending[1] /\ 1 \in DOMAIN pending
        /\ \A i \in DOMAIN pending' :
             i + 1 \in DOMAIN pending /\ pending'[i] = pending[i + 1]
    BY <1>1, <1>5 DEF Activate
  <2>2. \A t : AtHome(t) => AtHome(t)' /\ Client(t)' = Client(t)
    BY <2>1, HomeKept
  <2>3. \A i \in DOMAIN pending' :
          /\ AtHome(pending[i])'
          /\ u \in Draining => ~Client(pending[i])'
    BY <2>1, <2>2 DEF HomeInv
  <2>4. AtHome(turn)' /\ (u = "r_clear" => ~Client(turn)')
    BY <2>1, <2>2 DEF HomeInv, Draining
  <2> QED
    BY <2>1, <2>2, <2>3, <2>4 DEF HomeInv
<1>6. CASE /\ ~SubmitUserMessage /\ ~ResetClear /\ ~Activate
           /\ \A a \in Agents : ~InjectSubAgentContinuation(a)
  <2>1. /\ session' = session /\ prompts' = prompts
        /\ pending' = pending \/ pending' = <<>>
        /\ active' => active /\ turn' = turn
        /\ u' \in Draining => u \in Draining \/ pending' = <<>>
        /\ u' = "r_clear" => u = "r_clear" \/ ~active'
    <3>1. CASE UNCHANGED vars
      BY <3>1 DEF vars
    <3>2. CASE ClientChoice \/ ClientStep
      BY <1>6, <3>2 DEF ClientChoice, ClientStep, CancelActiveResponse,
         ResolveToolApproval, SetAgentMode, CompactConversation, ResetBump,
         SubmitNotify, ResetStop, QueueCleared, ResetDrain, Drained,
         ResetCancelAgents, ResetJoin, ResetApprovals, Draining
    <3>3. CASE \E a \in Agents : SpawnBackground(a) \/ AgentStep(a)
      BY <1>6, <3>3 DEF SpawnBackground, AgentStep, InjectNotify, Draining
    <3>4. CASE TurnStep
      BY <1>6, <3>4 DEF TurnStep, Sleep, EnterTurn, Deactivate, NotifyAll,
         NoProvider, BeginTurn, Truncate, SummarySnapshot, SummaryReplace,
         AppendPrompt, SnapshotConfig, SendRequest, UseReminder, ReportUsage,
         StoreUsage, StreamEnds, AppendCalls, AppendFinal, Draining
    <3>5. CASE ToolStep
      BY <3>5 DEF ToolStep, PrepareTool, RequestApproval, WaitForResolution,
         ExecuteTool, FinishTool, ApplyPlanExit, RecordResult, NextTool,
         EndRound
    <3> QED
      BY <3>1, <3>2, <3>3, <3>4, <3>5 DEF Next, WorkerStep
  <2>2. \A t : AtHome(t) => AtHome(t)' /\ Client(t)' = Client(t)
    BY <2>1, HomeKept
  <2>3. ASSUME NEW i \in DOMAIN history', history'[i].role # "system"
        PROVE  AtHome(history[i].turn)'
    <3>1. \/ \E m \in DOMAIN history : history[m] = history'[i]
          \/ active /\ history'[i].turn = turn
      BY <1>6, <2>3, HistoryTurns
    <3> QED
      BY <2>2, <2>3, <3>1 DEF HomeInv
  <2>4. \A i \in DOMAIN pending' :
          /\ i \in DOMAIN pending /\ pending'[i] = pending[i]
          /\ AtHome(pending[i])'
          /\ u \in Draining => ~Client(pending[i])'
    BY <2>1, <2>2 DEF HomeInv
  <2>5. pending' = <<>> => DOMAIN pending' = {}
    OBVIOUS
  <2>6. active' => AtHome(turn)' /\ (Client(turn)' => Client(turn))
    BY <2>1, <2>2 DEF HomeInv
  <2> QED
    BY <2>1, <2>3, <2>4, <2>5, <2>6 DEF HomeInv
<1> QED
  BY <1>2, <1>3, <1>4, <1>5, <1>6

(* A prompt of the user is only ever queued, or answered in the history, in *)
(* the conversation it was typed in, in every behaviour in which the active *)
(* prompt drains before the budget of the reset runs out: for any number of *)
(* background agents, whose continuations come in at any time.              *)
THEOREM PromptsStay == Spec /\ InTime => []PromptsStayInConversation
<1>1. Init => HomeInv
  BY DEF Init, HomeInv, Draining
<1>2. HistoryInv /\ HomeInv /\ [Next]_vars /\ [~DrainExpires]_vars => HomeInv'
  <2> SUFFICES ASSUME HistoryInv, HomeInv, [Next]_vars, [~DrainExpires]_vars
               PROVE  HomeInv'
    OBVIOUS
  <2>1. CASE ~DrainExpires
    BY <2>1, HomeStep DEF HistoryInv
  <2>2. CASE UNCHANGED vars
    BY <2>2 DEF vars, convVars, queueVars, ghostVars, workVars, HomeInv, AtHome, Client, OfThisConversation
  <2> QED
    BY <2>1, <2>2
<1>3. HomeInv => PromptsStayInConversation
  BY DEF HomeInv, AtHome, Client, PromptsStayInConversation
<1> QED
  BY <1>1, <1>2, <1>3, HistoryInit, HistoryNext, PTL DEF Spec, InTime

-----------------------------------------------------------------------------
(*                       THE APPROVED PLAN                                 *)

(* Every copy of a plan's path is of this conversation or of none, and a    *)
(* function of the worker holds one only in the middle of a prompt.         *)
PlanInv ==
  /\ switchPath \in {None, session} /\ planPath \in {None, session}
  /\ planCopy \in {None, session}
  /\ planCopy # None => pc \in {"request", "remind", "planexit"}

(* A plan is copied and cleared with the conversation it belongs to.        *)
LEMMA PlanStep ==
  ASSUME TypeOK, PlanInv, [Next]_vars, ResetClear => ~active
  PROVE  PlanInv'
<1> USE DEF convVars, queueVars, configVars, usage, workVars, agentVars,
            ghostVars, Elsewhere
<1>1. active <=> pc \notin Resting
  BY DEF TypeOK
<1>2. CASE ResetClear
  <2>1. pc \in Resting
    BY <1>1, <1>2
  <2>2. planCopy = None
    BY <2>1 DEF PlanInv, Resting
  <2> QED
    BY <1>2, <2>2 DEF ResetClear, PlanInv
<1>3. CASE UNCHANGED vars
  BY <1>3 DEF vars, PlanInv
<1>4. CASE (ClientChoice \/ ClientStep) /\ ~ResetClear
  <2>1. /\ session' = session /\ switchPath' = switchPath
        /\ planPath' \in {planPath, session} /\ planCopy' = planCopy
        /\ pc' = pc \/ (pc = "asleep" /\ pc' = "check")
    BY <1>4 DEF ClientChoice, ClientStep, SubmitUserMessage,
       CancelActiveResponse, ResolveToolApproval, SetAgentMode,
       CompactConversation, ResetBump, SubmitNotify, WorkerWoken, ResetStop,
       ResetDrain, DrainExpires, ResetCancelAgents, ResetJoin, ResetApprovals
  <2> QED
    BY <2>1 DEF PlanInv
<1>5. CASE \E a \in Agents : SpawnBackground(a) \/ AgentStep(a)
  <2>1. /\ session' = session /\ switchPath' = switchPath
        /\ planPath' = planPath /\ planCopy' = planCopy
        /\ pc' = pc \/ (pc = "asleep" /\ pc' = "check")
    BY <1>5 DEF SpawnBackground, AgentStep, InjectSubAgentContinuation, InjectNotify
  <2> QED
    BY <2>1 DEF PlanInv
<1>6. CASE SnapshotConfig \/ SendRequest \/ UseReminder
  BY <1>6 DEF SnapshotConfig, SendRequest, UseReminder, Finish, PlanInv
<1>7. CASE ExecuteTool \/ ApplyPlanExit
  BY <1>7 DEF ExecuteTool, ApplyPlanExit, PlanInv
<1>8. CASE TurnStep /\ ~SnapshotConfig /\ ~SendRequest /\ ~UseReminder
  <2>1. /\ session' = session /\ switchPath' = switchPath
        /\ planPath' = planPath /\ planCopy' = planCopy
        /\ pc \notin {"request", "remind", "planexit"}
    BY <1>8 DEF TurnStep, Sleep, Activate, EnterTurn, Deactivate, NotifyAll,
       NoProvider, BeginTurn, Truncate, SummarySnapshot, SummaryReplace,
       AppendPrompt, ReportUsage, StoreUsage, StreamEnds, AppendCalls,
       AppendFinal
  <2> QED
    BY <2>1 DEF PlanInv
<1>9. CASE ToolStep /\ ~ExecuteTool /\ ~ApplyPlanExit
  <2>1. /\ session' = session /\ switchPath' = switchPath
        /\ planPath' = planPath /\ planCopy' = planCopy
        /\ pc \notin {"request", "remind", "planexit"}
    BY <1>9 DEF ToolStep, PrepareTool, RequestApproval, WaitForResolution,
       FinishTool, RecordResult, NextTool, EndRound
  <2> QED
    BY <2>1 DEF PlanInv
<1> QED
  BY <1>2, <1>3, <1>4, <1>5, <1>6, <1>7, <1>8, <1>9 DEF Next, WorkerStep

(* The plan file and the reminder of an approved plan belong to the current *)
(* conversation, in every behaviour in which no prompt runs while a reset   *)
(* clears the conversation: the copy a function of the worker holds is the  *)
(* only way across.                                                         *)
THEOREM PlanStays == Spec /\ ClearedAtRest => []PlanStaysInConversation
<1>1. Init => PlanInv
  BY DEF Init, PlanInv
<1>2. TypeOK /\ PlanInv /\ [Next]_vars /\ [ResetClear => ~active]_vars => PlanInv'
  <2> SUFFICES ASSUME TypeOK, PlanInv, [Next]_vars, [ResetClear => ~active]_vars
               PROVE  PlanInv'
    OBVIOUS
  <2>1. CASE ResetClear => ~active
    BY <2>1, PlanStep
  <2>2. CASE UNCHANGED vars
    BY <2>2 DEF vars, convVars, configVars, workVars, PlanInv
  <2> QED
    BY <2>1, <2>2
<1>3. PlanInv => PlanStaysInConversation
  BY DEF PlanInv, PlanStaysInConversation
<1> QED
  BY <1>1, <1>2, <1>3, TypeCorrect, PTL DEF Spec, ClearedAtRest

(* Without background agents the queue stays empty from the moment the      *)
(* reset empties it, and nothing runs once it has drained.                  *)
DrainInv ==
  /\ u \in Draining => pending = <<>>
  /\ u = "r_clear" => ~active

(* Without agents nothing is queued behind the back of a reset that drains. *)
LEMMA DrainStep ==
  ASSUME Agents = {}, TypeOK, DrainInv, [Next]_vars, ~DrainExpires
  PROVE  DrainInv'
<1> USE DEF convVars, queueVars, configVars, usage, workVars, agentVars,
            ghostVars, Elsewhere, DrainInv, Draining
<1>1. active <=> pc \notin Resting
  BY DEF TypeOK
<1>2. CASE UNCHANGED vars
  BY <1>2 DEF vars
<1>3. CASE ClientChoice \/ ClientStep
  BY <1>3 DEF ClientChoice, ClientStep, SubmitUserMessage, CancelActiveResponse,
     ResolveToolApproval, SetAgentMode, CompactConversation, ResetBump,
     SubmitNotify, ResetStop, QueueCleared, ResetDrain, Drained, ResetClear,
     ResetCancelAgents, ResetJoin, ResetApprovals
<1>4. CASE TurnStep
  <2>1. CASE Activate
    BY <2>1 DEF Activate
  <2>2. CASE ~Activate
    <3>1. pending' = pending /\ (active' => active)
            /\ (u' = u \/ (u = "r_sleep" /\ u' = "r_drain"))
      BY <1>4, <2>2 DEF TurnStep, Sleep, EnterTurn, Deactivate, NotifyAll,
         NoProvider, BeginTurn, Truncate, SummarySnapshot, SummaryReplace,
         AppendPrompt, SnapshotConfig, SendRequest, UseReminder, ReportUsage,
         StoreUsage, StreamEnds, AppendCalls, AppendFinal
    <3> QED
      BY <3>1
  <2> QED
    BY <2>1, <2>2
<1>5. CASE ToolStep
  <2>1. pending' = pending /\ active' = active /\ u' = u
    BY <1>5 DEF ToolStep, PrepareTool, RequestApproval, WaitForResolution,
       ExecuteTool, FinishTool, ApplyPlanExit, RecordResult, NextTool, EndRound
  <2> QED
    BY <2>1
<1> QED
  BY <1>2, <1>3, <1>4, <1>5 DEF Next, WorkerStep

(* So without background agents it is enough that the prompt drains in      *)
(* time.                                                                    *)
THEOREM PlanStaysInTime ==
  ASSUME Agents = {}
  PROVE  Spec /\ InTime => []PlanStaysInConversation
<1>1. Init => DrainInv
  BY DEF Init, DrainInv, Draining
<1>2. TypeOK /\ DrainInv /\ [Next]_vars /\ [~DrainExpires]_vars => DrainInv'
  <2> SUFFICES ASSUME TypeOK, DrainInv, [Next]_vars, [~DrainExpires]_vars
               PROVE  DrainInv'
    OBVIOUS
  <2>1. CASE ~DrainExpires
    BY <2>1, DrainStep
  <2>2. CASE UNCHANGED vars
    BY <2>2 DEF vars, queueVars, DrainInv
  <2> QED
    BY <2>1, <2>2
<1>3. DrainInv => [ResetClear => ~active]_vars
  BY DEF DrainInv, ResetClear
<1> QED
  BY <1>1, <1>2, <1>3, TypeCorrect, PlanStays, PTL
     DEF Spec, InTime, ClearedAtRest

-----------------------------------------------------------------------------
(*                       THE ROUND THAT RUNS                               *)

(* While a round of tools runs that may write, its request is in the        *)
(* history, and its answers so far are those of the first tools, in order.  *)
RoundInv ==
  pc \in ToolPhase \ {"roundend"} /\ ~Stale =>
    \E i \in DOMAIN history :
      /\ history[i] = CallsMessage(turn, round, Len(calls))
      /\ \A j \in 1..Len(calls) :
           Answered(history, i, turn, round, j) <=> j <= Done

(* A quiet step leaves the round as it is, or ends it.                      *)
LEMMA RoundQuiet ==
  ASSUME TypeOK, RoundInv, QuietStep
  PROVE  RoundInv'
<1> SUFFICES ASSUME pc' \in ToolPhase \ {"roundend"}, ~Stale'
             PROVE  RoundInv'
  BY DEF RoundInv
<1>1. /\ pc \in ToolPhase \ {"roundend"} /\ Done' = Done /\ ~Stale
      /\ turn' = turn /\ round' = round /\ calls' = calls
  BY DEF QuietStep
<1>2. PICK i \in DOMAIN history :
        /\ history[i] = CallsMessage(turn, round, Len(calls))
        /\ \A j \in 1..Len(calls) :
             Answered(history, i, turn, round, j) <=> j <= Done
  BY <1>1 DEF RoundInv
<1>3. CASE history' = history
  BY <1>1, <1>2, <1>3 DEF RoundInv
<1>4. ASSUME NEW e \in Messages, e.role \in {"user", "assistant"},
             history' = Append(history, e)
      PROVE  RoundInv'
  <2>1. history \in Seq(Messages) /\ i \in Nat
    BY DEF TypeOK
  <2>2. i \in DOMAIN history' /\ history'[i] = history[i]
    BY <1>4, <2>1
  <2>3. \A j : e # ResultMessage(turn, round, j)
    BY <1>4 DEF ResultMessage, Message
  <2>4. \A j \in 1..Len(calls) :
          Answered(history', i, turn, round, j)
            <=> Answered(history, i, turn, round, j)
    BY <1>4, <2>1, <2>3, AppendKeepsAnswer, AppendAddsNoAnswer
  <2>5. \A j \in 1..Len(calls') :
          Answered(history', i, turn', round', j) <=> j <= Done'
    BY <1>1, <1>2, <2>4
  <2>6. history'[i] = CallsMessage(turn', round', Len(calls'))
    BY <1>1, <1>2, <2>2
  <2> QED
    BY <2>2, <2>5, <2>6 DEF RoundInv
<1> QED
  BY <1>3, <1>4 DEF QuietStep

(* A round begins with its request, and each result answers the next of its *)
(* tools.                                                                   *)
LEMMA RoundStep ==
  ASSUME TypeOK, PromptInv, RoundInv, [Next]_vars
  PROVE  RoundInv'
<1> USE DEF convVars, queueVars, configVars, usage, workVars, agentVars,
            ghostVars, Elsewhere
<1>0. /\ history \in Seq(Messages) /\ k \in Nat \ {0} /\ Len(calls) \in Nat
      /\ turn \in Nat /\ round \in Nat /\ gen \in Nat /\ tgen \in Nat
      /\ active <=> pc \notin Resting
  BY DEF TypeOK
<1>1. CASE ~WritingStep
  BY <1>1, OtherStepsAreQuiet, RoundQuiet
<1>2. CASE AppendPrompt \/ EndRound \/ Truncate \/ SummaryReplace
  <2>1. pc' \notin ToolPhase
    BY <1>2 DEF AppendPrompt, EndRound, Finish, Truncate, SummaryReplace, ToolPhase
  <2> QED
    BY <2>1 DEF RoundInv
<1>3. CASE CompactConversation
  <2>1. pc' = pc /\ pc \in Resting
    BY <1>0, <1>3 DEF CompactConversation
  <2> QED
    BY <2>1 DEF RoundInv, Resting, ToolPhase
<1>4. CASE ResetClear
  <2>1. gen' = gen + 1 /\ tgen' = tgen
    BY <1>4 DEF ResetClear, BumpedTwice
  <2>2. Stale'
    BY <1>0, <2>1 DEF PromptInv, Stale
  <2> QED
    BY <2>2 DEF RoundInv
<1>5. CASE AppendCalls
  <2> SUFFICES ASSUME pc' \in ToolPhase \ {"roundend"} PROVE RoundInv'
    BY DEF RoundInv
  <2>1. /\ history' = Append(history, CallsMessage(turn, round, Len(calls)))
        /\ k' = 1 /\ pc' = "prepare"
        /\ turn' = turn /\ round' = round /\ calls' = calls
    BY <1>5 DEF AppendCalls, Finish, ToolPhase
  <2>2. Done' = 0
    BY <2>1 DEF Done
  <2> DEFINE i == Len(history) + 1
  <2>3. CallsMessage(turn, round, Len(calls)) \in Messages
    BY <1>0, MessageTypes
  <2>4. /\ i \in DOMAIN history'
        /\ history'[i] = CallsMessage(turn, round, Len(calls))
        /\ \A m \in DOMAIN history' : ~(i < m)
    BY <1>0, <2>1, <2>3
  <2>5. \A j \in 1..Len(calls) : ~Answered(history', i, turn, round, j) /\ ~(j <= 0)
    BY <2>4 DEF Answered
  <2>6. \A j \in 1..Len(calls') :
          Answered(history', i, turn', round', j) <=> j <= Done'
    BY <2>1, <2>2, <2>5
  <2>7. history'[i] = CallsMessage(turn', round', Len(calls'))
    BY <2>1, <2>4
  <2> QED
    BY <2>4, <2>6, <2>7 DEF RoundInv
<1>6. CASE RecordResult
  <2> SUFFICES ASSUME pc' \in ToolPhase \ {"roundend"} PROVE RoundInv'
    BY DEF RoundInv
  <2>1. /\ history' = Append(history, ResultMessage(turn, round, k)) /\ ~Stale
        /\ pc = "record" /\ pc' = "next" /\ k' = k
        /\ turn' = turn /\ round' = round /\ calls' = calls
    BY <1>6 DEF RecordResult
  <2>2. Done = k - 1 /\ Done' = k
    BY <2>1 DEF Done
  <2>3. PICK i \in DOMAIN history :
          /\ history[i] = CallsMessage(turn, round, Len(calls))
          /\ \A j \in 1..Len(calls) :
               Answered(history, i, turn, round, j) <=> j <= Done
    BY <2>1 DEF RoundInv, ToolPhase
  <2>4. ResultMessage(turn, round, k) \in Messages /\ i \in Nat
    BY <1>0, MessageTypes
  <2>5. i \in DOMAIN history' /\ history'[i] = history[i]
    BY <1>0, <2>1, <2>4
  <2>6. ASSUME NEW j \in 1..Len(calls)
        PROVE  Answered(history', i, turn, round, j) <=> j <= k
    <3>1. CASE j = k
      BY <1>0, <2>1, <3>1, AppendAnswers
    <3>2. CASE j # k
      <4>1. ResultMessage(turn, round, k) # ResultMessage(turn, round, j)
        BY <3>2 DEF ResultMessage, Message
      <4>2. Answered(history', i, turn, round, j)
              <=> Answered(history, i, turn, round, j)
        BY <1>0, <2>1, <2>4, <4>1, AppendKeepsAnswer, AppendAddsNoAnswer
      <4> QED
        BY <1>0, <2>2, <2>3, <3>2, <4>2
    <3> QED
      BY <3>1, <3>2
  <2>7. \A j \in 1..Len(calls') :
          Answered(history', i, turn', round', j) <=> j <= Done'
    BY <2>1, <2>2, <2>6
  <2>8. history'[i] = CallsMessage(turn', round', Len(calls'))
    BY <2>1, <2>3, <2>5
  <2> QED
    BY <2>5, <2>7, <2>8 DEF RoundInv
<1> QED
  BY <1>1, <1>2, <1>3, <1>4, <1>5, <1>6 DEF WritingStep

-----------------------------------------------------------------------------
(*                       THE BOUNDS OF A TURN                              *)

(* Rounds are counted from nothing, a turn that may request tools has a     *)
(* round left, and what it requests is what the model may request.          *)
LimitInv ==
  /\ pc \in Resting \cup Arriving => round = 0
  /\ pc \in Posted => round <= MaxRounds
  /\ pc \in {"build", "request", "calls"} \cup ToolPhase => round < MaxRounds
  /\ pc \in {"calls"} \cup ToolPhase => calls \in ToolRounds

(* The loop of rounds asks for no more than the limit.                      *)
LEMMA LimitStep ==
  ASSUME TypeOK, LimitInv, [Next]_vars
  PROVE  LimitInv'
<1> USE DEF convVars, queueVars, configVars, usage, workVars, agentVars,
            ghostVars, Elsewhere
<1>0. round \in Nat /\ MaxRounds \in Nat \ {0}
  BY BoundsAssumption DEF TypeOK
<1>1. CASE ClientChoice \/ ClientStep \/ UNCHANGED vars
             \/ \E a \in Agents : SpawnBackground(a) \/ AgentStep(a)
  <2>1. round' = round /\ calls' = calls
    BY <1>1 DEF ClientChoice, ClientStep, SubmitUserMessage, vars,
         CancelActiveResponse, ResolveToolApproval, SetAgentMode,
         CompactConversation, ResetBump, SubmitNotify, ResetStop, ResetDrain,
         DrainExpires, ResetClear, ResetCancelAgents, ResetJoin, ResetApprovals,
         AgentStep, SpawnBackground, InjectSubAgentContinuation, InjectNotify
  <2>2. pc' = pc \/ (pc = "asleep" /\ pc' = "check")
    BY <1>1 DEF ClientChoice, ClientStep, SubmitUserMessage, vars, WorkerWoken,
         CancelActiveResponse, ResolveToolApproval, SetAgentMode,
         CompactConversation, ResetBump, SubmitNotify, ResetStop, ResetDrain,
         DrainExpires, ResetClear, ResetCancelAgents, ResetJoin, ResetApprovals,
         AgentStep, SpawnBackground, InjectSubAgentContinuation, InjectNotify
  <2>3. CASE pc' = pc
    BY <2>1, <2>3 DEF LimitInv
  <2>4. CASE pc = "asleep" /\ pc' = "check"
    BY <2>1, <2>4 DEF LimitInv, Resting, Posted, Streaming, ToolPhase
  <2> QED
    BY <2>2, <2>3, <2>4
<1>2. CASE TurnStep
  <2>1. CASE \/ Sleep \/ Activate \/ EnterTurn \/ NotifyAll \/ Truncate
             \/ BeginTurn \/ SummarySnapshot \/ SummaryReplace \/ NoProvider
             \/ Deactivate
    <3>1. \/ pc \in Resting \cup Arriving /\ round' = round
          \/ round' = 0
      BY <2>1 DEF Sleep, Activate, EnterTurn, NotifyAll, BeginTurn, Truncate,
         SummarySnapshot, SummaryReplace, NoProvider, Deactivate, Resting, Arriving
    <3>2. pc' \notin Posted
      BY <2>1 DEF Sleep, Activate, EnterTurn, NotifyAll, BeginTurn, Truncate,
         SummarySnapshot, SummaryReplace, NoProvider, Deactivate, Finish, Posted,
         Streaming, ToolPhase
    <3> QED
      BY <3>1, <3>2 DEF LimitInv, Posted
  <2>2. CASE AppendPrompt \/ SnapshotConfig
    BY <1>0, <2>2 DEF AppendPrompt, SnapshotConfig, LimitInv, Posted, Streaming,
       ToolPhase, Resting, Arriving
  <2>3. CASE SendRequest
    <3>1. /\ pc = "request" /\ pc' \in {"stream", "remind", "leave"}
          /\ round' = round + 1 \/ pc' = "leave"
      BY <2>3 DEF SendRequest, Finish
    <3>2. round < MaxRounds
      BY <3>1 DEF LimitInv
    <3> QED
      BY <1>0, <3>1, <3>2 DEF LimitInv, Posted, Streaming, ToolPhase, Resting, Arriving
  <2>4. CASE UseReminder \/ ReportUsage \/ StoreUsage \/ AppendFinal
    BY <2>4 DEF UseReminder, ReportUsage, StoreUsage, AppendFinal, Finish,
       LimitInv, Posted, Streaming, ToolPhase, Resting, Arriving
  <2>5. CASE StreamEnds
    BY <2>5 DEF StreamEnds, Finish, LimitInv, Posted, Streaming, ToolPhase,
       Resting, Arriving
  <2>6. CASE AppendCalls
    BY <2>6 DEF AppendCalls, Finish, LimitInv, Posted, Streaming, ToolPhase,
       Resting, Arriving
  <2> QED
    BY <1>2, <2>1, <2>2, <2>3, <2>4, <2>5, <2>6 DEF TurnStep
<1>3. CASE ToolStep /\ ~EndRound
  <2>1. pc \in ToolPhase /\ pc' \in ToolPhase /\ round' = round /\ calls' = calls
    BY <1>3 DEF ToolStep, PrepareTool, RequestApproval, WaitForResolution,
       ExecuteTool, FinishTool, ApplyPlanExit, RecordResult, NextTool, ToolPhase
  <2> QED
    BY <2>1 DEF LimitInv, Posted, Resting, Arriving, ToolPhase
<1>4. CASE EndRound
  BY <1>4 DEF EndRound, Finish, LimitInv, Posted, Streaming, ToolPhase, Resting,
     Arriving
<1> QED
  BY <1>1, <1>2, <1>3, <1>4 DEF Next, WorkerStep

-----------------------------------------------------------------------------
(*                        HOW MANY PROMPTS THERE ARE                       *)

ByClient(ps) == {i \in DOMAIN ps : ps[i].by = "client"}

(* The client submits no more than it may, and an agent hands in one        *)
(* result, when it ends.                                                    *)
CountInv ==
  /\ Cardinality(ByClient(prompts)) <= MaxPrompts
  /\ \A i \in DOMAIN prompts : prompts[i].by # "client" =>
       agent[prompts[i].by].at \in {"notify", "done"}
  /\ \A i, j \in DOMAIN prompts :
       prompts[i].by = prompts[j].by /\ prompts[i].by # "client" => i = j

Prompts == [conv : Nat, by : {"client"} \cup Agents]

(* The prompts of the client are finitely many.                             *)
LEMMA ByClientFinite ==
  ASSUME NEW ps \in Seq(Prompts)
  PROVE  /\ IsFiniteSet(ByClient(ps)) /\ Cardinality(ByClient(ps)) \in Nat
         /\ ByClient(ps) \subseteq 1..Len(ps)
<1>1. Len(ps) \in Nat /\ ByClient(ps) \subseteq 1..Len(ps)
  BY DEF ByClient
<1> QED
  BY <1>1, CountUpTo, FS_Subset, FS_CardinalityType

(* Every prompt has an author. *)
LEMMA AuthorType ==
  ASSUME NEW ps \in Seq(Prompts), NEW i \in DOMAIN ps
  PROVE  ps[i].by \in {"client"} \cup Agents
<1>1. \A p \in Prompts : p.by \in {"client"} \cup Agents
  BY DEF Prompts
<1>2. ps[i] \in Prompts
  OBVIOUS
<1> QED
  BY <1>1, <1>2

(* So there are never more ids than Transcript has turns. *)
LEMMA IdBound ==
  ASSUME NEW ps \in Seq(Prompts), Cardinality(ByClient(ps)) <= MaxPrompts,
         \A i, j \in DOMAIN ps :
           ps[i].by = ps[j].by /\ ps[i].by # "client" => i = j
  PROVE  Len(ps) <= MaxPrompts + Cardinality(Agents)
<1> DEFINE D == 1..Len(ps)
           C == ByClient(ps)
           O == D \ C
           f == [i \in O |-> ps[i].by]
<1>1. Len(ps) \in Nat /\ DOMAIN ps = D
  OBVIOUS
<1>2. IsFiniteSet(D) /\ Cardinality(D) = Len(ps)
  BY <1>1, CountUpTo
<1>3. IsFiniteSet(C) /\ Cardinality(C) \in Nat /\ C \subseteq D
  BY ByClientFinite
<1>4. \A i \in O : ps[i].by \in Agents
  <2> SUFFICES ASSUME NEW i \in O PROVE ps[i].by \in Agents
    OBVIOUS
  <2>1. i \in DOMAIN ps /\ ps[i].by # "client"
    BY <1>1 DEF ByClient
  <2> QED
    BY <2>1, AuthorType
<1>5. \A i, j \in O : ps[i].by = ps[j].by => i = j
  BY <1>1 DEF ByClient
<1>6. f \in Injection(O, Agents)
  BY <1>4, <1>5 DEF Injection, IsInjective
<1>7. IsFiniteSet(O) /\ Cardinality(O) <= Cardinality(Agents)
  BY <1>6, AgentsAssumption, FS_Injection
<1>8. /\ Cardinality(C \cup O)
           = Cardinality(C) + Cardinality(O) - Cardinality(C \cap O)
  BY <1>3, <1>7, FS_Union
<1>9. C \cup O = D /\ C \cap O = {} /\ Cardinality({}) = 0
  BY <1>3, FS_EmptySet
<1>10. /\ Cardinality(O) \in Nat /\ Cardinality(Agents) \in Nat
       /\ Cardinality(C) <= MaxPrompts
  BY <1>7, AgentsAssumption, FS_CardinalityType
<1>11. Len(ps) = Cardinality(C) + Cardinality(O) - Cardinality({})
  BY <1>2, <1>8, <1>9, Zenon
<1> HIDE DEF C, O, D
<1> QED
  BY <1>1, <1>3, <1>7, <1>9, <1>10, <1>11, BoundsAssumption

(* No step makes them more: a submission counts towards the client's bound, *)
(* a continuation moves its agent on.                                       *)
LEMMA CountStep ==
  ASSUME TypeOK, CountInv, [Next]_vars
  PROVE  CountInv'
<1> USE DEF convVars, queueVars, configVars, usage, workVars, agentVars,
            ghostVars, Elsewhere
<1>0. prompts \in Seq(Prompts) /\ Len(prompts) \in Nat
        /\ DOMAIN prompts = 1..Len(prompts)
  BY DEF TypeOK, Prompts
<1>00. /\ IsFiniteSet(ByClient(prompts)) /\ Cardinality(ByClient(prompts)) \in Nat
       /\ ByClient(prompts) \subseteq 1..Len(prompts)
  BY <1>0, ByClientFinite
<1>1. CASE SubmitUserMessage
  <2> DEFINE p == [conv |-> session, by |-> "client"]
  <2>1. prompts' = Append(prompts, p) /\ agent' = agent
    BY <1>1 DEF SubmitUserMessage
  <2>2. p \in Prompts /\ p.by = "client"
    BY DEF TypeOK, Prompts
  <2> HIDE DEF p
  <2>3. /\ DOMAIN prompts' = 1..(Len(prompts) + 1)
        /\ \A i \in DOMAIN prompts : prompts'[i] = prompts[i]
        /\ prompts'[Len(prompts) + 1] = p
    BY <1>0, <2>1, <2>2
  <2>4. ByClient(prompts') = ByClient(prompts) \cup {Len(prompts) + 1}
    BY <1>0, <2>2, <2>3 DEF ByClient
  <2>5. Cardinality(ByClient(prompts)) < MaxPrompts
    BY <1>1 DEF SubmitUserMessage, ByClient
  <2>6. Len(prompts) + 1 \notin ByClient(prompts)
    BY <1>0, <1>00
  <2>7. Cardinality(ByClient(prompts')) = Cardinality(ByClient(prompts)) + 1
    BY <1>00, <2>4, <2>6, FS_AddElement
  <2>8. Cardinality(ByClient(prompts')) <= MaxPrompts
    BY <1>00, <2>5, <2>7, BoundsAssumption
  <2>9. \A i \in DOMAIN prompts' : prompts'[i].by # "client" =>
          i \in DOMAIN prompts /\ prompts'[i] = prompts[i]
    BY <1>0, <2>2, <2>3
  <2> QED
    BY <2>1, <2>8, <2>9 DEF CountInv
<1>2. ASSUME NEW a \in Agents, InjectSubAgentContinuation(a) PROVE CountInv'
  <2> DEFINE p == [conv |-> agent[a].conv, by |-> a]
  <2>1. /\ prompts' = Append(prompts, p) /\ agent[a].at = "running"
        /\ agent' = Moved(a, "notify") \/ agent' = Moved(a, "done")
    BY <1>2 DEF InjectSubAgentContinuation
  <2>2. p \in Prompts /\ p.by = a /\ a # "client"
    BY AgentsAssumption DEF TypeOK, Prompts
  <2> HIDE DEF p
  <2>3. /\ DOMAIN prompts' = 1..(Len(prompts) + 1)
        /\ \A i \in DOMAIN prompts : prompts'[i] = prompts[i]
        /\ prompts'[Len(prompts) + 1] = p
    BY <1>0, <2>1, <2>2
  <2>4. ByClient(prompts') = ByClient(prompts)
    BY <1>0, <2>2, <2>3 DEF ByClient
  <2>5. \A i \in DOMAIN prompts : prompts[i].by # a
    BY <2>1, <2>2 DEF CountInv
  <2>6. /\ agent'[a].at \in {"notify", "done"}
        /\ \A b \in Agents : b # a => agent'[b] = agent[b]
    BY <2>1 DEF TypeOK, Moved
  <2>7. \A i \in DOMAIN prompts' : i \in DOMAIN prompts \/ i = Len(prompts) + 1
    BY <1>0, <2>3
  <2>8. \A i \in DOMAIN prompts : prompts[i].by \in {"client"} \cup Agents
    BY <1>0, AuthorType
  <2>9. \A i \in DOMAIN prompts' : prompts'[i].by # "client" =>
          agent'[prompts'[i].by].at \in {"notify", "done"}
    BY <2>2, <2>3, <2>5, <2>6, <2>7, <2>8 DEF CountInv
  <2>10. \A i, j \in DOMAIN prompts' :
           prompts'[i].by = prompts'[j].by /\ prompts'[i].by # "client" => i = j
    BY <2>2, <2>3, <2>5, <2>7 DEF CountInv
  <2> QED
    BY <2>4, <2>9, <2>10 DEF CountInv
<1>3. CASE /\ ~SubmitUserMessage
           /\ \A a \in Agents : ~InjectSubAgentContinuation(a)
  <2>1. prompts' = prompts
    BY <1>3 DEF Next, vars, ClientChoice, ClientStep, WorkerStep, TurnStep,
     ToolStep, AgentStep, CancelActiveResponse, ResolveToolApproval,
     SetAgentMode, CompactConversation, ResetBump, SubmitNotify, ResetStop,
     ResetDrain, DrainExpires, ResetClear, ResetCancelAgents, ResetJoin,
     ResetApprovals, SpawnBackground, InjectNotify, Sleep, Activate, EnterTurn,
     Deactivate, NotifyAll, NoProvider, BeginTurn, Truncate, SummarySnapshot,
     SummaryReplace, AppendPrompt, SnapshotConfig, SendRequest, UseReminder,
     ReportUsage, StoreUsage, StreamEnds, AppendCalls, AppendFinal, PrepareTool,
     RequestApproval, WaitForResolution, ExecuteTool, FinishTool, ApplyPlanExit,
     RecordResult, NextTool, EndRound
  <2>2. \/ agent' = agent
        \/ \E a \in Agents : SpawnBackground(a) \/ InjectNotify(a)
    BY <1>3 DEF Next, vars, ClientChoice, ClientStep, WorkerStep, TurnStep,
     ToolStep, AgentStep, CancelActiveResponse, ResolveToolApproval,
     SetAgentMode, CompactConversation, ResetBump, SubmitNotify, ResetStop,
     ResetDrain, DrainExpires, ResetClear, ResetCancelAgents, ResetJoin,
     ResetApprovals, Sleep, Activate, EnterTurn,
     Deactivate, NotifyAll, NoProvider, BeginTurn, Truncate, SummarySnapshot,
     SummaryReplace, AppendPrompt, SnapshotConfig, SendRequest, UseReminder,
     ReportUsage, StoreUsage, StreamEnds, AppendCalls, AppendFinal, PrepareTool,
     RequestApproval, WaitForResolution, ExecuteTool, FinishTool, ApplyPlanExit,
     RecordResult, NextTool, EndRound
  <2>3. \A b \in Agents : agent[b].at \in {"notify", "done"} =>
          agent'[b].at \in {"notify", "done"}
    <3>1. CASE agent' = agent
      BY <3>1
    <3>2. ASSUME NEW a \in Agents, SpawnBackground(a)
          PROVE  <2>3
      BY <3>2 DEF SpawnBackground, TypeOK
    <3>3. ASSUME NEW a \in Agents, InjectNotify(a)
          PROVE  <2>3
      BY <3>3 DEF InjectNotify, Moved, TypeOK
    <3> QED
      BY <2>2, <3>1, <3>2, <3>3
  <2>4. \A i \in DOMAIN prompts : prompts[i].by \in {"client"} \cup Agents
    BY <1>0, AuthorType
  <2> QED
    BY <2>1, <2>3, <2>4 DEF CountInv
<1> QED
  BY <1>1, <1>2, <1>3

-----------------------------------------------------------------------------
(*                          THE REFINEMENT                                 *)

(* Transcript speaks of messages and answers as ChatService does.           *)
LEMMA SameMessages ==
  /\ \A t : T!UserMessage(t) = UserMessage(t)
  /\ \A t, r, n : /\ T!CallsMessage(t, r, n) = CallsMessage(t, r, n)
                  /\ T!ResultMessage(t, r, n) = ResultMessage(t, r, n)
                  /\ T!FinalMessage(t, r) = FinalMessage(t, r)
  /\ \A h, i, t, r, j : T!Answered(h, i, t, r, j) <=> Answered(h, i, t, r, j)
  /\ \A h, keep : T!CompactHistory(h, keep) = CompactHistory(h, keep)
<1>1. \A role, t, r, n : T!Message(role, t, r, n) = Message(role, t, r, n)
  BY DEF T!Message, Message
<1>2. /\ \A t : T!UserMessage(t) = UserMessage(t)
      /\ \A t, r, n : /\ T!CallsMessage(t, r, n) = CallsMessage(t, r, n)
                      /\ T!ResultMessage(t, r, n) = ResultMessage(t, r, n)
                      /\ T!FinalMessage(t, r) = FinalMessage(t, r)
  BY DEF T!UserMessage, UserMessage, T!CallsMessage, CallsMessage,
         T!ResultMessage, ResultMessage, T!FinalMessage, FinalMessage,
         T!Message, Message
<1>3. \A h, i, t, r, j : T!Answered(h, i, t, r, j) <=> Answered(h, i, t, r, j)
  BY <1>2, Zenon DEF T!Answered, Answered
<1>4. T!Notice = Notice
  BY DEF T!Notice, Notice, T!Message, Message
<1>5. \A h : T!Leading(h) = Leading(h)
  <2>1. \A S : T!Cardinality(S) = Cardinality(S)
    BY Zenon DEF T!Cardinality, Cardinality
  <2> QED
    BY <2>1, Zenon DEF T!Leading, Leading
<1>6. \A h : T!NonSystem(h) = NonSystem(h)
  BY <1>5, Zenon DEF T!NonSystem, NonSystem
<1>7. \A h, keep : T!CompactHistory(h, keep) = CompactHistory(h, keep)
  BY <1>4, <1>5, <1>6, Zenon DEF T!CompactHistory, CompactHistory
<1> QED
  BY <1>2, <1>3, <1>7

(* A step that leaves the history alone and gives the pen to nobody.        *)
LEMMA PenLost ==
  ASSUME history' = history, Pen' \in {0, Pen}
  PROVE  [T!Next]_T!vars
<1>1. CASE Pen' = Pen
  BY <1>1 DEF T!vars
<1>2. CASE Pen' # Pen
  BY <1>2 DEF T!Next, T!LosePen
<1> QED
  BY <1>1, <1>2

(* All that the refinement rests on. *)
TranscriptInv == HistoryInv /\ RoundInv /\ LimitInv /\ CountInv

(* The agents' messages come in between.  *)
LEMMA InjectSimulates ==
  ASSUME TranscriptInv, CountInv', TypeOK', NEW a \in Agents,
         InjectSubAgentContinuation(a)
  PROVE  [T!Next]_T!vars
<1> USE DEF convVars, queueVars, configVars, usage, workVars, agentVars,
            ghostVars
<1>1. Len(prompts) \in Nat /\ turn \in Nat /\ (active <=> pc \notin Resting)
  BY DEF TranscriptInv, HistoryInv, TypeOK
<1>2. Pen' = Pen
  BY DEF InjectSubAgentContinuation, Pen, Stale
<1>3. CASE history' = history
  BY <1>2, <1>3, PenLost
<1>4. CASE history' = Append(history, UserMessage(NewId))
  <2>1. Len(prompts') = Len(prompts) + 1
    BY DEF InjectSubAgentContinuation, TranscriptInv, HistoryInv, TypeOK
  <2>2. Len(prompts') <= MaxPrompts + Cardinality(Agents)
    <3>1. prompts' \in Seq(Prompts)
      BY DEF TypeOK, Prompts
    <3>2. /\ Cardinality(ByClient(prompts')) <= MaxPrompts
          /\ \A i, j \in DOMAIN prompts' :
               prompts'[i].by = prompts'[j].by /\ prompts'[i].by # "client"
                 => i = j
      BY DEF CountInv
    <3> QED
      BY <3>1, <3>2, IdBound
  <2>3. MaxPrompts + Cardinality(Agents) \in Nat
    BY AgentsAssumption, BoundsAssumption, FS_CardinalityType
  <2>4. NewId \in 1..(MaxPrompts + Cardinality(Agents))
    BY <1>1, <2>1, <2>2, <2>3 DEF NewId
  <2>5. Pen # 0 => pc \in Posted /\ Pen = turn
    BY DEF Pen
  <2>6. pc \in Posted => active
    BY <1>1 DEF Posted, Streaming, ToolPhase, Resting
  <2>7. NewId # Pen
    BY <1>1, <2>5, <2>6 DEF NewId, TranscriptInv, HistoryInv, OrderInv
  <2> QED
    BY <1>2, <1>4, <2>4, <2>7, SameMessages DEF T!Next, T!Interject
<1> QED
  BY <1>3, <1>4 DEF InjectSubAgentContinuation

(* A turn that begins takes the pen nobody holds.                           *)
LEMMA BeginSimulates ==
  ASSUME TranscriptInv, AppendPrompt
  PROVE  [T!Next]_T!vars
<1> USE DEF convVars, queueVars, configVars, usage, workVars, agentVars,
            ghostVars, Elsewhere
<1>1. /\ Len(prompts) \in Nat /\ turn \in Nat /\ active
      /\ pc \notin Posted /\ pc = "append" /\ gen' = gen /\ tgen' = tgen
      /\ turn' = turn
  BY DEF AppendPrompt, TranscriptInv, HistoryInv, TypeOK, Posted, Streaming,
         ToolPhase, Resting
<1>2. Pen = 0
  BY <1>1 DEF Pen
<1>3. CASE Stale
  <2>1. Pen' = 0 /\ history' = history
    BY <1>1, <1>3 DEF AppendPrompt, Pen, Stale
  <2> QED
    BY <1>2, <2>1, PenLost
<1>4. CASE ~Stale
  <2>1. history' = Append(history, UserMessage(turn)) /\ pc' = "build"
    BY <1>4 DEF AppendPrompt
  <2>2. Pen' = turn
    BY <1>1, <1>4, <2>1 DEF Pen, Stale, Posted
  <2>3. prompts \in Seq(Prompts) /\ Cardinality(ByClient(prompts)) <= MaxPrompts
    BY DEF TranscriptInv, HistoryInv, CountInv, TypeOK, Prompts
  <2>4. Len(prompts) <= MaxPrompts + Cardinality(Agents)
    BY <2>3, IdBound DEF TranscriptInv, CountInv
  <2>5. MaxPrompts + Cardinality(Agents) \in Nat
    BY AgentsAssumption, BoundsAssumption, FS_CardinalityType
  <2>6. turn \in 1..(MaxPrompts + Cardinality(Agents))
    BY <1>1, <2>4, <2>5 DEF TranscriptInv, HistoryInv, OrderInv
  <2> QED
    BY <1>2, <2>1, <2>2, <2>6, SameMessages DEF T!Next, T!Begin
<1> QED
  BY <1>3, <1>4

(* The turn with the pen asks for tools once it has the answers it asked    *)
(* for before.                                                              *)
LEMMA RequestSimulates ==
  ASSUME TranscriptInv, AppendCalls
  PROVE  [T!Next]_T!vars
<1> USE DEF convVars, queueVars, configVars, usage, workVars, agentVars,
            ghostVars, Elsewhere
<1>1. /\ turn \in Nat /\ round \in Nat /\ active /\ pc = "calls"
      /\ gen' = gen /\ tgen' = tgen /\ turn' = turn /\ pc \in Posted
  BY DEF AppendCalls, TranscriptInv, HistoryInv, TypeOK, Posted, Resting
<1>2. CASE Stale
  <2>1. Pen' = 0 /\ Pen = 0 /\ history' = history
    BY <1>1, <1>2 DEF AppendCalls, Pen, Stale
  <2> QED
    BY <2>1, PenLost
<1>3. CASE ~Stale
  <2>1. /\ history' = Append(history, CallsMessage(turn, round, Len(calls)))
        /\ pc' = "prepare"
    BY <1>3 DEF AppendCalls
  <2>2. Pen = turn /\ Pen' = turn /\ turn # 0
    BY <1>1, <1>3, <2>1 DEF Pen, Stale, Posted, ToolPhase, TranscriptInv,
                            HistoryInv, OrderInv
  <2>3. ASSUME NEW i \in DOMAIN history, history[i].role = "calls",
               history[i].turn = Pen, NEW j \in 1..history[i].n
        PROVE  Answered(history, i, Pen, history[i].round, j)
    <3>1. Owed(history[i].turn) /\ ~InRound(i)
      BY <1>1, <2>2, <2>3 DEF Owed, InRound, ToolPhase
    <3>2. RoundAnswered(history, i)
      BY <2>3, <3>1 DEF TranscriptInv, HistoryInv, AnswersInv
    <3> QED
      BY <2>3, <3>2 DEF RoundAnswered
  <2>4. round \in 0..MaxRounds /\ calls \in ToolRounds
    BY <1>1, BoundsAssumption DEF TranscriptInv, LimitInv
  <2>5. Len(calls) \in {Len(tools) : tools \in ToolRounds}
    BY <2>4
  <2>6. history' = Append(history, T!CallsMessage(Pen, round, Len(calls)))
    BY <2>1, <2>2, SameMessages
  <2>7. \A i \in DOMAIN history :
          history[i].role = "calls" /\ history[i].turn = Pen =>
            \A j \in 1..history[i].n :
              T!Answered(history, i, Pen, history[i].round, j)
    BY <2>3, SameMessages
  <2>8. T!Request
    BY <2>2, <2>4, <2>5, <2>6, <2>7 DEF T!Request
  <2> QED
    BY <2>8 DEF T!Next
<1> QED
  BY <1>2, <1>3

(* The answers to a round are recorded one by one, in order.                *)
LEMMA AnswerSimulates ==
  ASSUME TranscriptInv, RecordResult
  PROVE  [T!Next]_T!vars
<1> USE DEF convVars, queueVars, configVars, usage, workVars, agentVars,
            ghostVars, Elsewhere
<1>1. /\ turn \in Nat /\ k \in Nat \ {0} /\ k <= Len(calls) /\ active
      /\ Len(calls) \in Nat
      /\ pc = "record" /\ gen' = gen /\ tgen' = tgen /\ turn' = turn
      /\ pc \in Posted /\ pc \in ToolPhase \ {"roundend"}
  BY DEF RecordResult, TranscriptInv, HistoryInv, TypeOK, Posted, ToolPhase,
         Resting
<1>2. CASE Stale
  <2>1. Pen' = 0 /\ Pen = 0 /\ history' = history
    BY <1>1, <1>2 DEF RecordResult, Pen, Stale
  <2> QED
    BY <2>1, PenLost
<1>3. CASE ~Stale
  <2>1. history' = Append(history, ResultMessage(turn, round, k)) /\ pc' = "next"
    BY <1>3 DEF RecordResult
  <2>2. Pen = turn /\ Pen' = turn /\ turn # 0
    BY <1>1, <1>3, <2>1 DEF Pen, Stale, Posted, ToolPhase, TranscriptInv,
                            HistoryInv, OrderInv
  <2>3. PICK i \in DOMAIN history :
          /\ history[i] = CallsMessage(turn, round, Len(calls))
          /\ \A j \in 1..Len(calls) :
               Answered(history, i, turn, round, j) <=> j <= Done
    BY <1>1, <1>3 DEF TranscriptInv, RoundInv
  <2>4. /\ history[i].role = "calls" /\ history[i].turn = Pen
        /\ history[i].round = round /\ history[i].n = Len(calls)
    BY <2>2, <2>3 DEF CallsMessage, Message
  <2>5. Done = k - 1
    BY <1>1 DEF Done
  <2>6. k \in 1..Len(calls) /\ \A l \in 1..(k - 1) : l \in 1..Len(calls) /\ l <= k - 1
    BY <1>1
  <2>7. ~Answered(history, i, turn, round, k)
    BY <1>1, <2>3, <2>5, <2>6
  <2>8. \A l \in 1..(k - 1) : Answered(history, i, turn, round, l)
    BY <2>3, <2>5, <2>6
  <2>9. /\ ~T!Answered(history, i, Pen, history[i].round, k)
        /\ \A l \in 1..(k - 1) : T!Answered(history, i, Pen, history[i].round, l)
        /\ history' = Append(history, T!ResultMessage(Pen, history[i].round, k))
    BY <2>1, <2>2, <2>4, <2>7, <2>8, SameMessages
  <2>10. k \in 1..history[i].n
    BY <2>4, <2>6
  <2>11. T!Answer
    BY <2>2, <2>4, <2>9, <2>10 DEF T!Answer
  <2> QED
    BY <2>11 DEF T!Next
<1> QED
  BY <1>2, <1>3

(* A final answer gives the pen back.                                       *)
LEMMA FinalSimulates ==
  ASSUME TranscriptInv, AppendFinal
  PROVE  [T!Next]_T!vars
<1> USE DEF convVars, queueVars, configVars, usage, workVars, agentVars,
            ghostVars, Elsewhere
<1>1. /\ turn \in Nat /\ round \in Nat /\ active /\ pc = "final" /\ pc \in Posted
      /\ pc' = "leave" /\ pc' \notin Posted
  BY DEF AppendFinal, Finish, TranscriptInv, HistoryInv, TypeOK, Posted,
         Streaming, ToolPhase, Resting
<1>2. Pen' = 0
  BY <1>1 DEF Pen
<1>3. CASE Stale
  BY <1>2, <1>3, PenLost DEF AppendFinal
<1>4. CASE ~Stale
  <2>1. history' = Append(history, FinalMessage(turn, round))
    BY <1>4 DEF AppendFinal
  <2>2. Pen = turn /\ turn # 0
    BY <1>1, <1>4 DEF Pen, TranscriptInv, HistoryInv, OrderInv
  <2>3. round \in 0..MaxRounds
    BY <1>1, BoundsAssumption DEF TranscriptInv, LimitInv
  <2>4. T!Conclude
    BY <1>2, <2>1, <2>2, <2>3, SameMessages DEF T!Conclude
  <2> QED
    BY <2>4 DEF T!Next
<1> QED
  BY <1>3, <1>4

(* The history is compacted when nobody holds the pen.                      *)
LEMMA CompactSimulates ==
  ASSUME TranscriptInv, CompactConversation \/ Truncate \/ SummaryReplace
  PROVE  [T!Next]_T!vars
<1> USE DEF convVars, queueVars, configVars, usage, workVars, agentVars,
            ghostVars, Elsewhere
<1>1. PICK keep \in Nat : history' = CompactHistory(history, keep)
  BY KeepAssumption DEF CompactConversation, Truncate, SummaryReplace
<1>2. pc \notin Posted /\ pc' \notin Posted
  BY DEF CompactConversation, Truncate, SummaryReplace, TranscriptInv,
         HistoryInv, TypeOK, Posted, Streaming, ToolPhase, Resting
<1>3. Pen = 0 /\ Pen' = 0
  BY <1>2 DEF Pen
<1>4. Len(history) \in Nat /\ Leading(history) \in Nat
  BY LeadingType DEF TranscriptInv, HistoryInv, TypeOK
<1>5. CASE keep <= Len(history)
  <2>1. keep \in 0..Len(history)
    BY <1>4, <1>5
  <2>2. T!Compact
    BY <1>1, <1>3, <2>1, SameMessages DEF T!Compact
  <2> QED
    BY <2>2 DEF T!Next
<1>6. CASE ~(keep <= Len(history))
  <2>1. NonSystem(history) <= keep
    BY <1>4, <1>6 DEF NonSystem
  <2>2. history' = history
    BY <1>1, <2>1 DEF CompactHistory
  <2> QED
    BY <1>3, <2>2, PenLost
<1> QED
  BY <1>5, <1>6

(* Every step of the threads is a step of the transcript.                   *)
LEMMA StepSimulation ==
  ASSUME TranscriptInv, TypeOK', CountInv', [Next]_vars
  PROVE  [T!Next]_T!vars
<1>1. CASE AppendPrompt
  BY <1>1, BeginSimulates
<1>2. CASE AppendCalls
  BY <1>2, RequestSimulates
<1>3. CASE RecordResult
  BY <1>3, AnswerSimulates
<1>4. CASE AppendFinal
  BY <1>4, FinalSimulates
<1>5. CASE CompactConversation \/ Truncate \/ SummaryReplace
  BY <1>5, CompactSimulates
<1>6. ASSUME NEW a \in Agents, InjectSubAgentContinuation(a)
      PROVE  [T!Next]_T!vars
  BY <1>6, InjectSimulates
<1>7. CASE ResetClear
  <2>1. gen' = gen + 1 /\ tgen' = tgen /\ history' = <<>>
    BY <1>7 DEF ResetClear, BumpedTwice, workVars
  <2>2. gen \in Nat /\ tgen \in Nat /\ tgen <= gen
    BY DEF TranscriptInv, HistoryInv, TypeOK, PromptInv
  <2>3. Pen' = 0
    BY <2>1, <2>2 DEF Pen, Stale
  <2> QED
    BY <2>1, <2>3 DEF T!Next, T!Clear
<1>8. CASE EndRound
  <2>1. history' = history /\ gen' = gen /\ tgen' = tgen /\ turn' = turn
          /\ pc \in Posted
    BY <1>8 DEF EndRound, Posted, ToolPhase, convVars, queueVars
  <2>2. Pen' \in {0, Pen}
    BY <2>1 DEF Pen, Stale
  <2> QED
    BY <2>1, <2>2, PenLost
<1>9. CASE /\ ~WritingStep /\ ~AppendFinal
           /\ \A a \in Agents : ~InjectSubAgentContinuation(a)
  <2>1. history' = history
    BY <1>9, QuietHistory DEF TranscriptInv, HistoryInv
  <2>2. Pen' \in {0, Pen}
    BY <1>9, OtherStepsAreQuiet DEF TranscriptInv, HistoryInv, QuietStep
  <2> QED
    BY <2>1, <2>2, PenLost
<1> QED
  BY <1>1, <1>2, <1>3, <1>4, <1>5, <1>6, <1>7, <1>8, <1>9 DEF WritingStep

(* The invariant of the refinement holds at the start and is kept.          *)
LEMMA TranscriptInit == Init => TranscriptInv
<1> SUFFICES ASSUME Init PROVE TranscriptInv
  OBVIOUS
<1>1. pc = "check" /\ round = 0 /\ DOMAIN prompts = {}
  BY DEF Init
<1>2. RoundInv /\ LimitInv
  BY <1>1 DEF RoundInv, LimitInv, Posted, Streaming, ToolPhase
<1>3. ByClient(prompts) = {} /\ Cardinality({}) = 0
  BY <1>1, FS_EmptySet DEF ByClient
<1>4. CountInv
  BY <1>1, <1>3, BoundsAssumption DEF CountInv
<1> QED
  BY <1>2, <1>4, HistoryInit DEF TranscriptInv

(* All that the refinement rests on holds after every step.                 *)
LEMMA TranscriptNext == TranscriptInv /\ [Next]_vars => TranscriptInv'
<1> SUFFICES ASSUME TranscriptInv, [Next]_vars PROVE TranscriptInv'
  OBVIOUS
<1>1. TypeOK /\ PromptInv /\ HistoryInv
  BY DEF TranscriptInv, HistoryInv
<1>2. HistoryInv'
  BY <1>1, HistoryNext
<1>3. RoundInv' /\ LimitInv' /\ CountInv'
  BY <1>1, RoundStep, LimitStep, CountStep DEF TranscriptInv
<1> QED
  BY <1>2, <1>3 DEF TranscriptInv

(* ChatService implements Transcript: whatever its threads do, one turn at  *)
(* a time holds the pen, asks only once it is answered, and is silent once  *)
(* it lost the pen, for every number of prompts, rounds, tools and agents.  *)
THEOREM ChatServiceKeepsTranscript == Spec => IsTranscript
<1>1. Init => T!Init
  <2>1. Init => pc \notin Posted /\ history = <<>>
    BY DEF Init, Posted, Streaming, ToolPhase
  <2> QED
    BY <2>1 DEF T!Init, Pen
<1>2. TranscriptInv /\ TranscriptInv' /\ [Next]_vars => [T!Next]_T!vars
  BY StepSimulation DEF TranscriptInv, HistoryInv
<1> QED
  BY <1>1, <1>2, TranscriptInit, TranscriptNext, PTL
     DEF Spec, IsTranscript, T!Spec
=============================================================================
