---------------------------- MODULE ApprovalsProofs ----------------------------
(***************************************************************************)
(* Proofs about Approvals for every set of agents and every bound: the     *)
(* type invariant, that a tool runs only after the user allowed that very  *)
(* request, and that no open approval is lost on its way to the one dialog *)
(* all runners share.                                                      *)
(***************************************************************************)
EXTENDS Approvals, TLAPS

-----------------------------------------------------------------------------
(*                          TYPE CORRECTNESS                               *)

(* A runner with an entry has drawn the id of it.                           *)
Drawn == \A r \in Runners : entry[r] # "none" => serial[r] # 0

(* Waking the sleepers leaves every runner where the properties look for it. *)
LEMMA WokenPlaces ==
  ASSUME NEW f \in [Runners -> Places]
  PROVE  /\ Woken(f) \in [Runners -> Places]
         /\ \A r \in Runners :
              /\ Woken(f)[r] = f[r] \/ (f[r] = "asleep" /\ Woken(f)[r] = "wait")
              /\ Woken(f)[r] \in Waiting <=> f[r] \in Waiting
<1>1. \A r \in Runners :
        Woken(f)[r] = IF f[r] = "asleep" THEN "wait" ELSE f[r]
  BY DEF Woken
<1>2. \A r \in Runners : f[r] \in Places /\ "wait" \in Places
  BY DEF Places
<1> QED
  BY <1>1, <1>2 DEF Woken, Waiting

(* So do the stop of some runners and the refusal of all approvals.         *)
LEMMA StopPlaces ==
  ASSUME TypeOK, NEW S, RequestStop(S)
  PROVE  /\ at' \in [Runners -> Places]
         /\ \A r \in Runners :
              /\ at'[r] = at[r] \/ (at[r] = "asleep" /\ at'[r] = "wait")
              /\ at'[r] \in Waiting <=> at[r] \in Waiting
<1>1. at \in [Runners -> Places]
  BY DEF TypeOK
<1>2. at' = at \/ at' = Woken(at)
  BY DEF RequestStop
<1> QED
  BY <1>1, <1>2, WokenPlaces

(* A stop of runners that are up keeps the types.                           *)
LEMMA StopKeeps ==
  ASSUME TypeOK, Drawn, NEW S \in SUBSET Runners, RequestStop(S),
         Worker \in S => at[Worker] # "away",
         kind' = kind, serial' = serial, entry' = entry, queued' \in Nat,
         posted' = posted, dialog' = dialog, question' = question,
         u' \in UiPlaces, joining' \subseteq Agents, late' \subseteq Agents,
         allowed' = allowed, cancels' \in Nat, resets' \in Nat
  PROVE  TypeOK' /\ Drawn'
<1>1. stop' = stop \cup S /\ stale' = stale \cup S
  BY DEF RequestStop
<1>2. stop' \subseteq Runners /\ stale' \subseteq Runners
  BY <1>1 DEF TypeOK
<1>3. /\ at' \in [Runners -> Places]
      /\ \A r \in Runners :
           /\ at'[r] = at[r] \/ (at[r] = "asleep" /\ at'[r] = "wait")
           /\ at'[r] \in Waiting <=> at[r] \in Waiting
  BY StopPlaces
<1>4. \A r \in Runners : entry'[r] # "none" <=> at'[r] \in Waiting \cup {"emit"}
  <2>1. \A r \in Runners : at'[r] = "emit" <=> at[r] = "emit"
    BY <1>3
  <2> QED
    BY <1>3, <2>1 DEF TypeOK
<1>5. at'[Worker] = "away" => Worker \notin stop'
  <2>1. Worker \in Runners
    BY DEF Runners
  <2>2. at'[Worker] = "away" => at[Worker] = "away"
    BY <1>3, <2>1
  <2> QED
    BY <1>1, <2>2 DEF TypeOK
<1> QED
  BY <1>2, <1>3, <1>4, <1>5 DEF TypeOK, Drawn

(* Refusing all approvals settles those that are open. *)
LEMMA RefusePlaces ==
  ASSUME TypeOK, CancelPending
  PROVE  /\ at' \in [Runners -> Places]
         /\ entry' \in [Runners -> {"none", "open", "yes", "no"}]
         /\ \A r \in Runners :
              /\ at'[r] = at[r] \/ (at[r] = "asleep" /\ at'[r] = "wait")
              /\ at'[r] \in Waiting <=> at[r] \in Waiting
              /\ entry'[r] = IF entry[r] = "open" THEN "no" ELSE entry[r]
<1>1. at \in [Runners -> Places] /\ at' = Woken(at)
  BY DEF TypeOK, CancelPending
<1>2. /\ entry \in [Runners -> {"none", "open", "yes", "no"}]
      /\ entry' = [r \in Runners |-> IF entry[r] = "open" THEN "no" ELSE entry[r]]
  BY DEF TypeOK, CancelPending
<1>3. /\ entry' \in [Runners -> {"none", "open", "yes", "no"}]
      /\ \A r \in Runners :
           entry'[r] = IF entry[r] = "open" THEN "no" ELSE entry[r]
  BY <1>2
<1> QED
  BY <1>1, <1>3, WokenPlaces

(* An answer settles the entry it names, if that is still there.            *)
LEMMA AnswerPlaces ==
  ASSUME TypeOK, NEW id \in Ids, NEW yes \in BOOLEAN, Answer(id, yes)
  PROVE  /\ at' \in [Runners -> Places]
         /\ entry' \in [Runners -> {"none", "open", "yes", "no"}]
         /\ allowed' \subseteq Ids
         /\ \A r \in Runners :
              /\ at'[r] = at[r] \/ (at[r] = "asleep" /\ at'[r] = "wait")
              /\ at'[r] \in Waiting <=> at[r] \in Waiting
              /\ entry'[r] = IF entry[r] # "none" /\ Id(r) = id
                             THEN IF yes THEN "yes" ELSE "no"
                             ELSE entry[r]
<1>1. at \in [Runners -> Places] /\ at' = Woken(at)
  BY DEF TypeOK, Answer
<1>2. /\ entry \in [Runners -> {"none", "open", "yes", "no"}]
      /\ entry' = [r \in Runners |->
                     IF entry[r] # "none" /\ Id(r) = id
                     THEN IF yes THEN "yes" ELSE "no"
                     ELSE entry[r]]
  BY DEF TypeOK, Answer
<1>3. /\ entry' \in [Runners -> {"none", "open", "yes", "no"}]
      /\ \A r \in Runners :
           entry'[r] = IF entry[r] # "none" /\ Id(r) = id
                       THEN IF yes THEN "yes" ELSE "no"
                       ELSE entry[r]
  BY <1>2
<1>4. allowed' \subseteq Ids
  BY DEF Answer, TypeOK
<1> QED
  BY <1>1, <1>3, <1>4, WokenPlaces

(* Settling entries keeps the types: none appears, and none goes.           *)
LEMMA SettleKeeps ==
  ASSUME TypeOK, Drawn, at' \in [Runners -> Places],
         entry' \in [Runners -> {"none", "open", "yes", "no"}],
         \A r \in Runners :
           /\ at'[r] = at[r] \/ (at[r] = "asleep" /\ at'[r] = "wait")
           /\ entry'[r] = "none" <=> entry[r] = "none",
         kind' = kind, serial' = serial, stop' = stop, stale' = stale,
         late' = late, queued' = queued, posted' = posted,
         dialog' \in {dialog, NoId}, question' \in {question, NoId},
         u' \in UiPlaces, joining' = joining, allowed' \subseteq Ids,
         cancels' = cancels, resets' = resets
  PROVE  TypeOK' /\ Drawn'
<1>1. Worker \in Runners
  BY DEF Runners
<1>2. \A r \in Runners : at'[r] \in Waiting \cup {"emit"} <=> at[r] \in Waiting \cup {"emit"}
  BY DEF Waiting
<1>3. \A r \in Runners : entry'[r] # "none" <=> at'[r] \in Waiting \cup {"emit"}
  BY <1>2 DEF TypeOK
<1>4. at'[Worker] = "away" => Worker \notin stop'
  BY <1>1 DEF TypeOK
<1>5. Drawn'
  BY DEF Drawn
<1> QED
  BY <1>3, <1>4, <1>5 DEF TypeOK

(* The first state has the types. *)
LEMMA InitTypes == Init => TypeOK /\ Drawn
<1> SUFFICES ASSUME Init PROVE TypeOK /\ Drawn
  OBVIOUS
<1>1. posted \in Seq([id : Ids, kind : {"tool", "ask"}])
  BY DEF Init
<1>2. Worker \in Runners
  BY DEF Runners
<1> QED
  BY <1>1, <1>2 DEF Init, TypeOK, Drawn, Places, UiPlaces, Waiting

(* What the runners do keeps them... *)
LEMMA RunnerTypes ==
  ASSUME TypeOK, Drawn, NEW r \in Runners, RunnerStep(r)
  PROVE  TypeOK' /\ Drawn'
<1> USE DEF managerVars, stopVars, uiVars, bounds, Elsewhere
<1>1. Worker \in Runners
  BY DEF Runners
<1>2. CASE NeedUser(r)
  <2>1. kind' \in [Runners -> {"tool", "ask"}]
    BY <1>2, KindsAssumption DEF NeedUser, TypeOK
  <2> QED
    BY <1>1, <1>2, <2>1 DEF NeedUser, TypeOK, Drawn, Places, Waiting
<1>3. CASE LockGate(r)
  BY <1>1, <1>3 DEF LockGate, TypeOK, Drawn, Places, Waiting
<1>4. CASE RequestApproval(r)
  <2>1. /\ serial' \in [Runners -> Nat] /\ serial[r] \in Nat
        /\ serial'[r] = serial[r] + 1
        /\ \A s \in Runners : s # r => serial'[s] = serial[s] /\ entry'[s] = entry[s]
    BY <1>4 DEF RequestApproval, TypeOK
  <2>2. serial'[r] # 0
    BY <2>1
  <2>3. Drawn'
    BY <2>1, <2>2 DEF Drawn
  <2>4. TypeOK'
    BY <1>1, <1>4, <2>1 DEF RequestApproval, TypeOK, Places, Waiting
  <2> QED
    BY <2>3, <2>4
<1>5. CASE EmitRequest(r)
  <2>1. entry[r] # "none" /\ serial[r] \in Nat \ {0}
    BY <1>5 DEF EmitRequest, TypeOK, Drawn
  <2>2. [id |-> Id(r), kind |-> kind[r]] \in [id : Ids, kind : {"tool", "ask"}]
    BY <2>1 DEF TypeOK, Id, Ids
  <2>3. posted' \in Seq([id : Ids, kind : {"tool", "ask"}])
    <3> DEFINE Events == [id : Ids, kind : {"tool", "ask"}]
               e == [id |-> Id(r), kind |-> kind[r]]
    <3>1. posted \in Seq(Events) /\ e \in Events
      BY <2>2 DEF TypeOK
    <3>2. posted' = posted \/ posted' = Append(posted, e)
      BY <1>5 DEF EmitRequest
    <3> HIDE DEF Events, e
    <3>3. posted' \in Seq(Events)
      BY <3>1, <3>2
    <3> QED
      BY <3>3 DEF Events
  <2>4. /\ at' \in [Runners -> Places]
        /\ \A s \in Runners : entry[s] # "none" <=> at'[s] \in Waiting \cup {"emit"}
        /\ at'[Worker] = "away" => at[Worker] = "away"
    BY <1>1, <1>5 DEF EmitRequest, TypeOK, Places, Waiting
  <2>5. /\ kind' = kind /\ serial' = serial /\ entry' = entry /\ stop' = stop
        /\ stale' = stale /\ late' = late /\ queued' = queued /\ u' = u
        /\ dialog' = dialog /\ question' = question /\ joining' = joining
        /\ allowed' = allowed /\ cancels' = cancels /\ resets' = resets
    BY <1>5 DEF EmitRequest
  <2> QED
    BY <2>3, <2>4, <2>5 DEF TypeOK, Drawn
<1>6. CASE Resolve(r)
  BY <1>1, <1>6 DEF Resolve, TypeOK, Drawn, Places, Waiting
<1>7. CASE Doze(r)
  BY <1>1, <1>7 DEF Doze, TypeOK, Drawn, Places, Waiting
<1>8. CASE FallAsleep(r)
  BY <1>1, <1>8 DEF FallAsleep, TypeOK, Drawn, Places, Waiting
<1>9. CASE RunTool(r)
  BY <1>1, <1>9 DEF RunTool, TypeOK, Drawn, Places, Waiting
<1> QED
  BY <1>2, <1>3, <1>4, <1>5, <1>6, <1>7, <1>8, <1>9 DEF RunnerStep

(* ...so does how they begin and end... *)
LEMMA TurnTypes ==
  ASSUME TypeOK, Drawn,
         \/ Activate \/ EndTurn
         \/ \E a \in Agents : Spawn(a) \/ EndAgent(a) \/ Watchdog(a)
  PROVE  TypeOK' /\ Drawn'
<1> USE DEF managerVars, stopVars, uiVars, bounds, Elsewhere
<1>1. Worker \in Runners /\ Worker \notin Agents /\ Agents \subseteq Runners
  BY WorkerAssumption DEF Runners
<1>2. CASE Activate
  BY <1>1, <1>2 DEF Activate, TypeOK, Drawn, Places, Waiting
<1>3. CASE EndTurn
  BY <1>1, <1>3 DEF EndTurn, TypeOK, Drawn, Places, Waiting
<1>4. ASSUME NEW a \in Agents, Spawn(a) PROVE TypeOK' /\ Drawn'
  BY <1>1, <1>4 DEF Spawn, TypeOK, Drawn, Places, Waiting
<1>5. ASSUME NEW a \in Agents, EndAgent(a) PROVE TypeOK' /\ Drawn'
  BY <1>1, <1>5 DEF EndAgent, TypeOK, Drawn, Places, Waiting
<1>6. ASSUME NEW a \in Agents, Watchdog(a) PROVE TypeOK' /\ Drawn'
  <2>1. RequestStop({a})
    BY <1>6 DEF Watchdog
  <2>2. stop' = stop \cup {a} /\ stale' = stale \cup {a}
    BY <2>1 DEF RequestStop
  <2>3. {a} \in SUBSET Runners /\ (Worker \in {a} => at[Worker] # "away")
    BY <1>1
  <2>4. /\ kind' = kind /\ serial' = serial /\ entry' = entry
        /\ queued' \in Nat /\ posted' = posted /\ dialog' = dialog
        /\ question' = question /\ u' \in UiPlaces /\ joining' \subseteq Agents
        /\ late' \subseteq Agents /\ allowed' = allowed
        /\ cancels' \in Nat /\ resets' \in Nat
    BY <1>6 DEF Watchdog, TypeOK
  <2> QED
    BY <2>1, <2>3, <2>4, StopKeeps
<1> QED
  BY <1>2, <1>3, <1>4, <1>5, <1>6

(* ...and what the UI thread does. *)
LEMMA UiTypes ==
  ASSUME TypeOK, Drawn, UiChoice \/ UiStep
  PROVE  TypeOK' /\ Drawn'
<1> USE DEF managerVars, stopVars, uiVars, bounds, Quiet
<1>1. Worker \in Runners /\ Worker \notin Agents /\ Agents \subseteq Runners
  BY WorkerAssumption DEF Runners
<1>2. CASE AnswerApproval \/ AnswerQuestion
  <2>1. PICK id \in Ids, yes \in BOOLEAN : Answer(id, yes)
    BY <1>2 DEF AnswerApproval, AnswerQuestion, TypeOK
  <2>2. /\ kind' = kind /\ serial' = serial /\ stop' = stop /\ stale' = stale
        /\ late' = late /\ queued' = queued /\ u' = u /\ posted' = posted
        /\ dialog' \in {dialog, NoId} /\ question' \in {question, NoId}
        /\ joining' = joining /\ cancels' = cancels /\ resets' = resets
    BY <1>2 DEF AnswerApproval, AnswerQuestion
  <2> QED
    BY <2>1, <2>2, SettleKeeps, AnswerPlaces DEF TypeOK
<1>3. CASE SubmitPrompt \/ ResetDrained \/ ResetClear \/ JoinAgents \/ JoinWorker
  BY <1>1, <1>3 DEF SubmitPrompt, ResetDrained, ResetClear, JoinAgents,
     JoinWorker, TypeOK, Drawn, UiPlaces, Quitting
<1>4. CASE CancelResponse \/ ResetStop \/ Quit
  <2>1. PICK S \in SUBSET {Worker} :
          RequestStop(S) /\ (Worker \in S => at[Worker] # "away")
    BY <1>4 DEF CancelResponse, ResetStop, Quit, StopWorker
  <2>2. stop' = stop \cup S /\ stale' = stale \cup S
    BY <2>1 DEF RequestStop
  <2>3. u' \in UiPlaces /\ queued' \in Nat /\ cancels' \in Nat /\ resets' \in Nat
    BY <1>4 DEF CancelResponse, ResetStop, Quit, TypeOK, UiPlaces, Quitting
  <2>4. /\ kind' = kind /\ serial' = serial /\ late' = late
        /\ joining' = joining /\ entry' = entry /\ allowed' = allowed
        /\ posted' = posted /\ dialog' = dialog /\ question' = question
    BY <1>4 DEF CancelResponse, ResetStop, Quit
  <2>5. S \in SUBSET Runners /\ joining' \subseteq Agents /\ late' \subseteq Agents
    BY <1>1, <2>4 DEF TypeOK
  <2> QED
    BY <2>1, <2>3, <2>4, <2>5, StopKeeps
<1>5. CASE CancelAll
  <2>1. RequestStop(Live) /\ Live \subseteq Agents
    BY <1>5 DEF CancelAll, Live
  <2>2. stop' = stop \cup Live /\ stale' = stale \cup Live
    BY <2>1 DEF RequestStop
  <2>3. Live \in SUBSET Runners /\ (Worker \in Live => at[Worker] # "away")
    BY <1>1, <2>1
  <2>4. /\ kind' = kind /\ serial' = serial /\ entry' = entry
        /\ queued' \in Nat /\ posted' = posted /\ dialog' = dialog
        /\ question' = question /\ u' \in UiPlaces /\ joining' \subseteq Agents
        /\ late' \subseteq Agents /\ allowed' = allowed
        /\ cancels' \in Nat /\ resets' \in Nat
    BY <1>5, <2>1 DEF CancelAll, TypeOK, UiPlaces, Quitting
  <2> QED
    BY <2>1, <2>3, <2>4, StopKeeps
<1>6. CASE CancelApprovals \/ ResetApprovals \/ QuitApprovals
  <2>1. CancelPending
    BY <1>6 DEF CancelApprovals, ResetApprovals, QuitApprovals
  <2>2. /\ kind' = kind /\ serial' = serial /\ stop' = stop /\ stale' = stale
        /\ late' = late /\ queued' = queued /\ posted' = posted
        /\ dialog' = dialog /\ question' = question /\ joining' = joining
        /\ allowed' = allowed /\ cancels' = cancels /\ resets' = resets
        /\ u' \in UiPlaces
    BY <1>6 DEF CancelApprovals, ResetApprovals, QuitApprovals, UiPlaces, Quitting
  <2>3. allowed' \subseteq Ids
    BY <2>2 DEF TypeOK
  <2> QED
    BY <2>1, <2>2, <2>3, SettleKeeps, RefusePlaces DEF TypeOK
<1>7. CASE ShowRequest
  <2> DEFINE Events == [id : Ids, kind : {"tool", "ask"}]
  <2>1. Head(posted) \in Events /\ Tail(posted) \in Seq(Events)
    <3>1. posted \in Seq(Events) /\ posted # <<>>
      BY <1>7 DEF ShowRequest, TypeOK
    <3> HIDE DEF Events
    <3> QED
      BY <3>1
  <2>2. Head(posted).id \in Ids
    BY <2>1
  <2>3. dialog' \in {dialog, Head(posted).id} /\ question' \in {question, Head(posted).id}
          /\ posted' = Tail(posted)
    BY <1>7 DEF ShowRequest
  <2>4. /\ posted' \in Seq([id : Ids, kind : {"tool", "ask"}])
        /\ dialog' \in Ids \cup {NoId} /\ question' \in Ids \cup {NoId}
    BY <2>1, <2>2, <2>3 DEF TypeOK
  <2>5. /\ at' = at /\ kind' = kind /\ serial' = serial /\ entry' = entry
        /\ stop' = stop /\ stale' = stale /\ late' = late /\ queued' = queued
        /\ u' = u /\ joining' = joining /\ allowed' = allowed
        /\ cancels' = cancels /\ resets' = resets
    BY <1>7 DEF ShowRequest
  <2> QED
    BY <2>4, <2>5 DEF TypeOK, Drawn
<1> QED
  BY <1>2, <1>3, <1>4, <1>5, <1>6, <1>7 DEF UiChoice, UiStep

(* The types, and that no dialog names an id before it is drawn, are kept   *)
(* by every step.                                                           *)
LEMMA TypesNext == TypeOK /\ Drawn /\ [Next]_vars => (TypeOK /\ Drawn)'
<1> SUFFICES ASSUME TypeOK, Drawn, [Next]_vars PROVE TypeOK' /\ Drawn'
  OBVIOUS
<1>1. CASE UNCHANGED vars
  BY <1>1 DEF vars, managerVars, stopVars, uiVars, bounds, TypeOK, Drawn
<1>2. Worker \in Runners /\ Agents \subseteq Runners
  BY DEF Runners
<1> QED
  BY <1>1, <1>2, RunnerTypes, TurnTypes, UiTypes DEF Next, WorkerStep, AgentStep

(* Types, and two ties: a runner has an entry exactly from its request to   *)
(* its resolution, and the stop source of the worker is fresh between two   *)
(* prompts; for any number of agents.                                       *)
THEOREM ApprovalsTypes == Spec => []TypeOK
BY InitTypes, TypesNext, PTL DEF Spec

-----------------------------------------------------------------------------
(*                     AN ANSWER COUNTS FOR ITS REQUEST                    *)

(* Where runners move, what they hold and what they may: the steps that     *)
(* touch none of it are all the others.                                     *)
LEMMA GrantedByResolve ==
  ASSUME TypeOK, [Next]_vars, NEW r \in Runners, at[r] # "granted",
         at'[r] = "granted"
  PROVE  Resolve(r)
<1> USE DEF managerVars, stopVars, uiVars, bounds, Elsewhere, Quiet
<1>1. at \in [Runners -> Places]
  BY DEF TypeOK
<1>2. CASE UNCHANGED vars
  BY <1>2 DEF vars
<1>3. CASE UiChoice \/ UiStep
  <2>1. at' = at \/ at' = Woken(at)
    BY <1>3 DEF UiChoice, UiStep, AnswerApproval, AnswerQuestion, Answer,
       SubmitPrompt, CancelResponse, ResetStop, Quit, StopWorker, RequestStop,
       ShowRequest, CancelApprovals, ResetDrained, ResetClear, CancelAll,
       JoinAgents, ResetApprovals, QuitApprovals, JoinWorker, CancelPending
  <2> QED
    BY <1>1, <2>1, WokenPlaces
<1>4. ASSUME NEW s \in Runners, RunnerStep(s)
      PROVE  Resolve(r)
  <2>1. CASE Resolve(s)
    BY <1>1, <2>1 DEF Resolve
  <2>2. CASE ~Resolve(s)
    BY <1>1, <1>4, <2>2 DEF RunnerStep, NeedUser, LockGate, RequestApproval,
       EmitRequest, Doze, FallAsleep, RunTool
  <2> QED
    BY <2>1, <2>2
<1>5. CASE Activate \/ EndTurn
  BY <1>1, <1>5 DEF Activate, EndTurn
<1>6. ASSUME NEW a \in Agents, Spawn(a) \/ EndAgent(a) \/ Watchdog(a)
      PROVE  Resolve(r)
  <2>1. CASE Watchdog(a)
    <3>1. at' = at \/ at' = Woken(at)
      BY <2>1 DEF Watchdog, RequestStop
    <3> QED
      BY <1>1, <3>1, WokenPlaces
  <2>2. CASE Spawn(a) \/ EndAgent(a)
    BY <1>1, <2>2 DEF Spawn, EndAgent
  <2> QED
    BY <1>6, <2>1, <2>2
<1> QED
  BY <1>2, <1>3, <1>4, <1>5, <1>6 DEF Next, WorkerStep, AgentStep, Runners

(* An entry says yes only when the user allowed its id: an answer names the *)
(* id it is for, and an entry that opens draws a new one.                   *)
YesIsAllowed == \A r \in Runners : entry[r] = "yes" => Id(r) \in allowed

(* An id is allowed with the answer itself, and stays so.                   *)
LEMMA AllowedStep ==
  ASSUME TypeOK, YesIsAllowed, [Next]_vars
  PROVE  YesIsAllowed'
<1> USE DEF managerVars, stopVars, uiVars, bounds, Elsewhere, Quiet
<1>1. /\ entry \in [Runners -> {"none", "open", "yes", "no"}]
      /\ serial \in [Runners -> Nat]
  BY DEF TypeOK
<1>2. ASSUME serial' = serial, allowed' = allowed,
             \A r \in Runners : entry'[r] = "yes" => entry[r] = "yes"
      PROVE  YesIsAllowed'
  BY <1>2 DEF YesIsAllowed, Id
<1>3. CASE AnswerApproval \/ AnswerQuestion
  <2>1. PICK id \in Ids, yes \in BOOLEAN : Answer(id, yes)
    BY <1>3 DEF AnswerApproval, AnswerQuestion, TypeOK
  <2>2. \A r \in Runners : Id(r)' = Id(r)
    BY <1>3 DEF AnswerApproval, AnswerQuestion, Id
  <2>3. allowed' = IF yes THEN allowed \cup {id} ELSE allowed
    BY <2>1 DEF Answer
  <2>4. \A r \in Runners : entry'[r] = "yes" =>
          entry[r] = "yes" \/ (yes /\ Id(r) = id)
    BY <2>1, AnswerPlaces
  <2> QED
    BY <2>2, <2>3, <2>4 DEF YesIsAllowed
<1>4. CASE CancelApprovals \/ ResetApprovals \/ QuitApprovals
  <2>1. CancelPending /\ serial' = serial /\ allowed' = allowed
    BY <1>4 DEF CancelApprovals, ResetApprovals, QuitApprovals
  <2> QED
    BY <1>2, <2>1, RefusePlaces
<1>5. CASE \/ SubmitPrompt \/ CancelResponse \/ ResetStop \/ Quit \/ ShowRequest
           \/ ResetDrained \/ ResetClear \/ CancelAll \/ JoinAgents \/ JoinWorker
  <2>1. serial' = serial /\ allowed' = allowed /\ entry' = entry
    BY <1>5 DEF SubmitPrompt, CancelResponse, ResetStop, Quit, ShowRequest,
       ResetDrained, ResetClear, CancelAll, JoinAgents, JoinWorker
  <2> QED
    BY <1>2, <2>1
<1>6. ASSUME NEW r \in Runners, RunnerStep(r) PROVE YesIsAllowed'
  <2>1. CASE RequestApproval(r)
    <3>1. /\ entry'[r] = "open" /\ allowed' = allowed
          /\ \A s \in Runners : s # r => entry'[s] = entry[s] /\ serial'[s] = serial[s]
      BY <1>1, <2>1 DEF RequestApproval
    <3> QED
      BY <3>1 DEF YesIsAllowed, Id
  <2>2. CASE Resolve(r)
    BY <1>1, <1>2, <2>2 DEF Resolve
  <2>3. CASE ~RequestApproval(r) /\ ~Resolve(r)
    <3>1. serial' = serial /\ allowed' = allowed /\ entry' = entry
      BY <1>6, <2>3 DEF RunnerStep, NeedUser, LockGate, EmitRequest, Doze,
         FallAsleep, RunTool
    <3> QED
      BY <1>2, <3>1
  <2> QED
    BY <2>1, <2>2, <2>3
<1>7. CASE \/ UNCHANGED vars \/ Activate \/ EndTurn
           \/ \E a \in Agents : Spawn(a) \/ EndAgent(a) \/ Watchdog(a)
  <2>1. serial' = serial /\ allowed' = allowed /\ entry' = entry
    BY <1>7 DEF vars, Activate, EndTurn, Spawn, EndAgent, Watchdog
  <2> QED
    BY <1>2, <2>1
<1> QED
  BY <1>3, <1>4, <1>5, <1>6, <1>7 DEF Next, WorkerStep, AgentStep, UiChoice,
     UiStep, Runners

(* A tool runs only after the user allowed that very request: an answer to  *)
(* a dialog whose request is gone never counts for the one that came after, *)
(* for any number of runners that share the dialog.                         *)
THEOREM ToolsRunWhenAllowed == Spec => RunsOnlyAllowed
<1>1. Init => YesIsAllowed
  BY DEF Init, YesIsAllowed
<1>2. TypeOK /\ YesIsAllowed /\ [Next]_vars =>
        [\A r \in Runners :
           at[r] # "granted" /\ at'[r] = "granted" => Id(r) \in allowed]_vars
  <2> SUFFICES ASSUME TypeOK, YesIsAllowed, [Next]_vars, NEW r \in Runners,
                      at[r] # "granted", at'[r] = "granted"
               PROVE  Id(r) \in allowed
    OBVIOUS
  <2>1. Resolve(r)
    BY GrantedByResolve
  <2>2. entry[r] = "yes"
    BY <2>1 DEF Resolve, Granted, TypeOK
  <2> QED
    BY <2>2 DEF YesIsAllowed
<1>3. TypeOK /\ YesIsAllowed /\ [Next]_vars => YesIsAllowed'
  BY AllowedStep
<1> QED
  BY <1>1, <1>2, <1>3, ApprovalsTypes, PTL DEF Spec, RunsOnlyAllowed

-----------------------------------------------------------------------------
(*                    NO APPROVAL IS LOST ON ITS WAY                       *)

(* The gate is a mutex: one runner is between its lock and its answer.      *)
OneHolder == \A r, s \in Runners : HoldsGate(r) /\ HoldsGate(s) => r = s

(* An approval that waits for the user. *)
OpenTool(r) == at[r] \in Waiting /\ kind[r] = "tool" /\ entry[r] = "open"

(* The request of the one runner that waits with the gate is the last event *)
(* the UI thread was sent, or, once there is none left, the dialog shows it. *)
LastPosted(r) ==
  posted # <<>> /\ posted[Len(posted)] = [id |-> Id(r), kind |-> "tool"]
InDialog(r) == posted = <<>> /\ dialog = Id(r)

ShownInv ==
  \A r \in Runners :
    OpenTool(r) /\ u \notin Quitting => InDialog(r) \/ LastPosted(r)

(* The UI thread locks nothing, opens no approval and leaves the ids and    *)
(* kinds alone.                                                             *)
LEMMA UiTakesNoGate ==
  ASSUME TypeOK, UiChoice \/ UiStep, NEW r \in Runners
  PROVE  /\ HoldsGate(r)' => HoldsGate(r)
         /\ OpenTool(r)' => OpenTool(r)
         /\ Id(r)' = Id(r)
<1> USE DEF managerVars, stopVars, uiVars, bounds, Quiet
<1>1. kind' = kind /\ serial' = serial
  BY DEF UiChoice, UiStep, AnswerApproval, AnswerQuestion, SubmitPrompt,
     CancelResponse, ResetStop, Quit, ShowRequest, CancelApprovals,
     ResetDrained, ResetClear, CancelAll, JoinAgents, ResetApprovals,
     QuitApprovals, JoinWorker
<1>2. at' = at \/ at' = Woken(at)
  BY DEF UiChoice, UiStep, AnswerApproval, AnswerQuestion, Answer,
     SubmitPrompt, CancelResponse, ResetStop, Quit, StopWorker, RequestStop,
     ShowRequest, CancelApprovals, ResetDrained, ResetClear, CancelAll,
     JoinAgents, ResetApprovals, QuitApprovals, JoinWorker, CancelPending
<1>3. at'[r] = at[r] \/ (at[r] = "asleep" /\ at'[r] = "wait")
  BY <1>2, WokenPlaces DEF TypeOK
<1>4. entry'[r] = "open" => entry[r] = "open"
  <2>1. CASE AnswerApproval \/ AnswerQuestion
    <3>1. PICK id \in Ids, yes \in BOOLEAN : Answer(id, yes)
      BY <2>1 DEF AnswerApproval, AnswerQuestion, TypeOK
    <3> QED
      BY <3>1, AnswerPlaces
  <2>2. CASE CancelApprovals \/ ResetApprovals \/ QuitApprovals
    BY <2>2, RefusePlaces DEF CancelApprovals, ResetApprovals, QuitApprovals
  <2>3. CASE \/ SubmitPrompt \/ CancelResponse \/ ResetStop \/ Quit \/ ShowRequest
             \/ ResetDrained \/ ResetClear \/ CancelAll \/ JoinAgents \/ JoinWorker
    BY <2>3 DEF SubmitPrompt, CancelResponse, ResetStop, Quit, ShowRequest,
       ResetDrained, ResetClear, CancelAll, JoinAgents, JoinWorker
  <2> QED
    BY <2>1, <2>2, <2>3 DEF UiChoice, UiStep
<1> QED
  BY <1>1, <1>3, <1>4 DEF HoldsGate, OpenTool, Waiting, Id

(* Nor does a thread that begins, ends or is stopped, and none of these     *)
(* touches what the UI thread was sent or shows.                            *)
LEMMA TurnTakesNoGate ==
  ASSUME TypeOK, NEW r \in Runners,
         \/ UNCHANGED vars \/ Activate \/ EndTurn
         \/ \E a \in Agents : Spawn(a) \/ EndAgent(a) \/ Watchdog(a)
  PROVE  /\ HoldsGate(r)' => HoldsGate(r)
         /\ OpenTool(r)' => OpenTool(r)
         /\ Id(r)' = Id(r)
         /\ posted' = posted /\ dialog' = dialog /\ u' = u
<1> USE DEF managerVars, stopVars, uiVars, bounds, Elsewhere
<1>1. /\ kind' = kind /\ serial' = serial /\ entry' = entry
      /\ posted' = posted /\ dialog' = dialog /\ u' = u
  BY DEF vars, Activate, EndTurn, Spawn, EndAgent, Watchdog
<1>2. \/ at'[r] \in {at[r], "busy", "away", "done"}
      \/ at[r] = "asleep" /\ at'[r] = "wait"
  <2>1. CASE \E a \in Agents : Watchdog(a)
    <3>1. at' = at \/ at' = Woken(at)
      BY <2>1 DEF Watchdog, RequestStop
    <3> QED
      BY <3>1, WokenPlaces DEF TypeOK
  <2>2. CASE \/ UNCHANGED vars \/ Activate \/ EndTurn
             \/ \E a \in Agents : Spawn(a) \/ EndAgent(a)
    BY <2>2 DEF vars, Activate, EndTurn, Spawn, EndAgent, TypeOK
  <2> QED
    BY <2>1, <2>2
<1> QED
  BY <1>1, <1>2 DEF HoldsGate, OpenTool, Waiting, Id

(* A runner's step takes the gate only by locking it, and opens an approval *)
(* only by telling the UI of it; an open approval keeps its id.             *)
LEMMA RunnerTakesGate ==
  ASSUME TypeOK, NEW s \in Runners, RunnerStep(s), NEW r \in Runners
  PROVE  /\ HoldsGate(r)' => HoldsGate(r) \/ (r = s /\ GateFree)
         /\ OpenTool(r)' => OpenTool(r) \/ (r = s /\ EmitRequest(s))
         /\ OpenTool(r)' => Id(r)' = Id(r)
         /\ dialog' = dialog /\ u' = u
         /\ ~EmitRequest(s) => posted' = posted
<1> USE DEF managerVars, stopVars, uiVars, bounds, Elsewhere
<1>1. dialog' = dialog /\ u' = u
  BY DEF RunnerStep, NeedUser, LockGate, RequestApproval, EmitRequest, Resolve,
     Doze, FallAsleep, RunTool
<1>2. ~EmitRequest(s) => posted' = posted
  BY DEF RunnerStep, NeedUser, LockGate, RequestApproval, Resolve, Doze,
     FallAsleep, RunTool
<1>3. /\ at \in [Runners -> Places] /\ kind \in [Runners -> {"tool", "ask"}]
      /\ serial \in [Runners -> Nat]
      /\ entry \in [Runners -> {"none", "open", "yes", "no"}]
  BY DEF TypeOK
<1>4. CASE NeedUser(s)
  BY <1>1, <1>2, <1>3, <1>4 DEF NeedUser, HoldsGate, OpenTool, Waiting, Id
<1>5. CASE LockGate(s)
  BY <1>1, <1>2, <1>3, <1>5 DEF LockGate, HoldsGate, OpenTool, Waiting, Id
<1>6. CASE RequestApproval(s)
  BY <1>1, <1>2, <1>3, <1>6 DEF RequestApproval, HoldsGate, OpenTool, Waiting, Id
<1>7. CASE EmitRequest(s)
  BY <1>1, <1>3, <1>7 DEF EmitRequest, HoldsGate, OpenTool, Waiting, Id
<1>8. CASE Resolve(s)
  BY <1>1, <1>2, <1>3, <1>8 DEF Resolve, HoldsGate, OpenTool, Waiting, Id
<1>9. CASE Doze(s) \/ FallAsleep(s) \/ RunTool(s)
  BY <1>1, <1>2, <1>3, <1>9 DEF Doze, FallAsleep, RunTool, HoldsGate, OpenTool,
     Waiting, Id
<1> QED
  BY <1>4, <1>5, <1>6, <1>7, <1>8, <1>9 DEF RunnerStep

(* The gate stays a mutex.                                                  *)
LEMMA HolderStep ==
  ASSUME TypeOK, OneHolder, [Next]_vars
  PROVE  OneHolder'
<1>1. ASSUME NEW s \in Runners, RunnerStep(s)
      PROVE  OneHolder'
  <2>1. \A r \in Runners : HoldsGate(r)' => HoldsGate(r) \/ (r = s /\ GateFree)
    BY <1>1, RunnerTakesGate
  <2> QED
    BY <2>1 DEF OneHolder, GateFree
<1>2. CASE ~(\E s \in Runners : RunnerStep(s))
  <2>1. \A r \in Runners : HoldsGate(r)' => HoldsGate(r)
    BY <1>2, UiTakesNoGate, TurnTakesNoGate DEF Next, WorkerStep, AgentStep,
       Runners
  <2> QED
    BY <2>1 DEF OneHolder
<1> QED
  BY <1>1, <1>2

(* A runner that tells the UI posts its own event last, and no other runner *)
(* waits for an approval then: both would hold the gate.                    *)
LEMMA EmitShows ==
  ASSUME TypeOK, OneHolder, NEW s \in Runners, EmitRequest(s), NEW r \in Runners,
         OpenTool(r)', u \notin Quitting
  PROVE  LastPosted(r)'
<1>1. r = s
  <2>1. HoldsGate(s)
    BY DEF EmitRequest, HoldsGate
  <2>2. OpenTool(r) \/ r = s
    BY RunnerTakesGate DEF RunnerStep
  <2> QED
    BY <2>1, <2>2 DEF OneHolder, OpenTool, HoldsGate
<1>2. kind' = kind /\ serial' = serial /\ kind[s] = "tool"
  BY <1>1 DEF EmitRequest, OpenTool, managerVars
<1> DEFINE Events == [id : Ids, kind : {"tool", "ask"}]
           e == [id |-> Id(s), kind |-> "tool"]
<1>3. posted \in Seq(Events) /\ posted' = Append(posted, e)
  BY <1>2 DEF EmitRequest, TypeOK
<1>4. Id(r)' = Id(s)
  BY <1>1, <1>2 DEF Id
<1> HIDE DEF Events, e
<1>5. posted' # <<>> /\ posted'[Len(posted')] = e
  BY <1>3
<1> QED
  <2>1. e = [id |-> Id(r)', kind |-> "tool"]
    BY <1>4 DEF e
  <2> QED
    BY <1>5, <2>1 DEF LastPosted

(* Taking the first event in: the last one stays last, or is the one shown. *)
LEMMA ShowShows ==
  ASSUME TypeOK, ShowRequest, NEW r \in Runners, LastPosted(r)
  PROVE  InDialog(r)' \/ LastPosted(r)'
<1> DEFINE Events == [id : Ids, kind : {"tool", "ask"}]
<1>1. posted \in Seq(Events) /\ posted # <<>> /\ posted' = Tail(posted)
  BY DEF ShowRequest, TypeOK
<1>2. posted[Len(posted)] = [id |-> Id(r), kind |-> "tool"] /\ Id(r)' = Id(r)
  BY DEF LastPosted, ShowRequest, Quiet, Id
<1>3. CASE Len(posted) = 1
  <2> HIDE DEF Events
  <2>1. Head(posted) = posted[Len(posted)] /\ posted' = <<>>
    BY <1>1, <1>3
  <2>2. dialog' = Id(r)
    BY <1>2, <2>1 DEF ShowRequest
  <2> QED
    BY <1>2, <2>1, <2>2 DEF InDialog
<1>4. CASE Len(posted) # 1
  <2> HIDE DEF Events
  <2>1. Len(posted) \in Nat /\ Len(posted) >= 2
    <3>1. Len(posted) \in Nat
      BY <1>1
    <3>2. Len(posted) # 0
      BY <1>1
    <3> QED
      BY <1>4, <3>1, <3>2
  <2>2. Len(posted') = Len(posted) - 1
    BY <1>1, <2>1
  <2>3. posted'[Len(posted) - 1] = posted[Len(posted)]
    BY <1>1, <2>1
  <2>4. posted' # <<>>
    BY <2>1, <2>2
  <2> QED
    BY <1>2, <2>2, <2>3, <2>4 DEF LastPosted
<1> QED
  BY <1>3, <1>4

(* What an open approval is shown by stays, whatever any thread does. *)
LEMMA ShownStep ==
  ASSUME TypeOK, OneHolder, ShownInv, [Next]_vars
  PROVE  ShownInv'
<1> SUFFICES ASSUME NEW r \in Runners, OpenTool(r)', u' \notin Quitting
             PROVE  InDialog(r)' \/ LastPosted(r)'
  BY DEF ShownInv
<1>1. ASSUME OpenTool(r), u \notin Quitting, Id(r)' = Id(r), posted' = posted,
             dialog' = dialog
      PROVE  InDialog(r)' \/ LastPosted(r)'
  BY <1>1 DEF ShownInv, InDialog, LastPosted
<1>2. ASSUME NEW s \in Runners, RunnerStep(s)
      PROVE  InDialog(r)' \/ LastPosted(r)'
  BY <1>1, <1>2, RunnerTakesGate, EmitShows
<1>3. CASE UiChoice \/ UiStep
  <2>1. OpenTool(r) /\ Id(r)' = Id(r)
    BY <1>3, UiTakesNoGate
  <2>2. u \notin Quitting
    BY <1>3 DEF UiChoice, UiStep, AnswerApproval, AnswerQuestion, SubmitPrompt,
       MayType, CancelResponse, ResetStop, Quit, ShowRequest, CancelApprovals,
       ResetDrained, ResetClear, CancelAll, JoinAgents, ResetApprovals,
       QuitApprovals, JoinWorker, Quitting
  <2>3. InDialog(r) \/ LastPosted(r)
    BY <2>1, <2>2 DEF ShownInv
  <2>4. CASE ShowRequest
    BY <2>3, <2>4, ShowShows DEF InDialog, ShowRequest
  <2>5. CASE AnswerApproval
    <3>1. PICK yes \in BOOLEAN : Answer(dialog, yes)
      BY <2>5 DEF AnswerApproval
    <3>2. dialog \in Ids
      BY <2>5 DEF AnswerApproval, TypeOK
    <3>3. ~InDialog(r)
      BY <3>1, <3>2, <2>1, AnswerPlaces DEF OpenTool, InDialog
    <3> QED
      BY <2>1, <2>3, <2>5, <3>3 DEF AnswerApproval, LastPosted
  <2>6. CASE ~ShowRequest /\ ~AnswerApproval
    <3>1. posted' = posted /\ dialog' = dialog
      BY <1>3, <2>6 DEF UiChoice, UiStep, AnswerQuestion, SubmitPrompt,
         CancelResponse, ResetStop, Quit, CancelApprovals, ResetDrained,
         ResetClear, CancelAll, JoinAgents, ResetApprovals, QuitApprovals,
         JoinWorker, uiVars
    <3> QED
      BY <1>1, <2>1, <2>2, <3>1
  <2> QED
    BY <2>4, <2>5, <2>6
<1>4. CASE \/ UNCHANGED vars \/ Activate \/ EndTurn
           \/ \E a \in Agents : Spawn(a) \/ EndAgent(a) \/ Watchdog(a)
  BY <1>1, <1>4, TurnTakesNoGate
<1> QED
  BY <1>2, <1>3, <1>4 DEF Next, WorkerStep, AgentStep, Runners

(* No tool approval is lost on its way to the user, although one dialog     *)
(* serves any number of runners and a later event overwrites what it shows: *)
(* the gate lets nobody post an approval while another one is open.         *)
THEOREM OpenApprovalsAreShown == Spec => []ApprovalsReachUser
<1>1. Init => OneHolder /\ ShownInv
  BY DEF Init, OneHolder, HoldsGate, Waiting, ShownInv, OpenTool
<1>2. TypeOK /\ ShownInv => ApprovalsReachUser
  <2> SUFFICES ASSUME TypeOK, ShownInv, NEW r \in Runners, OpenTool(r),
                      u \notin Quitting
               PROVE  dialog = Id(r) \/ OnItsWay(Id(r))
    BY DEF ApprovalsReachUser, OpenTool
  <2>1. CASE InDialog(r)
    BY <2>1 DEF InDialog
  <2>2. CASE LastPosted(r)
    <3> DEFINE Events == [id : Ids, kind : {"tool", "ask"}]
    <3>1. posted \in Seq(Events) /\ posted # <<>>
      BY <2>2 DEF TypeOK, LastPosted
    <3>2. Len(posted) \in DOMAIN posted
      <4> HIDE DEF Events
      <4> QED
        BY <3>1
    <3> QED
      BY <2>2, <3>2 DEF LastPosted, OnItsWay
  <2> QED
    BY <2>1, <2>2 DEF ShownInv
<1>3. TypeOK /\ OneHolder /\ ShownInv /\ [Next]_vars => OneHolder' /\ ShownInv'
  BY HolderStep, ShownStep
<1> QED
  BY <1>1, <1>2, <1>3, ApprovalsTypes, PTL DEF Spec
=============================================================================
