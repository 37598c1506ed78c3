----------------------------- MODULE ChatScreen -----------------------------
(***************************************************************************)
(* From the events of the service to the messages on the screen: the       *)
(* StreamingCoalescer, which holds text deltas back and flushes them every *)
(* 33 ms or before any other event; the queue of the screen's task runner; *)
(* the ChatEventBridge, which handles the events there; and ChatSession,   *)
(* the list of messages they build.                                        *)
(*                                                                         *)
(* Events come from several threads: the chat worker (its turns), a        *)
(* background agent, the user interface itself (a prompt queued, a /task   *)
(* card, a reset) and the coalescer's timer, which only flushes.           *)
(*                                                                         *)
(* Two allocators number the messages: ChatService's, for everything its   *)
(* events name, and ChatSession's own, for the turns it opens itself.      *)
(* Text is counted in deltas; a tool card is active or ended, and its end  *)
(* stands for every status but Active.                                     *)
(***************************************************************************)
EXTENDS Naturals, Sequences, SequencesExt, FiniteSets

CONSTANTS
  MaxPrompts,  \* bound: prompts submitted
  MaxOthers,   \* bound: /task cards, resets and compactions
  MaxDeltas,   \* bound: text deltas of a turn
  MaxTools     \* bound: tools of a turn

VARIABLES
  nextId,    \* ChatService's next message id
  prompts,   \* ids of the prompts that wait
  turn,      \* the worker's turn
  tasks,     \* the cards of the agents that still run
  made,      \* what was asked so far: prompts, tasks, clears
  sent,      \* deltas emitted for each turn, by its assistant id
  pending,   \* pending_deltas_: deltas held back, by id
  outbox,    \* events a thread has taken and has still to post
  queue,     \* the task queue of the screen
  nextUiId,  \* ChatSession::next_id_
  messages,  \* ChatSession::messages_
  index,     \* id_to_index_: a function from ids to positions
  tools,     \* tool_location_ and the segments: ids to their status
  opened,    \* active_agent_id_, 0 when it has no value
  working    \* active_agent_count_

vars == <<nextId, prompts, turn, tasks, made, sent, pending, outbox, queue,
          nextUiId, messages, index, tools, opened, working>>

serviceVars == <<nextId, prompts, turn, tasks, made, sent>>
screenVars == <<nextUiId, messages, index, tools, opened, working>>

Threads == {"worker", "agent", "ui", "timer"}

MaxIds == MaxOthers + MaxPrompts * (2 + MaxTools)
Ids == 1..MaxIds
UiIds == 1..(2 * MaxIds + 1)
Statuses == {"queued", "active", "complete", "cancelled", "error"}

Event(kind, id, status) == [kind |-> kind, id |-> id, status |-> status, text |-> 0]
Text(id, n) == [kind |-> "text", id |-> id, status |-> "active", text |-> n]

Events ==
  [kind : {"prompt", "status", "started", "text", "fault", "tool", "tooldone",
           "agentdone",
           "cleared", "compacted"},
   id : Ids \cup {0}, status : Statuses, text : 0..MaxDeltas]

NoTurn == [at |-> "idle", id |-> 0, tool |-> 0, deltas |-> 0, tools |-> 0]

Extend(f, x, v) == [y \in DOMAIN f \cup {x} |-> IF y = x THEN v ELSE f[y]]

TypeOK ==
  /\ nextId \in Ids \cup {MaxIds + 1}
  /\ prompts \in Seq(Ids)
  /\ turn \in [at : {"idle", "streaming", "tool"}, id : Ids \cup {0},
               tool : Ids \cup {0}, deltas : 0..MaxDeltas, tools : 0..MaxTools]
  /\ tasks \subseteq Ids
  /\ made \in [prompts : 0..MaxPrompts, tasks : 0..MaxOthers, clears : 0..MaxOthers]
  /\ DOMAIN sent \subseteq Ids
  /\ \A i \in DOMAIN sent : sent[i] \in 0..MaxDeltas
  /\ pending \in [Ids -> 0..MaxDeltas]
  /\ \A t \in Threads : outbox[t] \in Seq(Events)
  /\ queue \in Seq(Events)
  /\ nextUiId \in UiIds
  /\ messages \in Seq([id : UiIds, sender : {"user", "agent"},
                       status : Statuses, text : 0..MaxDeltas])
  /\ DOMAIN index \subseteq UiIds
  /\ \A i \in DOMAIN index : index[i] \in DOMAIN messages
  /\ DOMAIN tools \subseteq Ids
  /\ \A i \in DOMAIN tools : tools[i] \in Statuses
  /\ opened \in UiIds \cup {0}
  /\ working \in 0..Len(messages)

Init ==
  /\ nextId = 1
  /\ prompts = <<>>
  /\ turn = NoTurn
  /\ tasks = {}
  /\ made = [prompts |-> 0, tasks |-> 0, clears |-> 0]
  /\ sent = [i \in {} |-> 0]
  /\ pending = [i \in Ids |-> 0]
  /\ outbox = [t \in Threads |-> <<>>]
  /\ queue = <<>>
  /\ nextUiId = 1
  /\ messages = <<>>
  /\ index = [i \in {} |-> 0]
  /\ tools = [i \in {} |-> "active"]
  /\ opened = 0
  /\ working = 0

-----------------------------------------------------------------------------
(* The coalescer.                                                          *)

(* What a flush drains: the ids that have text, in the order of an         *)
(* unordered_map, as the events it will post.                              *)
Held == {i \in Ids : pending[i] > 0}
Drained(order) == [k \in DOMAIN order |-> Text(order[k], pending[order[k]])]

(* Mutation: the map that was moved from is not cleared. *)
EmptiedNot == pending

(* pending_deltas_ after the flush has taken it.                           *)
Emptied == [i \in Ids |-> 0]

(* Dispatch of events other than deltas: under the mutex the deltas are    *)
(* drained; they and the events are posted without it, one by one.         *)
Dispatch(t, events) ==
  /\ outbox[t] = <<>>
  /\ \E order \in SetToSeqs(Held) :
       outbox' = [outbox EXCEPT ![t] = Drained(order) \o events]
  /\ pending' = Emptied
  /\ UNCHANGED <<queue, screenVars>>

(* PostEvent, of the thread that drained.                                  *)
Post(t) ==
  /\ outbox[t] # <<>>
  /\ queue' = Append(queue, Head(outbox[t]))
  /\ outbox' = [outbox EXCEPT ![t] = Tail(@)]
  /\ UNCHANGED <<serviceVars, pending, screenVars>>

(* The timer's flush.                                                      *)
Tick ==
  /\ Held # {}
  /\ Dispatch("timer", <<>>)
  /\ UNCHANGED serviceVars

-----------------------------------------------------------------------------
(* The events of the service.                                              *)

(* SubmitUserMessage, on the user-interface thread.                        *)
Submit ==
  /\ made.prompts < MaxPrompts
  /\ made' = [made EXCEPT !.prompts = @ + 1]
  /\ nextId' = nextId + 1
  /\ prompts' = Append(prompts, nextId)
  /\ Dispatch("ui", <<Event("prompt", nextId, "queued")>>)
  /\ UNCHANGED <<turn, tasks, sent>>

(* The worker takes a prompt and its turn starts, which may be before the  *)
(* submitting thread has posted that the prompt is queued.                 *)
StartTurn ==
  /\ turn.at = "idle"
  /\ prompts # <<>>
  /\ turn' = [NoTurn EXCEPT !.at = "streaming", !.id = nextId]
  /\ sent' = Extend(sent, nextId, 0)
  /\ nextId' = nextId + 1
  /\ prompts' = Tail(prompts)
  /\ Dispatch("worker", <<Event("status", Head(prompts), "active"),
                          Event("status", Head(prompts), "complete"),
                          Event("started", nextId, "active")>>)
  /\ UNCHANGED <<tasks, made>>

(* A delta only waits in pending_deltas_.                                  *)
Delta ==
  /\ turn.at = "streaming"
  /\ turn.deltas < MaxDeltas
  /\ outbox["worker"] = <<>>
  /\ turn' = [turn EXCEPT !.deltas = @ + 1]
  /\ sent' = [sent EXCEPT ![turn.id] = @ + 1]
  /\ pending' = [pending EXCEPT ![turn.id] = @ + 1]
  /\ UNCHANGED <<nextId, prompts, tasks, made, outbox, queue, screenVars>>

StartTool ==
  /\ turn.at = "streaming"
  /\ turn.tools < MaxTools
  /\ turn' = [turn EXCEPT !.at = "tool", !.tool = nextId, !.tools = @ + 1]
  /\ nextId' = nextId + 1
  /\ Dispatch("worker", <<Event("tool", nextId, "active")>>)
  /\ UNCHANGED <<prompts, tasks, made, sent>>

EndTool ==
  /\ turn.at = "tool"
  /\ Dispatch("worker", <<Event("tooldone", turn.tool, "complete")>>)
  /\ turn' = [turn EXCEPT !.at = "streaming"]
  /\ UNCHANGED <<nextId, prompts, tasks, made, sent>>

(* How a turn tells the screen that it ended: done, cancelled, or failed.  *)
Ending(outcome) ==
  CASE outcome = "complete" -> <<Event("status", turn.id, "complete")>>
    [] outcome = "cancelled" -> <<Event("status", turn.id, "cancelled")>>
    [] outcome = "error" -> <<Event("fault", turn.id, "error")>>

EndTurn ==
  /\ turn.at = "streaming"
  /\ \E outcome \in {"complete", "cancelled", "error"} :
       Dispatch("worker", Ending(outcome))
  /\ turn' = NoTurn
  /\ UNCHANGED <<nextId, prompts, tasks, made, sent>>

(* /task shows the card of its agent before the agent exists; the agent    *)
(* ends its card.                                                          *)
Task ==
  /\ made.tasks + made.clears < MaxOthers
  /\ made' = [made EXCEPT !.tasks = @ + 1]
  /\ nextId' = nextId + 1
  /\ tasks' = tasks \cup {nextId}
  /\ Dispatch("ui", <<Event("tool", nextId, "active")>>)
  /\ UNCHANGED <<prompts, turn, sent>>

EndTask ==
  /\ outbox["ui"] = <<>>
  /\ \E card \in tasks :
       /\ tasks' = tasks \ {card}
       /\ Dispatch("agent", <<Event("agentdone", card, "complete")>>)
  /\ UNCHANGED <<nextId, prompts, turn, made, sent>>

(* A reset or a compaction of an idle service (the worker has drained).    *)
Clear ==
  /\ made.tasks + made.clears < MaxOthers
  /\ turn.at = "idle"
  /\ outbox["worker"] = <<>>
  /\ made' = [made EXCEPT !.clears = @ + 1]
  /\ \/ /\ prompts' = <<>>
        /\ Dispatch("ui", <<Event("cleared", 0, "complete")>>)
     \/ /\ prompts' = prompts
        /\ Dispatch("ui", <<Event("compacted", 0, "complete")>>)
  /\ UNCHANGED <<nextId, turn, tasks, sent>>

-----------------------------------------------------------------------------
(* The bridge and the session, on the user-interface thread.               *)

HasMessage(id) == id \in DOMAIN index

Later(id) == IF id >= nextUiId THEN id + 1 ELSE nextUiId

NewMessage(id, sender, status, text) ==
  [id |-> id, sender |-> sender, status |-> status, text |-> text]

(* AddMessageWithId: the index of the id moves to the new message.         *)
AddMessage(id, sender, status, text) ==
  /\ nextUiId' = Later(id)
  /\ messages' = Append(messages, NewMessage(id, sender, status, text))
  /\ index' = Extend(index, id, Len(messages) + 1)
  /\ IF sender = "agent" /\ status = "active"
       THEN opened' = id /\ working' = working + 1
       ELSE /\ opened' = IF sender = "agent" /\ opened = id THEN 0 ELSE opened
            /\ working' = working
  /\ UNCHANGED tools

(* The status of the message an id leads to, text added first; the count   *)
(* and the id of the active turn follow it.                                *)
Update(id, status, text) ==
  LET pos == index[id]
      old == messages[pos]
      leaves == old.sender = "agent" /\ old.status = "active" /\ status # "active"
      enters == old.sender = "agent" /\ old.status # "active" /\ status = "active"
  IN /\ messages' = [messages EXCEPT ![pos].status = status, ![pos].text = @ + text]
     /\ working' = working + (IF enters THEN 1 ELSE 0) - (IF leaves THEN 1 ELSE 0)
     /\ opened' = IF enters THEN id ELSE IF leaves /\ opened = id THEN 0 ELSE opened
     /\ UNCHANGED <<nextUiId, index, tools>>

StatusOf(id) == messages[index[id]].status

ShowStatus(e) ==
  IF HasMessage(e.id) THEN Update(e.id, e.status, 0) ELSE UNCHANGED screenVars

ShowStarted(e) ==
  IF HasMessage(e.id) THEN Update(e.id, e.status, 0)
                      ELSE AddMessage(e.id, "agent", e.status, 0)

(* Text of an id without a message is dropped.                             *)
ShowText(e) ==
  IF HasMessage(e.id) THEN Update(e.id, StatusOf(e.id), e.text)
                      ELSE UNCHANGED screenVars

(* The text of an error is not one of the counted deltas.                  *)
ShowFault(e) ==
  IF HasMessage(e.id) THEN Update(e.id, "error", 0)
                      ELSE AddMessage(e.id, "agent", "error", 0)

(* AddToolCallSegment and EnsureAgentTurn: a tool with no active turn to   *)
(* join opens one, under an id of the session's own.  A tool segment whose *)
(* id is known is updated instead.                                         *)
ShowTool(e) ==
  LET id == Later(e.id)
      joins == opened # 0 /\ HasMessage(opened)
  IN /\ tools' = Extend(tools, e.id, e.status)
     /\ \/ /\ e.id \in DOMAIN tools
           /\ UNCHANGED <<nextUiId, messages, index, opened, working>>
        \/ /\ e.id \notin DOMAIN tools
           /\ joins
           /\ nextUiId' = id
           /\ UNCHANGED <<messages, index, opened, working>>
        \/ /\ e.id \notin DOMAIN tools
           /\ ~joins
           /\ nextUiId' = id + 1
           /\ messages' = Append(messages, NewMessage(id, "agent", "active", 0))
           /\ index' = Extend(index, id, Len(messages) + 1)
           /\ opened' = id
           /\ working' = working + 1

(* The end of an agent adds a notice, which takes an id.                   *)
ShowToolDone(e) ==
  /\ tools' = IF e.id \in DOMAIN tools THEN Extend(tools, e.id, e.status) ELSE tools
  /\ nextUiId' = IF e.kind = "agentdone" THEN nextUiId + 1 ELSE nextUiId
  /\ UNCHANGED <<messages, index, opened, working>>

(* ClearMessages; the session goes on numbering where it was.  The bridge  *)
(* of the application has no history to refresh from after a compaction;   *)
(* its notice takes an id.                                                 *)
ShowCleared(e) ==
  /\ messages' = <<>>
  /\ index' = [i \in {} |-> 0]
  /\ tools' = [i \in {} |-> "active"]
  /\ opened' = 0
  /\ working' = 0
  /\ nextUiId' = IF e.kind = "compacted" THEN nextUiId + 1 ELSE nextUiId

(* HandleEvent.                                                            *)
Handle ==
  /\ queue # <<>>
  /\ queue' = Tail(queue)
  /\ LET e == Head(queue)
     IN \/ e.kind = "prompt" /\ AddMessage(e.id, "user", e.status, 0)
        \/ e.kind = "status" /\ ShowStatus(e)
        \/ e.kind = "started" /\ ShowStarted(e)
        \/ e.kind = "text" /\ ShowText(e)
        \/ e.kind = "fault" /\ ShowFault(e)
        \/ e.kind = "tool" /\ ShowTool(e)
        \/ e.kind \in {"tooldone", "agentdone"} /\ ShowToolDone(e)
        \/ e.kind \in {"cleared", "compacted"} /\ ShowCleared(e)
  /\ UNCHANGED <<serviceVars, pending, outbox>>

-----------------------------------------------------------------------------

Next ==
  \/ Submit \/ StartTurn \/ Delta \/ StartTool \/ EndTool \/ EndTurn
  \/ Task \/ EndTask \/ Clear
  \/ Tick \/ Handle
  \/ \E t \in Threads : Post(t)

Spec == Init /\ [][Next]_vars

-----------------------------------------------------------------------------
(* Properties.                                                             *)

(* Nothing is on its way to the screen.                                    *)
Settled ==
  /\ queue = <<>>
  /\ \A t \in Threads : outbox[t] = <<>>
  /\ Held = {}

(* A message never shows text twice, and once everything has arrived it    *)
(* shows all its turn streamed, whichever threads flushed the deltas and in *)
(* whichever order they posted them; unless the screen was cleared.        *)
AllTextShown ==
  \A i \in DOMAIN sent : HasMessage(i) =>
    LET shown == messages[index[i]].text
    IN /\ shown <= sent[i]
       /\ Settled /\ made.clears = 0 => shown = sent[i]

(* Once everything has arrived, no message of a turn that ended, cancelled *)
(* ones included, still shows as active, and no card of an agent or tool   *)
(* that ended does.                                                        *)
EndedTurnsSettle ==
  Settled =>
    /\ \A i \in DOMAIN sent \ {turn.id} :
         HasMessage(i) => StatusOf(i) # "active"
    /\ \A i \in DOMAIN tools :
         tools[i] = "active" => i \in tasks \/ (turn.at = "tool" /\ i = turn.tool)
=============================================================================
