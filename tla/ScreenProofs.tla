----------------------------- MODULE ScreenProofs -----------------------------
(***************************************************************************)
(* Proofs about ChatScreen: however the deltas are flushed and whichever   *)
(* thread posts them, a message shows the text its turn streamed, no delta *)
(* twice and, once all has arrived, none missing; and nothing that ended   *)
(* stays active on the screen.  Then about ScreenCache: whatever is kept   *)
(* between two frames, the next one shows the session.                     *)
(***************************************************************************)
EXTENDS ChatScreen, FiniteSetTheorems, TLAPS

-----------------------------------------------------------------------------
(*              THE EVENTS, THE SERVICE AND THE SCREEN                     *)

ScreenParameters ==
  MaxPrompts \in Nat /\ MaxOthers \in Nat /\ MaxDeltas \in Nat /\ MaxTools \in Nat

AnEvent ==
  [kind : {"prompt", "status", "started", "text", "fault", "tool", "tooldone",
           "agentdone", "cleared", "compacted"},
   id : Nat, status : Statuses, text : Nat]
AMessage == [id : Nat, sender : {"user", "agent"}, status : Statuses, text : Nat]

ServiceTyped ==
  /\ nextId \in Nat \ {0}
  /\ prompts \in Seq(Nat)
  /\ turn \in [at : {"idle", "streaming", "tool"}, id : Nat, tool : Nat,
               deltas : Nat, tools : 0..MaxTools]
  /\ tasks \subseteq Nat
  /\ made \in [prompts : 0..MaxPrompts, tasks : Nat, clears : Nat]
  /\ made.tasks + made.clears <= MaxOthers
  /\ DOMAIN sent \subseteq Ids /\ sent \in [DOMAIN sent -> Nat]
  /\ pending \in [Ids -> Nat]

FlowTyped ==
  /\ queue \in Seq(AnEvent)
  /\ outbox \in [Threads -> Seq(AnEvent)]

ScreenTyped ==
  /\ nextUiId \in Nat \ {0}
  /\ messages \in Seq(AMessage)
  /\ DOMAIN index \subseteq Nat /\ index \in [DOMAIN index -> 1..Len(messages)]
  /\ \A i, j \in DOMAIN index : index[i] = index[j] => i = j
  /\ \A i \in DOMAIN index : i < nextUiId
  /\ DOMAIN tools \subseteq Nat /\ tools \in [DOMAIN tools -> Statuses]
  /\ opened \in Nat

(* What an event says is so when it is emitted and stays so.                *)
Sound(e) ==
  /\ e.kind = "started" => e.id \in DOMAIN sent /\ e.status = "active"
  /\ e.kind = "prompt" => e.id \notin DOMAIN sent /\ e.id < nextId
  /\ e.kind = "status" /\ e.status = "active" => e.id \notin DOMAIN sent /\ e.id < nextId
  /\ e.kind = "tool" => e.status = "active"
  /\ e.kind \in {"tooldone", "agentdone"} => e.status = "complete"
  /\ e.kind \in {"cleared", "compacted"} => made.clears > 0

EventInv ==
  /\ \A k \in 1..Len(queue) : Sound(queue[k])
  /\ \A t \in Threads : \A k \in 1..Len(outbox[t]) : Sound(outbox[t][k])

(* Ids are given once; those still to come fit the bounds.                  *)
ServiceInv ==
  /\ \A k \in 1..Len(prompts) : prompts[k] < nextId /\ prompts[k] \notin DOMAIN sent
  /\ \A i \in DOMAIN sent : i < nextId
  /\ \A i \in tasks : i < nextId
  /\ turn.tool < nextId
  /\ turn.at = "tool" => turn.tool \notin tasks
  /\ turn.at = "idle" => turn.id = 0
  /\ turn.at # "idle" => turn.id \in DOMAIN sent
  /\ nextId - 1 + Len(prompts) * (1 + MaxTools)
       + (IF turn.at = "idle" THEN 0 ELSE MaxTools - turn.tools)
       <= made.tasks + made.prompts * (2 + MaxTools)

-----------------------------------------------------------------------------
(* A flush posts each text it drained once, in some order.                  *)
LEMMA Flush ==
  ASSUME ScreenParameters, ServiceTyped, FlowTyped, NEW t \in Threads,
         NEW events \in Seq(AnEvent), Dispatch(t, events)
  PROVE  /\ outbox[t] = <<>> /\ pending' = [i \in Ids |-> 0]
         /\ outbox' \in [Threads -> Seq(AnEvent)]
         /\ \A s \in Threads : s # t => outbox'[s] = outbox[s]
         /\ \E m \in Nat : \E order \in [1..m -> Held] :
              /\ \A i \in Held : \E k \in 1..m : order[k] = i
              /\ \A j, k \in 1..m : order[j] = order[k] => j = k
              /\ Len(outbox'[t]) = m + Len(events)
              /\ \A k \in 1..m : outbox'[t][k] = Text(order[k], pending[order[k]])
              /\ \A k \in 1..Len(events) : outbox'[t][m + k] = events[k]
<1>1. PICK order \in SetToSeqs(Held) :
        outbox' = [outbox EXCEPT ![t] = Drained(order) \o events]
  BY DEF Dispatch
<1> DEFINE m == Cardinality(Held)
<1>2. IsFiniteSet(Held) /\ m \in Nat /\ Held \subseteq Ids
  <2>1. MaxIds \in Nat
    BY DEF ScreenParameters, MaxIds
  <2>2. IsFiniteSet(Ids)
    BY <2>1, FS_Interval DEF Ids
  <2>3. Held \subseteq Ids
    BY DEF Held
  <2> QED
    BY <2>2, <2>3, FS_Subset, FS_CardinalityType
<1>3. order \in [1..m -> Held] /\ \A j, k \in 1..m : j # k => order[j] # order[k]
  BY DEF SetToSeqs, Cardinality
<1>4. order \in Surjection(1..m, Held)
  <2>1. order \in Injection(1..m, Held)
    BY <1>3, <1>2 DEF Injection, IsInjective
  <2>2. Cardinality(1..m) = m
    BY <1>2, FS_Interval
  <2> QED
    BY <1>2, <2>1, <2>2, FS_Injection
<1>5. \A i \in Held : \E k \in 1..m : order[k] = i
  BY <1>4 DEF Surjection
<1> DEFINE D == Drained(order)
<1>6. /\ D \in Seq(AnEvent) /\ Len(D) = m
      /\ \A k \in 1..m : D[k] = Text(order[k], pending[order[k]])
  <2>1. D = [k \in 1..m |-> Text(order[k], pending[order[k]])]
    BY <1>3 DEF Drained
  <2>2. \A k \in 1..m : Text(order[k], pending[order[k]]) \in AnEvent
    BY <1>2, <1>3 DEF ServiceTyped, Text, AnEvent, Statuses, Ids
  <2> HIDE DEF m, D
  <2> QED
    BY <1>2, <2>1, <2>2
<1> HIDE DEF m, D
<1>7. outbox' = [outbox EXCEPT ![t] = D \o events]
  BY <1>1 DEF D
<1>8. /\ D \o events \in Seq(AnEvent) /\ Len(D \o events) = m + Len(events)
      /\ \A k \in 1..m : (D \o events)[k] = D[k]
      /\ \A k \in 1..Len(events) : (D \o events)[m + k] = events[k]
  BY <1>2, <1>6
<1>9. outbox[t] = <<>> /\ pending' = [i \in Ids |-> 0]
  BY DEF Dispatch, Emptied
<1>10. /\ outbox' \in [Threads -> Seq(AnEvent)]
       /\ outbox'[t] = D \o events
       /\ \A s \in Threads : s # t => outbox'[s] = outbox[s]
  BY <1>7, <1>8 DEF FlowTyped
<1>11. /\ Len(outbox'[t]) = m + Len(events)
       /\ \A k \in 1..m : outbox'[t][k] = Text(order[k], pending[order[k]])
       /\ \A k \in 1..Len(events) : outbox'[t][m + k] = events[k]
  BY <1>6, <1>8, <1>10
<1>12. \E n \in Nat : \E given \in [1..n -> Held] :
         /\ \A i \in Held : \E k \in 1..n : given[k] = i
         /\ \A j, k \in 1..n : given[j] = given[k] => j = k
         /\ Len(outbox'[t]) = n + Len(events)
         /\ \A k \in 1..n : outbox'[t][k] = Text(given[k], pending[given[k]])
         /\ \A k \in 1..Len(events) : outbox'[t][n + k] = events[k]
  BY <1>2, <1>3, <1>5, <1>11, Zenon
<1> QED
  BY <1>9, <1>10, <1>12
-----------------------------------------------------------------------------
(* A message that is added is found under its id and changes no other.      *)
LEMMA Added ==
  ASSUME ScreenTyped, NEW id \in Nat, NEW message \in AMessage,
         messages' = Append(messages, message),
         index' = Extend(index, id, Len(messages) + 1),
         nextUiId' \in Nat, nextUiId' > id, nextUiId' >= nextUiId
  PROVE  /\ messages' \in Seq(AMessage)
         /\ DOMAIN index' = DOMAIN index \cup {id}
         /\ index' \in [DOMAIN index' -> 1..Len(messages')]
         /\ \A i, j \in DOMAIN index' : index'[i] = index'[j] => i = j
         /\ \A i \in DOMAIN index' : i < nextUiId'
         /\ messages'[index'[id]] = message
         /\ \A i \in DOMAIN index : i # id => messages'[index'[i]] = messages[index[i]]
<1>1. /\ DOMAIN index' = DOMAIN index \cup {id} /\ index'[id] = Len(messages) + 1
      /\ \A i \in DOMAIN index : i # id => index'[i] = index[i]
      /\ index' = [i \in DOMAIN index' |-> index'[i]]
  BY DEF Extend
<1>2. /\ messages \in Seq(AMessage) /\ Len(messages) \in Nat
      /\ messages' \in Seq(AMessage) /\ Len(messages') = Len(messages) + 1
      /\ messages'[Len(messages) + 1] = message
      /\ \A k \in 1..Len(messages) : messages'[k] = messages[k]
  BY DEF ScreenTyped
<1>3. \A i \in DOMAIN index : index[i] \in 1..Len(messages)
  BY DEF ScreenTyped
<1>4. \A i \in DOMAIN index' : index'[i] \in 1..Len(messages')
  BY <1>1, <1>2, <1>3
<1>5. index' \in [DOMAIN index' -> 1..Len(messages')]
  BY <1>1, <1>4
<1>6. \A i, j \in DOMAIN index' : index'[i] = index'[j] => i = j
  <2>1. \A i, j \in DOMAIN index : index[i] = index[j] => i = j
    BY DEF ScreenTyped
  <2>2. \A i \in DOMAIN index : index[i] # Len(messages) + 1
    BY <1>2, <1>3
  <2> QED
    BY <1>1, <2>1, <2>2
<1>7. \A i \in DOMAIN index' : i < nextUiId'
  BY <1>1 DEF ScreenTyped
<1> QED
  BY <1>1, <1>2, <1>3, <1>5, <1>6, <1>7

(* An update changes the message of its id alone.                           *)
LEMMA Updated ==
  ASSUME ScreenTyped, NEW id \in DOMAIN index, NEW status \in Statuses,
         NEW text \in Nat, Update(id, status, text)
  PROVE  /\ messages' \in Seq(AMessage) /\ Len(messages') = Len(messages)
         /\ index' = index /\ tools' = tools /\ nextUiId' = nextUiId
         /\ opened' \in {opened, id, 0}
         /\ messages'[index[id]].status = status
         /\ messages'[index[id]].text = messages[index[id]].text + text
         /\ \A i \in DOMAIN index : i # id => messages'[index[i]] = messages[index[i]]
<1>1. /\ index' = index /\ tools' = tools /\ nextUiId' = nextUiId
      /\ opened' \in {opened, id, 0}
      /\ messages' = [messages EXCEPT ![index[id]].status = status,
                                      ![index[id]].text = @ + text]
  BY DEF Update
<1>2. /\ messages \in Seq(AMessage) /\ index[id] \in 1..Len(messages)
      /\ \A i \in DOMAIN index : index[i] \in 1..Len(messages)
      /\ \A i \in DOMAIN index : i # id => index[i] # index[id]
  BY DEF ScreenTyped
<1> DEFINE old == messages[index[id]]
           new == [old EXCEPT !.status = status, !.text = @ + text]
<1>3. old \in AMessage
  BY <1>2
<1>4. new \in AMessage /\ new.status = status /\ new.text = old.text + text
  <2> HIDE DEF old
  <2>1. /\ DOMAIN old = {"id", "sender", "status", "text"}
        /\ old.id \in Nat /\ old.sender \in {"user", "agent"} /\ old.text \in Nat
    BY <1>3 DEF AMessage
  <2> DEFINE marked == [old EXCEPT !.status = status]
  <2>2. marked \in AMessage /\ marked.status = status /\ marked.text = old.text
    BY <1>3, <2>1 DEF AMessage
  <2>3. new = [marked EXCEPT !.text = @ + text]
    OBVIOUS
  <2> HIDE DEF marked, new
  <2>4. marked.text \in Nat /\ DOMAIN marked = {"id", "sender", "status", "text"}
    BY <2>2 DEF AMessage
  <2> QED
    BY <2>1, <2>2, <2>3, <2>4 DEF AMessage
<1>5. messages' = [messages EXCEPT ![index[id]] = new]
  BY <1>1, <1>2, <1>3 DEF AMessage
<1> HIDE DEF new, old
<1>6. /\ messages' \in Seq(AMessage) /\ Len(messages') = Len(messages)
      /\ messages'[index[id]] = new
      /\ \A k \in 1..Len(messages) : k # index[id] => messages'[k] = messages[k]
  BY <1>2, <1>4, <1>5
<1> QED
  BY <1>1, <1>2, <1>4, <1>6 DEF old

(* The end of a turn, and of a tool.                                        *)
Ends(e, i) ==
  e.id = i /\ (e.kind = "fault" \/ (e.kind = "status" /\ e.status # "active"))
Finishes(e, i) == e.id = i /\ e.kind \in {"tooldone", "agentdone"}

Clears(e) == e.kind \in {"cleared", "compacted"}
TextOf(i) == messages[index[i]].text
HandleBody(e) ==
  \/ e.kind = "prompt" /\ AddMessage(e.id, "user", e.status, 0)
  \/ e.kind = "status" /\ ShowStatus(e)
  \/ e.kind = "started" /\ ShowStarted(e)
  \/ e.kind = "text" /\ ShowText(e)
  \/ e.kind = "fault" /\ ShowFault(e)
  \/ e.kind = "tool" /\ ShowTool(e)
  \/ e.kind \in {"tooldone", "agentdone"} /\ ShowToolDone(e)
  \/ e.kind \in {"cleared", "compacted"} /\ ShowCleared(e)

(* What each kind of event does to the texts, to what is active and to the  *)
(* tools.                                                                   *)
Stays(e) ==
  /\ nextUiId' >= nextUiId
  /\ Clears(e) => DOMAIN index' = {} /\ DOMAIN tools' = {}
  /\ ~Clears(e) => DOMAIN index \subseteq DOMAIN index'
Texts(e) ==
  ~Clears(e) =>
    /\ \A i \in DOMAIN index :
         e.id # i \/ e.kind \notin {"text", "prompt"} => TextOf(i)' = TextOf(i)
    /\ \A i \in DOMAIN index' :
         i \notin DOMAIN index \/ (e.kind = "prompt" /\ e.id = i) => TextOf(i)' = 0
    /\ e.kind = "text" =>
         /\ DOMAIN index' = DOMAIN index
         /\ e.id \in DOMAIN index => TextOf(e.id)' = TextOf(e.id) + e.text
Actives(e) ==
  /\ e.kind = "started" => e.id \in DOMAIN index' /\ e.id < nextUiId'
  /\ \A i \in DOMAIN index' : messages'[index'[i]].status = "active" =>
       \/ i \in DOMAIN index /\ messages[index[i]].status = "active" /\ ~Ends(e, i)
       \/ e.id = i /\ e.kind \in {"started", "prompt"}
       \/ e.id = i /\ e.kind = "status" /\ e.status = "active"
       \/ e.kind = "tool" /\ i >= nextUiId
Cards(e) ==
  \A i \in DOMAIN tools' : tools'[i] = "active" =>
    \/ i \in DOMAIN tools /\ tools[i] = "active" /\ ~Finishes(e, i)
    \/ e.kind = "tool" /\ e.id = i

(* Setting one status keeps the others and the types. *)
LEMMA ExtendedTools ==
  ASSUME ScreenTyped, NEW id \in Nat, NEW status \in Statuses,
         tools' = Extend(tools, id, status)
  PROVE  /\ DOMAIN tools' = DOMAIN tools \cup {id} /\ tools'[id] = status
         /\ \A i \in DOMAIN tools : i # id => tools'[i] = tools[i]
         /\ DOMAIN tools' \subseteq Nat /\ tools' \in [DOMAIN tools' -> Statuses]
BY DEF Extend, ScreenTyped

(* An update with the text of a message that is there.                      *)
LEMMA UpdateHandled ==
  ASSUME ScreenTyped, NEW e \in AnEvent, e.id \in DOMAIN index,
         NEW status \in Statuses, NEW text \in Nat,
         Update(e.id, status, text),
         e.kind \in {"status", "started", "text", "fault"},
         e.kind # "text" => text = 0, e.kind = "text" => text = e.text,
         e.kind = "text" => status = messages[index[e.id]].status,
         e.kind = "fault" => status = "error",
         e.kind \in {"status", "started"} => status = e.status
  PROVE  ScreenTyped' /\ Stays(e) /\ Texts(e) /\ Actives(e) /\ Cards(e)
<1> USE DEF Clears, TextOf
<1>1. /\ messages' \in Seq(AMessage) /\ Len(messages') = Len(messages)
      /\ index' = index /\ tools' = tools /\ nextUiId' = nextUiId
      /\ opened' \in {opened, e.id, 0}
      /\ messages'[index[e.id]].status = status
      /\ messages'[index[e.id]].text = messages[index[e.id]].text + text
      /\ \A i \in DOMAIN index : i # e.id => messages'[index[i]] = messages[index[i]]
  BY Updated
<1>2. \A i \in DOMAIN index : messages[index[i]].text \in Nat
  <2>1. \A i \in DOMAIN index : messages[index[i]] \in AMessage
    BY DEF ScreenTyped
  <2> QED
    BY <2>1 DEF AMessage
<1>3. ScreenTyped'
  BY <1>1 DEF ScreenTyped, AnEvent
<1>4. Stays(e)
  BY <1>1, <1>3 DEF Stays, ScreenTyped
<1>5. Texts(e)
  BY <1>1, <1>2 DEF Texts
<1>6. Actives(e)
  <2>1. \A i \in DOMAIN index : i < nextUiId
    BY DEF ScreenTyped
  <2>2. ASSUME NEW i \in DOMAIN index', messages'[index'[i]].status = "active"
        PROVE  \/ i \in DOMAIN index /\ messages[index[i]].status = "active" /\ ~Ends(e, i)
               \/ e.id = i /\ e.kind = "started"
               \/ e.id = i /\ e.kind = "status" /\ e.status = "active"
    <3>1. CASE i # e.id
      BY <1>1, <2>2, <3>1 DEF Ends
    <3>2. CASE i = e.id
      <4>1. status = "active"
        BY <1>1, <2>2, <3>2
      <4> QED
        BY <1>1, <2>2, <3>2, <4>1 DEF Ends
    <3> QED
      BY <3>1, <3>2
  <2> QED
    BY <1>1, <2>1, <2>2 DEF Actives
<1>7. Cards(e)
  BY <1>1 DEF Cards, Finishes
<1> QED
  BY <1>3, <1>4, <1>5, <1>6, <1>7

(* An event that adds a message: a prompt, a turn or a fault with no message yet. *)
LEMMA AddHandled ==
  ASSUME ScreenTyped, NEW e \in AnEvent, NEW sender \in {"user", "agent"},
         NEW status \in Statuses, AddMessage(e.id, sender, status, 0),
         e.kind \in {"prompt", "started", "fault"},
         e.kind = "prompt" \/ e.id \notin DOMAIN index,
         e.kind = "fault" => status = "error"
  PROVE  ScreenTyped' /\ Stays(e) /\ Texts(e) /\ Actives(e) /\ Cards(e)
<1> DEFINE message == NewMessage(e.id, sender, status, 0)
<1> USE DEF Clears, TextOf
<1>1. /\ messages' = Append(messages, message)
      /\ index' = Extend(index, e.id, Len(messages) + 1)
      /\ tools' = tools /\ opened' \in {opened, e.id, 0}
      /\ nextUiId' = Later(e.id)
  BY DEF AddMessage
<1>2. /\ e.id \in Nat /\ nextUiId' \in Nat \ {0} /\ nextUiId' > e.id
      /\ nextUiId' >= nextUiId
  BY <1>1 DEF ScreenTyped, AnEvent, Later
<1>3. message \in AMessage /\ message.text = 0 /\ message.status = status
  BY <1>2 DEF AMessage, NewMessage
<1> HIDE DEF message
<1>4. /\ messages' \in Seq(AMessage)
      /\ DOMAIN index' = DOMAIN index \cup {e.id}
      /\ index' \in [DOMAIN index' -> 1..Len(messages')]
      /\ \A i, j \in DOMAIN index' : index'[i] = index'[j] => i = j
      /\ \A i \in DOMAIN index' : i < nextUiId'
      /\ messages'[index'[e.id]] = message
      /\ \A i \in DOMAIN index : i # e.id => messages'[index'[i]] = messages[index[i]]
  BY <1>1, <1>2, <1>3, Added
<1>5. ScreenTyped'
  BY <1>1, <1>2, <1>4 DEF ScreenTyped
<1>6. Stays(e) /\ Texts(e)
  BY <1>2, <1>3, <1>4 DEF Stays, Texts
<1>7. Actives(e)
  BY <1>2, <1>3, <1>4 DEF Actives, Ends
<1>8. Cards(e)
  BY <1>1 DEF Cards, Finishes
<1> QED
  BY <1>5, <1>6, <1>7, <1>8

(* An event the screen ignores. *)
LEMMA NothingHandled ==
  ASSUME ScreenTyped, NEW e \in AnEvent, UNCHANGED screenVars,
         e.id \notin DOMAIN index, e.kind \in {"status", "text"}
  PROVE  ScreenTyped' /\ Stays(e) /\ Texts(e) /\ Actives(e) /\ Cards(e)
<1>1. /\ messages' = messages /\ index' = index /\ tools' = tools
      /\ nextUiId' = nextUiId /\ opened' = opened
  BY DEF screenVars
<1> QED
  BY <1>1 DEF ScreenTyped, Stays, Texts, Actives, Cards, Clears, TextOf, Ends, Finishes

(* The card of a tool, which opens a message of its own when no turn is active. *)
LEMMA ToolHandled ==
  ASSUME ScreenTyped, NEW e \in AnEvent, ShowTool(e), e.kind = "tool"
  PROVE  ScreenTyped' /\ Stays(e) /\ Texts(e) /\ Actives(e) /\ Cards(e)
<1> DEFINE id == Later(e.id)
           message == NewMessage(id, "agent", "active", 0)
<1> USE DEF Clears, TextOf
<1>1. /\ e.id \in Nat /\ id \in Nat \ {0} /\ id >= nextUiId
      /\ e.status \in Statuses
  BY DEF ScreenTyped, AnEvent, Later
<1>2. /\ DOMAIN tools' \subseteq Nat /\ tools' \in [DOMAIN tools' -> Statuses]
      /\ Cards(e)
  <2>1. tools' = Extend(tools, e.id, e.status)
    BY DEF ShowTool
  <2>2. /\ DOMAIN tools' = DOMAIN tools \cup {e.id}
        /\ \A i \in DOMAIN tools : i # e.id => tools'[i] = tools[i]
        /\ DOMAIN tools' \subseteq Nat /\ tools' \in [DOMAIN tools' -> Statuses]
    BY <1>1, <2>1, ExtendedTools
  <2> QED
    BY <2>2 DEF Cards, Finishes
<1>3. CASE /\ nextUiId' \in {nextUiId, id}
           /\ UNCHANGED <<messages, index, opened, working>>
  <2>1. nextUiId' \in Nat \ {0} /\ nextUiId' >= nextUiId
    BY <1>1, <1>3 DEF ScreenTyped
  <2> HIDE DEF id
  <2>2. ScreenTyped'
    BY <1>2, <1>3, <2>1 DEF ScreenTyped
  <2> QED
    BY <1>2, <1>3, <2>1, <2>2 DEF Stays, Texts, Actives, Ends
<1>4. CASE /\ nextUiId' = id + 1 /\ opened' = id
           /\ messages' = Append(messages, message)
           /\ index' = Extend(index, id, Len(messages) + 1)
  <2>1. /\ nextUiId' \in Nat \ {0} /\ nextUiId' > id /\ nextUiId' >= nextUiId
        /\ nextUiId \in Nat
    BY <1>1, <1>4 DEF ScreenTyped
  <2>2. message \in AMessage /\ message.text = 0
    BY <1>1 DEF AMessage, NewMessage, Statuses
  <2> HIDE DEF message, id
  <2>3. /\ messages' \in Seq(AMessage)
        /\ DOMAIN index' = DOMAIN index \cup {id}
        /\ index' \in [DOMAIN index' -> 1..Len(messages')]
        /\ \A i, j \in DOMAIN index' : index'[i] = index'[j] => i = j
        /\ \A i \in DOMAIN index' : i < nextUiId'
        /\ messages'[index'[id]] = message
        /\ \A i \in DOMAIN index : i # id => messages'[index'[i]] = messages[index[i]]
    BY <1>1, <1>4, <2>1, <2>2, Added
  <2>4. ScreenTyped'
    BY <1>1, <1>2, <1>4, <2>1, <2>3 DEF ScreenTyped
  <2>5. \A i \in DOMAIN index : i # id /\ i \in Nat
    BY <1>1, <2>1 DEF ScreenTyped
  <2>6. Stays(e) /\ Texts(e)
    BY <2>1, <2>2, <2>3, <2>5 DEF Stays, Texts
  <2>7. Actives(e)
    BY <1>1, <2>1, <2>3, <2>5 DEF Actives, Ends
  <2> QED
    BY <1>2, <2>4, <2>6, <2>7
<1> QED
  BY <1>3, <1>4 DEF ShowTool

(* What the screen does with an event.                                      *)
LEMMA Handled ==
  ASSUME ScreenTyped, NEW e \in AnEvent, Sound(e), HandleBody(e)
  PROVE  ScreenTyped' /\ Stays(e) /\ Texts(e) /\ Actives(e) /\ Cards(e)
<1>1. e.id \in Nat /\ e.text \in Nat /\ e.status \in Statuses
  BY DEF AnEvent
<1>2. 0 \in Nat /\ "error" \in Statuses /\ "user" \in {"user", "agent"}
      /\ "agent" \in {"user", "agent"}
  BY DEF Statuses
<1>3. CASE e.kind = "prompt" /\ AddMessage(e.id, "user", e.status, 0)
  BY <1>1, <1>2, <1>3, AddHandled
<1>4. CASE e.kind = "status" /\ ShowStatus(e)
  <2>1. CASE e.id \in DOMAIN index
    <3>1. Update(e.id, e.status, 0)
      BY <1>4, <2>1 DEF ShowStatus, HasMessage
    <3> QED
      BY <1>1, <1>2, <1>4, <2>1, <3>1, UpdateHandled
  <2>2. CASE e.id \notin DOMAIN index
    BY <1>4, <2>2, NothingHandled DEF ShowStatus, HasMessage
  <2> QED
    BY <2>1, <2>2
<1>5. CASE e.kind = "started" /\ ShowStarted(e)
  <2>1. CASE e.id \in DOMAIN index
    <3>1. Update(e.id, e.status, 0)
      BY <1>5, <2>1 DEF ShowStarted, HasMessage
    <3> QED
      BY <1>1, <1>2, <1>5, <2>1, <3>1, UpdateHandled
  <2>2. CASE e.id \notin DOMAIN index
    <3>1. AddMessage(e.id, "agent", e.status, 0)
      BY <1>5, <2>2 DEF ShowStarted, HasMessage
    <3> QED
      BY <1>1, <1>2, <1>5, <2>2, <3>1, AddHandled
  <2> QED
    BY <2>1, <2>2
<1>6. CASE e.kind = "text" /\ ShowText(e)
  <2>1. CASE e.id \in DOMAIN index
    <3>1. Update(e.id, messages[index[e.id]].status, e.text)
      BY <1>6, <2>1 DEF ShowText, HasMessage, StatusOf
    <3>2. messages[index[e.id]].status \in Statuses
      <4>1. messages[index[e.id]] \in AMessage
        BY <2>1 DEF ScreenTyped
      <4> QED
        BY <4>1 DEF AMessage
    <3> QED
      BY <1>1, <1>6, <2>1, <3>1, <3>2, UpdateHandled
  <2>2. CASE e.id \notin DOMAIN index
    BY <1>6, <2>2, NothingHandled DEF ShowText, HasMessage
  <2> QED
    BY <2>1, <2>2
<1>7. CASE e.kind = "fault" /\ ShowFault(e)
  <2>1. CASE e.id \in DOMAIN index
    <3>1. Update(e.id, "error", 0)
      BY <1>7, <2>1 DEF ShowFault, HasMessage
    <3> QED
      BY <1>1, <1>2, <1>7, <2>1, <3>1, UpdateHandled
  <2>2. CASE e.id \notin DOMAIN index
    <3>1. AddMessage(e.id, "agent", "error", 0)
      BY <1>7, <2>2 DEF ShowFault, HasMessage
    <3> QED
      BY <1>1, <1>2, <1>7, <2>2, <3>1, AddHandled
  <2> QED
    BY <2>1, <2>2
<1>8. CASE e.kind = "tool" /\ ShowTool(e)
  BY <1>8, ToolHandled
<1>9. CASE e.kind \in {"tooldone", "agentdone"} /\ ShowToolDone(e)
  <2>1. /\ messages' = messages /\ index' = index /\ opened' = opened
        /\ nextUiId' \in {nextUiId, nextUiId + 1}
    BY <1>9 DEF ShowToolDone
  <2>2. CASE tools' = tools /\ e.id \notin DOMAIN tools
    <3>1. ScreenTyped'
      BY <2>1, <2>2 DEF ScreenTyped
    <3> QED
      BY <1>9, <2>1, <2>2, <3>1 DEF ScreenTyped, Stays, Texts, Actives, Cards, Clears, TextOf,
         Ends, Finishes
  <2>3. CASE tools' = Extend(tools, e.id, e.status) /\ e.status # "active"
    <3>1. /\ DOMAIN tools' = DOMAIN tools \cup {e.id} /\ tools'[e.id] = e.status
          /\ \A i \in DOMAIN tools : i # e.id => tools'[i] = tools[i]
          /\ DOMAIN tools' \subseteq Nat /\ tools' \in [DOMAIN tools' -> Statuses]
      BY <1>1, <2>3, ExtendedTools
    <3>2. ScreenTyped'
      BY <2>1, <3>1 DEF ScreenTyped
    <3>3. Cards(e)
      BY <2>3, <3>1 DEF Cards, Finishes
    <3> QED
      BY <1>9, <2>1, <3>2, <3>3 DEF ScreenTyped, Stays, Texts, Actives, Clears, TextOf, Ends
  <2> QED
    BY <1>9, <2>2, <2>3 DEF ShowToolDone, Sound
<1>10. CASE e.kind \in {"cleared", "compacted"} /\ ShowCleared(e)
  <2>1. /\ messages' = <<>> /\ DOMAIN index' = {} /\ DOMAIN tools' = {}
        /\ index' = [i \in {} |-> 0] /\ tools' = [i \in {} |-> "active"]
        /\ opened' = 0 /\ nextUiId' \in {nextUiId, nextUiId + 1}
    BY <1>10 DEF ShowCleared
  <2>2. ScreenTyped'
    BY <2>1 DEF ScreenTyped
  <2> QED
    BY <1>10, <2>1, <2>2 DEF ScreenTyped, Stays, Texts, Actives, Cards, Clears
<1> QED
  BY <1>3, <1>4, <1>5, <1>6, <1>7, <1>8, <1>9, <1>10 DEF HandleBody

-----------------------------------------------------------------------------
(* The text of an id that a sequence of events carries, added up by a       *)
(* function of the prefixes.                                                *)
Weight(e, i) == IF e.kind = "text" /\ e.id = i THEN e.text ELSE 0
Adds(g, s, i) ==
  /\ g[0] = 0
  /\ \A k \in 1..Len(s) : g[k] = g[k - 1] + Weight(s[k], i)
  /\ \A j, k \in 0..Len(s) : j <= k => g[j] <= g[k]
Carries(s, i, n) == \E g \in [0..Len(s) -> Nat] : Adds(g, s, i) /\ g[Len(s)] = n

(* What an event carries is a number. *)
LEMMA WeightType ==
  ASSUME NEW e \in AnEvent, NEW i
  PROVE  Weight(e, i) \in Nat
BY DEF Weight, AnEvent

(* No events carry no text. *)
LEMMA NothingCarried ==
  ASSUME NEW i
  PROVE  /\ Carries(<<>>, i, 0)
         /\ \A n : Carries(<<>>, i, n) => n = 0
<1>1. Len(<<>>) = 0
  OBVIOUS
<1>2. Carries(<<>>, i, 0)
  <2> DEFINE g == [k \in 0..0 |-> 0]
  <2>1. g \in [0..0 -> Nat] /\ Adds(g, <<>>, i) /\ g[0] = 0
    BY DEF Adds
  <2> HIDE DEF g
  <2> QED
    BY <1>1, <2>1 DEF Carries
<1> QED
  BY <1>1, <1>2 DEF Carries, Adds

(* An event appended adds what it carries. *)
LEMMA MoreCarried ==
  ASSUME NEW s \in Seq(AnEvent), NEW e \in AnEvent, NEW i, NEW n, Carries(s, i, n)
  PROVE  Carries(Append(s, e), i, n + Weight(e, i))
<1>1. PICK g \in [0..Len(s) -> Nat] : Adds(g, s, i) /\ g[Len(s)] = n
  BY DEF Carries
<1> DEFINE l == Len(s)
           r == Append(s, e)
           w == Weight(e, i)
           h == [k \in 0..(l + 1) |-> IF k = l + 1 THEN n + w ELSE g[k]]
<1>2. /\ l \in Nat /\ w \in Nat /\ Len(r) = l + 1 /\ r[l + 1] = e
      /\ \A k \in 1..l : r[k] = s[k]
  BY WeightType
<1>3. n \in Nat /\ g[l] = n /\ \A k \in 0..l : g[k] \in Nat
  BY <1>1, <1>2
<1>4. /\ h \in [0..(l + 1) -> Nat] /\ h[l + 1] = n + w
      /\ \A k \in 0..l : h[k] = g[k] /\ k # l + 1
  BY <1>2, <1>3
<1> HIDE DEF h, l, r, w
<1>5. h[0] = 0
  BY <1>1, <1>2, <1>4 DEF Adds
<1>6. \A k \in 1..(l + 1) : h[k] = h[k - 1] + Weight(r[k], i)
  <2>1. ASSUME NEW k \in 1..l
        PROVE  h[k] = h[k - 1] + Weight(r[k], i)
    <3>1. g[k] = g[k - 1] + Weight(s[k], i)
      BY <1>1 DEF Adds, l
    <3>2. h[k] = g[k] /\ h[k - 1] = g[k - 1] /\ r[k] = s[k]
      BY <1>2, <1>4
    <3> QED
      BY <3>1, <3>2
  <2>2. h[l + 1] = h[l + 1 - 1] + Weight(r[l + 1], i)
    BY <1>2, <1>3, <1>4 DEF w
  <2> QED
    BY <1>2, <2>1, <2>2
<1>7. \A j, k \in 0..(l + 1) : j <= k => h[j] <= h[k]
  <2>1. \A j, k \in 0..l : j <= k => g[j] <= g[k]
    BY <1>1 DEF Adds, l
  <2>2. \A j \in 0..l : h[j] <= h[l + 1]
    BY <1>2, <1>3, <1>4, <2>1
  <2> QED
    BY <1>2, <1>4, <2>1, <2>2
<1>8. Adds(h, r, i)
  BY <1>2, <1>5, <1>6, <1>7 DEF Adds
<1>9. Carries(r, i, n + w)
  BY <1>2, <1>4, <1>8 DEF Carries
<1> QED
  BY <1>9 DEF r, w

(* The first event taken off, the rest carries what is left. *)
LEMMA LessCarried ==
  ASSUME NEW s \in Seq(AnEvent), s # <<>>, NEW i, NEW n, Carries(s, i, n)
  PROVE  /\ n \in Nat /\ Weight(Head(s), i) \in Nat /\ Weight(Head(s), i) <= n
         /\ Carries(Tail(s), i, n - Weight(Head(s), i))
<1>1. PICK g \in [0..Len(s) -> Nat] : Adds(g, s, i) /\ g[Len(s)] = n
  BY DEF Carries
<1> DEFINE l == Len(s) - 1
           r == Tail(s)
           w == Weight(Head(s), i)
           h == [k \in 0..l |-> g[k + 1] - w]
<1>2. /\ l \in Nat /\ w \in Nat /\ Len(r) = l /\ Len(s) = l + 1 /\ s[1] = Head(s)
      /\ \A k \in 1..l : r[k] = s[k + 1]
  BY WeightType
<1>3. g[1] = w
  BY <1>1, <1>2 DEF Adds
<1>4. \A k \in 0..l : g[k + 1] \in Nat /\ w <= g[k + 1]
  <2>1. \A k \in 0..l : 1 \in 0..Len(s) /\ k + 1 \in 0..Len(s) /\ 1 <= k + 1
    BY <1>2
  <2> QED
    BY <1>1, <1>3, <2>1 DEF Adds
<1>5. h \in [0..l -> Nat] /\ \A k \in 0..l : h[k] = g[k + 1] - w
  BY <1>2, <1>4
<1> HIDE DEF h, l, r, w
<1>6. n \in Nat /\ w <= n /\ h[l] = n - w /\ h[0] = 0
  BY <1>1, <1>2, <1>3, <1>4, <1>5
<1>7. \A k \in 1..l : h[k] = h[k - 1] + Weight(r[k], i)
  <2> SUFFICES ASSUME NEW k \in 1..l PROVE h[k] = h[k - 1] + Weight(r[k], i)
    OBVIOUS
  <2>1. g[k + 1] = g[k] + Weight(s[k + 1], i)
    <3>1. k + 1 \in 1..Len(s) /\ k + 1 - 1 = k
      BY <1>2
    <3>2. g[k + 1] = g[k + 1 - 1] + Weight(s[k + 1], i)
      BY <1>1, <3>1 DEF Adds
    <3> QED
      BY <3>1, <3>2
  <2>2. Weight(s[k + 1], i) \in Nat
    BY <1>2, WeightType
  <2>3. h[k] = g[k + 1] - w /\ h[k - 1] = g[k] - w /\ r[k] = s[k + 1]
    <3>1. k \in 0..l /\ k - 1 \in 0..l /\ (k - 1) + 1 = k
      BY <1>2
    <3>2. h[k] = g[k + 1] - w /\ h[k - 1] = g[(k - 1) + 1] - w
      BY <1>5, <3>1
    <3> QED
      BY <1>2, <3>1, <3>2
  <2>4. g[k] \in Nat /\ g[k + 1] \in Nat /\ w \in Nat
    BY <1>1, <1>2
  <2>5. h[k] = (g[k] + Weight(s[k + 1], i)) - w /\ h[k - 1] = g[k] - w
    BY <2>1, <2>3
  <2>6. h[k] = h[k - 1] + Weight(s[k + 1], i)
    BY <2>2, <2>4, <2>5
  <2> QED
    BY <2>3, <2>6
<1>8. \A j, k \in 0..l : j <= k => h[j] <= h[k]
  <2> SUFFICES ASSUME NEW j \in 0..l, NEW k \in 0..l, j <= k PROVE h[j] <= h[k]
    OBVIOUS
  <2>1. j + 1 \in 0..Len(s) /\ k + 1 \in 0..Len(s) /\ j + 1 <= k + 1
    BY <1>2
  <2>2. g[j + 1] <= g[k + 1]
    BY <1>1, <2>1 DEF Adds
  <2>3. h[j] = g[j + 1] - w /\ h[k] = g[k + 1] - w
    BY <1>5
  <2>4. g[j + 1] \in Nat /\ g[k + 1] \in Nat
    BY <1>4
  <2> QED
    BY <1>2, <2>2, <2>3, <2>4
<1>9. Carries(r, i, n - w)
  BY <1>2, <1>5, <1>6, <1>7, <1>8 DEF Carries, Adds
<1> QED
  BY <1>2, <1>6, <1>9 DEF r, w

(* What a flush and the events after it leave to post.                      *)
Waiting(i) == IF i \in Ids THEN pending[i] ELSE 0

(* After a dispatch the thread has the drained texts and its events to      *)
(* post: together they carry what waited.                                   *)
LEMMA Posted ==
  ASSUME ScreenParameters, ServiceTyped, FlowTyped, NEW t \in Threads,
         NEW events \in Seq(AnEvent), Dispatch(t, events),
         \A j \in 1..Len(events) : events[j].kind # "text"
  PROVE  /\ outbox[t] = <<>> /\ pending' = [i \in Ids |-> 0]
         /\ outbox' \in [Threads -> Seq(AnEvent)]
         /\ \A s \in Threads : s # t => outbox'[s] = outbox[s]
         /\ \A k \in 1..Len(outbox'[t]) :
              \/ outbox'[t][k].kind = "text" /\ outbox'[t][k].id \in Held
              \/ \E j \in 1..Len(events) : outbox'[t][k] = events[j]
         /\ \A j \in 1..Len(events) : \E k \in 1..Len(outbox'[t]) : outbox'[t][k] = events[j]
         /\ \A i : Carries(outbox'[t], i, Waiting(i))
<1>1. /\ outbox[t] = <<>> /\ pending' = [i \in Ids |-> 0]
      /\ outbox' \in [Threads -> Seq(AnEvent)]
      /\ \A s \in Threads : s # t => outbox'[s] = outbox[s]
  BY Flush
<1> DEFINE out == outbox'[t]
<1>2. PICK m \in Nat : \E order \in [1..m -> Held] :
        /\ \A i \in Held : \E k \in 1..m : order[k] = i
        /\ \A j, k \in 1..m : order[j] = order[k] => j = k
        /\ Len(out) = m + Len(events)
        /\ \A k \in 1..m : out[k] = Text(order[k], pending[order[k]])
        /\ \A k \in 1..Len(events) : out[m + k] = events[k]
  BY Flush
<1>3. PICK order \in [1..m -> Held] :
        /\ \A i \in Held : \E k \in 1..m : order[k] = i
        /\ \A j, k \in 1..m : order[j] = order[k] => j = k
        /\ Len(out) = m + Len(events)
        /\ \A k \in 1..m : out[k] = Text(order[k], pending[order[k]])
        /\ \A k \in 1..Len(events) : out[m + k] = events[k]
  BY <1>2
<1> HIDE DEF out
<1>4. ASSUME NEW k \in 1..m
      PROVE  out[k].kind = "text" /\ out[k].id = order[k] /\ out[k].text = pending[order[k]]
  <2>1. out[k] = Text(order[k], pending[order[k]])
    BY <1>3
  <2> QED
    BY <2>1 DEF Text
<1>5. Len(events) \in Nat /\ out \in Seq(AnEvent)
  BY <1>1 DEF out
<1>6. \A k \in 1..Len(out) : k \in 1..m \/ (k - m \in 1..Len(events) /\ m + (k - m) = k)
  BY <1>3, <1>5
<1>7. \A k \in 1..Len(out) :
        \/ out[k].kind = "text" /\ out[k].id \in Held
        \/ \E j \in 1..Len(events) : out[k] = events[j]
  <2> SUFFICES ASSUME NEW k \in 1..Len(out)
               PROVE  \/ out[k].kind = "text" /\ out[k].id \in Held
                      \/ \E j \in 1..Len(events) : out[k] = events[j]
    OBVIOUS
  <2>1. CASE k \in 1..m
    BY <1>3, <1>4, <2>1
  <2>2. CASE k \notin 1..m
    <3>1. k - m \in 1..Len(events) /\ m + (k - m) = k
      BY <1>6, <2>2
    <3>2. out[m + (k - m)] = events[k - m]
      BY <1>3, <3>1
    <3> QED
      BY <3>1, <3>2
  <2> QED
    BY <2>1, <2>2
<1>8. \A j \in 1..Len(events) : \E k \in 1..Len(out) : out[k] = events[j]
  <2> SUFFICES ASSUME NEW j \in 1..Len(events)
               PROVE  \E k \in 1..Len(out) : out[k] = events[j]
    OBVIOUS
  <2>1. m + j \in 1..Len(out)
    BY <1>3, <1>5
  <2>2. out[m + j] = events[j]
    BY <1>3
  <2> QED
    BY <2>1, <2>2
<1>9. ASSUME NEW i
      PROVE  Carries(out, i, Waiting(i))
  <2>1. pending \in [Ids -> Nat]
    BY DEF ServiceTyped
  <2>2. Waiting(i) \in Nat
    BY <2>1 DEF Waiting
  <2>3. \A k \in 1..Len(out) : Weight(out[k], i) =
          IF k \in 1..m /\ order[k] = i THEN Waiting(i) ELSE 0
    <3> SUFFICES ASSUME NEW k \in 1..Len(out)
                 PROVE  Weight(out[k], i) =
                          IF k \in 1..m /\ order[k] = i THEN Waiting(i) ELSE 0
      OBVIOUS
    <3>1. CASE k \in 1..m
      <4>1. order[k] \in Ids
        BY <3>1 DEF Held
      <4> QED
        BY <1>4, <3>1, <4>1 DEF Weight, Waiting
    <3>2. CASE k \notin 1..m
      <4>1. out[k].kind # "text"
        <5>1. k - m \in 1..Len(events) /\ m + (k - m) = k
          BY <1>6, <3>2
        <5>2. out[m + (k - m)] = events[k - m]
          BY <1>3, <5>1
        <5> QED
          BY <5>1, <5>2
      <4> QED
        BY <3>2, <4>1 DEF Weight
    <3> QED
      BY <3>1, <3>2
  <2>4. CASE i \in Held
    <3>1. PICK p \in 1..m : order[p] = i
      BY <1>3, <2>4
    <3> DEFINE g == [k \in 0..Len(out) |-> IF k >= p THEN Waiting(i) ELSE 0]
    <3>2. \A k \in 1..Len(out) : Weight(out[k], i) = IF k = p THEN Waiting(i) ELSE 0
      BY <1>3, <2>3, <3>1
    <3>3. Len(out) \in Nat /\ p <= Len(out) /\ p \in 1..Len(out)
      BY <1>3, <1>5
    <3>4. g \in [0..Len(out) -> Nat] /\ g[Len(out)] = Waiting(i) /\ g[0] = 0
      BY <2>2, <3>3
    <3>5. \A k \in 1..Len(out) : g[k] = g[k - 1] + Weight(out[k], i)
      BY <2>2, <3>2, <3>3
    <3>6. \A j, k \in 0..Len(out) : j <= k => g[j] <= g[k]
      BY <2>2, <3>3
    <3> HIDE DEF g
    <3> QED
      BY <3>4, <3>5, <3>6 DEF Carries, Adds
  <2>5. CASE i \notin Held
    <3>1. Waiting(i) = 0
      BY <2>1, <2>5 DEF Waiting, Held
    <3> DEFINE g == [k \in 0..Len(out) |-> 0]
    <3>2. /\ g \in [0..Len(out) -> Nat] /\ g[Len(out)] = 0 /\ g[0] = 0
          /\ \A k \in 1..Len(out) : g[k] = g[k - 1] + Weight(out[k], i)
          /\ \A j, k \in 0..Len(out) : j <= k => g[j] <= g[k]
      BY <1>5, <2>3, <3>1
    <3> HIDE DEF g
    <3> QED
      BY <3>1, <3>2 DEF Carries, Adds
  <2> QED
    BY <2>4, <2>5
<1> QED
  BY <1>1, <1>7, <1>8, <1>9 DEF out

-----------------------------------------------------------------------------
(* Every delta is shown, in an event under way or held back, once; with no  *)
(* clear, none is dropped.                                                  *)
Streamed(i) == IF i \in DOMAIN sent THEN sent[i] ELSE 0
Shown(i) == IF i \in DOMAIN index THEN TextOf(i) ELSE 0
InBoxes(n) == n["worker"] + n["agent"] + n["ui"] + n["timer"]
Balance(i, m, n) ==
  /\ Carries(queue, i, m)
  /\ \A t \in Threads : Carries(outbox[t], i, n[t])
  /\ Shown(i) + m + InBoxes(n) + Waiting(i) <= Streamed(i)
  /\ made.clears = 0 => Shown(i) + m + InBoxes(n) + Waiting(i) = Streamed(i)
AccountInv ==
  \A i \in Nat : \E m \in Nat : \E n \in [Threads -> Nat] : Balance(i, m, n)

(* With no clear, the start of a turn is ahead of its texts.                *)
StartOf(e, i) == e.kind = "started" /\ e.id = i
Begun(i) ==
  i \in DOMAIN index \/ \E k \in 1..Len(queue) : StartOf(queue[k], i)
OrderInv ==
  made.clears = 0 =>
    /\ \A i \in DOMAIN sent :
         Begun(i) \/ \E k \in 1..Len(outbox["worker"]) : StartOf(outbox["worker"][k], i)
    /\ \A i \in Held : Begun(i)
    /\ \A t \in Threads : \A k \in 1..Len(outbox[t]) :
         outbox[t][k].kind = "text" => Begun(outbox[t][k].id)
    /\ \A k \in 1..Len(queue) : queue[k].kind = "text" =>
         \/ queue[k].id \in DOMAIN index
         \/ \E j \in 1..(k - 1) : StartOf(queue[j], queue[k].id)

(* The end of a turn that ended is behind what would show it as active.     *)
TurnEndComes(k, i) ==
  \/ \E j \in 1..Len(queue) : j > k /\ Ends(queue[j], i)
  \/ \E j \in 1..Len(outbox["worker"]) : Ends(outbox["worker"][j], i)
EndInv ==
  /\ \A t \in Threads : \A k \in 1..Len(outbox[t]) :
       outbox[t][k].kind = "started" => t = "worker" /\ outbox[t][k].id = turn.id
  /\ \A i \in DOMAIN sent :
       \/ i < nextUiId
       \/ \E k \in 1..Len(queue) : StartOf(queue[k], i)
       \/ \E k \in 1..Len(outbox["worker"]) : StartOf(outbox["worker"][k], i)
  /\ \A i \in DOMAIN sent \ {turn.id} :
       /\ \A k \in 1..Len(queue) : StartOf(queue[k], i) => TurnEndComes(k, i)
       /\ i \in DOMAIN index /\ messages[index[i]].status = "active" => TurnEndComes(0, i)

(* So is the end of a tool or of the agent of a card.                       *)
Runs(i) == i \in tasks \/ (turn.at = "tool" /\ i = turn.tool)
ToolEndComes(k, i) ==
  \/ \E j \in 1..Len(queue) : j > k /\ Finishes(queue[j], i)
  \/ \E t \in Threads : \E j \in 1..Len(outbox[t]) : Finishes(outbox[t][j], i)
ToolInv ==
  /\ \A t \in Threads : \A k \in 1..Len(outbox[t]) : outbox[t][k].kind = "tool" =>
       \/ t = "ui" /\ outbox[t][k].id \in tasks
       \/ t = "worker" /\ turn.at = "tool" /\ outbox[t][k].id = turn.tool
  /\ \A k \in 1..Len(queue) : queue[k].kind = "tool" =>
       Runs(queue[k].id) \/ ToolEndComes(k, queue[k].id)
  /\ \A i \in DOMAIN tools : tools[i] = "active" => Runs(i) \/ ToolEndComes(0, i)

ShowInv ==
  /\ ServiceTyped /\ FlowTyped /\ ScreenTyped /\ EventInv /\ ServiceInv
  /\ AccountInv /\ OrderInv /\ EndInv /\ ToolInv

-----------------------------------------------------------------------------
(* What a thread dispatches, and what the service changes with it.          *)
Emission(t, events) ==
  /\ t \in Threads /\ events \in Seq(AnEvent) /\ Dispatch(t, events)
  /\ \A j \in 1..Len(events) : events[j].kind # "text" /\ Sound(events[j])'
  /\ \A e \in AnEvent : Sound(e) => Sound(e)'
  /\ made'.clears \in Nat /\ made'.clears >= made.clears
  /\ DOMAIN sent \subseteq DOMAIN sent' /\ \A i \in Nat : Streamed(i)' = Streamed(i)
  /\ \A i \in DOMAIN sent' : i \notin DOMAIN sent =>
       t = "worker" /\ i = turn'.id /\ \E j \in 1..Len(events) : StartOf(events[j], i)
  /\ \A j \in 1..Len(events) : events[j].kind = "started" =>
       t = "worker" /\ events[j].id = turn'.id
  /\ t # "worker" => turn' = turn
  /\ \A i \in DOMAIN sent : i = turn.id /\ i # turn'.id =>
       t = "worker" /\ \E j \in 1..Len(events) : Ends(events[j], i)
  /\ \A j \in 1..Len(events) : events[j].kind = "tool" =>
       \/ t = "ui" /\ events[j].id \in tasks'
       \/ t = "worker" /\ turn'.at = "tool" /\ events[j].id = turn'.tool
  /\ tasks \subseteq tasks' \/ outbox["ui"] = <<>>
  /\ \A i : Runs(i) => Runs(i)' \/ \E j \in 1..Len(events) : Finishes(events[j], i)

(* A dispatch keeps the parts of the invariant that are about events and screen. *)
LEMMA Emitted ==
  ASSUME ScreenParameters, ShowInv, NEW t, NEW events, Emission(t, events)
  PROVE  FlowTyped' /\ ScreenTyped' /\ EventInv' /\ AccountInv' /\ OrderInv' /\ EndInv' /\ ToolInv'
<1>1. /\ t \in Threads /\ events \in Seq(AnEvent) /\ Dispatch(t, events)
      /\ \A j \in 1..Len(events) : events[j].kind # "text"
  BY DEF Emission
<1>2. /\ outbox[t] = <<>> /\ pending' = [i \in Ids |-> 0]
      /\ outbox' \in [Threads -> Seq(AnEvent)]
      /\ \A s \in Threads : s # t => outbox'[s] = outbox[s]
  BY <1>1, Posted DEF ShowInv
<1>3. \A k \in 1..Len(outbox'[t]) :
        \/ outbox'[t][k].kind = "text" /\ outbox'[t][k].id \in Held
        \/ \E j \in 1..Len(events) : outbox'[t][k] = events[j]
  BY <1>1, Posted DEF ShowInv
<1>4. \A j \in 1..Len(events) : \E k \in 1..Len(outbox'[t]) : outbox'[t][k] = events[j]
  BY <1>1, Posted DEF ShowInv
<1>5. \A i : Carries(outbox'[t], i, Waiting(i))
  BY <1>1, Posted DEF ShowInv
<1>6. /\ queue' = queue /\ messages' = messages /\ index' = index /\ tools' = tools
      /\ nextUiId' = nextUiId /\ opened' = opened
  BY <1>1 DEF Dispatch, screenVars
<1>7. Held' = {}
  BY <1>2 DEF Held
<1>8. FlowTyped' /\ ScreenTyped'
  BY <1>2, <1>6 DEF FlowTyped, ScreenTyped, ShowInv
<1>9. EventInv'
  <2>1. \A e \in AnEvent : Sound(e) => Sound(e)'
    BY DEF Emission
  <2>2. ASSUME NEW k \in 1..Len(queue)'
        PROVE  Sound(queue[k])'
    <3>1. PICK e \in AnEvent : e = queue[k] /\ Sound(queue[k])
      BY <1>6 DEF EventInv, FlowTyped, ShowInv
    <3>2. Sound(e)'
      BY <2>1, <3>1
    <3> QED
      BY <1>6, <3>1, <3>2 DEF Sound
  <2>3. ASSUME NEW s \in Threads, NEW k \in 1..Len(outbox'[s])
        PROVE  Sound(outbox[s][k])'
    <3>1. CASE s # t
      <4>1. /\ outbox'[s] = outbox[s]
            /\ \E e \in AnEvent : e = outbox[s][k] /\ Sound(outbox[s][k])
        BY <1>2, <3>1 DEF EventInv, FlowTyped, ShowInv
      <4>2. PICK e \in AnEvent : e = outbox[s][k] /\ Sound(outbox[s][k])
        BY <4>1
      <4>3. Sound(e)'
        BY <2>1, <4>2
      <4> QED
        BY <4>1, <4>2, <4>3 DEF Sound
    <3>2. CASE s = t
      <4>1. CASE outbox'[s][k].kind = "text"
        BY <4>1 DEF Sound
      <4>2. CASE \E j \in 1..Len(events) : outbox'[s][k] = events[j]
        <5>1. PICK j \in 1..Len(events) : outbox'[s][k] = events[j]
          BY <4>2
        <5>2. Sound(events[j])'
          BY DEF Emission
        <5> QED
          BY <5>1, <5>2 DEF Sound
      <4> QED
        BY <1>3, <3>2, <4>1, <4>2
    <3> QED
      BY <3>1, <3>2
  <2> QED
    BY <2>2, <2>3 DEF EventInv
<1>10. AccountInv'
  <2> SUFFICES ASSUME NEW i \in Nat
               PROVE  \E m \in Nat : \E n \in [Threads -> Nat] : Balance(i, m, n)'
    BY DEF AccountInv
  <2>1. PICK m \in Nat, n \in [Threads -> Nat] : Balance(i, m, n)
    BY DEF AccountInv, ShowInv
  <2>2. Waiting(i) \in Nat /\ Waiting(i)' = 0
    BY <1>2 DEF Waiting, ServiceTyped, ShowInv
  <2>3. n[t] = 0
    BY <1>1, <1>2, <2>1, NothingCarried DEF Balance
  <2> PICK o \in [Threads -> Nat] : o = [n EXCEPT ![t] = Waiting(i)]
    BY <2>2
  <2>4. InBoxes(o) = InBoxes(n) + Waiting(i)
    BY <1>1, <2>2, <2>3 DEF InBoxes, Threads
  <2>5. \A s \in Threads : Carries(outbox'[s], i, o[s])
    BY <1>2, <1>5, <2>1 DEF Balance
  <2>6. Shown(i)' = Shown(i) /\ Streamed(i)' = Streamed(i)
    BY <1>6 DEF Shown, TextOf, Emission
  <2>7. InBoxes(n) \in Nat /\ Shown(i) \in Nat
    <3>1. i \in DOMAIN index => messages[index[i]] \in AMessage
      BY DEF ShowInv, ScreenTyped
    <3> QED
      BY <3>1 DEF InBoxes, Threads, Shown, TextOf, AMessage
  <2>8. Shown(i)' + m + InBoxes(o) + Waiting(i)' = Shown(i) + m + InBoxes(n) + Waiting(i)
    BY <2>2, <2>4, <2>6, <2>7
  <2>9. made'.clears = 0 => made.clears = 0
    BY DEF Emission, ShowInv, ServiceTyped
  <2>10. Balance(i, m, o)'
    BY <1>6, <2>1, <2>5, <2>6, <2>8, <2>9 DEF Balance
  <2> QED
    BY <2>4, <2>10
<1>11. OrderInv'
  <2> SUFFICES ASSUME made'.clears = 0 PROVE OrderInv'
    BY DEF OrderInv
  <2>1. made.clears = 0
    BY DEF Emission, ShowInv, ServiceTyped
  <2>2. \A i : Begun(i)' <=> Begun(i)
    BY <1>6 DEF Begun
  <2>3. ASSUME NEW i \in DOMAIN sent'
        PROVE  \/ Begun(i)'
               \/ \E k \in 1..Len(outbox'["worker"]) : StartOf(outbox'["worker"][k], i)
    <3>1. CASE i \notin DOMAIN sent
      <4>1. t = "worker" /\ \E j \in 1..Len(events) : StartOf(events[j], i)
        BY <3>1 DEF Emission
      <4> QED
        BY <1>4, <4>1
    <3>2. CASE i \in DOMAIN sent
      <4>1. \/ Begun(i)
            \/ \E k \in 1..Len(outbox["worker"]) : StartOf(outbox["worker"][k], i)
        BY <2>1, <3>2 DEF OrderInv, ShowInv
      <4>2. CASE t = "worker"
        BY <1>2, <2>2, <4>1, <4>2
      <4>3. CASE t # "worker"
        BY <1>2, <2>2, <4>1, <4>3 DEF Threads
      <4> QED
        BY <4>2, <4>3
    <3> QED
      BY <3>1, <3>2
  <2>4. ASSUME NEW s \in Threads, NEW k \in 1..Len(outbox'[s]),
               outbox'[s][k].kind = "text"
        PROVE  Begun(outbox[s][k].id)'
    <3> PICK i : i = outbox'[s][k].id
      OBVIOUS
    <3>1. CASE s # t
      <4>1. outbox'[s] = outbox[s] /\ Begun(outbox[s][k].id)
        BY <1>2, <2>1, <2>4, <3>1 DEF OrderInv, ShowInv
      <4>2. Begun(i)
        BY <4>1
      <4> QED
        BY <2>2, <4>2 DEF Begun
    <3>2. CASE s = t
      <4>1. i \in Held
        BY <1>1, <1>3, <2>4, <3>2
      <4>2. Begun(i)
        BY <2>1, <4>1 DEF OrderInv, ShowInv
      <4> QED
        BY <2>2, <4>2 DEF Begun
    <3> QED
      BY <3>1, <3>2
  <2>5. \A k \in 1..Len(queue') : queue'[k].kind = "text" =>
          \/ queue'[k].id \in DOMAIN index'
          \/ \E j \in 1..(k - 1) : StartOf(queue'[j], queue'[k].id)
    BY <1>6, <2>1 DEF OrderInv, ShowInv
  <2>6. \A i \in DOMAIN sent' : \/ Begun(i)'
          \/ \E k \in 1..Len(outbox'["worker"]) : StartOf(outbox'["worker"][k], i)
    BY <2>3
  <2>7. \A i \in Held' : Begun(i)'
    BY <1>7
  <2> QED
    BY <2>4, <2>5, <2>6, <2>7 DEF OrderInv
<1>12. EndInv'
  <2>1. ASSUME NEW s \in Threads, NEW k \in 1..Len(outbox'[s]),
               outbox'[s][k].kind = "started"
        PROVE  s = "worker" /\ outbox'[s][k].id = turn'.id
    <3>1. CASE s # t
      <4>1. s = "worker" /\ outbox'[s][k].id = turn.id
        BY <1>2, <2>1, <3>1 DEF EndInv, ShowInv
      <4> QED
        BY <3>1, <4>1 DEF Emission
    <3>2. CASE s = t
      <4>1. PICK j \in 1..Len(events) : outbox'[s][k] = events[j]
        BY <1>3, <2>1, <3>2
      <4> QED
        BY <2>1, <3>2, <4>1 DEF Emission
    <3> QED
      BY <3>1, <3>2
  <2>2. ASSUME NEW i \in DOMAIN sent'
        PROVE  \/ i < nextUiId'
               \/ \E k \in 1..Len(queue') : StartOf(queue'[k], i)
               \/ \E k \in 1..Len(outbox'["worker"]) : StartOf(outbox'["worker"][k], i)
    <3>1. CASE i \notin DOMAIN sent
      <4>1. t = "worker" /\ \E j \in 1..Len(events) : StartOf(events[j], i)
        BY <3>1 DEF Emission
      <4> QED
        BY <1>4, <4>1
    <3>2. CASE i \in DOMAIN sent
      <4>1. \/ i < nextUiId
            \/ \E k \in 1..Len(queue) : StartOf(queue[k], i)
            \/ \E k \in 1..Len(outbox["worker"]) : StartOf(outbox["worker"][k], i)
        BY <3>2 DEF EndInv, ShowInv
      <4>2. CASE t = "worker"
        BY <1>2, <1>6, <4>1, <4>2
      <4>3. CASE t # "worker"
        BY <1>2, <1>6, <4>1, <4>3 DEF Threads
      <4> QED
        BY <4>2, <4>3
    <3> QED
      BY <3>1, <3>2
  <2>3. ASSUME NEW i \in DOMAIN sent' \ {turn'.id}
        PROVE  /\ \A k \in 1..Len(queue') : StartOf(queue'[k], i) => TurnEndComes(k, i)'
               /\ i \in DOMAIN index' /\ messages'[index'[i]].status = "active"
                    => TurnEndComes(0, i)'
    <3>1. i \in DOMAIN sent
      BY DEF Emission
    <3>2. CASE i = turn.id
      <4>1. t = "worker" /\ \E j \in 1..Len(events) : Ends(events[j], i)
        BY <3>1, <3>2 DEF Emission
      <4>2. \E k \in 1..Len(outbox'["worker"]) : Ends(outbox'["worker"][k], i)
        BY <1>4, <4>1
      <4> QED
        BY <4>2 DEF TurnEndComes
    <3>3. CASE i # turn.id
      <4>1. \A k : TurnEndComes(k, i) => TurnEndComes(k, i)'
        <5>1. CASE t = "worker"
          BY <1>2, <1>6, <5>1 DEF TurnEndComes
        <5>2. CASE t # "worker"
          BY <1>2, <1>6, <5>2 DEF TurnEndComes, Threads
        <5> QED
          BY <5>1, <5>2
      <4> QED
        BY <1>6, <3>1, <3>3, <4>1 DEF EndInv, ShowInv
    <3> QED
      BY <3>2, <3>3
  <2> QED
    BY <2>1, <2>2, <2>3 DEF EndInv
<1>13. ToolInv'
  <2>1. ASSUME NEW s \in Threads, NEW k \in 1..Len(outbox'[s]),
               outbox'[s][k].kind = "tool"
        PROVE  \/ s = "ui" /\ outbox'[s][k].id \in tasks'
               \/ s = "worker" /\ turn'.at = "tool" /\ outbox'[s][k].id = turn'.tool
    <3>1. CASE s # t
      <4>1. /\ outbox'[s] = outbox[s]
            /\ \/ s = "ui" /\ outbox[s][k].id \in tasks
               \/ s = "worker" /\ turn.at = "tool" /\ outbox[s][k].id = turn.tool
        BY <1>2, <2>1, <3>1 DEF ToolInv, ShowInv
      <4>2. s = "ui" => tasks \subseteq tasks'
        <5>1. outbox[s] # <<>>
          BY <4>1
        <5> QED
          BY <5>1 DEF Emission
      <4>3. s = "worker" => turn' = turn
        BY <3>1 DEF Emission
      <4> QED
        BY <4>1, <4>2, <4>3
    <3>2. CASE s = t
      <4>1. PICK j \in 1..Len(events) : outbox'[s][k] = events[j]
        BY <1>3, <2>1, <3>2
      <4> QED
        BY <2>1, <3>2, <4>1 DEF Emission
    <3> QED
      BY <3>1, <3>2
  <2>2. ASSUME NEW i, NEW k, Runs(i) \/ ToolEndComes(k, i)
        PROVE  Runs(i)' \/ ToolEndComes(k, i)'
    <3>1. CASE Runs(i)
      <4>1. Runs(i)' \/ \E j \in 1..Len(events) : Finishes(events[j], i)
        BY <3>1 DEF Emission
      <4>2. CASE \E j \in 1..Len(events) : Finishes(events[j], i)
        <5>1. \E j \in 1..Len(outbox'[t]) : Finishes(outbox'[t][j], i)
          BY <1>4, <4>2
        <5> QED
          BY <1>1, <5>1 DEF ToolEndComes
      <4> QED
        BY <4>1, <4>2
    <3>2. CASE ToolEndComes(k, i)
      BY <1>2, <1>6, <3>2 DEF ToolEndComes
    <3> QED
      BY <2>2, <3>1, <3>2
  <2>3. /\ \A k \in 1..Len(queue) : queue[k].kind = "tool" =>
             Runs(queue[k].id) \/ ToolEndComes(k, queue[k].id)
        /\ \A i \in DOMAIN tools : tools[i] = "active" => Runs(i) \/ ToolEndComes(0, i)
    BY DEF ToolInv, ShowInv
  <2>4. ASSUME NEW k \in 1..Len(queue)', queue'[k].kind = "tool"
        PROVE  Runs(queue[k].id)' \/ ToolEndComes(k, queue[k].id)'
    <3> PICK i : i = queue[k].id
      OBVIOUS
    <3>1. Runs(i) \/ ToolEndComes(k, i)
      BY <1>6, <2>3, <2>4
    <3>2. Runs(i)' \/ ToolEndComes(k, i)'
      BY <2>2, <3>1
    <3> QED
      BY <1>6, <3>2 DEF Runs, ToolEndComes
  <2>5. \A i \in DOMAIN tools' : tools'[i] = "active" => Runs(i)' \/ ToolEndComes(0, i)'
    BY <1>6, <2>2, <2>3
  <2> QED
    BY <2>1, <2>4, <2>5 DEF ToolInv
<1> QED
  BY <1>8, <1>9, <1>10, <1>11, <1>12, <1>13

(* A thread posts the first of its events.                                  *)
LEMMA PostStep ==
  ASSUME ShowInv, NEW t \in Threads, Post(t)
  PROVE  ShowInv'
<1>1. /\ outbox[t] # <<>> /\ outbox' = [outbox EXCEPT ![t] = Tail(@)]
      /\ queue' = Append(queue, Head(outbox[t]))
      /\ nextId' = nextId /\ prompts' = prompts /\ turn' = turn /\ tasks' = tasks
      /\ made' = made /\ sent' = sent /\ pending' = pending
      /\ messages' = messages /\ index' = index /\ tools' = tools
      /\ nextUiId' = nextUiId /\ opened' = opened
  BY DEF Post, serviceVars, screenVars
<1>2. outbox \in [Threads -> Seq(AnEvent)] /\ queue \in Seq(AnEvent)
  BY DEF ShowInv, FlowTyped
<1>3. PICK e \in AnEvent : e = Head(outbox[t])
  BY <1>1, <1>2
<1>4. /\ Len(queue') = Len(queue) + 1 /\ queue'[Len(queue) + 1] = e /\ Len(queue) \in Nat
      /\ \A k \in 1..Len(queue) : queue'[k] = queue[k]
      /\ queue' \in Seq(AnEvent)
  BY <1>1, <1>2, <1>3
<1>5. /\ Len(outbox[t]) \in Nat \ {0} /\ outbox[t][1] = e
      /\ Len(outbox'[t]) = Len(outbox[t]) - 1
      /\ \A k \in 1..Len(outbox'[t]) : k + 1 \in 1..Len(outbox[t]) /\ outbox'[t][k] = outbox[t][k + 1]
      /\ \A k \in 1..Len(outbox[t]) : k # 1 =>
           k - 1 \in 1..Len(outbox'[t]) /\ outbox[t][k] = outbox'[t][k - 1]
      /\ outbox' \in [Threads -> Seq(AnEvent)]
      /\ \A s \in Threads : s # t => outbox'[s] = outbox[s]
  <2>1. /\ outbox[t] \in Seq(AnEvent) /\ outbox'[t] = Tail(outbox[t])
        /\ Tail(outbox[t]) \in Seq(AnEvent)
    BY <1>1, <1>2
  <2>2. /\ outbox' \in [Threads -> Seq(AnEvent)]
        /\ \A s \in Threads : s # t => outbox'[s] = outbox[s]
    BY <1>1, <1>2, <2>1
  <2> QED
    BY <1>1, <1>3, <2>1, <2>2
<1>6. ServiceTyped' /\ FlowTyped' /\ ScreenTyped' /\ ServiceInv'
  BY <1>1, <1>4, <1>5 DEF ServiceTyped, FlowTyped, ScreenTyped, ServiceInv, ShowInv
<1>7. EventInv'
  <2>1. Sound(outbox[t][1])
    BY <1>5 DEF EventInv, ShowInv
  <2>2. Sound(e)
    BY <1>5, <2>1
  <2>3. \A k \in 1..Len(queue) : Sound(queue[k])
    BY DEF EventInv, ShowInv
  <2>4. \A s \in Threads : \A k \in 1..Len(outbox[s]) : Sound(outbox[s][k])
    BY DEF EventInv, ShowInv
  <2>5. ASSUME NEW k \in 1..Len(queue)'
        PROVE  Sound(queue[k])'
    <3>1. k \in 1..Len(queue) \/ k = Len(queue) + 1
      BY <1>4
    <3>2. CASE k \in 1..Len(queue)
      <4>1. Sound(queue[k]) /\ queue'[k] = queue[k]
        BY <1>4, <2>3, <3>2
      <4> QED
        BY <1>1, <4>1 DEF Sound
    <3>3. CASE k = Len(queue) + 1
      <4>1. queue'[k] = e
        BY <1>4, <3>3
      <4> QED
        BY <1>1, <2>2, <4>1 DEF Sound
    <3> QED
      BY <3>1, <3>2, <3>3
  <2>6. ASSUME NEW s \in Threads, NEW k \in 1..Len(outbox[s])'
        PROVE  Sound(outbox[s][k])'
    <3>1. CASE s = t
      <4>1. Sound(outbox[s][k + 1]) /\ outbox'[s][k] = outbox[s][k + 1]
        BY <1>5, <2>4, <3>1
      <4> QED
        BY <1>1, <4>1 DEF Sound
    <3>2. CASE s # t
      <4>1. Sound(outbox[s][k]) /\ outbox'[s][k] = outbox[s][k]
        BY <1>5, <2>4, <3>2
      <4> QED
        BY <1>1, <4>1 DEF Sound
    <3> QED
      BY <3>1, <3>2
  <2> QED
    BY <2>5, <2>6 DEF EventInv
<1>8. AccountInv'
  <2> SUFFICES ASSUME NEW i \in Nat
               PROVE  \E m \in Nat : \E n \in [Threads -> Nat] : Balance(i, m, n)'
    BY DEF AccountInv
  <2>1. PICK m \in Nat, n \in [Threads -> Nat] : Balance(i, m, n)
    BY DEF AccountInv, ShowInv
  <2> DEFINE w == Weight(e, i)
  <2>2. w \in Nat /\ w <= n[t] /\ Carries(outbox'[t], i, n[t] - w)
    <3>1. Carries(outbox[t], i, n[t]) /\ outbox[t] \in Seq(AnEvent) /\ outbox'[t] = Tail(outbox[t])
      BY <1>1, <1>2, <2>1 DEF Balance
    <3> QED
      BY <1>1, <1>3, <3>1, LessCarried
  <2>3. m + w \in Nat /\ Carries(queue', i, m + w)
    BY <1>1, <1>2, <1>3, <2>1, <2>2, MoreCarried DEF Balance
  <2> HIDE DEF w
  <2>4. PICK o \in [Threads -> Nat] : o = [n EXCEPT ![t] = n[t] - w]
    <3>1. n[t] \in Nat /\ n[t] - w \in Nat
      BY <2>2
    <3> QED
      BY <3>1
  <2>5. m + w + InBoxes(o) = m + InBoxes(n) /\ InBoxes(o) \in Nat /\ InBoxes(n) \in Nat
    BY <2>2, <2>4 DEF InBoxes, Threads
  <2>6. \A s \in Threads : Carries(outbox'[s], i, o[s])
    BY <1>5, <2>1, <2>2, <2>4 DEF Balance
  <2>7. /\ Shown(i)' = Shown(i) /\ Streamed(i)' = Streamed(i) /\ Waiting(i)' = Waiting(i)
        /\ Shown(i) \in Nat /\ Waiting(i) \in Nat
    <3>1. i \in DOMAIN index => messages[index[i]] \in AMessage
      BY DEF ShowInv, ScreenTyped
    <3>2. Waiting(i) \in Nat
      BY DEF Waiting, ShowInv, ServiceTyped
    <3> QED
      BY <1>1, <3>1, <3>2 DEF Shown, TextOf, Streamed, Waiting, AMessage
  <2>8. Shown(i)' + (m + w) + InBoxes(o) + Waiting(i)' = Shown(i) + m + InBoxes(n) + Waiting(i)
    BY <2>2, <2>5, <2>7
  <2>9. PICK l \in Nat : l = m + w
    BY <2>3
  <2>10. Balance(i, l, o)'
    BY <1>1, <2>1, <2>3, <2>6, <2>7, <2>8, <2>9 DEF Balance
  <2> QED
    BY <2>10
<1>9. OrderInv'
  <2> SUFFICES ASSUME made'.clears = 0 PROVE OrderInv'
    BY DEF OrderInv
  <2>1. made.clears = 0
    BY <1>1
  <2>2. \A i : Begun(i) => Begun(i)'
    BY <1>1, <1>4 DEF Begun
  <2>3. ASSUME NEW i \in DOMAIN sent'
        PROVE  \/ Begun(i)'
               \/ \E k \in 1..Len(outbox'["worker"]) : StartOf(outbox'["worker"][k], i)
    <3>1. CASE Begun(i)
      BY <2>2, <3>1
    <3>2. CASE \E k \in 1..Len(outbox["worker"]) : StartOf(outbox["worker"][k], i)
      <4>1. PICK k \in 1..Len(outbox["worker"]) : StartOf(outbox["worker"][k], i)
        BY <3>2
      <4>2. CASE t # "worker"
        BY <1>5, <4>1, <4>2 DEF Threads
      <4>3. CASE t = "worker" /\ k # 1
        BY <1>5, <4>1, <4>3
      <4>4. CASE t = "worker" /\ k = 1
        <5>1. StartOf(queue'[Len(queue) + 1], i) /\ Len(queue) + 1 \in 1..Len(queue')
          BY <1>4, <1>5, <4>1, <4>4
        <5> QED
          BY <5>1 DEF Begun
      <4> QED
        BY <4>2, <4>3, <4>4
    <3> QED
      BY <1>1, <2>1, <3>1, <3>2 DEF OrderInv, ShowInv
  <2>4. \A s \in Threads : \A k \in 1..Len(outbox[s]) :
          outbox[s][k].kind = "text" => Begun(outbox[s][k].id)
    BY <2>1 DEF OrderInv, ShowInv
  <2>5. ASSUME NEW s \in Threads, NEW k \in 1..Len(outbox'[s]),
               outbox'[s][k].kind = "text"
        PROVE  Begun(outbox[s][k].id)'
    <3> PICK i : i = outbox'[s][k].id
      OBVIOUS
    <3>1. Begun(i)
      <4>1. CASE s = t
        <5>1. k + 1 \in 1..Len(outbox[t]) /\ outbox'[t][k] = outbox[t][k + 1]
          BY <1>5, <2>5, <4>1
        <5>2. outbox[t][k + 1].kind = "text" => Begun(outbox[t][k + 1].id)
          BY <2>4, <5>1
        <5> QED
          BY <2>5, <4>1, <5>1, <5>2
      <4>2. CASE s # t
        BY <1>5, <2>4, <2>5, <4>2
      <4> QED
        BY <4>1, <4>2
    <3>2. Begun(i)'
      BY <2>2, <3>1
    <3> QED
      BY <3>2 DEF Begun
  <2>6. ASSUME NEW k \in 1..Len(queue'), queue'[k].kind = "text"
        PROVE  \/ queue'[k].id \in DOMAIN index'
               \/ \E j \in 1..(k - 1) : StartOf(queue'[j], queue'[k].id)
    <3>1. CASE k \in 1..Len(queue)
      <4>1. \/ queue[k].id \in DOMAIN index
            \/ \E j \in 1..(k - 1) : StartOf(queue[j], queue[k].id)
        BY <1>4, <2>1, <2>6, <3>1 DEF OrderInv, ShowInv
      <4> QED
        BY <1>1, <1>4, <3>1, <4>1
    <3>2. CASE k = Len(queue) + 1
      <4>1. queue'[k] = e /\ e = outbox[t][1]
        BY <1>4, <1>5, <3>2
      <4>2. Begun(e.id)
        BY <1>5, <2>4, <2>6, <4>1
      <4> QED
        BY <1>1, <1>4, <3>2, <4>1, <4>2 DEF Begun
    <3> QED
      BY <1>4, <3>1, <3>2
  <2>7. \A i \in Held' : Begun(i)'
    BY <1>1, <2>1, <2>2 DEF OrderInv, ShowInv, Held
  <2>8. \A i \in DOMAIN sent' : \/ Begun(i)'
          \/ \E k \in 1..Len(outbox'["worker"]) : StartOf(outbox'["worker"][k], i)
    BY <2>3
  <2> QED
    BY <2>5, <2>6, <2>7, <2>8 DEF OrderInv
<1>10. EndInv'
  <2>0. \A s \in Threads : \A k \in 1..Len(outbox[s]) :
          outbox[s][k].kind = "started" => s = "worker" /\ outbox[s][k].id = turn.id
    BY DEF EndInv, ShowInv
  <2>1. ASSUME NEW s \in Threads, NEW k \in 1..Len(outbox'[s]),
               outbox'[s][k].kind = "started"
        PROVE  s = "worker" /\ outbox'[s][k].id = turn'.id
    <3>1. CASE s = t
      <4>1. k + 1 \in 1..Len(outbox[t]) /\ outbox'[t][k] = outbox[t][k + 1]
        BY <1>5, <2>1, <3>1
      <4> QED
        BY <1>1, <2>0, <2>1, <3>1, <4>1
    <3>2. CASE s # t
      BY <1>1, <1>5, <2>1, <3>2 DEF EndInv, ShowInv
    <3> QED
      BY <3>1, <3>2
  <2>2. ASSUME NEW i \in DOMAIN sent'
        PROVE  \/ i < nextUiId'
               \/ \E k \in 1..Len(queue') : StartOf(queue'[k], i)
               \/ \E k \in 1..Len(outbox'["worker"]) : StartOf(outbox'["worker"][k], i)
    <3>1. CASE i < nextUiId
      BY <1>1, <3>1
    <3>2. CASE \E k \in 1..Len(queue) : StartOf(queue[k], i)
      BY <1>4, <3>2
    <3>3. CASE \E k \in 1..Len(outbox["worker"]) : StartOf(outbox["worker"][k], i)
      <4>1. PICK k \in 1..Len(outbox["worker"]) : StartOf(outbox["worker"][k], i)
        BY <3>3
      <4>2. CASE t # "worker"
        BY <1>5, <4>1, <4>2 DEF Threads
      <4>3. CASE t = "worker" /\ k # 1
        BY <1>5, <4>1, <4>3
      <4>4. CASE t = "worker" /\ k = 1
        <5>1. StartOf(queue'[Len(queue) + 1], i) /\ Len(queue) + 1 \in 1..Len(queue')
          BY <1>4, <1>5, <4>1, <4>4
        <5> QED
          BY <5>1
      <4> QED
        BY <4>2, <4>3, <4>4
    <3> QED
      BY <1>1, <3>1, <3>2, <3>3 DEF EndInv, ShowInv
  <2>3. ASSUME NEW i, NEW k \in 0..Len(queue), TurnEndComes(k, i)
        PROVE  TurnEndComes(k, i)'
    <3>1. CASE \E j \in 1..Len(queue) : j > k /\ Ends(queue[j], i)
      BY <1>4, <3>1 DEF TurnEndComes
    <3>2. CASE \E j \in 1..Len(outbox["worker"]) : Ends(outbox["worker"][j], i)
      <4>1. PICK j \in 1..Len(outbox["worker"]) : Ends(outbox["worker"][j], i)
        BY <3>2
      <4>2. CASE t # "worker"
        BY <1>5, <4>1, <4>2 DEF Threads, TurnEndComes
      <4>3. CASE t = "worker" /\ j # 1
        BY <1>5, <4>1, <4>3 DEF TurnEndComes
      <4>4. CASE t = "worker" /\ j = 1
        <5>1. /\ Ends(queue'[Len(queue) + 1], i) /\ Len(queue) + 1 \in 1..Len(queue')
              /\ Len(queue) + 1 > k
          BY <1>4, <1>5, <4>1, <4>4
        <5> QED
          BY <5>1 DEF TurnEndComes
      <4> QED
        BY <4>2, <4>3, <4>4
    <3> QED
      BY <2>3, <3>1, <3>2 DEF TurnEndComes
  <2>4. ASSUME NEW i \in DOMAIN sent' \ {turn'.id}
        PROVE  /\ \A k \in 1..Len(queue') : StartOf(queue'[k], i) => TurnEndComes(k, i)'
               /\ i \in DOMAIN index' /\ messages'[index'[i]].status = "active"
                    => TurnEndComes(0, i)'
    <3>1. /\ \A k \in 1..Len(queue) : StartOf(queue[k], i) => TurnEndComes(k, i)
          /\ i \in DOMAIN index /\ messages[index[i]].status = "active" => TurnEndComes(0, i)
      BY <1>1 DEF EndInv, ShowInv
    <3>2. ASSUME NEW k \in 1..Len(queue'), StartOf(queue'[k], i)
          PROVE  TurnEndComes(k, i)'
      <4>1. CASE k \in 1..Len(queue)
        BY <1>4, <2>3, <3>1, <3>2, <4>1
      <4>2. CASE k = Len(queue) + 1
        <5>1. e.kind = "started" /\ e.id # turn.id /\ e = outbox[t][1]
          BY <1>1, <1>4, <1>5, <3>2, <4>2 DEF StartOf
        <5>2. 1 \in 1..Len(outbox[t])
          BY <1>5
        <5> QED
          BY <2>0, <5>1, <5>2
      <4> QED
        BY <1>4, <4>1, <4>2
    <3>3. i \in DOMAIN index' /\ messages'[index'[i]].status = "active" => TurnEndComes(0, i)'
      BY <1>1, <1>4, <2>3, <3>1
    <3> QED
      BY <3>2, <3>3
  <2> QED
    BY <2>1, <2>2, <2>4 DEF EndInv
<1>11. ToolInv'
  <2>1. ASSUME NEW s \in Threads, NEW k \in 1..Len(outbox'[s]),
               outbox'[s][k].kind = "tool"
        PROVE  \/ s = "ui" /\ outbox'[s][k].id \in tasks'
               \/ s = "worker" /\ turn'.at = "tool" /\ outbox'[s][k].id = turn'.tool
    <3>1. CASE s = t
      BY <1>1, <1>5, <2>1, <3>1 DEF ToolInv, ShowInv
    <3>2. CASE s # t
      BY <1>1, <1>5, <2>1, <3>2 DEF ToolInv, ShowInv
    <3> QED
      BY <3>1, <3>2
  <2>2. ASSUME NEW i, NEW k \in 0..Len(queue), Runs(i) \/ ToolEndComes(k, i)
        PROVE  Runs(i)' \/ ToolEndComes(k, i)'
    <3>1. CASE Runs(i)
      BY <1>1, <3>1 DEF Runs
    <3>2. CASE \E j \in 1..Len(queue) : j > k /\ Finishes(queue[j], i)
      BY <1>4, <3>2 DEF ToolEndComes
    <3>3. CASE \E s \in Threads : \E j \in 1..Len(outbox[s]) : Finishes(outbox[s][j], i)
      <4>1. PICK s \in Threads : \E j \in 1..Len(outbox[s]) : Finishes(outbox[s][j], i)
        BY <3>3
      <4>2. PICK j \in 1..Len(outbox[s]) : Finishes(outbox[s][j], i)
        BY <4>1
      <4>3. CASE s # t
        BY <1>5, <4>2, <4>3 DEF ToolEndComes
      <4>4. CASE s = t /\ j # 1
        BY <1>5, <4>2, <4>4 DEF ToolEndComes
      <4>5. CASE s = t /\ j = 1
        <5>1. /\ Finishes(queue'[Len(queue) + 1], i) /\ Len(queue) + 1 \in 1..Len(queue')
              /\ Len(queue) + 1 > k
          BY <1>4, <1>5, <4>2, <4>5
        <5> QED
          BY <5>1 DEF ToolEndComes
      <4> QED
        BY <4>3, <4>4, <4>5
    <3> QED
      BY <2>2, <3>1, <3>2, <3>3 DEF ToolEndComes
  <2>3. /\ \A k \in 1..Len(queue) : queue[k].kind = "tool" =>
             Runs(queue[k].id) \/ ToolEndComes(k, queue[k].id)
        /\ \A i \in DOMAIN tools : tools[i] = "active" => Runs(i) \/ ToolEndComes(0, i)
    BY DEF ToolInv, ShowInv
  <2>4. ASSUME NEW k \in 1..Len(queue)', queue'[k].kind = "tool"
        PROVE  Runs(queue[k].id)' \/ ToolEndComes(k, queue[k].id)'
    <3> PICK i : i = queue'[k].id
      OBVIOUS
    <3>1. CASE k \in 1..Len(queue)
      <4>1. Runs(i) \/ ToolEndComes(k, i)
        BY <1>4, <2>3, <2>4, <3>1
      <4>2. Runs(i)' \/ ToolEndComes(k, i)'
        BY <1>4, <2>2, <3>1, <4>1
      <4> QED
        BY <4>2 DEF Runs, ToolEndComes
    <3>2. CASE k = Len(queue) + 1
      <4>1. queue'[k] = e /\ e = outbox[t][1]
        BY <1>4, <1>5, <3>2
      <4>2. Runs(i)
        BY <1>5, <2>4, <4>1 DEF ToolInv, ShowInv, Runs
      <4>3. Runs(i)'
        BY <1>1, <4>2 DEF Runs
      <4> QED
        BY <4>3 DEF Runs
    <3> QED
      BY <1>4, <3>1, <3>2
  <2>5. \A i \in DOMAIN tools' : tools'[i] = "active" => Runs(i)' \/ ToolEndComes(0, i)'
    BY <1>1, <1>4, <2>2, <2>3
  <2> QED
    BY <2>1, <2>4, <2>5 DEF ToolInv
<1> QED
  BY <1>6, <1>7, <1>8, <1>9, <1>10, <1>11 DEF ShowInv

(* A delta waits with those before it.                                      *)
LEMMA DeltaStep ==
  ASSUME ScreenParameters, ShowInv, Delta
  PROVE  ShowInv'
<1> DEFINE i0 == turn.id
<1>1. /\ turn.at = "streaming" /\ outbox["worker"] = <<>>
      /\ turn' = [turn EXCEPT !.deltas = @ + 1]
      /\ sent' = [sent EXCEPT ![i0] = @ + 1] /\ pending' = [pending EXCEPT ![i0] = @ + 1]
      /\ nextId' = nextId /\ prompts' = prompts /\ tasks' = tasks /\ made' = made
      /\ outbox' = outbox /\ queue' = queue
      /\ messages' = messages /\ index' = index /\ tools' = tools
      /\ nextUiId' = nextUiId /\ opened' = opened
  BY DEF Delta, screenVars
<1>2. /\ i0 \in DOMAIN sent /\ i0 \in Ids
      /\ sent \in [DOMAIN sent -> Nat] /\ pending \in [Ids -> Nat]
  BY <1>1 DEF ShowInv, ServiceInv, ServiceTyped
<1>3. /\ DOMAIN sent' = DOMAIN sent /\ sent' \in [DOMAIN sent -> Nat]
      /\ pending' \in [Ids -> Nat]
  BY <1>1, <1>2
<1>4. /\ turn' \in [at : {"idle", "streaming", "tool"}, id : Nat, tool : Nat,
                    deltas : Nat, tools : 0..MaxTools]
      /\ turn'.at = turn.at /\ turn'.id = turn.id /\ turn'.tool = turn.tool
      /\ turn'.tools = turn.tools
  <2>1. turn \in [at : {"idle", "streaming", "tool"}, id : Nat, tool : Nat,
                  deltas : Nat, tools : 0..MaxTools]
    BY DEF ShowInv, ServiceTyped
  <2>2. turn.deltas \in Nat /\ turn.deltas + 1 \in Nat
    BY <2>1
  <2> QED
    BY <1>1, <2>1, <2>2
<1>5. ServiceTyped' /\ FlowTyped' /\ ScreenTyped'
  BY <1>1, <1>3, <1>4 DEF ShowInv, ServiceTyped, FlowTyped, ScreenTyped
<1>6. ServiceInv'
  BY <1>1, <1>3, <1>4 DEF ShowInv, ServiceInv
<1>7. EventInv'
  BY <1>1, <1>3 DEF ShowInv, EventInv, Sound
<1>8. EndInv' /\ ToolInv'
  <2>1. EndInv'
    BY <1>1, <1>3, <1>4 DEF ShowInv, EndInv, TurnEndComes
  <2>2. ToolInv'
    BY <1>1, <1>4 DEF ShowInv, ToolInv, Runs, ToolEndComes
  <2> QED
    BY <2>1, <2>2
<1>9. OrderInv'
  <2> SUFFICES ASSUME made.clears = 0 PROVE OrderInv'
    BY <1>1 DEF OrderInv
  <2>1. Begun(i0)
    BY <1>1, <1>2 DEF OrderInv, ShowInv
  <2>2. \A i \in Held' : i \in Held \/ i = i0
    BY <1>1, <1>2 DEF Held
  <2>3. \A i : Begun(i)' <=> Begun(i)
    BY <1>1 DEF Begun
  <2>4. \A i \in Held' : Begun(i)'
    BY <2>1, <2>2, <2>3 DEF OrderInv, ShowInv
  <2>5. \A i \in DOMAIN sent' : \/ Begun(i)'
          \/ \E k \in 1..Len(outbox'["worker"]) : StartOf(outbox'["worker"][k], i)
    BY <1>1, <1>3, <2>3 DEF OrderInv, ShowInv
  <2>6. ASSUME NEW t \in Threads, NEW k \in 1..Len(outbox'[t]),
               outbox'[t][k].kind = "text"
        PROVE  Begun(outbox[t][k].id)'
    <3>1. Begun(outbox[t][k].id)
      BY <1>1, <2>6 DEF OrderInv, ShowInv
    <3> QED
      BY <1>1, <3>1 DEF Begun
  <2>7. \A k \in 1..Len(queue') : queue'[k].kind = "text" =>
          \/ queue'[k].id \in DOMAIN index'
          \/ \E j \in 1..(k - 1) : StartOf(queue'[j], queue'[k].id)
    BY <1>1 DEF OrderInv, ShowInv
  <2> QED
    BY <2>4, <2>5, <2>6, <2>7 DEF OrderInv
<1>10. AccountInv'
  <2> SUFFICES ASSUME NEW i \in Nat
               PROVE  \E m \in Nat : \E n \in [Threads -> Nat] : Balance(i, m, n)'
    BY DEF AccountInv
  <2>1. PICK m \in Nat, n \in [Threads -> Nat] : Balance(i, m, n)
    BY DEF AccountInv, ShowInv
  <2>2. InBoxes(n) \in Nat /\ Shown(i) \in Nat /\ Shown(i)' = Shown(i)
    <3>1. i \in DOMAIN index => messages[index[i]] \in AMessage
      BY DEF ShowInv, ScreenTyped
    <3> QED
      BY <1>1, <3>1 DEF InBoxes, Threads, Shown, TextOf, AMessage
  <2>3. /\ Streamed(i) \in Nat /\ Waiting(i) \in Nat
        /\ i = i0 => Streamed(i)' = Streamed(i) + 1 /\ Waiting(i)' = Waiting(i) + 1
        /\ i # i0 => Streamed(i)' = Streamed(i) /\ Waiting(i)' = Waiting(i)
    BY <1>1, <1>2, <1>3 DEF Streamed, Waiting
  <2>4. /\ Shown(i)' + m + InBoxes(n) + Waiting(i)' <= Streamed(i)'
        /\ made.clears = 0 => Shown(i)' + m + InBoxes(n) + Waiting(i)' = Streamed(i)'
    <3>1. CASE i = i0
      BY <2>1, <2>2, <2>3, <3>1 DEF Balance
    <3>2. CASE i # i0
      BY <2>1, <2>2, <2>3, <3>2 DEF Balance
    <3> QED
      BY <3>1, <3>2
  <2>5. Balance(i, m, n)'
    BY <1>1, <2>1, <2>4 DEF Balance
  <2> QED
    BY <2>5
<1> QED
  BY <1>5, <1>6, <1>7, <1>8, <1>9, <1>10 DEF ShowInv

(* The screen handles the first event of its queue.                         *)
LEMMA HandleStep ==
  ASSUME ShowInv, Handle
  PROVE  ShowInv'
<1>1. /\ queue # <<>> /\ queue' = Tail(queue) /\ outbox' = outbox /\ pending' = pending
      /\ nextId' = nextId /\ prompts' = prompts /\ turn' = turn /\ tasks' = tasks
      /\ made' = made /\ sent' = sent
  BY DEF Handle, serviceVars
<1>2. queue \in Seq(AnEvent) /\ outbox \in [Threads -> Seq(AnEvent)]
  BY DEF ShowInv, FlowTyped
<1>3. PICK e \in AnEvent : e = Head(queue)
  BY <1>1, <1>2
<1>4. /\ queue' \in Seq(AnEvent) /\ Len(queue) \in Nat \ {0} /\ queue[1] = e
      /\ Len(queue') = Len(queue) - 1
      /\ \A k \in 1..Len(queue') : k + 1 \in 1..Len(queue) /\ queue'[k] = queue[k + 1]
      /\ \A k \in 1..Len(queue) : k # 1 =>
           k - 1 \in 1..Len(queue') /\ queue[k] = queue'[k - 1]
  BY <1>1, <1>2, <1>3
<1>5. Sound(e)
  <2>1. Sound(queue[1])
    BY <1>4 DEF ShowInv, EventInv
  <2> QED
    BY <1>4, <2>1
<1>6. HandleBody(e)
  BY <1>3 DEF Handle, HandleBody
<1>7. ScreenTyped' /\ Stays(e) /\ Texts(e) /\ Actives(e) /\ Cards(e)
  BY <1>5, <1>6, Handled DEF ShowInv
<1>8. ServiceTyped' /\ FlowTyped' /\ ServiceInv'
  BY <1>1, <1>4 DEF ServiceTyped, FlowTyped, ServiceInv, ShowInv
<1>9. EventInv'
  <2>1. ASSUME NEW k \in 1..Len(queue)'
        PROVE  Sound(queue[k])'
    <3>1. Sound(queue[k + 1]) /\ queue'[k] = queue[k + 1]
      BY <1>4 DEF EventInv, ShowInv
    <3> QED
      BY <1>1, <3>1 DEF Sound
  <2>2. ASSUME NEW t \in Threads, NEW k \in 1..Len(outbox[t])'
        PROVE  Sound(outbox[t][k])'
    <3>1. Sound(outbox[t][k])
      BY <1>1 DEF EventInv, ShowInv
    <3> QED
      BY <1>1, <3>1 DEF Sound
  <2> QED
    BY <2>1, <2>2 DEF EventInv
<1>10. \A i \in DOMAIN index : messages[index[i]] \in AMessage
  BY DEF ShowInv, ScreenTyped
<1>11. \A i : Shown(i) \in Nat
  BY <1>10 DEF Shown, TextOf, AMessage
<1>12. \A i \in DOMAIN index' : messages'[index'[i]] \in AMessage
  BY <1>7 DEF ScreenTyped
<1>13. \A i : Shown(i)' \in Nat
  BY <1>12 DEF Shown, TextOf, AMessage
<1>14. AccountInv'
  <2> SUFFICES ASSUME NEW i \in Nat
               PROVE  \E m \in Nat : \E n \in [Threads -> Nat] : Balance(i, m, n)'
    BY DEF AccountInv
  <2>1. PICK m \in Nat, n \in [Threads -> Nat] : Balance(i, m, n)
    BY DEF AccountInv, ShowInv
  <2>2. PICK w : w = Weight(e, i)
    OBVIOUS
  <2>3. w \in Nat /\ w <= m /\ Carries(queue', i, m - w)
    BY <1>1, <1>2, <1>3, <2>1, <2>2, LessCarried DEF Balance
  <2>4. InBoxes(n) \in Nat /\ Waiting(i) \in Nat /\ Shown(i) \in Nat /\ Shown(i)' \in Nat
    <3>1. Waiting(i) \in Nat
      BY DEF Waiting, ShowInv, ServiceTyped
    <3> QED
      BY <1>11, <1>13, <3>1 DEF InBoxes, Threads
  <2>5. Waiting(i)' = Waiting(i) /\ Streamed(i)' = Streamed(i)
    BY <1>1 DEF Waiting, Streamed
  <2>6. ~Clears(e) /\ e.kind # "text" /\ ~(e.kind = "prompt" /\ e.id = i) => Shown(i)' = Shown(i)
    BY <1>7 DEF Texts, Stays, Shown
  <2>7. ~Clears(e) /\ e.kind = "text" /\ e.id # i => Shown(i)' = Shown(i)
    BY <1>7 DEF Texts, Stays, Shown
  <2>8. ~Clears(e) /\ e.kind = "text" /\ e.id = i /\ i \in DOMAIN index
          => Shown(i)' = Shown(i) + e.text
    BY <1>7 DEF Texts, Stays, Shown
  <2>9. ~Clears(e) /\ e.kind = "text" /\ e.id = i /\ i \notin DOMAIN index => Shown(i)' = 0
    BY <1>7 DEF Texts, Stays, Shown
  <2>10. ~Clears(e) /\ e.kind = "prompt" /\ e.id = i => Shown(i)' = 0
    BY <1>7 DEF Texts, Stays, Shown
  <2>11. Clears(e) => Shown(i)' = 0
    BY <1>7 DEF Stays, Shown
  <2>12. Shown(i)' <= Shown(i) + w
    BY <2>2, <2>3, <2>4, <2>6, <2>7, <2>8, <2>9, <2>10, <2>11 DEF Weight
  <2>13. ASSUME made.clears = 0 PROVE Shown(i)' = Shown(i) + w
    <3>1. ~Clears(e)
      BY <1>5, <2>13 DEF Sound, Clears
    <3>2. CASE e.kind = "text" /\ e.id = i
      <4>1. i \in DOMAIN index
        <5>1. 1 \in 1..Len(queue) /\ queue[1].kind = "text" /\ queue[1].id = i
          BY <1>4, <3>2
        <5> QED
          BY <2>13, <5>1 DEF OrderInv, ShowInv
      <4> QED
        BY <2>2, <2>8, <3>1, <3>2, <4>1 DEF Weight
    <3>3. CASE e.kind = "prompt" /\ e.id = i
      <4>1. i \notin DOMAIN sent /\ w = 0
        BY <1>5, <2>2, <3>3 DEF Sound, Weight
      <4>2. Shown(i) + m + InBoxes(n) + Waiting(i) = 0
        BY <2>1, <2>13, <4>1 DEF Balance, Streamed
      <4> QED
        BY <2>4, <2>10, <3>1, <3>3, <4>1, <4>2
    <3>4. CASE ~(e.kind = "text" /\ e.id = i) /\ ~(e.kind = "prompt" /\ e.id = i)
      <4>1. w = 0
        BY <2>2, <3>4 DEF Weight
      <4> QED
        BY <2>4, <2>6, <2>7, <3>1, <3>4, <4>1
    <3> QED
      BY <3>2, <3>3, <3>4
  <2>14. PICK l \in Nat : l = m - w
    BY <2>3
  <2>15. /\ Shown(i)' + l + InBoxes(n) + Waiting(i)' <= Streamed(i)'
         /\ made'.clears = 0 => Shown(i)' + l + InBoxes(n) + Waiting(i)' = Streamed(i)'
    <3>1. Shown(i) + m + InBoxes(n) + Waiting(i) <= Streamed(i)
      BY <2>1 DEF Balance
    <3>2. Streamed(i) \in Nat
      BY DEF Streamed, ShowInv, ServiceTyped
    <3>3. made.clears = 0 => Shown(i) + m + InBoxes(n) + Waiting(i) = Streamed(i)
      BY <2>1 DEF Balance
    <3>4. Shown(i)' + l <= Shown(i) + m
      BY <2>3, <2>4, <2>12, <2>14
    <3>5. made'.clears = 0 => Shown(i)' + l = Shown(i) + m
      BY <1>1, <2>3, <2>4, <2>13, <2>14
    <3>6. Shown(i)' + l + InBoxes(n) + Waiting(i)' <= Streamed(i)'
      BY <2>4, <2>5, <3>1, <3>2, <3>4
    <3>7. made'.clears = 0 => Shown(i)' + l + InBoxes(n) + Waiting(i)' = Streamed(i)'
      BY <1>1, <2>4, <2>5, <3>2, <3>3, <3>5
    <3> QED
      BY <3>6, <3>7
  <2>16. Balance(i, l, n)'
    BY <1>1, <2>1, <2>3, <2>14, <2>15 DEF Balance
  <2> QED
    BY <2>16
<1>15. OrderInv'
  <2> SUFFICES ASSUME made.clears = 0 PROVE OrderInv'
    BY <1>1 DEF OrderInv
  <2>1. DOMAIN index \subseteq DOMAIN index'
    BY <1>5, <1>7 DEF Sound, Clears, Stays
  <2>2. e.kind = "started" => e.id \in DOMAIN index'
    BY <1>7 DEF Actives
  <2>3. ASSUME NEW i, Begun(i) PROVE Begun(i)'
    <3>1. CASE i \in DOMAIN index
      BY <2>1, <3>1 DEF Begun
    <3>2. CASE \E k \in 1..Len(queue) : StartOf(queue[k], i)
      <4>1. PICK k \in 1..Len(queue) : StartOf(queue[k], i)
        BY <3>2
      <4>2. CASE k = 1
        BY <1>4, <2>2, <4>1, <4>2 DEF StartOf, Begun
      <4>3. CASE k # 1
        BY <1>4, <4>1, <4>3 DEF Begun
      <4> QED
        BY <4>2, <4>3
    <3> QED
      BY <2>3, <3>1, <3>2 DEF Begun
  <2>4. \A i \in Held' : Begun(i)'
    BY <1>1, <2>3 DEF OrderInv, ShowInv, Held
  <2>5. \A i \in DOMAIN sent' : \/ Begun(i)'
          \/ \E k \in 1..Len(outbox'["worker"]) : StartOf(outbox'["worker"][k], i)
    BY <1>1, <2>3 DEF OrderInv, ShowInv
  <2>6. ASSUME NEW t \in Threads, NEW k \in 1..Len(outbox'[t]),
               outbox'[t][k].kind = "text"
        PROVE  Begun(outbox[t][k].id)'
    <3>1. PICK i : i = outbox[t][k].id /\ Begun(i)
      BY <1>1, <2>6 DEF OrderInv, ShowInv
    <3>2. Begun(i)'
      BY <2>3, <3>1
    <3> QED
      BY <1>1, <3>1, <3>2 DEF Begun
  <2>7. ASSUME NEW k \in 1..Len(queue'), queue'[k].kind = "text"
        PROVE  \/ queue'[k].id \in DOMAIN index'
               \/ \E j \in 1..(k - 1) : StartOf(queue'[j], queue'[k].id)
    <3>1. /\ k + 1 \in 1..Len(queue) /\ queue'[k] = queue[k + 1]
          /\ k + 1 - 1 = k
      BY <1>4
    <3>2. \/ queue[k + 1].id \in DOMAIN index
          \/ \E j \in 1..k : StartOf(queue[j], queue[k + 1].id)
      BY <2>7, <3>1 DEF OrderInv, ShowInv
    <3>3. CASE queue[k + 1].id \in DOMAIN index
      BY <2>1, <3>1, <3>3
    <3>4. CASE \E j \in 1..k : StartOf(queue[j], queue[k + 1].id)
      <4>1. PICK j \in 1..k : StartOf(queue[j], queue[k + 1].id)
        BY <3>4
      <4>2. CASE j = 1
        BY <1>4, <2>2, <3>1, <4>1, <4>2 DEF StartOf
      <4>3. CASE j # 1
        <5>1. j - 1 \in 1..(k - 1) /\ j \in 1..Len(queue) /\ queue[j] = queue'[j - 1]
          BY <1>4, <3>1, <4>3
        <5> QED
          BY <3>1, <4>1, <5>1
      <4> QED
        BY <4>2, <4>3
    <3> QED
      BY <3>2, <3>3, <3>4
  <2> QED
    BY <2>4, <2>5, <2>6, <2>7 DEF OrderInv
<1>16. EndInv'
  <2>1. \A t \in Threads : \A k \in 1..Len(outbox'[t]) :
          outbox'[t][k].kind = "started" => t = "worker" /\ outbox'[t][k].id = turn'.id
    BY <1>1 DEF EndInv, ShowInv
  <2>2. ASSUME NEW i \in DOMAIN sent'
        PROVE  \/ i < nextUiId'
               \/ \E k \in 1..Len(queue') : StartOf(queue'[k], i)
               \/ \E k \in 1..Len(outbox'["worker"]) : StartOf(outbox'["worker"][k], i)
    <3>1. CASE i < nextUiId
      <4>1. i \in Nat /\ nextUiId \in Nat /\ nextUiId' \in Nat /\ nextUiId' >= nextUiId
        <5>1. i \in Nat
          BY <1>1 DEF ShowInv, ServiceTyped, Ids
        <5> QED
          BY <1>7, <5>1 DEF Stays, ScreenTyped, ShowInv
      <4> QED
        BY <3>1, <4>1
    <3>2. CASE \E k \in 1..Len(queue) : StartOf(queue[k], i)
      <4>1. PICK k \in 1..Len(queue) : StartOf(queue[k], i)
        BY <3>2
      <4>2. CASE k = 1
        BY <1>4, <1>7, <4>1, <4>2 DEF StartOf, Actives
      <4>3. CASE k # 1
        BY <1>4, <4>1, <4>3
      <4> QED
        BY <4>2, <4>3
    <3>3. CASE \E k \in 1..Len(outbox["worker"]) : StartOf(outbox["worker"][k], i)
      BY <1>1, <3>3
    <3> QED
      BY <1>1, <3>1, <3>2, <3>3 DEF EndInv, ShowInv
  <2>3. ASSUME NEW i, NEW k \in Nat, TurnEndComes(k, i), k > 0 \/ ~Ends(e, i)
        PROVE  TurnEndComes(k - 1, i)' /\ (k = 0 => TurnEndComes(0, i)')
    <3>1. CASE \E j \in 1..Len(queue) : j > k /\ Ends(queue[j], i)
      <4>1. PICK j \in 1..Len(queue) : j > k /\ Ends(queue[j], i)
        BY <3>1
      <4>2. j # 1
        BY <1>4, <2>3, <4>1
      <4>3. /\ j - 1 \in 1..Len(queue') /\ Ends(queue'[j - 1], i) /\ j - 1 > k - 1
            /\ (k = 0 => j - 1 > 0)
        BY <1>4, <4>1, <4>2
      <4> QED
        BY <4>3 DEF TurnEndComes
    <3>2. CASE \E j \in 1..Len(outbox["worker"]) : Ends(outbox["worker"][j], i)
      BY <1>1, <3>2 DEF TurnEndComes
    <3> QED
      BY <2>3, <3>1, <3>2 DEF TurnEndComes
  <2>4. ASSUME NEW i \in DOMAIN sent' \ {turn'.id}
        PROVE  /\ \A k \in 1..Len(queue') : StartOf(queue'[k], i) => TurnEndComes(k, i)'
               /\ i \in DOMAIN index' /\ messages'[index'[i]].status = "active"
                    => TurnEndComes(0, i)'
    <3>1. /\ \A k \in 1..Len(queue) : StartOf(queue[k], i) => TurnEndComes(k, i)
          /\ i \in DOMAIN index /\ messages[index[i]].status = "active" => TurnEndComes(0, i)
      BY <1>1 DEF EndInv, ShowInv
    <3>2. ASSUME NEW k \in 1..Len(queue'), StartOf(queue'[k], i)
          PROVE  TurnEndComes(k, i)'
      <4>1. k + 1 \in 1..Len(queue) /\ k + 1 \in Nat /\ k + 1 > 0 /\ k + 1 - 1 = k
        BY <1>4
      <4>2. TurnEndComes(k + 1, i)
        BY <1>4, <3>1, <3>2, <4>1
      <4>3. TurnEndComes(k + 1 - 1, i)'
        BY <2>3, <4>1, <4>2
      <4> QED
        BY <4>1, <4>3
    <3>3. ASSUME i \in DOMAIN index', messages'[index'[i]].status = "active"
          PROVE  TurnEndComes(0, i)'
      <4>1. CASE i \in DOMAIN index /\ messages[index[i]].status = "active" /\ ~Ends(e, i)
        BY <2>3, <3>1, <4>1
      <4>2. CASE e.id = i /\ e.kind = "started"
        <5>1. 1 \in 1..Len(queue) /\ StartOf(queue[1], i)
          BY <1>4, <4>2 DEF StartOf
        <5>2. TurnEndComes(1, i)
          BY <3>1, <5>1
        <5>3. TurnEndComes(1 - 1, i)'
          BY <2>3, <5>2
        <5> QED
          BY <5>3
      <4>3. CASE \/ e.id = i /\ e.kind = "prompt"
                 \/ e.id = i /\ e.kind = "status" /\ e.status = "active"
        BY <1>1, <1>5, <4>3 DEF Sound
      <4>4. CASE e.kind = "tool" /\ i >= nextUiId
        <5>1. i \in Nat /\ nextUiId \in Nat
          <6>1. nextUiId \in Nat
            BY DEF ScreenTyped, ShowInv
          <6>2. DOMAIN sent \subseteq Nat
            BY DEF ShowInv, ServiceTyped, Ids
          <6> QED
            BY <1>1, <6>1, <6>2
        <5>2. \A k \in 1..Len(outbox["worker"]) : ~StartOf(outbox["worker"][k], i)
          <6>1. "worker" \in Threads /\ i # turn.id
            BY <1>1 DEF Threads
          <6>2. \A k \in 1..Len(outbox["worker"]) :
                  outbox["worker"][k].kind = "started" => outbox["worker"][k].id = turn.id
            BY <6>1 DEF EndInv, ShowInv
          <6> QED
            BY <6>1, <6>2 DEF StartOf
        <5>3. PICK k \in 1..Len(queue) : StartOf(queue[k], i)
          BY <1>1, <4>4, <5>1, <5>2 DEF EndInv, ShowInv
        <5>4. TurnEndComes(k, i)
          BY <3>1, <5>3
        <5>5. k \in Nat /\ k > 0 /\ k - 1 \in Nat /\ k - 1 >= 0
          BY <1>4
        <5>6. TurnEndComes(k - 1, i)'
          BY <2>3, <5>4, <5>5
        <5>7. \A j \in Nat : j > k - 1 => j > 0
          BY <5>5
        <5>8. Len(queue') \in Nat
          BY <1>4
        <5> QED
          BY <5>5, <5>6, <5>7, <5>8 DEF TurnEndComes
      <4> QED
        BY <1>7, <3>3, <4>1, <4>2, <4>3, <4>4 DEF Actives
    <3> QED
      BY <3>2, <3>3
  <2> QED
    BY <2>1, <2>2, <2>4 DEF EndInv
<1>17. ToolInv'
  <2>1. \A t \in Threads : \A k \in 1..Len(outbox'[t]) : outbox'[t][k].kind = "tool" =>
          \/ t = "ui" /\ outbox'[t][k].id \in tasks'
          \/ t = "worker" /\ turn'.at = "tool" /\ outbox'[t][k].id = turn'.tool
    BY <1>1 DEF ToolInv, ShowInv
  <2>2. /\ \A k \in 1..Len(queue) : queue[k].kind = "tool" =>
             Runs(queue[k].id) \/ ToolEndComes(k, queue[k].id)
        /\ \A i \in DOMAIN tools : tools[i] = "active" => Runs(i) \/ ToolEndComes(0, i)
    BY DEF ToolInv, ShowInv
  <2>3. ASSUME NEW i, NEW k \in Nat, Runs(i) \/ ToolEndComes(k, i), k > 0 \/ ~Finishes(e, i)
        PROVE  /\ Runs(i)' \/ ToolEndComes(k - 1, i)'
               /\ k = 0 => Runs(i)' \/ ToolEndComes(0, i)'
    <3>1. CASE Runs(i)
      BY <1>1, <3>1 DEF Runs
    <3>2. CASE \E j \in 1..Len(queue) : j > k /\ Finishes(queue[j], i)
      <4>1. PICK j \in 1..Len(queue) : j > k /\ Finishes(queue[j], i)
        BY <3>2
      <4>2. j # 1
        BY <1>4, <2>3, <4>1
      <4>3. /\ j - 1 \in 1..Len(queue') /\ Finishes(queue'[j - 1], i) /\ j - 1 > k - 1
            /\ (k = 0 => j - 1 > 0)
        BY <1>4, <4>1, <4>2
      <4> QED
        BY <4>3 DEF ToolEndComes
    <3>3. CASE \E t \in Threads : \E j \in 1..Len(outbox[t]) : Finishes(outbox[t][j], i)
      BY <1>1, <3>3 DEF ToolEndComes
    <3> QED
      BY <2>3, <3>1, <3>2, <3>3 DEF ToolEndComes
  <2>4. ASSUME NEW k \in 1..Len(queue)', queue'[k].kind = "tool"
        PROVE  Runs(queue[k].id)' \/ ToolEndComes(k, queue[k].id)'
    <3> PICK i : i = queue'[k].id
      OBVIOUS
    <3>1. /\ k + 1 \in 1..Len(queue) /\ k + 1 \in Nat /\ k + 1 > 0 /\ k + 1 - 1 = k
          /\ queue'[k] = queue[k + 1]
      BY <1>4
    <3> PICK l \in Nat : l = k + 1
      BY <3>1
    <3>2. (Runs(i) \/ ToolEndComes(l, i)) /\ l > 0 /\ l - 1 = k
      BY <2>2, <2>4, <3>1
    <3>3. Runs(i)' \/ ToolEndComes(l - 1, i)'
      BY <2>3, <3>2
    <3>4. Runs(i)' \/ ToolEndComes(k, i)'
      BY <3>2, <3>3
    <3> QED
      BY <3>4 DEF Runs, ToolEndComes
  <2>5. ASSUME NEW i \in DOMAIN tools', tools'[i] = "active"
        PROVE  Runs(i)' \/ ToolEndComes(0, i)'
    <3>1. CASE i \in DOMAIN tools /\ tools[i] = "active" /\ ~Finishes(e, i)
      <4>1. Runs(i) \/ ToolEndComes(0, i)
        BY <2>2, <3>1
      <4> QED
        BY <2>3, <3>1, <4>1
    <3>2. CASE e.kind = "tool" /\ e.id = i
      <4>1. Runs(i) \/ ToolEndComes(1, i)
        BY <1>4, <2>2, <3>2
      <4>2. Runs(i)' \/ ToolEndComes(1 - 1, i)'
        BY <2>3, <4>1
      <4> QED
        BY <4>2
    <3> QED
      BY <1>7, <2>5, <3>1, <3>2 DEF Cards
  <2> QED
    BY <2>1, <2>4, <2>5 DEF ToolInv
<1> QED
  BY <1>7, <1>8, <1>9, <1>14, <1>15, <1>16, <1>17 DEF ShowInv

-----------------------------------------------------------------------------
(* Events, and what stays so.                                               *)
LEMMA EventType ==
  ASSUME NEW kind0 \in {"prompt", "status", "started", "text", "fault", "tool", "tooldone",
                        "agentdone", "cleared", "compacted"},
         NEW id \in Nat, NEW status \in Statuses,
         NEW e, e = Event(kind0, id, status)
  PROVE  e \in AnEvent /\ e.kind = kind0 /\ e.id = id /\ e.status = status
BY DEF Event, AnEvent

(* A sequence of one event. *)
LEMMA OneEvent ==
  ASSUME NEW a \in AnEvent, NEW s, s = <<a>>
  PROVE  s \in Seq(AnEvent) /\ 1 \in 1..Len(s) /\ s[1] = a /\ \A j \in 1..Len(s) : s[j] = a
OBVIOUS

(* What was so of an event stays so: ids are given upwards, and clears are only counted up. *)
LEMMA SoundStays ==
  ASSUME DOMAIN sent \subseteq DOMAIN sent', DOMAIN sent' \subseteq DOMAIN sent \cup {nextId},
         nextId \in Nat, nextId' \in Nat, nextId' >= nextId,
         made.clears \in Nat, made'.clears \in Nat, made'.clears >= made.clears
  PROVE  \A e \in AnEvent : Sound(e) => Sound(e)'
BY DEF Sound, AnEvent

(* Products of naturals, for the solver. *)
LEMMA Times ==
  ASSUME NEW n \in Nat, NEW d \in Nat
  PROVE  /\ n * d \in Nat /\ (n + 1) * d = n * d + d /\ n * (d + 1) = n * d + n
         /\ \A m \in Nat : n <= m => n * d <= m * d
         /\ n >= 1 => n * d >= d /\ (n - 1) * d = n * d - d
<1>1. n * d \in Nat /\ (n + 1) * d = n * d + d /\ n * (d + 1) = n * d + n
  OBVIOUS
<1>2. ASSUME NEW m \in Nat, n <= m PROVE n * d <= m * d
  <2>1. m - n \in Nat /\ m = n + (m - n)
    BY <1>2
  <2>2. m * d = n * d + (m - n) * d /\ (m - n) * d \in Nat
    BY <2>1
  <2> QED
    BY <1>1, <2>2
<1>3. n >= 1 => n * d >= d /\ (n - 1) * d = n * d - d
  <2>1. (n - 1) * d = n * d - d
    OBVIOUS
  <2>2. n >= 1 => (n - 1) * d \in Nat
    OBVIOUS
  <2> QED
    BY <1>1, <2>1, <2>2
<1> QED
  BY <1>1, <1>2, <1>3

(* How many ids are still to be given: a prompt that waits needs one for    *)
(* its turn and those of its tools.                                         *)
Promised == Len(prompts) * (1 + MaxTools)
Given == made.tasks + made.prompts * (2 + MaxTools)
Room == IF turn.at = "idle" THEN 0 ELSE MaxTools - turn.tools

(* Ids suffice: the waiting prompts have theirs reserved. *)
LEMMA Counted ==
  ASSUME ScreenParameters, ServiceTyped
  PROVE  /\ Promised \in Nat /\ Given \in Nat /\ Room \in Nat
         /\ Given <= MaxIds
         /\ prompts # <<>> => Promised >= 1 + MaxTools
<1>1. /\ Len(prompts) \in Nat /\ 1 + MaxTools \in Nat /\ 2 + MaxTools \in Nat
      /\ made.prompts \in Nat /\ made.prompts <= MaxPrompts /\ made.tasks \in Nat
      /\ made.tasks <= MaxOthers /\ MaxPrompts \in Nat
  <2>1. prompts \in Seq(Nat) /\ made.tasks + made.clears <= MaxOthers
    BY DEF ServiceTyped
  <2>2. made.prompts \in 0..MaxPrompts /\ made.tasks \in Nat /\ made.clears \in Nat
    BY DEF ServiceTyped
  <2>3. MaxPrompts \in Nat /\ MaxOthers \in Nat /\ MaxTools \in Nat
    BY DEF ScreenParameters
  <2> QED
    BY <2>1, <2>2, <2>3
<1>2. made.prompts * (2 + MaxTools) <= MaxPrompts * (2 + MaxTools)
      /\ made.prompts * (2 + MaxTools) \in Nat
  BY <1>1, Times
<1>3. prompts # <<>> => Len(prompts) >= 1
  BY DEF ServiceTyped
<1>4. Promised \in Nat /\ (prompts # <<>> => Promised >= 1 + MaxTools)
  BY <1>1, <1>3, Times DEF Promised
<1>5. Room \in Nat
  BY DEF Room, ServiceTyped, ScreenParameters
<1>6. MaxPrompts * (2 + MaxTools) \in Nat /\ MaxOthers \in Nat
  BY <1>1, Times DEF ScreenParameters
<1>7. made.tasks + made.prompts * (2 + MaxTools) <= MaxOthers + MaxPrompts * (2 + MaxTools)
  BY <1>1, <1>2, <1>6, SMT
<1>8. Given \in Nat /\ Given <= MaxIds
  BY <1>1, <1>2, <1>7 DEF Given, MaxIds
<1> QED
  BY <1>4, <1>5, <1>8

-----------------------------------------------------------------------------
(* The actions one by one.                                                  *)

(* An action of the service that emits one event and streams nothing.       *)
LEMMA OneEmitted ==
  ASSUME ShowInv, NEW t \in Threads, NEW a \in AnEvent,
         Dispatch(t, <<a>>), a.kind \notin {"text", "started"}, Sound(a)',
         sent' = sent, nextId' \in Nat, nextId' >= nextId,
         made'.clears \in Nat, made'.clears >= made.clears,
         t = "worker" \/ turn' = turn,
         \A i \in DOMAIN sent : i = turn.id /\ i # turn'.id => t = "worker" /\ Ends(a, i),
         a.kind = "tool" => \/ t = "ui" /\ a.id \in tasks'
                            \/ t = "worker" /\ turn'.at = "tool" /\ a.id = turn'.tool,
         tasks \subseteq tasks' \/ outbox["ui"] = <<>>,
         \A i : Runs(i) => Runs(i)' \/ Finishes(a, i)
  PROVE  \E s, events : Emission(s, events)
<1>1. PICK events : events = <<a>>
  OBVIOUS
<1>2. events \in Seq(AnEvent) /\ 1 \in 1..Len(events) /\ \A j \in 1..Len(events) : events[j] = a
  BY <1>1, OneEvent
<1>3. events[1] = a /\ Dispatch(t, events)
  BY <1>1, <1>2
<1>4. nextId \in Nat /\ made.clears \in Nat
  BY DEF ShowInv, ServiceTyped
<1>5. \A e \in AnEvent : Sound(e) => Sound(e)'
  BY <1>4, SoundStays
<1>6. \A j \in 1..Len(events) : events[j].kind # "text" /\ Sound(events[j])'
  BY <1>2 DEF Sound
<1>7. \A i \in Nat : Streamed(i)' = Streamed(i)
  BY DEF Streamed
<1>8. \A i \in DOMAIN sent : i = turn.id /\ i # turn'.id =>
        t = "worker" /\ \E j \in 1..Len(events) : Ends(events[j], i)
  BY <1>2, <1>3
<1>9. \A i : Runs(i) => Runs(i)' \/ \E j \in 1..Len(events) : Finishes(events[j], i)
  BY <1>2, <1>3
<1>10. Emission(t, events)
  BY <1>2, <1>3, <1>5, <1>6, <1>7, <1>8, <1>9 DEF Emission
<1> QED
  BY <1>10

(* Ids already given stay below the next one.                               *)
LEMMA GivenStay ==
  ASSUME ShowInv, nextId' \in Nat, nextId' >= nextId, sent' = sent,
         prompts' = prompts \/ prompts' = <<>>
  PROVE  /\ \A k \in 1..Len(prompts') : prompts'[k] < nextId' /\ prompts'[k] \notin DOMAIN sent'
         /\ \A i \in DOMAIN sent' : i < nextId'
         /\ \A i \in tasks : i < nextId'
         /\ turn.tool < nextId' /\ nextId \notin tasks
<1>1. /\ nextId \in Nat /\ prompts \in Seq(Nat) /\ DOMAIN sent \subseteq Nat
      /\ tasks \subseteq Nat /\ turn.tool \in Nat
  BY SMTT(30) DEF ShowInv, ServiceTyped, Ids
<1>2. /\ \A k \in 1..Len(prompts) : prompts[k] < nextId /\ prompts[k] \notin DOMAIN sent
      /\ \A i \in DOMAIN sent : i < nextId
      /\ \A i \in tasks : i < nextId
      /\ turn.tool < nextId
  BY DEF ShowInv, ServiceInv
<1>3. \A k \in 1..Len(prompts') : prompts'[k] < nextId' /\ prompts'[k] \notin DOMAIN sent'
  <2>1. CASE prompts' = prompts
    <3>1. \A k \in 1..Len(prompts) : prompts[k] \in Nat
      BY <1>1
    <3> QED
      BY <1>1, <1>2, <2>1, <3>1
  <2>2. CASE prompts' = <<>>
    BY <2>2
  <2> QED
    BY <2>1, <2>2
<1> QED
  BY <1>1, <1>2, <1>3

(* A flush leaves nothing held back. *)
LEMMA FlushedTyped ==
  ASSUME NEW t, NEW events, Dispatch(t, events)
  PROVE  pending' \in [Ids -> Nat]
BY DEF Dispatch, Emptied

(* Submit emits the prompt it queues.                                       *)
LEMMA SubmitEmits ==
  ASSUME ScreenParameters, ShowInv, Submit
  PROVE  ServiceTyped' /\ ServiceInv' /\ \E t, events : Emission(t, events)
<1>1. /\ made.prompts < MaxPrompts /\ made' = [made EXCEPT !.prompts = @ + 1]
      /\ nextId' = nextId + 1 /\ prompts' = Append(prompts, nextId)
      /\ turn' = turn /\ tasks' = tasks /\ sent' = sent
      /\ Dispatch("ui", <<Event("prompt", nextId, "queued")>>)
  BY DEF Submit
<1>2. PICK a : a = Event("prompt", nextId, "queued")
  OBVIOUS
<1>3. /\ nextId \in Nat /\ nextId >= 1 /\ prompts \in Seq(Nat) /\ DOMAIN sent \subseteq Nat
      /\ made \in [prompts : 0..MaxPrompts, tasks : Nat, clears : Nat]
      /\ made.tasks + made.clears <= MaxOthers
  BY DEF ShowInv, ServiceTyped, Ids
<1>4. a \in AnEvent /\ a.kind = "prompt" /\ a.id = nextId /\ a.status = "queued"
  <2>1. nextId \in Nat
    BY <1>3
  <2> QED
    BY <1>2, <2>1, EventType DEF Statuses
<1>5. /\ made' \in [prompts : 0..MaxPrompts, tasks : Nat, clears : Nat]
      /\ made'.prompts = made.prompts + 1 /\ made'.tasks = made.tasks
      /\ made'.clears = made.clears
  <2>1. made.prompts + 1 \in 0..MaxPrompts
    BY <1>1, <1>3 DEF ScreenParameters
  <2> QED
    BY <1>1, <1>3, <2>1
<1>6. /\ prompts' \in Seq(Nat) /\ Len(prompts') = Len(prompts) + 1
      /\ \A k \in 1..Len(prompts') :
           prompts'[k] = nextId \/ (k \in 1..Len(prompts) /\ prompts'[k] = prompts[k])
  BY <1>1, <1>3
<1>7. nextId \notin DOMAIN sent
  BY <1>3 DEF ShowInv, ServiceInv
<1>8. ServiceTyped'
  <2>1. pending' \in [Ids -> Nat]
    BY <1>1 DEF Dispatch, Emptied
  <2>2. nextId' \in Nat \ {0} /\ prompts' \in Seq(Nat)
    BY <1>1, <1>3, <1>6
  <2>3. made'.tasks + made'.clears <= MaxOthers
    BY <1>3, <1>5
  <2> QED
    BY <1>1, <1>5, <2>1, <2>2, <2>3 DEF ServiceTyped, ShowInv
<1>9. ServiceInv'
  <2>1. nextId - 1 + Promised + Room <= Given
    BY DEF ShowInv, ServiceInv, Promised, Given, Room
  <2>2. /\ Promised \in Nat /\ Given \in Nat /\ Room \in Nat
        /\ Promised' = Promised + (1 + MaxTools) /\ Given' = Given + (2 + MaxTools)
        /\ Room' = Room
    <3>1. /\ Len(prompts) \in Nat /\ 1 + MaxTools \in Nat /\ 2 + MaxTools \in Nat
          /\ made.prompts \in Nat
      BY <1>3 DEF ScreenParameters
    <3>2. /\ (Len(prompts) + 1) * (1 + MaxTools) = Len(prompts) * (1 + MaxTools) + (1 + MaxTools)
          /\ (made.prompts + 1) * (2 + MaxTools) = made.prompts * (2 + MaxTools) + (2 + MaxTools)
          /\ made.prompts * (2 + MaxTools) \in Nat
      BY <3>1, Times
    <3>3. Promised \in Nat /\ Given \in Nat /\ Room \in Nat
      BY Counted DEF ShowInv
    <3>4. Promised' = Promised + (1 + MaxTools)
      BY <1>6, <3>2 DEF Promised
    <3>5. Given' = Given + (2 + MaxTools)
      <4>1. made'.prompts = made.prompts + 1 /\ made'.tasks = made.tasks /\ made.tasks \in Nat
        BY <1>3, <1>5
      <4>2. Given' = made.tasks + (made.prompts * (2 + MaxTools) + (2 + MaxTools))
        BY <3>2, <4>1 DEF Given
      <4> QED
        BY <3>1, <3>2, <4>1, <4>2 DEF Given
    <3>6. Room' = Room
      BY <1>1 DEF Room
    <3> QED
      BY <3>3, <3>4, <3>5, <3>6
  <2>3. nextId' - 1 + Promised' + Room' <= Given'
    <3>1. nextId \in Nat /\ nextId' = nextId + 1 /\ MaxTools \in Nat
      BY <1>1, <1>3 DEF ScreenParameters
    <3> QED
      BY <2>1, <2>2, <3>1
  <2>4. /\ \A k \in 1..Len(prompts') : prompts'[k] < nextId' /\ prompts'[k] \notin DOMAIN sent'
        /\ \A i \in DOMAIN sent' : i < nextId'
        /\ \A i \in tasks' : i < nextId'
        /\ turn'.tool < nextId'
    <3>1. \A k \in 1..Len(prompts) : prompts[k] \in Nat
      BY <1>3
    <3>2. tasks \subseteq Nat /\ turn.tool \in Nat /\ turn.tool < nextId
      BY DEF ShowInv, ServiceInv, ServiceTyped
    <3>3. \A k \in 1..Len(prompts) : prompts[k] < nextId /\ prompts[k] \notin DOMAIN sent
      BY DEF ShowInv, ServiceInv
    <3>4. (\A i \in DOMAIN sent : i < nextId) /\ \A i \in tasks : i < nextId
      BY DEF ShowInv, ServiceInv
    <3>5. /\ nextId' = nextId + 1 /\ sent' = sent /\ tasks' = tasks /\ turn' = turn
          /\ nextId \in Nat /\ DOMAIN sent \subseteq Nat
      BY <1>1, <1>3
    <3>6. \A k \in 1..Len(prompts') : prompts'[k] < nextId' /\ prompts'[k] \notin DOMAIN sent'
      BY <1>6, <1>7, <3>1, <3>3, <3>5
    <3> QED
      BY <3>2, <3>4, <3>5, <3>6
  <2>5. /\ turn'.at = "tool" => turn'.tool \notin tasks'
        /\ turn'.at = "idle" => turn'.id = 0
        /\ turn'.at # "idle" => turn'.id \in DOMAIN sent'
    BY <1>1 DEF ShowInv, ServiceInv
  <2> QED
    BY <2>3, <2>4, <2>5 DEF ServiceInv, Promised, Given, Room
<1>10. \E t, events : Emission(t, events)
  <2>1. Sound(a)'
    BY <1>1, <1>3, <1>4, <1>7 DEF Sound
  <2>2. \A i : Runs(i) => Runs(i)'
    BY <1>1 DEF Runs
  <2>3. Dispatch("ui", <<a>>) /\ "ui" \in Threads
    BY <1>1, <1>2 DEF Threads
  <2>4. /\ made'.clears \in Nat /\ made'.clears >= made.clears
        /\ nextId' \in Nat /\ nextId' >= nextId /\ tasks \subseteq tasks'
    BY <1>1, <1>3, <1>5
  <2>5. a.kind \notin {"text", "started", "tool"}
    BY <1>4
  <2> QED
    BY <1>1, <1>4, <2>1, <2>2, <2>3, <2>4, <2>5, OneEmitted
<1> QED
  BY <1>8, <1>9, <1>10

(* StartTool emits the card of the tool that runs from then on. *)
LEMMA StartToolEmits ==
  ASSUME ScreenParameters, ShowInv, StartTool
  PROVE  ServiceTyped' /\ ServiceInv' /\ \E t, events : Emission(t, events)
<1>1. /\ turn.at = "streaming" /\ turn.tools < MaxTools
      /\ turn' = [turn EXCEPT !.at = "tool", !.tool = nextId, !.tools = @ + 1]
      /\ nextId' = nextId + 1 /\ prompts' = prompts /\ tasks' = tasks /\ made' = made
      /\ sent' = sent
      /\ Dispatch("worker", <<Event("tool", nextId, "active")>>)
  BY DEF StartTool
<1>2. /\ nextId \in Nat /\ nextId' \in Nat \ {0} /\ nextId' >= nextId
      /\ made.clears \in Nat /\ MaxTools \in Nat
      /\ turn \in [at : {"idle", "streaming", "tool"}, id : Nat, tool : Nat,
                   deltas : Nat, tools : 0..MaxTools]
  BY <1>1 DEF ShowInv, ServiceTyped, ScreenParameters
<1>3. PICK a : a = Event("tool", nextId, "active")
  OBVIOUS
<1>4. a \in AnEvent /\ a.kind = "tool" /\ a.id = nextId /\ a.status = "active"
  <2>1. nextId \in Nat
    BY <1>2
  <2> QED
    BY <2>1, <1>3, EventType DEF Statuses
<1>5. /\ turn' \in [at : {"idle", "streaming", "tool"}, id : Nat, tool : Nat,
                    deltas : Nat, tools : 0..MaxTools]
      /\ turn'.at = "tool" /\ turn'.tool = nextId /\ turn'.id = turn.id
      /\ turn'.tools = turn.tools + 1
  <2>1. PICK begun : begun = [turn EXCEPT !.at = "tool", !.tool = nextId]
    OBVIOUS
  <2>2. /\ begun \in [at : {"idle", "streaming", "tool"}, id : Nat, tool : Nat,
                      deltas : Nat, tools : 0..MaxTools]
        /\ begun.at = "tool" /\ begun.tool = nextId /\ begun.id = turn.id
        /\ begun.tools = turn.tools
    BY <1>2, <2>1
  <2>3. turn' = [begun EXCEPT !.tools = @ + 1]
    BY <1>1, <1>2, <2>1, <2>2
  <2>4. begun.tools + 1 \in 0..MaxTools
    BY <1>1, <1>2, <2>2
  <2> QED
    BY <2>2, <2>3, <2>4
<1>6. ServiceTyped'
  <2>1. pending' \in [Ids -> Nat]
    BY <1>1, FlushedTyped
  <2> QED
    BY <1>1, <1>2, <1>5, <2>1 DEF ServiceTyped, ShowInv
<1>7. ServiceInv'
  <2>1. nextId - 1 + Promised + Room <= Given
    BY DEF ShowInv, ServiceInv, Promised, Given, Room
  <2>2. Promised \in Nat /\ Given \in Nat /\ Room \in Nat
    BY Counted DEF ShowInv
  <2>3. Promised' = Promised /\ Given' = Given /\ Room' = Room - 1
    BY <1>1, <1>2, <1>5 DEF Promised, Given, Room
  <2>4. nextId' - 1 + Promised' + Room' <= Given'
    BY <1>1, <1>2, <2>1, <2>2, <2>3
  <2>5. /\ \A k \in 1..Len(prompts') : prompts'[k] < nextId' /\ prompts'[k] \notin DOMAIN sent'
        /\ \A i \in DOMAIN sent' : i < nextId'
        /\ \A i \in tasks' : i < nextId'
        /\ nextId \notin tasks
    BY <1>1, <1>2, GivenStay
  <2>6. turn'.tool < nextId' /\ turn'.tool \notin tasks' /\ turn'.id \in DOMAIN sent'
    BY <1>1, <1>2, <1>5, <2>5 DEF ShowInv, ServiceInv
  <2> QED
    BY <1>5, <2>4, <2>5, <2>6 DEF ServiceInv, Promised, Given, Room
<1>8. \E t, events : Emission(t, events)
  <2>1. Sound(a)'
    BY <1>4 DEF Sound
  <2>2. \A i : Runs(i) => Runs(i)'
    BY <1>1 DEF Runs
  <2>3. Dispatch("worker", <<a>>) /\ "worker" \in Threads
    BY <1>1, <1>3 DEF Threads
  <2> QED
    BY <1>1, <1>2, <1>4, <1>5, <2>1, <2>2, <2>3, OneEmitted
<1> QED
  BY <1>6, <1>7, <1>8

(* EndTool emits the end of the tool that ran. *)
LEMMA EndToolEmits ==
  ASSUME ScreenParameters, ShowInv, EndTool
  PROVE  ServiceTyped' /\ ServiceInv' /\ \E t, events : Emission(t, events)
<1>1. /\ turn.at = "tool" /\ turn' = [turn EXCEPT !.at = "streaming"]
      /\ nextId' = nextId /\ prompts' = prompts /\ tasks' = tasks /\ made' = made
      /\ sent' = sent
      /\ Dispatch("worker", <<Event("tooldone", turn.tool, "complete")>>)
  BY DEF EndTool
<1>2. /\ nextId \in Nat \ {0} /\ made.clears \in Nat
      /\ turn \in [at : {"idle", "streaming", "tool"}, id : Nat, tool : Nat,
                   deltas : Nat, tools : 0..MaxTools]
  BY DEF ShowInv, ServiceTyped
<1>3. PICK a : a = Event("tooldone", turn.tool, "complete")
  OBVIOUS
<1>4. a \in AnEvent /\ a.kind = "tooldone" /\ a.id = turn.tool /\ a.status = "complete"
  <2>1. turn.tool \in Nat
    BY <1>2
  <2> QED
    BY <1>3, <2>1, EventType DEF Statuses
<1>5. /\ turn' \in [at : {"idle", "streaming", "tool"}, id : Nat, tool : Nat,
                    deltas : Nat, tools : 0..MaxTools]
      /\ turn'.at = "streaming" /\ turn'.tool = turn.tool /\ turn'.id = turn.id
      /\ turn'.tools = turn.tools
  BY <1>1, <1>2
<1>6. ServiceTyped'
  <2>1. pending' \in [Ids -> Nat]
    BY <1>1, FlushedTyped
  <2> QED
    BY <1>1, <1>2, <1>5, <2>1 DEF ServiceTyped, ShowInv
<1>7. ServiceInv'
  <2>1. nextId - 1 + Promised + Room <= Given
    BY DEF ShowInv, ServiceInv, Promised, Given, Room
  <2>2. Promised' = Promised /\ Given' = Given /\ Room' = Room
    BY <1>1, <1>5 DEF Promised, Given, Room
  <2>3. nextId' - 1 + Promised' + Room' <= Given'
    BY <1>1, <2>1, <2>2
  <2>4. /\ \A k \in 1..Len(prompts') : prompts'[k] < nextId' /\ prompts'[k] \notin DOMAIN sent'
        /\ \A i \in DOMAIN sent' : i < nextId'
        /\ \A i \in tasks' : i < nextId'
        /\ turn'.tool < nextId'
    BY <1>1, <1>2, <1>5, GivenStay
  <2>5. turn'.id \in DOMAIN sent'
    BY <1>1, <1>5 DEF ShowInv, ServiceInv
  <2> QED
    BY <1>5, <2>3, <2>4, <2>5 DEF ServiceInv, Promised, Given, Room
<1>8. \E t, events : Emission(t, events)
  <2>1. Sound(a)'
    BY <1>4 DEF Sound
  <2>2. \A i : Runs(i) => Runs(i)' \/ Finishes(a, i)
    BY <1>1, <1>4 DEF Runs, Finishes
  <2>3. Dispatch("worker", <<a>>) /\ "worker" \in Threads
    BY <1>1, <1>3 DEF Threads
  <2> QED
    BY <1>1, <1>2, <1>4, <1>5, <2>1, <2>2, <2>3, OneEmitted
<1> QED
  BY <1>6, <1>7, <1>8

(* EndTurn emits an end of its turn, whatever the outcome. *)
LEMMA EndTurnEmits ==
  ASSUME ScreenParameters, ShowInv, EndTurn
  PROVE  ServiceTyped' /\ ServiceInv' /\ \E t, events : Emission(t, events)
<1>1. /\ turn.at = "streaming" /\ turn' = NoTurn
      /\ nextId' = nextId /\ prompts' = prompts /\ tasks' = tasks /\ made' = made
      /\ sent' = sent
  BY DEF EndTurn
<1>2. /\ nextId \in Nat \ {0} /\ made.clears \in Nat /\ turn.id \in Nat
      /\ MaxTools \in Nat
  BY DEF ShowInv, ServiceTyped, ScreenParameters
<1>3. PICK outcome \in {"complete", "cancelled", "error"} :
        Dispatch("worker", Ending(outcome))
  BY DEF EndTurn
<1>4. \E k0 \in {"status", "fault"} : \E s \in {"complete", "cancelled", "error"} :
        Ending(outcome) = <<Event(k0, turn.id, s)>>
  <2>1. CASE outcome = "complete"
    BY <2>1 DEF Ending
  <2>2. CASE outcome = "cancelled"
    BY <2>2 DEF Ending
  <2>3. CASE outcome = "error"
    BY <2>3 DEF Ending
  <2> QED
    BY <1>3, <2>1, <2>2, <2>3
<1>5. PICK k0 \in {"status", "fault"} : \E s \in {"complete", "cancelled", "error"} :
        Ending(outcome) = <<Event(k0, turn.id, s)>>
  BY <1>4
<1>6. PICK s \in {"complete", "cancelled", "error"} :
        Ending(outcome) = <<Event(k0, turn.id, s)>>
  BY <1>5
<1>7. PICK a : a = Event(k0, turn.id, s)
  OBVIOUS
<1>8. a \in AnEvent /\ a.kind = k0 /\ a.id = turn.id /\ a.status = s
  BY <1>2, <1>7, EventType DEF Statuses
<1>9. /\ turn' \in [at : {"idle", "streaming", "tool"}, id : Nat, tool : Nat,
                    deltas : Nat, tools : 0..MaxTools]
      /\ turn'.at = "idle" /\ turn'.tool = 0 /\ turn'.id = 0
  BY <1>1, <1>2 DEF NoTurn
<1>10. ServiceTyped'
  <2>1. pending' \in [Ids -> Nat]
    BY <1>3, FlushedTyped
  <2> QED
    BY <1>1, <1>2, <1>9, <2>1 DEF ServiceTyped, ShowInv
<1>11. ServiceInv'
  <2>1. nextId - 1 + Promised + Room <= Given
    BY DEF ShowInv, ServiceInv, Promised, Given, Room
  <2>2. Promised \in Nat /\ Given \in Nat /\ Room \in Nat
    BY Counted DEF ShowInv
  <2>3. Promised' = Promised /\ Given' = Given /\ Room' = 0
    BY <1>1, <1>9 DEF Promised, Given, Room
  <2>4. nextId' - 1 + Promised' + Room' <= Given'
    BY <1>1, <1>2, <2>1, <2>2, <2>3
  <2>5. /\ \A k \in 1..Len(prompts') : prompts'[k] < nextId' /\ prompts'[k] \notin DOMAIN sent'
        /\ \A i \in DOMAIN sent' : i < nextId'
        /\ \A i \in tasks' : i < nextId'
    BY <1>1, <1>2, GivenStay
  <2>6. turn'.tool < nextId'
    BY <1>1, <1>2, <1>9
  <2> QED
    BY <1>9, <2>4, <2>5, <2>6 DEF ServiceInv, Promised, Given, Room
<1>12. \E t, events : Emission(t, events)
  <2>1. Sound(a)'
    BY <1>8 DEF Sound
  <2>2. \A i : Runs(i) => Runs(i)'
    BY <1>1 DEF Runs
  <2>3. Dispatch("worker", <<a>>) /\ "worker" \in Threads
    BY <1>3, <1>6, <1>7 DEF Threads
  <2>4. \A i \in DOMAIN sent : i = turn.id /\ i # turn'.id => Ends(a, i)
    BY <1>8 DEF Ends
  <2> QED
    BY <1>1, <1>2, <1>8, <2>1, <2>2, <2>3, <2>4, OneEmitted
<1> QED
  BY <1>10, <1>11, <1>12

(* Task emits the card of its agent. *)
LEMMA TaskEmits ==
  ASSUME ScreenParameters, ShowInv, Task
  PROVE  ServiceTyped' /\ ServiceInv' /\ \E t, events : Emission(t, events)
<1>1. /\ made.tasks + made.clears < MaxOthers /\ made' = [made EXCEPT !.tasks = @ + 1]
      /\ nextId' = nextId + 1 /\ tasks' = tasks \cup {nextId}
      /\ prompts' = prompts /\ turn' = turn /\ sent' = sent
      /\ Dispatch("ui", <<Event("tool", nextId, "active")>>)
  BY DEF Task
<1>2. /\ nextId \in Nat /\ tasks \subseteq Nat
      /\ made \in [prompts : 0..MaxPrompts, tasks : Nat, clears : Nat]
      /\ MaxOthers \in Nat /\ MaxPrompts \in Nat
  BY DEF ShowInv, ServiceTyped, ScreenParameters
<1>3. nextId' \in Nat \ {0} /\ nextId' >= nextId /\ nextId < nextId'
  BY <1>1, <1>2
<1>4. PICK a : a = Event("tool", nextId, "active")
  OBVIOUS
<1>5. a \in AnEvent /\ a.kind = "tool" /\ a.id = nextId /\ a.status = "active"
  <2>1. nextId \in Nat
    BY <1>2
  <2> QED
    BY <2>1, <1>4, EventType DEF Statuses
<1>6. /\ made' \in [prompts : 0..MaxPrompts, tasks : Nat, clears : Nat]
      /\ made'.prompts = made.prompts /\ made'.tasks = made.tasks + 1
      /\ made'.clears = made.clears
  BY <1>1, <1>2
<1>7. ServiceTyped'
  <2>1. pending' \in [Ids -> Nat]
    BY <1>1, FlushedTyped
  <2>2. made'.tasks + made'.clears <= MaxOthers
    BY <1>1, <1>2, <1>6
  <2>3. tasks' \subseteq Nat
    BY <1>1, <1>2
  <2> QED
    BY <1>1, <1>3, <1>6, <2>1, <2>2, <2>3 DEF ServiceTyped, ShowInv
<1>8. ServiceInv'
  <2>1. nextId - 1 + Promised + Room <= Given
    BY DEF ShowInv, ServiceInv, Promised, Given, Room
  <2>2. Promised \in Nat /\ Given \in Nat /\ Room \in Nat
    BY Counted DEF ShowInv
  <2>3. Promised' = Promised /\ Given' = Given + 1 /\ Room' = Room
    <3>1. made.prompts * (2 + MaxTools) \in Nat
      BY Times, SMTT(30) DEF ShowInv, ServiceTyped, ScreenParameters
    <3>2. Given' = Given + 1
      BY <1>2, <1>6, <3>1 DEF Given
    <3> QED
      BY <1>1, <3>2 DEF Promised, Room
  <2>4. nextId' - 1 + Promised' + Room' <= Given'
    BY <1>1, <1>2, <2>1, <2>2, <2>3
  <2>5. /\ \A k \in 1..Len(prompts') : prompts'[k] < nextId' /\ prompts'[k] \notin DOMAIN sent'
        /\ \A i \in DOMAIN sent' : i < nextId'
        /\ \A i \in tasks : i < nextId'
        /\ turn.tool < nextId'
    BY <1>1, <1>3, GivenStay
  <2>6. \A i \in tasks' : i < nextId'
    BY <1>1, <1>3, <2>5
  <2>7. turn.at = "tool" => turn.tool \notin tasks'
    <3>1. turn.tool # nextId
      BY <1>2 DEF ShowInv, ServiceTyped, ServiceInv
    <3> QED
      BY <1>1, <3>1 DEF ShowInv, ServiceInv
  <2>8. /\ turn'.at = "idle" => turn'.id = 0
        /\ turn'.at # "idle" => turn'.id \in DOMAIN sent'
    BY <1>1 DEF ShowInv, ServiceInv
  <2> QED
    BY <1>1, <2>4, <2>5, <2>6, <2>7, <2>8 DEF ServiceInv, Promised, Given, Room
<1>9. \E t, events : Emission(t, events)
  <2>1. Sound(a)'
    BY <1>5 DEF Sound
  <2>2. \A i : Runs(i) => Runs(i)'
    BY <1>1 DEF Runs
  <2>3. Dispatch("ui", <<a>>) /\ "ui" \in Threads
    BY <1>1, <1>4 DEF Threads
  <2>4. made'.clears \in Nat /\ made'.clears >= made.clears /\ nextId' \in Nat
    BY <1>2, <1>3, <1>6
  <2>5. a.id \in tasks' /\ tasks \subseteq tasks' /\ a.kind \notin {"text", "started"}
    BY <1>1, <1>5
  <2> QED
    BY <1>1, <1>3, <1>5, <2>1, <2>2, <2>3, <2>4, <2>5, OneEmitted
<1> QED
  BY <1>7, <1>8, <1>9

(* EndTask emits the end of its card. *)
LEMMA EndTaskEmits ==
  ASSUME ScreenParameters, ShowInv, EndTask
  PROVE  ServiceTyped' /\ ServiceInv' /\ \E t, events : Emission(t, events)
<1>1. /\ outbox["ui"] = <<>> /\ nextId' = nextId /\ prompts' = prompts /\ turn' = turn
      /\ made' = made /\ sent' = sent
  BY DEF EndTask
<1>2. PICK card \in tasks :
        /\ tasks' = tasks \ {card}
        /\ Dispatch("agent", <<Event("agentdone", card, "complete")>>)
  BY DEF EndTask
<1>3. /\ nextId \in Nat \ {0} /\ tasks \subseteq Nat /\ card \in Nat /\ made.clears \in Nat
  BY DEF ShowInv, ServiceTyped
<1>4. PICK a : a = Event("agentdone", card, "complete")
  OBVIOUS
<1>5. a \in AnEvent /\ a.kind = "agentdone" /\ a.id = card /\ a.status = "complete"
  BY <1>3, <1>4, EventType DEF Statuses
<1>6. ServiceTyped'
  <2>1. pending' \in [Ids -> Nat]
    BY <1>2, FlushedTyped
  <2>2. tasks' \subseteq Nat
    BY <1>2, <1>3
  <2> QED
    BY <1>1, <2>1, <2>2 DEF ServiceTyped, ShowInv
<1>7. ServiceInv'
  <2>1. tasks' \subseteq tasks
    BY <1>2
  <2> QED
    BY <1>1, <2>1 DEF ServiceInv, ShowInv
<1>8. \E t, events : Emission(t, events)
  <2>1. Sound(a)'
    BY <1>5 DEF Sound
  <2>2. \A i : Runs(i) => Runs(i)' \/ Finishes(a, i)
    BY <1>1, <1>2, <1>5 DEF Runs, Finishes
  <2>3. Dispatch("agent", <<a>>) /\ "agent" \in Threads
    BY <1>2, <1>4 DEF Threads
  <2>4. /\ made'.clears \in Nat /\ made'.clears >= made.clears
        /\ nextId' \in Nat /\ nextId' >= nextId
    BY <1>1, <1>3
  <2>5. a.kind \notin {"text", "started", "tool"}
    BY <1>5
  <2> QED
    BY <1>1, <1>5, <2>1, <2>2, <2>3, <2>4, <2>5, OneEmitted
<1> QED
  BY <1>6, <1>7, <1>8

(* Clear drops the waiting prompts or keeps them, and counts. *)
LEMMA ClearEmits ==
  ASSUME ScreenParameters, ShowInv, Clear
  PROVE  ServiceTyped' /\ ServiceInv' /\ \E t, events : Emission(t, events)
<1>1. /\ made.tasks + made.clears < MaxOthers /\ made' = [made EXCEPT !.clears = @ + 1]
      /\ nextId' = nextId /\ tasks' = tasks /\ turn' = turn /\ sent' = sent
      /\ prompts' = prompts \/ prompts' = <<>>
  BY DEF Clear
<1>2. PICK k0 \in {"cleared", "compacted"} :
        Dispatch("ui", <<Event(k0, 0, "complete")>>)
  BY DEF Clear
<1>3. /\ nextId \in Nat \ {0}
      /\ made \in [prompts : 0..MaxPrompts, tasks : Nat, clears : Nat]
      /\ MaxOthers \in Nat
  BY DEF ShowInv, ServiceTyped, ScreenParameters
<1>4. PICK a : a = Event(k0, 0, "complete")
  OBVIOUS
<1>5. a \in AnEvent /\ a.kind = k0
  BY <1>4, EventType DEF Statuses
<1>6. /\ made' \in [prompts : 0..MaxPrompts, tasks : Nat, clears : Nat]
      /\ made'.prompts = made.prompts /\ made'.tasks = made.tasks
      /\ made'.clears = made.clears + 1
  BY <1>1, <1>3
<1>7. ServiceTyped'
  <2>1. pending' \in [Ids -> Nat]
    BY <1>2, FlushedTyped
  <2>2. made'.tasks + made'.clears <= MaxOthers
    BY <1>1, <1>3, <1>6
  <2>3. prompts' \in Seq(Nat)
    <3>1. prompts \in Seq(Nat) /\ <<>> \in Seq(Nat)
      BY DEF ShowInv, ServiceTyped
    <3> QED
      BY <1>1, <3>1
  <2> QED
    BY <1>1, <1>6, <2>1, <2>2, <2>3 DEF ServiceTyped, ShowInv
<1>8. ServiceInv'
  <2>1. nextId - 1 + Promised + Room <= Given
    BY DEF ShowInv, ServiceInv, Promised, Given, Room
  <2>2. Promised \in Nat /\ Given \in Nat /\ Room \in Nat
    BY Counted DEF ShowInv
  <2>3. Given' = Given /\ Room' = Room
    BY <1>1, <1>6 DEF Given, Room
  <2>4. Promised' \in Nat /\ Promised' <= Promised
    <3>1. CASE prompts' = prompts
      BY <2>2, <3>1 DEF Promised
    <3>2. CASE prompts' = <<>>
      <4>1. Len(prompts') = 0 /\ 1 + MaxTools \in Nat
        BY <3>2 DEF ScreenParameters
      <4>2. 0 * (1 + MaxTools) = 0
        BY <4>1
      <4> QED
        BY <2>2, <4>1, <4>2 DEF Promised
    <3> QED
      BY <1>1, <3>1, <3>2
  <2>5. nextId' - 1 + Promised' + Room' <= Given'
    <3>1. nextId \in Nat /\ nextId' = nextId
      BY <1>1, <1>3
    <3>2. PICK n \in Nat : n = Promised'
      BY <2>4
    <3>3. \A b, c, d \in Nat : nextId - 1 + b + c <= d /\ n <= b => nextId - 1 + n + c <= d
      BY <3>1
    <3>4. n <= Promised
      BY <2>4, <3>2
    <3>5. nextId - 1 + n + Room <= Given
      BY <2>1, <2>2, <3>3, <3>4
    <3> QED
      BY <2>3, <3>1, <3>2, <3>5
  <2>6. /\ \A k \in 1..Len(prompts') : prompts'[k] < nextId' /\ prompts'[k] \notin DOMAIN sent'
        /\ \A i \in DOMAIN sent' : i < nextId'
        /\ \A i \in tasks : i < nextId'
        /\ turn.tool < nextId'
    BY <1>1, <1>3, GivenStay
  <2>7. /\ turn'.at = "tool" => turn'.tool \notin tasks'
        /\ turn'.at = "idle" => turn'.id = 0
        /\ turn'.at # "idle" => turn'.id \in DOMAIN sent'
    BY <1>1 DEF ShowInv, ServiceInv
  <2> QED
    BY <1>1, <2>5, <2>6, <2>7 DEF ServiceInv, Promised, Given, Room
<1>9. \E t, events : Emission(t, events)
  <2>1. Sound(a)'
    BY <1>3, <1>5, <1>6 DEF Sound
  <2>2. \A i : Runs(i) => Runs(i)'
    BY <1>1 DEF Runs
  <2>3. Dispatch("ui", <<a>>) /\ "ui" \in Threads
    BY <1>2, <1>4 DEF Threads
  <2>4. /\ made'.clears \in Nat /\ made'.clears >= made.clears
        /\ nextId' \in Nat /\ nextId' >= nextId
    BY <1>1, <1>3, <1>6
  <2>5. a.kind \notin {"text", "started", "tool"}
    BY <1>5
  <2> QED
    BY <1>1, <1>5, <2>1, <2>2, <2>3, <2>4, <2>5, OneEmitted
<1> QED
  BY <1>7, <1>8, <1>9

(* Tick only flushes. *)
LEMMA TickEmits ==
  ASSUME ScreenParameters, ShowInv, Tick
  PROVE  ServiceTyped' /\ ServiceInv' /\ \E t, events : Emission(t, events)
<1>1. /\ nextId' = nextId /\ prompts' = prompts /\ turn' = turn /\ tasks' = tasks
      /\ made' = made /\ sent' = sent /\ Dispatch("timer", <<>>)
  BY DEF Tick, serviceVars
<1>2. PICK events : events = <<>>
  OBVIOUS
<1>3. events \in Seq(AnEvent) /\ 1..Len(events) = {} /\ Dispatch("timer", events)
  BY <1>1, <1>2
<1>4. ServiceTyped'
  <2>1. pending' \in [Ids -> Nat]
    BY <1>1, FlushedTyped
  <2> QED
    BY <1>1, <2>1 DEF ServiceTyped, ShowInv
<1>5. ServiceInv'
  BY <1>1 DEF ServiceInv, ShowInv
<1>6. Emission("timer", events)
  <2>1. /\ made.clears \in Nat
        /\ \A e \in AnEvent : Sound(e) => Sound(e)'
    BY <1>1 DEF ShowInv, ServiceTyped, Sound
  <2>2. \A i \in Nat : Streamed(i)' = Streamed(i)
    BY <1>1 DEF Streamed
  <2>3. \A i : Runs(i) => Runs(i)'
    BY <1>1 DEF Runs
  <2> QED
    BY <1>1, <1>3, <2>1, <2>2, <2>3 DEF Emission, Threads
<1> QED
  BY <1>4, <1>5, <1>6

(* StartTurn gives the turn an id within the bounds, and emits its start.   *)
LEMMA StartTurnEmits ==
  ASSUME ScreenParameters, ShowInv, StartTurn
  PROVE  ServiceTyped' /\ ServiceInv' /\ \E t, events : Emission(t, events)
<1>1. /\ turn.at = "idle" /\ prompts # <<>>
      /\ turn' = [NoTurn EXCEPT !.at = "streaming", !.id = nextId]
      /\ sent' = Extend(sent, nextId, 0)
      /\ nextId' = nextId + 1 /\ prompts' = Tail(prompts) /\ tasks' = tasks /\ made' = made
      /\ Dispatch("worker", <<Event("status", Head(prompts), "active"),
                                     Event("status", Head(prompts), "complete"),
                                     Event("started", nextId, "active")>>)
  BY DEF StartTurn
<1>2. nextId \in Nat \ {0} /\ prompts \in Seq(Nat) /\ made.clears \in Nat /\ MaxTools \in Nat
  BY DEF ShowInv, ServiceTyped, ScreenParameters
<1>3. PICK p \in Nat : p = Head(prompts)
  BY <1>1, <1>2
<1>4. p < nextId /\ p \notin DOMAIN sent
  <2>1. 1 \in 1..Len(prompts) /\ prompts[1] = p
    BY <1>1, <1>2, <1>3
  <2> QED
    BY <2>1 DEF ShowInv, ServiceInv
<1>5. PICK a : a = Event("status", p, "active")
  OBVIOUS
<1>6. PICK b : b = Event("status", p, "complete")
  OBVIOUS
<1>7. PICK c : c = Event("started", nextId, "active")
  OBVIOUS
<1>8. a \in AnEvent /\ a.kind = "status" /\ a.id = p /\ a.status = "active"
  BY <1>5, EventType DEF Statuses
<1>9. b \in AnEvent /\ b.kind = "status" /\ b.id = p /\ b.status = "complete"
  BY <1>6, EventType DEF Statuses
<1>10. c \in AnEvent /\ c.kind = "started" /\ c.id = nextId /\ c.status = "active"
  <2>1. nextId \in Nat
    BY <1>2
  <2> QED
    BY <1>7, <2>1, EventType DEF Statuses
<1>11. PICK events : events = <<a, b, c>>
  OBVIOUS
<1>12. /\ events \in Seq(AnEvent) /\ 3 \in 1..Len(events) /\ events[3] = c
       /\ \A j \in 1..Len(events) : events[j] = a \/ events[j] = b \/ events[j] = c
  BY <1>8, <1>9, <1>10, <1>11
<1>13. Dispatch("worker", events)
  BY <1>1, <1>3, <1>5, <1>6, <1>7, <1>11
<1>14. /\ turn' = [at |-> "streaming", id |-> nextId, tool |-> 0, deltas |-> 0, tools |-> 0]
       /\ turn' \in [at : {"idle", "streaming", "tool"}, id : Nat, tool : Nat,
                     deltas : Nat, tools : 0..MaxTools]
  <2>1. turn' = [at |-> "streaming", id |-> nextId, tool |-> 0, deltas |-> 0, tools |-> 0]
    BY <1>1 DEF NoTurn
  <2>2. nextId \in Nat /\ 0 \in 0..MaxTools
    BY <1>2
  <2> QED
    BY <2>1, <2>2
<1>15. turn'.at = "streaming" /\ turn'.id = nextId /\ turn'.tool = 0 /\ turn'.tools = 0
  BY <1>14
<1>16. nextId - 1 + Promised + Room <= Given
  BY DEF ShowInv, ServiceInv, Promised, Given, Room
<1>17. /\ Promised \in Nat /\ Given \in Nat /\ Room = 0
       /\ Given <= MaxIds /\ Promised >= 1 + MaxTools
  BY <1>1, Counted DEF ShowInv, Room
<1>18. nextId \in Ids /\ MaxIds \in Nat
  <2>1. MaxIds \in Nat
    <3>1. MaxPrompts * (2 + MaxTools) \in Nat
      BY Times DEF ScreenParameters
    <3> QED
      BY <3>1 DEF MaxIds, ScreenParameters
  <2>2. nextId <= MaxIds
    BY <1>2, <1>16, <1>17, <2>1
  <2> QED
    BY <1>2, <2>1, <2>2 DEF Ids
<1>19. nextId \notin DOMAIN sent
  BY <1>2 DEF ShowInv, ServiceInv, ServiceTyped, Ids
<1>20. /\ DOMAIN sent' = DOMAIN sent \cup {nextId} /\ sent'[nextId] = 0
       /\ \A i \in DOMAIN sent : sent'[i] = sent[i]
       /\ sent' = [i \in DOMAIN sent' |-> sent'[i]]
  BY <1>1, <1>19 DEF Extend
<1>21. ServiceTyped'
  <2>1. pending' \in [Ids -> Nat]
    BY <1>1, FlushedTyped
  <2>2. DOMAIN sent' \subseteq Ids /\ \A i \in DOMAIN sent' : sent'[i] \in Nat
    BY <1>18, <1>20 DEF ShowInv, ServiceTyped
  <2>3. sent' \in [DOMAIN sent' -> Nat]
    BY <1>20, <2>2
  <2>4. prompts' \in Seq(Nat) /\ nextId' \in Nat \ {0}
    <3>1. prompts' = Tail(prompts) /\ nextId' = nextId + 1
      BY <1>1
    <3>2. Tail(prompts) \in Seq(Nat)
      BY <1>1, <1>2
    <3> QED
      BY <1>2, <3>1, <3>2
  <2> QED
    BY <1>1, <1>14, <2>1, <2>2, <2>3, <2>4 DEF ServiceTyped, ShowInv
<1>22. ServiceInv'
  <2>1. /\ Len(prompts) \in Nat /\ Len(prompts) >= 1 /\ Len(prompts') = Len(prompts) - 1
        /\ \A k \in 1..Len(prompts') : k + 1 \in 1..Len(prompts) /\ prompts'[k] = prompts[k + 1]
    <3>1. prompts \in Seq(Nat) /\ prompts # <<>> /\ prompts' = Tail(prompts)
      BY <1>1, <1>2
    <3> QED
      BY <3>1
  <2>2. Promised' = Promised - (1 + MaxTools)
    <3>1. 1 + MaxTools \in Nat
      BY <1>2
    <3> QED
      BY <2>1, <3>1, Times DEF Promised
  <2>3. Given' = Given /\ Room' = MaxTools
    BY <1>1, <1>2, <1>15 DEF Given, Room
  <2>4. nextId' - 1 + Promised' + Room' <= Given'
    <3>1. nextId \in Nat /\ nextId' = nextId + 1
      BY <1>1, <1>2
    <3> QED
      BY <1>2, <1>16, <1>17, <2>2, <2>3, <3>1
  <2>5. \A k \in 1..Len(prompts) : /\ prompts[k] \in Nat /\ prompts[k] < nextId
                                   /\ prompts[k] \notin DOMAIN sent
    BY <1>2 DEF ShowInv, ServiceInv
  <2>6. \A k \in 1..Len(prompts') : prompts'[k] < nextId' /\ prompts'[k] \notin DOMAIN sent'
    <3>1. nextId \in Nat /\ nextId' = nextId + 1
      BY <1>1, <1>2
    <3>2. \A i \in Nat : i < nextId => i < nextId' /\ i # nextId
      BY <3>1
    <3> QED
      BY <1>20, <2>1, <2>5, <3>2
  <2>7. \A i \in DOMAIN sent' : i < nextId'
    <3>1. \A i \in DOMAIN sent : i \in Nat /\ i < nextId
      BY DEF ShowInv, ServiceInv, ServiceTyped, Ids
    <3>2. nextId \in Nat /\ nextId' = nextId + 1
      BY <1>1, <1>2
    <3> QED
      BY <1>20, <3>1, <3>2
  <2>8. \A i \in tasks' : i < nextId'
    <3>1. \A i \in tasks : i \in Nat /\ i < nextId
      BY DEF ShowInv, ServiceInv, ServiceTyped
    <3> QED
      BY <1>1, <1>2, <3>1
  <2>9. turn'.tool < nextId' /\ turn'.id \in DOMAIN sent'
    BY <1>1, <1>2, <1>15, <1>20
  <2> QED
    BY <1>15, <2>4, <2>6, <2>7, <2>8, <2>9 DEF ServiceInv, Promised, Given, Room
<1>23. Emission("worker", events)
  <2>1. \A e \in AnEvent : Sound(e) => Sound(e)'
    <3>1. /\ nextId \in Nat /\ nextId' \in Nat /\ nextId' >= nextId
          /\ made'.clears \in Nat /\ made'.clears >= made.clears
      BY <1>1, <1>2
    <3> QED
      BY <1>2, <1>20, <3>1, SoundStays
  <2>2. Sound(a)'
    BY <1>1, <1>2, <1>4, <1>8, <1>20 DEF Sound
  <2>3. Sound(b)'
    BY <1>9 DEF Sound
  <2>4. Sound(c)'
    BY <1>10, <1>20 DEF Sound
  <2>5. \A j \in 1..Len(events) : events[j].kind # "text" /\ Sound(events[j])'
    <3> SUFFICES ASSUME NEW j \in 1..Len(events)
                 PROVE  events[j].kind # "text" /\ Sound(events[j])'
      OBVIOUS
    <3>1. CASE events[j] = a
      BY <1>8, <2>2, <3>1
    <3>2. CASE events[j] = b
      BY <1>9, <2>3, <3>2
    <3>3. CASE events[j] = c
      BY <1>10, <2>4, <3>3
    <3> QED
      BY <1>12, <3>1, <3>2, <3>3
  <2>6. \A i \in Nat : Streamed(i)' = Streamed(i)
    BY <1>19, <1>20 DEF Streamed
  <2>7. made'.clears \in Nat /\ made'.clears >= made.clears
    BY <1>1, <1>2
  <2>8. DOMAIN sent \subseteq DOMAIN sent'
    BY <1>20
  <2>9. \A i \in DOMAIN sent' : i \notin DOMAIN sent =>
          i = turn'.id /\ \E j \in 1..Len(events) : StartOf(events[j], i)
    <3>1. StartOf(events[3], nextId)
      BY <1>10, <1>12 DEF StartOf
    <3> QED
      BY <1>12, <1>15, <1>20, <3>1
  <2>10. \A j \in 1..Len(events) : events[j].kind = "started" => events[j].id = turn'.id
    BY <1>8, <1>9, <1>10, <1>12, <1>15
  <2>11. turn.id \notin DOMAIN sent
    BY <1>1 DEF ShowInv, ServiceInv, ServiceTyped, Ids
  <2>12. \A j \in 1..Len(events) : events[j].kind # "tool"
    BY <1>8, <1>9, <1>10, <1>12
  <2>13. \A i : Runs(i) => Runs(i)'
    BY <1>1 DEF Runs
  <2>14. "worker" \in Threads /\ tasks \subseteq tasks'
    BY <1>1 DEF Threads
  <2> QED
    BY <1>12, <1>13, <2>1, <2>5, <2>6, <2>7, <2>8, <2>9, <2>10, <2>11, <2>12, <2>13, <2>14
    DEF Emission
<1> QED
  BY <1>21, <1>22, <1>23

(* Every step keeps the invariant. *)
LEMMA ShowStep ==
  ASSUME ScreenParameters, ShowInv, [Next]_vars
  PROVE  ShowInv'
<1>1. ASSUME ServiceTyped' /\ ServiceInv' /\ \E t, events : Emission(t, events)
      PROVE  ShowInv'
  <2>1. PICK t, events : Emission(t, events)
    BY <1>1
  <2> QED
    BY <1>1, <2>1, Emitted DEF ShowInv
<1>2. CASE Submit
  BY <1>1, <1>2, SubmitEmits
<1>3. CASE StartTurn
  BY <1>1, <1>3, StartTurnEmits
<1>4. CASE Delta
  BY <1>4, DeltaStep
<1>5. CASE StartTool
  BY <1>1, <1>5, StartToolEmits
<1>6. CASE EndTool
  BY <1>1, <1>6, EndToolEmits
<1>7. CASE EndTurn
  BY <1>1, <1>7, EndTurnEmits
<1>8. CASE Task
  BY <1>1, <1>8, TaskEmits
<1>9. CASE EndTask
  BY <1>1, <1>9, EndTaskEmits
<1>10. CASE Clear
  BY <1>1, <1>10, ClearEmits
<1>11. CASE Tick
  BY <1>1, <1>11, TickEmits
<1>12. CASE Handle
  BY <1>12, HandleStep
<1>13. CASE \E t \in Threads : Post(t)
  BY <1>13, PostStep
<1>14. CASE UNCHANGED vars
  <2>1. /\ nextId' = nextId /\ prompts' = prompts /\ turn' = turn /\ tasks' = tasks
        /\ made' = made /\ sent' = sent /\ pending' = pending /\ outbox' = outbox
        /\ queue' = queue /\ messages' = messages /\ index' = index /\ tools' = tools
        /\ nextUiId' = nextUiId /\ opened' = opened
    BY <1>14 DEF vars
  <2>2. ServiceTyped' /\ FlowTyped' /\ ScreenTyped' /\ ServiceInv'
    BY <2>1 DEF ServiceTyped, FlowTyped, ScreenTyped, ServiceInv, ShowInv
  <2>3. EventInv'
    BY <2>1 DEF EventInv, Sound, ShowInv
  <2>4. AccountInv'
    BY <2>1 DEF AccountInv, Balance, Shown, TextOf, Streamed, Waiting, ShowInv
  <2>5. OrderInv'
    BY <2>1 DEF OrderInv, Begun, Held, ShowInv
  <2>6. EndInv'
    BY <2>1 DEF EndInv, TurnEndComes, ShowInv
  <2>7. ToolInv'
    BY <2>1 DEF ToolInv, Runs, ToolEndComes, ShowInv
  <2> QED
    BY <2>2, <2>3, <2>4, <2>5, <2>6, <2>7 DEF ShowInv
<1> QED
  BY <1>2, <1>3, <1>4, <1>5, <1>6, <1>7, <1>8, <1>9, <1>10, <1>11, <1>12, <1>13, <1>14
  DEF Next

(* The invariant holds at the start. *)
LEMMA ShowInit ==
  ASSUME ScreenParameters, Init
  PROVE  ShowInv
<1>1. /\ nextId = 1 /\ prompts = <<>> /\ turn = NoTurn /\ tasks = {}
      /\ made = [prompts |-> 0, tasks |-> 0, clears |-> 0]
      /\ sent = [i \in {} |-> 0] /\ pending = [i \in Ids |-> 0]
      /\ outbox = [t \in Threads |-> <<>>] /\ queue = <<>>
      /\ nextUiId = 1 /\ messages = <<>> /\ index = [i \in {} |-> 0]
      /\ tools = [i \in {} |-> "active"] /\ opened = 0
  BY DEF Init
<1>2. /\ DOMAIN sent = {} /\ DOMAIN index = {} /\ DOMAIN tools = {}
      /\ \A k \in 1..Len(queue) : FALSE
      /\ \A t \in Threads : \A k \in 1..Len(outbox[t]) : FALSE
  BY <1>1
<1>3. /\ made.prompts = 0 /\ made.tasks = 0 /\ made.clears = 0
      /\ turn.at = "idle" /\ turn.id = 0 /\ turn.tool = 0
  BY <1>1 DEF NoTurn
<1>4. ServiceTyped
  <2>1. /\ turn \in [at : {"idle", "streaming", "tool"}, id : Nat, tool : Nat,
                     deltas : Nat, tools : 0..MaxTools]
        /\ made \in [prompts : 0..MaxPrompts, tasks : Nat, clears : Nat]
    BY <1>1 DEF NoTurn, ScreenParameters
  <2>2. made.tasks + made.clears <= MaxOthers
    BY <1>3 DEF ScreenParameters
  <2>3. sent \in [DOMAIN sent -> Nat] /\ prompts \in Seq(Nat) /\ pending \in [Ids -> Nat]
    BY <1>1
  <2> QED
    BY <1>1, <1>2, <2>1, <2>2, <2>3 DEF ServiceTyped
<1>5. FlowTyped
  BY <1>1 DEF FlowTyped
<1>6. ScreenTyped
  <2>1. /\ messages \in Seq(AMessage) /\ index \in [DOMAIN index -> 1..Len(messages)]
        /\ tools \in [DOMAIN tools -> Statuses]
    BY <1>1
  <2> QED
    BY <1>1, <1>2, <2>1 DEF ScreenTyped
<1>7. EventInv /\ EndInv /\ ToolInv
  BY <1>2 DEF EventInv, EndInv, ToolInv
<1>8. OrderInv
  BY <1>1, <1>2 DEF OrderInv, Held
<1>9. ServiceInv
  <2>1. /\ Len(prompts) = 0 /\ 0 * (1 + MaxTools) = 0 /\ 0 * (2 + MaxTools) = 0
    BY <1>1 DEF ScreenParameters
  <2> QED
    BY <1>1, <1>2, <1>3, <2>1 DEF ServiceInv
<1>10. AccountInv
  <2> SUFFICES ASSUME NEW i \in Nat
               PROVE  \E m \in Nat : \E n \in [Threads -> Nat] : Balance(i, m, n)
    BY DEF AccountInv
  <2>1. PICK n \in [Threads -> Nat] : n = [t \in Threads |-> 0]
    OBVIOUS
  <2>2. InBoxes(n) = 0
    BY <2>1 DEF InBoxes, Threads
  <2>3. Carries(queue, i, 0) /\ \A t \in Threads : Carries(outbox[t], i, n[t])
    BY <1>1, <2>1, NothingCarried
  <2>4. Shown(i) = 0 /\ Waiting(i) = 0 /\ Streamed(i) = 0
    BY <1>1, <1>2 DEF Shown, Waiting, Streamed
  <2>5. Balance(i, 0, n)
    BY <2>2, <2>3, <2>4 DEF Balance
  <2> QED
    BY <2>5
<1> QED
  BY <1>4, <1>5, <1>6, <1>7, <1>8, <1>9, <1>10 DEF ShowInv

(* The balance of every id, with nothing under way, is what its message shows. *)
LEMMA TextsInBalance ==
  ASSUME ShowInv
  PROVE  AllTextShown
<1> SUFFICES ASSUME NEW i \in DOMAIN sent, i \in DOMAIN index
             PROVE  /\ messages[index[i]].text <= sent[i]
                    /\ Settled /\ made.clears = 0 => messages[index[i]].text = sent[i]
  BY DEF AllTextShown, HasMessage
<1>1. i \in Nat /\ sent[i] \in Nat /\ messages[index[i]] \in AMessage
      /\ pending \in [Ids -> Nat]
  <2>1. i \in Nat /\ sent[i] \in Nat /\ pending \in [Ids -> Nat]
    BY DEF ShowInv, ServiceTyped, Ids
  <2>2. index[i] \in 1..Len(messages) /\ messages \in Seq(AMessage)
    BY DEF ShowInv, ScreenTyped
  <2> QED
    BY <2>1, <2>2
<1>2. Shown(i) = messages[index[i]].text /\ Shown(i) \in Nat /\ Streamed(i) = sent[i]
      /\ Waiting(i) \in Nat
  BY <1>1 DEF Shown, TextOf, AMessage, Streamed, Waiting
<1>3. PICK m \in Nat, n \in [Threads -> Nat] : Balance(i, m, n)
  BY <1>1 DEF ShowInv, AccountInv
<1>4. InBoxes(n) \in Nat
  BY DEF InBoxes, Threads
<1>5. Shown(i) <= Streamed(i)
  BY <1>1, <1>2, <1>3, <1>4 DEF Balance
<1>6. ASSUME Settled, made.clears = 0
      PROVE  Shown(i) = Streamed(i)
  <2>1. m = 0 /\ \A t \in Threads : n[t] = 0
    BY <1>3, <1>6, NothingCarried DEF Balance, Settled
  <2>2. InBoxes(n) = 0
    BY <2>1 DEF InBoxes, Threads
  <2>3. Waiting(i) = 0
    BY <1>1, <1>6 DEF Waiting, Settled, Held
  <2>4. Shown(i) + m + InBoxes(n) + Waiting(i) = Streamed(i)
    BY <1>3, <1>6 DEF Balance
  <2> QED
    BY <1>2, <2>1, <2>2, <2>3, <2>4
<1> QED
  BY <1>2, <1>5, <1>6

(* With nothing under way, an end that is still to come has no place to be. *)
LEMMA EndsArrive ==
  ASSUME ShowInv
  PROVE  EndedTurnsSettle
<1> SUFFICES ASSUME Settled PROVE EndedTurnsSettle
  BY DEF EndedTurnsSettle
<1>1. /\ \A k \in 1..Len(queue) : FALSE
      /\ \A t \in Threads : \A k \in 1..Len(outbox[t]) : FALSE
  BY DEF Settled
<1>2. \A k, i : ~TurnEndComes(k, i) /\ ~ToolEndComes(k, i)
  BY <1>1 DEF TurnEndComes, ToolEndComes, Threads
<1>3. \A i \in DOMAIN sent \ {turn.id} :
        HasMessage(i) => StatusOf(i) # "active"
  BY <1>2 DEF ShowInv, EndInv, HasMessage, StatusOf
<1>4. \A i \in DOMAIN tools :
        tools[i] = "active" => i \in tasks \/ (turn.at = "tool" /\ i = turn.tool)
  BY <1>2 DEF ShowInv, ToolInv, Runs
<1> QED
  BY <1>3, <1>4 DEF EndedTurnsSettle

(* No message ever shows a delta twice, and once everything has arrived none is
   missing, whichever threads flushed the deltas (StreamingCoalescer::FlushLocked),
   in whichever order the map was drained and the threads posted; for any number of
   prompts, tools and deltas, and any agents that run beside the worker. *)
THEOREM TextsReachTheScreen ==
  ASSUME ScreenParameters
  PROVE  Spec => []AllTextShown
<1>1. Init => ShowInv
  BY ShowInit
<1>2. ShowInv /\ [Next]_vars => ShowInv'
  BY ShowStep
<1>3. ShowInv => AllTextShown
  BY TextsInBalance
<1> QED
  BY <1>1, <1>2, <1>3, PTL DEF Spec

(* Once everything has arrived no message of an ended turn is active, and no card of
   an ended agent or tool (ChatEventBridge::HandleEvent): an end is emitted by the
   thread that emitted the start, or after the start was posted. *)
THEOREM EndedTurnsShowIt ==
  ASSUME ScreenParameters
  PROVE  Spec => []EndedTurnsSettle
<1>1. Init => ShowInv
  BY ShowInit
<1>2. ShowInv /\ [Next]_vars => ShowInv'
  BY ShowStep
<1>3. ShowInv => EndedTurnsSettle
  BY EndsArrive
<1> QED
  BY <1>1, <1>2, <1>3, PTL DEF Spec

-----------------------------------------------------------------------------
(*                  WHAT IS KEPT BETWEEN TWO FRAMES                        *)

CONSTANTS MaxCards, MaxSegments, MaxText, MaxBlock, MaxChildren
VARIABLES cards, children, active, next, built, builtStale, stack, stackStale, texts,
          users, blocks

Cache == INSTANCE ScreenCache WITH MaxIds <- MaxCards, messages <- cards, tools <- blocks

CacheParameters == MaxCards \in Nat /\ MaxSegments \in Nat \ {0}

ASegment ==
  [kind : {"text"}, text : Nat]
    \cup [kind : {"tool"}, id : Nat, what : {"write", "task"}, block : Nat,
          status : {"active", "done"}]
ACard ==
  [id : Nat, sender : {"user", "agent"}, status : {"queued", "active", "done"},
   segments : Seq(ASegment)]

CardsTyped(ms, kids, nxt) ==
  /\ ms \in Seq(ACard) /\ nxt \in Nat \ {0}
  /\ DOMAIN kids = Cache!Ids
  /\ \A i \in DOMAIN ms :
       /\ ms[i].id \in Cache!Ids /\ ms[i].id < nxt
       /\ Len(ms[i].segments) <= MaxSegments
       /\ ms[i].sender = "user" =>
            1 \in DOMAIN ms[i].segments
            /\ \A j \in DOMAIN ms[i].segments : Cache!IsText(ms[i].segments[j])
  /\ \A i, j \in DOMAIN ms : ms[i].id = ms[j].id => i = j

CachesTyped(tx, us, bl) ==
  /\ DOMAIN tx = Cache!Ids /\ DOMAIN us = Cache!Ids /\ DOMAIN bl = Cache!Ids
  /\ \A id \in Cache!Ids : DOMAIN tx[id] = 1..MaxSegments

(* The tool t has its card in the segment j of the message i.               *)
ToolAt(ms, i, j, t) ==
  /\ i \in DOMAIN ms /\ j \in DOMAIN ms[i].segments
  /\ ~Cache!IsText(ms[i].segments[j]) /\ ms[i].segments[j].id = t

(* A tool has one card, and only a task has children.                       *)
CardsOfTools(ms, kids, nxt) ==
  /\ \A i, j, t : ToolAt(ms, i, j, t) =>
       /\ t \in Cache!Ids /\ t < nxt
       /\ ms[i].segments[j].what # "task" => kids[t] = <<>>
  /\ \A i, j, k, l, t : ToolAt(ms, i, j, t) /\ ToolAt(ms, k, l, t) => i = k /\ j = l
  /\ \A t \in Cache!Ids : t >= nxt => kids[t] = <<>>

(* Components that are not stale are those of the session.                  *)
PlanIsCurrent(ms, kids, c, stale) == ~stale => c = Cache!Build(ms, kids)

(* The active message is the agent's.                                       *)
ActiveIsAgent(ms, a, nxt) ==
  /\ a \in Nat /\ a < nxt
  /\ \A i \in DOMAIN ms : ms[i].id = a => ms[i].sender = "agent"

(* What a cache holds of a text, a user message and a card.                 *)
Nth(s, j) == Cache!TextsOf(SubSeq(s, 1, j))
TextCached(ms, tx) ==
  \A i \in DOMAIN ms : ms[i].sender = "agent" =>
    \A j \in DOMAIN ms[i].segments : Cache!IsText(ms[i].segments[j]) =>
      tx[ms[i].id][Nth(ms[i].segments, j)] \in {Cache!None, ms[i].segments[j].text}
UserCached(ms, us) ==
  \A i \in DOMAIN ms : ms[i].sender = "user" =>
    us[ms[i].id] \in {Cache!NoUser, <<ms[i].segments[1].text, ms[i].status>>}
ToolCached(ms, bl) ==
  \A i, j, t : ToolAt(ms, i, j, t) => bl[t] \in {Cache!None, ms[i].segments[j].block}

CacheInv ==
  /\ CardsTyped(cards, children, next)
  /\ CachesTyped(texts, users, blocks)
  /\ ActiveIsAgent(cards, active, next)
  /\ CardsOfTools(cards, children, next)
  /\ PlanIsCurrent(cards, children, built, builtStale)
  /\ PlanIsCurrent(cards, children, stack, stackStale)
  /\ TextCached(cards, texts) /\ UserCached(cards, users) /\ ToolCached(cards, blocks)

-----------------------------------------------------------------------------
(* The texts among the first n segments.                                    *)
TextsUpTo(s, n) == {k \in 1..n : Cache!IsText(s[k])}

(* The texts among the first n segments are at most n.                      *)
LEMMA TextsCounted ==
  ASSUME NEW s, NEW n \in Nat
  PROVE  /\ IsFiniteSet(TextsUpTo(s, n)) /\ Cardinality(TextsUpTo(s, n)) \in Nat
         /\ Cardinality(TextsUpTo(s, n)) <= n
<1>1. IsFiniteSet(1..n) /\ Cardinality(1..n) = n
  <2>1. IsFiniteSet(1..n) /\ Cardinality(1..n) = IF 1 > n THEN 0 ELSE n - 1 + 1
    BY FS_Interval
  <2> QED
    BY <2>1
<1>2. TextsUpTo(s, n) \subseteq 1..n
  BY DEF TextsUpTo
<1> QED
  BY <1>1, <1>2, FS_Subset, FS_CardinalityType

(* Segments of the same kinds have the same texts.                          *)
LEMMA SameTexts ==
  ASSUME NEW s, NEW r, NEW n \in Nat,
         \A k \in 1..n : Cache!IsText(s[k]) <=> Cache!IsText(r[k])
  PROVE  TextsUpTo(s, n) = TextsUpTo(r, n)
BY DEF TextsUpTo

(* A text is counted when one comes to it.                                  *)
LEMMA TextsGrow ==
  ASSUME NEW s, NEW i \in Nat, NEW j \in Nat, i < j, Cache!IsText(s[j])
  PROVE  Cardinality(TextsUpTo(s, i)) < Cardinality(TextsUpTo(s, j))
<1>1. TextsUpTo(s, i) \subseteq TextsUpTo(s, j) /\ j \in TextsUpTo(s, j) /\ j \notin TextsUpTo(s, i)
  BY DEF TextsUpTo
<1>2. /\ IsFiniteSet(TextsUpTo(s, j)) /\ Cardinality(TextsUpTo(s, j)) \in Nat
      /\ Cardinality(TextsUpTo(s, i)) \in Nat
  BY TextsCounted
<1>3. /\ Cardinality(TextsUpTo(s, i)) <= Cardinality(TextsUpTo(s, j))
      /\ Cardinality(TextsUpTo(s, i)) = Cardinality(TextsUpTo(s, j)) =>
           TextsUpTo(s, i) = TextsUpTo(s, j)
  BY <1>1, <1>2, FS_Subset
<1> QED
  BY <1>1, <1>2, <1>3

(* The cache's module counts as this one does.                              *)
LEMMA CacheCardinality == \A S : Cache!Cardinality(S) = Cardinality(S)
BY Zenon DEF Cache!Cardinality, Cardinality

(* The number of a text segment among the texts of its message.             *)
LEMMA NthIs ==
  ASSUME NEW s \in Seq(ASegment)
  PROVE  /\ \A j \in 0..Len(s) : Nth(s, j) = Cardinality(TextsUpTo(s, j))
         /\ Cache!TextsOf(s) = Cardinality(TextsUpTo(s, Len(s)))
<1>1. ASSUME NEW r \in Seq(ASegment)
      PROVE  Cache!TextsOf(r) = Cardinality(TextsUpTo(r, Len(r)))
  <2>1. DOMAIN r = 1..Len(r)
    OBVIOUS
  <2>2. {j \in DOMAIN r : Cache!IsText(r[j])} = TextsUpTo(r, Len(r))
    BY <2>1 DEF TextsUpTo
  <2>3. Cache!TextsOf(r) = Cardinality({j \in DOMAIN r : Cache!IsText(r[j])})
    BY CacheCardinality, Zenon DEF Cache!TextsOf
  <2> QED
    BY <2>2, <2>3
<1>2. ASSUME NEW j \in 0..Len(s)
      PROVE  Nth(s, j) = Cardinality(TextsUpTo(s, j))
  <2> DEFINE r == SubSeq(s, 1, j)
  <2>1. r \in Seq(ASegment) /\ Len(r) = j /\ \A k \in 1..j : r[k] = s[k]
    OBVIOUS
  <2> HIDE DEF r
  <2>2. TextsUpTo(r, j) = TextsUpTo(s, j)
    BY <2>1 DEF TextsUpTo
  <2> QED
    BY <1>1, <2>1, <2>2 DEF Nth, r
<1> QED
  BY <1>1, <1>2

(* The number of a text is its own among the texts of its message.          *)
LEMMA NthFacts ==
  ASSUME CacheParameters, NEW s \in Seq(ASegment), Len(s) <= MaxSegments
  PROVE  /\ \A j \in DOMAIN s : Cache!IsText(s[j]) => Nth(s, j) \in 1..MaxSegments
         /\ \A i, j \in DOMAIN s :
              Cache!IsText(s[i]) /\ Cache!IsText(s[j]) /\ Nth(s, i) = Nth(s, j) => i = j
         /\ \A j \in DOMAIN s : j = Len(s) => Nth(s, j) = Cache!TextsOf(s)
<1>1. DOMAIN s = 1..Len(s) /\ Len(s) \in Nat /\ DOMAIN s \subseteq Nat
  OBVIOUS
<1>2. \A j \in DOMAIN s : Nth(s, j) = Cardinality(TextsUpTo(s, j)) /\ Nth(s, j) \in Nat /\ Nth(s, j) <= j
  BY <1>1, NthIs, TextsCounted
<1>3. \A i, j \in DOMAIN s : i < j /\ Cache!IsText(s[j]) => Nth(s, i) < Nth(s, j)
  BY <1>1, <1>2, TextsGrow
<1>4. ASSUME NEW j \in DOMAIN s, Cache!IsText(s[j])
      PROVE  Nth(s, j) \in 1..MaxSegments
  <2>1. 0 \in Nat /\ j \in Nat /\ 0 < j
    BY <1>1
  <2>2. Cardinality(TextsUpTo(s, 0)) < Cardinality(TextsUpTo(s, j))
    BY <1>4, <2>1, TextsGrow
  <2>3. Cardinality(TextsUpTo(s, 0)) \in Nat
    BY TextsCounted
  <2> QED
    BY <1>1, <1>2, <2>2, <2>3 DEF CacheParameters
<1>5. \A j \in DOMAIN s : j = Len(s) => Nth(s, j) = Cache!TextsOf(s)
  BY <1>1, <1>2, NthIs
<1> QED
  BY <1>1, <1>2, <1>3, <1>4, <1>5

(* The component of a segment.                                              *)
RowsOf(kids, t) == [c \in DOMAIN kids[t] |-> kids[t][c] = Cache!Running]

(* The components of the session, message by message.                       *)
LEMMA BuiltIs ==
  ASSUME NEW ms, NEW kids
  PROVE  /\ DOMAIN Cache!Build(ms, kids) = DOMAIN ms
         /\ \A i \in DOMAIN ms :
              Cache!Build(ms, kids)[i] =
                IF ms[i].sender = "user" THEN <<>> ELSE Cache!BuildAgent(ms[i], kids)
BY DEF Cache!Build

(* The components of an agent's message, segment by segment.                *)
LEMMA BuiltParts ==
  ASSUME NEW m, NEW kids
  PROVE  /\ DOMAIN Cache!BuildAgent(m, kids) = DOMAIN m.segments
         /\ \A j \in DOMAIN m.segments :
              Cache!BuildAgent(m, kids)[j] =
                IF Cache!IsText(m.segments[j])
                THEN [kind |-> "text", at |-> j, nth |-> Nth(m.segments, j)]
                ELSE Cache!BuildTool(m.segments[j], RowsOf(kids, m.segments[j].id))
BY DEF Cache!BuildAgent, Nth, RowsOf

(* The component of a tool card.                                            *)
LEMMA ToolPart ==
  ASSUME NEW s, NEW rows
  PROVE  /\ Cache!BuildTool(s, rows).kind = "tool" /\ Cache!BuildTool(s, rows).id = s.id
         /\ Cache!BuildTool(s, rows).rows = IF s.what = "task" THEN rows ELSE <<>>
         /\ Cache!BuildTool(s, rows).peek = (s.what = "write" /\ s.status = "active")
BY DEF Cache!BuildTool

(* The next frame draws the components of the session.                      *)
LEMMA ChildrenAreBuilt ==
  ASSUME CacheInv
  PROVE  Cache!Children = Cache!Build(cards, children)
BY DEF CacheInv, PlanIsCurrent, Cache!Children

(* The card of a tool is where it is looked up.                             *)
LEMMA FindIs ==
  ASSUME CacheParameters, CardsTyped(cards, children, next), CardsOfTools(cards, children, next), NEW t
  PROVE  /\ \A i, j : ToolAt(cards, i, j, t) =>
              /\ Cache!HasToolSegment(t)
              /\ (CHOOSE p \in Cache!Places(t) : TRUE) = <<i, j>>
              /\ Cache!FindToolSegment(t) = cards[i].segments[j]
         /\ Cache!HasToolSegment(t) => \E i, j : ToolAt(cards, i, j, t)
<1>1. ASSUME NEW p \in Cache!Places(t)
      PROVE  ToolAt(cards, p[1], p[2], t) /\ p = <<p[1], p[2]>>
  <2>1. /\ p[1] \in DOMAIN cards /\ p[2] \in 1..MaxSegments /\ p = <<p[1], p[2]>>
        /\ p[2] <= Len(cards[p[1]].segments)
        /\ ~Cache!IsText(cards[p[1]].segments[p[2]]) /\ cards[p[1]].segments[p[2]].id = t
    BY DEF Cache!Places
  <2>2. \A i \in DOMAIN cards : cards[i] \in ACard
    BY DEF CardsTyped
  <2>3. cards[p[1]].segments \in Seq(ASegment)
    BY <2>1, <2>2 DEF ACard
  <2>4. p[2] \in DOMAIN cards[p[1]].segments
    BY <2>1, <2>3
  <2> QED
    BY <2>1, <2>4 DEF ToolAt
<1>2. ASSUME NEW i, NEW j, ToolAt(cards, i, j, t)
      PROVE  <<i, j>> \in Cache!Places(t)
  <2>1. i \in DOMAIN cards /\ cards[i].segments \in Seq(ASegment) /\ Len(cards[i].segments) <= MaxSegments
    <3>1. \A k \in DOMAIN cards : cards[k] \in ACard
      BY DEF CardsTyped
    <3> QED
      BY <1>2, <3>1 DEF ToolAt, CardsTyped, ACard
  <2>2. j \in 1..Len(cards[i].segments) /\ Len(cards[i].segments) \in Nat
    BY <1>2, <2>1 DEF ToolAt
  <2>3. j \in 1..MaxSegments
    BY <2>1, <2>2 DEF CacheParameters
  <2> QED
    BY <1>2, <2>1, <2>2, <2>3 DEF ToolAt, Cache!Places
<1>3. ASSUME NEW i, NEW j, ToolAt(cards, i, j, t)
      PROVE  (CHOOSE p \in Cache!Places(t) : TRUE) = <<i, j>>
  <2>1. \A p \in Cache!Places(t) : p = <<i, j>>
    BY <1>1, <1>3 DEF CardsOfTools
  <2> QED
    BY <1>2, <1>3, <2>1
<1>4. ASSUME NEW i, NEW j, ToolAt(cards, i, j, t)
      PROVE  Cache!HasToolSegment(t) /\ Cache!FindToolSegment(t) = cards[i].segments[j]
  <2> DEFINE q == CHOOSE p \in Cache!Places(t) : TRUE
  <2>1. q = <<i, j>>
    BY <1>3, <1>4
  <2>2. Cache!FindToolSegment(t) = cards[q[1]].segments[q[2]]
    BY DEF Cache!FindToolSegment
  <2> HIDE DEF q
  <2>3. q[1] = i /\ q[2] = j
    BY <2>1
  <2>4. Cache!HasToolSegment(t)
    BY <1>2, <1>4 DEF Cache!HasToolSegment
  <2> QED
    BY <2>2, <2>3, <2>4
<1>5. Cache!HasToolSegment(t) => \E i, j : ToolAt(cards, i, j, t)
  BY <1>1 DEF Cache!HasToolSegment
<1> QED
  BY <1>3, <1>4, <1>5

(* What is drawn of a message.                                              *)
LEMMA TextDrawn ==
  ASSUME CacheInv, NEW i \in DOMAIN cards, cards[i].sender = "agent",
         NEW j \in DOMAIN cards[i].segments, Cache!IsText(cards[i].segments[j]),
         NEW part, part = [kind |-> "text", at |-> j, nth |-> Nth(cards[i].segments, j)]
  PROVE  Cache!DrawnText(cards[i], part) = cards[i].segments[j].text
<1>1. texts[cards[i].id][part.nth] \in {Cache!None, cards[i].segments[j].text} /\ part.at = j
  BY DEF CacheInv, TextCached
<1> QED
  BY <1>1 DEF Cache!DrawnText

(* A tool card is drawn with its block.                                     *)
LEMMA BlockDrawn ==
  ASSUME CacheParameters, CacheInv, NEW i, NEW j, NEW t, ToolAt(cards, i, j, t)
  PROVE  Cache!DrawnBlock(t) = cards[i].segments[j].block /\ Cache!HasToolSegment(t)
<1>0. CardsTyped(cards, children, next) /\ CardsOfTools(cards, children, next)
  BY DEF CacheInv
<1>1. Cache!FindToolSegment(t) = cards[i].segments[j] /\ Cache!HasToolSegment(t)
  BY <1>0, FindIs
<1>2. blocks[t] \in {Cache!None, cards[i].segments[j].block}
  BY DEF CacheInv, ToolCached
<1> QED
  BY <1>1, <1>2 DEF Cache!DrawnBlock

(* A user's message is drawn with its text and its status.                  *)
LEMMA UserDrawn ==
  ASSUME CacheInv, NEW i \in DOMAIN cards, cards[i].sender = "user"
  PROVE  Cache!DrawnUser(cards[i]) = <<cards[i].segments[1].text, cards[i].status>>
<1>1. users[cards[i].id] \in {Cache!NoUser, <<cards[i].segments[1].text, cards[i].status>>}
  BY DEF CacheInv, UserCached
<1> QED
  BY <1>1 DEF Cache!DrawnUser

(* A component is drawn as its segment is now.                              *)
LEMMA PartDrawn ==
  ASSUME CacheParameters, CacheInv, NEW i \in DOMAIN cards, cards[i].sender = "agent",
         NEW j \in DOMAIN cards[i].segments
  PROVE  Cache!DrawnPart(cards[i], Cache!BuildAgent(cards[i], children)[j]) =
           Cache!FreshPart(cards[i].segments[j])
<1> DEFINE m == cards[i]
           s == m.segments[j]
           part == Cache!BuildAgent(m, children)[j]
<1>1. m.segments \in Seq(ASegment)
  <2>1. \A k \in DOMAIN cards : cards[k] \in ACard
    BY DEF CacheInv, CardsTyped
  <2> QED
    BY <2>1 DEF ACard
<1>2. CASE Cache!IsText(s)
  <2>1. part = [kind |-> "text", at |-> j, nth |-> Nth(m.segments, j)]
    BY <1>2, BuiltParts
  <2>2. Cache!DrawnText(m, part) = s.text
    BY <1>2, <2>1, TextDrawn
  <2>3. part.kind = "text" /\ part.at = j
    BY <2>1
  <2>4. ~(part.at > Len(m.segments))
    BY <1>1, <2>3
  <2> HIDE DEF part, m
  <2>5. Cache!DrawnPart(m, part) = Cache!FreshPart(s)
    BY <1>2, <2>2, <2>3, <2>4 DEF Cache!DrawnPart, Cache!FreshPart
  <2> QED
    BY <2>5 DEF part, m
<1>3. CASE ~Cache!IsText(s)
  <2> DEFINE t == s.id
  <2>1. ToolAt(cards, i, j, t)
    BY <1>3 DEF ToolAt
  <2>2. Cache!DrawnBlock(t) = s.block /\ Cache!HasToolSegment(t)
    BY <2>1, BlockDrawn
  <2>3. part = Cache!BuildTool(s, RowsOf(children, t))
    BY <1>3, BuiltParts
  <2>4. /\ part.kind = "tool" /\ part.id = t
        /\ part.rows = IF s.what = "task" THEN RowsOf(children, t) ELSE <<>>
        /\ part.peek = (s.what = "write" /\ s.status = "active")
    BY <2>3, ToolPart
  <2>5. s.what # "task" => children[t] = <<>>
    BY <2>1 DEF CacheInv, CardsOfTools
  <2>6. part.rows = RowsOf(children, t)
    <3>1. children[t] = <<>> => RowsOf(children, t) = <<>>
      BY DEF RowsOf
    <3> QED
      BY <2>4, <2>5, <3>1
  <2> DEFINE drawn == [r \in DOMAIN part.rows |-> <<children[part.id][r], part.rows[r]>>]
             fresh == [c \in DOMAIN children[t] |->
                         <<children[t][c], children[t][c] = Cache!Running>>]
  <2> HIDE DEF part
  <2>7. drawn = fresh
    BY <2>4, <2>6 DEF RowsOf
  <2>8. Cache!DrawnPart(m, part) = <<"tool", Cache!DrawnBlock(part.id), part.peek, drawn>>
    BY <2>2, <2>4, Zenon DEF Cache!DrawnPart
  <2>9. Cache!FreshPart(s) =
          <<"tool", s.block, s.what = "write" /\ s.status = "active", fresh>>
    BY <1>3 DEF Cache!FreshPart
  <2> HIDE DEF drawn, fresh
  <2>10. Cache!DrawnPart(m, part) = Cache!FreshPart(s)
    BY <2>2, <2>4, <2>7, <2>8, <2>9
  <2> QED
    BY <2>10 DEF part
<1> QED
  BY <1>2, <1>3

(* With that, what is drawn is the session.                                 *)
LEMMA InvShows ==
  ASSUME CacheParameters, CacheInv
  PROVE  Cache!ShowsTheSession
<1> DEFINE C == Cache!Build(cards, children)
<1>1. Cache!Children = C /\ DOMAIN C = DOMAIN cards
  BY ChildrenAreBuilt, BuiltIs
<1>2. ASSUME NEW i \in DOMAIN cards, cards[i].sender # "user"
      PROVE  cards[i].sender = "agent"
  <2>1. \A k \in DOMAIN cards : cards[k] \in ACard
    BY DEF CacheInv, CardsTyped
  <2> QED
    BY <1>2, <2>1 DEF ACard
<1>3. ASSUME NEW i \in DOMAIN cards, cards[i].sender # "user"
      PROVE  [j \in DOMAIN C[i] |-> Cache!DrawnPart(cards[i], C[i][j])] =
               [j \in DOMAIN cards[i].segments |-> Cache!FreshPart(cards[i].segments[j])]
  <2>1. C[i] = Cache!BuildAgent(cards[i], children)
    BY <1>3, BuiltIs
  <2>2. DOMAIN C[i] = DOMAIN cards[i].segments
    BY <2>1, BuiltParts
  <2> HIDE DEF C
  <2>3. \A j \in DOMAIN cards[i].segments :
          Cache!DrawnPart(cards[i], C[i][j]) = Cache!FreshPart(cards[i].segments[j])
    BY <1>2, <1>3, <2>1, PartDrawn
  <2> QED
    BY <2>2, <2>3
<1> HIDE DEF C
<1>4. \A i \in DOMAIN cards : cards[i].sender = "user" =>
        Cache!DrawnUser(cards[i]) = <<cards[i].segments[1].text, cards[i].status>>
  BY UserDrawn
<1>5. Cache!Drawn = [i \in DOMAIN cards |->
            IF cards[i].sender = "user" THEN Cache!DrawnUser(cards[i])
            ELSE [j \in DOMAIN C[i] |-> Cache!DrawnPart(cards[i], C[i][j])]]
  BY <1>1, Zenon DEF Cache!Drawn
<1>6. Cache!Drawn = Cache!Fresh
  BY <1>3, <1>4, <1>5 DEF Cache!Fresh
<1> QED
  BY <1>6 DEF Cache!ShowsTheSession

-----------------------------------------------------------------------------
(* The messages the steps leave.                                            *)
LEMMA CardTypes ==
  ASSUME NEW ms \in Seq(ACard), NEW i \in DOMAIN ms
  PROVE  /\ ms[i] \in ACard /\ ms[i].segments \in Seq(ASegment)
         /\ ms[i].sender \in {"user", "agent"}
         /\ ms[i].status \in {"queued", "active", "done"}
         /\ Len(ms[i].segments) \in Nat
         /\ DOMAIN ms[i].segments = 1..Len(ms[i].segments)
<1>1. ms[i] \in ACard
  OBVIOUS
<1> QED
  BY <1>1 DEF ACard

(* A segment is a text or a tool.                                           *)
LEMMA TextSegment ==
  ASSUME NEW n \in Nat
  PROVE  Cache!Text(n) \in ASegment /\ Cache!IsText(Cache!Text(n)) /\ Cache!Text(n).text = n
BY DEF Cache!Text, Cache!IsText, ASegment

(* A new tool is a segment, and no text.                                    *)
LEMMA ToolSegment ==
  ASSUME NEW t \in Nat, NEW what \in {"write", "task"}, NEW status \in {"active", "done"}
  PROVE  /\ Cache!Tool(t, what, status) \in ASegment
         /\ ~Cache!IsText(Cache!Tool(t, what, status))
         /\ Cache!Tool(t, what, status).id = t /\ Cache!Tool(t, what, status).what = what
BY DEF Cache!Tool, Cache!IsText, ASegment

(* The fields of a text.                                                    *)
LEMMA ATextIs ==
  ASSUME NEW s \in ASegment, Cache!IsText(s)
  PROVE  s.text \in Nat /\ s = [kind |-> "text", text |-> s.text] /\ s.kind = "text"
BY DEF Cache!IsText, ASegment

(* The fields of a tool.                                                    *)
LEMMA AToolIs ==
  ASSUME NEW s \in ASegment, ~Cache!IsText(s)
  PROVE  /\ s.id \in Nat /\ s.block \in Nat /\ s.what \in {"write", "task"}
         /\ s = [kind |-> "tool", id |-> s.id, what |-> s.what, block |-> s.block,
                 status |-> s.status]
BY DEF Cache!IsText, ASegment

(* One message more.                                                        *)
LEMMA CardAdded ==
  ASSUME NEW ms, NEW kids, NEW nxt, CardsTyped(ms, kids, nxt), NEW m \in ACard,
         m.id \in Cache!Ids, m.id >= nxt, NEW nr \in Nat, m.id < nr,
         Len(m.segments) <= MaxSegments,
         m.sender = "user" =>
           1 \in DOMAIN m.segments /\ \A j \in DOMAIN m.segments : Cache!IsText(m.segments[j])
  PROVE  /\ CardsTyped(Append(ms, m), kids, nr)
         /\ Len(ms) + 1 \in DOMAIN Append(ms, m) /\ Append(ms, m)[Len(ms) + 1] = m
         /\ \A i \in DOMAIN Append(ms, m) :
              (i \in DOMAIN ms /\ Append(ms, m)[i] = ms[i]) \/ (i = Len(ms) + 1 /\ Append(ms, m)[i] = m)
<1> DEFINE mr == Append(ms, m)
           n == Len(ms)
<1>1. ms \in Seq(ACard) /\ n \in Nat /\ DOMAIN ms = 1..n
  BY DEF CardsTyped
<1>2. /\ mr \in Seq(ACard) /\ DOMAIN mr = 1..(n + 1) /\ mr[n + 1] = m
      /\ \A i \in 1..n : mr[i] = ms[i]
  BY <1>1
<1> HIDE DEF mr, n
<1>3. \A i \in DOMAIN mr : (i \in DOMAIN ms /\ mr[i] = ms[i]) \/ (i = n + 1 /\ mr[i] = m)
  BY <1>1, <1>2
<1>4. m.id \in Nat /\ nxt \in Nat /\ nr \in Nat \ {0}
  BY DEF Cache!Ids, CardsTyped
<1>5. \A i \in DOMAIN ms : ms[i].id \in Nat /\ ms[i].id # m.id /\ ms[i].id < nr
  <2>1. \A i \in DOMAIN ms : ms[i].id \in Nat /\ ms[i].id < nxt
    BY DEF CardsTyped, Cache!Ids
  <2> QED
    BY <1>4, <2>1
<1>6. \A i, j \in DOMAIN mr : mr[i].id = mr[j].id => i = j
  BY <1>3, <1>5 DEF CardsTyped
<1>7. \A i \in DOMAIN mr :
       /\ mr[i].id \in Cache!Ids /\ mr[i].id < nr
       /\ Len(mr[i].segments) <= MaxSegments
       /\ mr[i].sender = "user" =>
            1 \in DOMAIN mr[i].segments
            /\ \A j \in DOMAIN mr[i].segments : Cache!IsText(mr[i].segments[j])
  BY <1>3, <1>5 DEF CardsTyped
<1>8. CardsTyped(mr, kids, nr)
  BY <1>2, <1>4, <1>6, <1>7 DEF CardsTyped
<1>9. n + 1 \in DOMAIN mr
  BY <1>1, <1>2
<1> QED
  BY <1>2, <1>3, <1>8, <1>9 DEF mr, n

(* One message changed.                                                     *)
LEMMA CardChanged ==
  ASSUME NEW ms, NEW kids, NEW nxt, CardsTyped(ms, kids, nxt), NEW i \in DOMAIN ms,
         NEW m \in ACard, m.id = ms[i].id, m.sender = ms[i].sender,
         NEW nr \in Nat, nxt <= nr,
         Len(m.segments) <= MaxSegments,
         m.sender = "user" => m.segments = ms[i].segments,
         NEW kr, DOMAIN kr = Cache!Ids,
         NEW mr, mr = [ms EXCEPT ![i] = m]
  PROVE  /\ CardsTyped(mr, kr, nr)
         /\ DOMAIN mr = DOMAIN ms /\ mr[i] = m
         /\ \A k \in DOMAIN ms : k # i => mr[k] = ms[k]
<1>1. ms \in Seq(ACard) /\ nxt \in Nat \ {0}
  BY DEF CardsTyped
<1>2. /\ mr \in Seq(ACard) /\ DOMAIN mr = DOMAIN ms /\ mr[i] = m
      /\ \A k \in DOMAIN ms : k # i => mr[k] = ms[k]
  BY <1>1
<1>3. \A k \in DOMAIN ms : ms[k].id \in Nat /\ ms[k].id < nr
  <2>1. \A k \in DOMAIN ms : ms[k].id \in Nat /\ ms[k].id < nxt
    BY DEF CardsTyped, Cache!Ids
  <2> QED
    BY <1>1, <2>1
<1>4. \A k, j \in DOMAIN mr : mr[k].id = mr[j].id => k = j
  BY <1>2 DEF CardsTyped
<1>5. \A k \in DOMAIN mr :
       /\ mr[k].id \in Cache!Ids /\ mr[k].id < nr
       /\ Len(mr[k].segments) <= MaxSegments
       /\ mr[k].sender = "user" =>
            1 \in DOMAIN mr[k].segments
            /\ \A j \in DOMAIN mr[k].segments : Cache!IsText(mr[k].segments[j])
  BY <1>2, <1>3 DEF CardsTyped
<1> QED
  BY <1>1, <1>2, <1>4, <1>5 DEF CardsTyped

(* No tool more, or one that is new.                                        *)
LEMMA ToolsStay ==
  ASSUME NEW ms, NEW kids, NEW nxt \in Nat, CardsOfTools(ms, kids, nxt),
         NEW mr, NEW nr \in Nat, nxt <= nr,
         NEW S \in SUBSET Cache!Ids, \A t \in S : nxt <= t /\ t < nr,
         \A i, j, t : ToolAt(mr, i, j, t) =>
           \/ ToolAt(ms, i, j, t) /\ mr[i].segments[j].what = ms[i].segments[j].what
           \/ t \in S,
         \A t \in S : \A i, j, k, l : ToolAt(mr, i, j, t) /\ ToolAt(mr, k, l, t) => i = k /\ j = l
  PROVE  CardsOfTools(mr, kids, nr)
<1>1. \A i, j, t : ToolAt(ms, i, j, t) => t \in Nat /\ t < nxt
  BY DEF CardsOfTools, Cache!Ids
<1>2. ASSUME NEW i, NEW j, NEW t, ToolAt(mr, i, j, t)
      PROVE  /\ t \in Cache!Ids /\ t < nr
             /\ mr[i].segments[j].what # "task" => kids[t] = <<>>
  <2>1. CASE ToolAt(ms, i, j, t) /\ mr[i].segments[j].what = ms[i].segments[j].what
    <3>1. t \in Cache!Ids /\ t < nr
      BY <1>1, <2>1 DEF CardsOfTools
    <3> QED
      BY <2>1, <3>1 DEF CardsOfTools
  <2>2. CASE t \in S
    <3>1. t \in Cache!Ids /\ t < nr /\ t >= nxt
      BY <2>2 DEF Cache!Ids
    <3> QED
      BY <3>1 DEF CardsOfTools
  <2> QED
    BY <1>2, <2>1, <2>2
<1>3. ASSUME NEW i, NEW j, NEW k, NEW l, NEW t, ToolAt(mr, i, j, t), ToolAt(mr, k, l, t)
      PROVE  i = k /\ j = l
  <2>1. CASE t \in S
    BY <1>3, <2>1
  <2>2. CASE t \notin S
    BY <1>3, <2>2 DEF CardsOfTools
  <2> QED
    BY <2>1, <2>2
<1>4. \A t \in Cache!Ids : t >= nr => kids[t] = <<>>
  <2>1. \A t \in Cache!Ids : t >= nr => t >= nxt
    BY DEF Cache!Ids
  <2> QED
    BY <2>1 DEF CardsOfTools
<1> QED
  BY <1>2, <1>3, <1>4 DEF CardsOfTools

(* The tools that are left are as they were.                                *)
LEMMA ToolsUnmoved ==
  ASSUME NEW ms, NEW kids, NEW nxt \in Nat, CardsOfTools(ms, kids, nxt),
         NEW bl, ToolCached(ms, bl), NEW mr, NEW nr \in Nat, nxt <= nr,
         \A i, j, t : ToolAt(mr, i, j, t) =>
           ToolAt(ms, i, j, t) /\ mr[i].segments[j] = ms[i].segments[j]
  PROVE  CardsOfTools(mr, kids, nr) /\ ToolCached(mr, bl)
<1>1. ASSUME NEW i, NEW j, NEW t, ToolAt(mr, i, j, t)
      PROVE  bl[t] \in {Cache!None, mr[i].segments[j].block}
  <2>1. ToolAt(ms, i, j, t) /\ mr[i].segments[j] = ms[i].segments[j]
    BY <1>1
  <2>2. bl[t] \in {Cache!None, ms[i].segments[j].block}
    BY <2>1 DEF ToolCached
  <2> QED
    BY <2>1, <2>2
<1>2. ToolCached(mr, bl)
  BY <1>1 DEF ToolCached
<1> DEFINE none == {}
<1>3. ASSUME NEW i, NEW j, NEW t, ToolAt(mr, i, j, t)
      PROVE  \/ ToolAt(ms, i, j, t) /\ mr[i].segments[j].what = ms[i].segments[j].what
             \/ t \in none
  <2>1. ToolAt(ms, i, j, t) /\ mr[i].segments[j] = ms[i].segments[j]
    BY <1>3
  <2> QED
    BY <2>1
<1>4. /\ none \in SUBSET Cache!Ids /\ \A t \in none : nxt <= t /\ t < nr
      /\ \A t \in none : \A i, j, k, l : ToolAt(mr, i, j, t) /\ ToolAt(mr, k, l, t) => i = k /\ j = l
  OBVIOUS
<1> HIDE DEF none
<1>5. CardsOfTools(mr, kids, nr)
  BY <1>3, <1>4, ToolsStay
<1> QED
  BY <1>2, <1>5

(* Texts that changed do not change the components.                         *)
LEMMA BuildSame ==
  ASSUME NEW ms \in Seq(ACard), NEW mr \in Seq(ACard), NEW kids,
         DOMAIN mr = DOMAIN ms,
         \A i \in DOMAIN ms :
           /\ mr[i].sender = ms[i].sender
           /\ DOMAIN mr[i].segments = DOMAIN ms[i].segments
           /\ \A j \in DOMAIN ms[i].segments :
                /\ Cache!IsText(mr[i].segments[j]) <=> Cache!IsText(ms[i].segments[j])
                /\ ~Cache!IsText(ms[i].segments[j]) => mr[i].segments[j] = ms[i].segments[j]
  PROVE  Cache!Build(mr, kids) = Cache!Build(ms, kids)
<1>1. ASSUME NEW i \in DOMAIN ms
      PROVE  Cache!BuildAgent(mr[i], kids) = Cache!BuildAgent(ms[i], kids)
  <2> DEFINE s == ms[i].segments
             r == mr[i].segments
  <2>1. s \in Seq(ASegment) /\ r \in Seq(ASegment) /\ DOMAIN s = DOMAIN r
    BY CardTypes
  <2>2. \A j \in DOMAIN s : /\ Cache!IsText(r[j]) <=> Cache!IsText(s[j])
                            /\ ~Cache!IsText(s[j]) => r[j] = s[j]
    BY <1>1
  <2> HIDE DEF s, r
  <2>3. ASSUME NEW j \in DOMAIN s
        PROVE  Nth(r, j) = Nth(s, j)
    <3>1. Len(r) = Len(s) /\ DOMAIN s = 1..Len(s) /\ j \in 0..Len(s) /\ j \in Nat
      BY <2>1
    <3>2. \A k \in 1..j : k \in DOMAIN s
      BY <3>1
    <3>3. TextsUpTo(r, j) = TextsUpTo(s, j)
      BY <2>2, <3>1, <3>2, SameTexts
    <3> QED
      BY <2>1, <3>1, <3>3, NthIs
  <2> DEFINE Part(q, j) == IF Cache!IsText(q[j])
                           THEN [kind |-> "text", at |-> j, nth |-> Nth(q, j)]
                           ELSE Cache!BuildTool(q[j], RowsOf(kids, q[j].id))
  <2>4. /\ Cache!BuildAgent(mr[i], kids) = [j \in DOMAIN r |-> Part(r, j)]
        /\ Cache!BuildAgent(ms[i], kids) = [j \in DOMAIN s |-> Part(s, j)]
    BY DEF Cache!BuildAgent, Nth, RowsOf, s, r
  <2>5. \A j \in DOMAIN s : Part(r, j) = Part(s, j)
    BY <2>2, <2>3
  <2> HIDE DEF Part
  <2> QED
    BY <2>1, <2>4, <2>5
<1>2. Cache!Build(mr, kids) = [i \in DOMAIN ms |->
        IF mr[i].sender = "user" THEN <<>> ELSE Cache!BuildAgent(mr[i], kids)]
  BY DEF Cache!Build
<1>3. Cache!Build(ms, kids) = [i \in DOMAIN ms |->
        IF ms[i].sender = "user" THEN <<>> ELSE Cache!BuildAgent(ms[i], kids)]
  BY DEF Cache!Build
<1> QED
  BY <1>1, <1>2, <1>3

-----------------------------------------------------------------------------
(* The steps.                                                               *)
LEMMA CacheInit ==
  ASSUME CacheParameters, Cache!Init
  PROVE  CacheInv
<1>1. cards = <<>> /\ cards \in Seq(ACard) /\ DOMAIN cards = {} /\ next = 1
      /\ builtStale = TRUE /\ stackStale = TRUE
  BY DEF Cache!Init
<1>2. \A i, j, t : ~ToolAt(cards, i, j, t)
  BY <1>1 DEF ToolAt
<1>3. \A t \in Cache!Ids : children[t] = <<>>
  BY DEF Cache!Init
<1>4. CardsTyped(cards, children, next)
  BY <1>1 DEF CardsTyped, Cache!Init
<1>5. CachesTyped(texts, users, blocks)
  BY DEF CachesTyped, Cache!Init, Cache!NoTexts
<1>6. CardsOfTools(cards, children, next)
  BY <1>2, <1>3 DEF CardsOfTools
<1>7. PlanIsCurrent(cards, children, built, builtStale)
      /\ PlanIsCurrent(cards, children, stack, stackStale)
  BY <1>1 DEF PlanIsCurrent
<1>8. TextCached(cards, texts) /\ UserCached(cards, users) /\ ToolCached(cards, blocks)
  BY <1>1, <1>2 DEF TextCached, UserCached, ToolCached
<1>9. ActiveIsAgent(cards, active, next)
  BY <1>1 DEF ActiveIsAgent, Cache!Init, Cache!Nobody
<1> QED
  BY <1>4, <1>5, <1>6, <1>7, <1>8, <1>9 DEF CacheInv

(* The parts that show the k-th text of a message.                          *)
LEMMA PartOfIs ==
  ASSUME CacheParameters, CacheInv, NEW i \in DOMAIN cards, cards[i].sender = "agent",
         NEW j \in DOMAIN cards[i].segments, Cache!IsText(cards[i].segments[j]),
         NEW k, k = Nth(cards[i].segments, j)
  PROVE  Cache!PartOf(i, k) = {[kind |-> "text", at |-> j, nth |-> k]}
<1> DEFINE s == cards[i].segments
           C == Cache!BuildAgent(cards[i], children)
           part == [kind |-> "text", at |-> j, nth |-> k]
<1>1. Cache!Children[i] = C
  BY ChildrenAreBuilt, BuiltIs
<1>2. DOMAIN C = DOMAIN s
      /\ \A l \in DOMAIN s : C[l] = IF Cache!IsText(s[l])
                                    THEN [kind |-> "text", at |-> l, nth |-> Nth(s, l)]
                                    ELSE Cache!BuildTool(s[l], RowsOf(children, s[l].id))
  BY BuiltParts
<1>3. s \in Seq(ASegment) /\ Len(s) <= MaxSegments
  BY CardTypes DEF CacheInv, CardsTyped
<1>4. \A l \in DOMAIN s : Cache!IsText(s[l]) /\ Nth(s, l) = k => l = j
  BY <1>3, NthFacts
<1>5. Cache!PartOf(i, k) = {p \in {C[l] : l \in DOMAIN s} : p.kind = "text" /\ p.nth = k}
  BY <1>1, <1>2 DEF Cache!PartOf, Cache!Range
<1>6. C[j] = part /\ j \in DOMAIN s /\ part.kind = "text" /\ part.nth = k
  BY <1>2
<1> HIDE DEF C, s
<1>7. \A l \in DOMAIN s : Cache!IsText(s[l]) => C[l].nth = Nth(s, l)
  BY <1>2
<1>8. \A l \in DOMAIN s : ~Cache!IsText(s[l]) => C[l].kind = "tool"
  BY <1>2, ToolPart
<1> HIDE DEF part
<1>9. \A l \in DOMAIN s : C[l].kind = "text" /\ C[l].nth = k => C[l] = part
  BY <1>4, <1>6, <1>7, <1>8
<1> QED
  BY <1>5, <1>6, <1>9 DEF part

(* A frame keeps what it drew.                                              *)
LEMMA FrameStep ==
  ASSUME CacheParameters, CacheInv, Cache!Frame
  PROVE  CacheInv'
<1>1. cards' = cards /\ children' = children /\ active' = active /\ next' = next
  BY DEF Cache!Frame, Cache!session
<1>2. CardsTyped(cards', children', next') /\ CardsOfTools(cards', children', next')
      /\ ActiveIsAgent(cards', active', next')
  BY <1>1 DEF CacheInv
<1>3. /\ PlanIsCurrent(cards', children', built', builtStale')
      /\ PlanIsCurrent(cards', children', stack', stackStale')
  BY <1>1, ChildrenAreBuilt DEF Cache!Frame, CacheInv, PlanIsCurrent
<1>4. CachesTyped(texts', users', blocks')
  BY DEF Cache!Frame, CachesTyped
<1>5. \A i \in DOMAIN cards : cards[i].id \in Cache!Ids /\ Cache!Messages(cards[i].id) = {i}
  BY DEF CacheInv, CardsTyped, Cache!Messages
<1>6. ASSUME NEW i \in DOMAIN cards, cards[i].sender = "agent",
             NEW j \in DOMAIN cards[i].segments, Cache!IsText(cards[i].segments[j])
      PROVE  texts'[cards[i].id][Nth(cards[i].segments, j)] = cards[i].segments[j].text
  <2> DEFINE id == cards[i].id
             k == Nth(cards[i].segments, j)
             part == [kind |-> "text", at |-> j, nth |-> k]
             shown == {l \in Cache!Messages(id) :
                         cards[l].sender = "agent" /\ Cache!PartOf(l, k) # {}}
  <2>1. k \in 1..MaxSegments /\ id \in Cache!Ids
    BY <1>5, <1>6, CardTypes, NthFacts DEF CacheInv, CardsTyped
  <2>2. Cache!PartOf(i, k) = {part}
    BY <1>6, PartOfIs
  <2>3. Cache!DrawnText(cards[i], part) = cards[i].segments[j].text
    BY <1>6, TextDrawn
  <2>4. texts'[id][k] = IF shown = {} THEN texts[id][k]
                        ELSE LET l == CHOOSE l \in shown : TRUE IN
                             Cache!DrawnText(cards[l], CHOOSE p \in Cache!PartOf(l, k) : TRUE)
    BY <2>1 DEF Cache!Frame
  <2> HIDE DEF part
  <2>5. shown = {i}
    BY <1>5, <1>6, <2>2
  <2> HIDE DEF shown, k
  <2>6. (CHOOSE l \in shown : TRUE) = i /\ (CHOOSE p \in Cache!PartOf(i, k) : TRUE) = part
    BY <2>2, <2>5
  <2>7. texts'[id][k] = Cache!DrawnText(cards[i], part)
    BY <2>4, <2>5, <2>6
  <2> QED
    BY <2>3, <2>7 DEF k
<1>7. ASSUME NEW i \in DOMAIN cards, cards[i].sender = "user"
      PROVE  users'[cards[i].id] = <<cards[i].segments[1].text, cards[i].status>>
  <2>1. cards[i].id \in Cache!Ids /\ Cache!Messages(cards[i].id) = {i}
    BY <1>5
  <2>2. users'[cards[i].id] = Cache!DrawnUser(cards[CHOOSE l \in Cache!Messages(cards[i].id) : TRUE])
    BY <1>7, <2>1 DEF Cache!Frame
  <2>3. (CHOOSE l \in Cache!Messages(cards[i].id) : TRUE) = i
    BY <2>1
  <2> QED
    BY <1>7, <2>2, <2>3, UserDrawn
<1>8. ASSUME NEW i, NEW j, NEW t, ToolAt(cards, i, j, t)
      PROVE  blocks'[t] \in {Cache!None, cards[i].segments[j].block}
  <2>1. t \in Cache!Ids /\ blocks[t] \in {Cache!None, cards[i].segments[j].block}
    BY <1>8 DEF CacheInv, CardsOfTools, ToolCached
  <2>2. Cache!DrawnBlock(t) = cards[i].segments[j].block
    BY <1>8, BlockDrawn
  <2> QED
    BY <2>1, <2>2 DEF Cache!Frame
<1>9. TextCached(cards', texts') /\ UserCached(cards', users') /\ ToolCached(cards', blocks')
  BY <1>1, <1>6, <1>7, <1>8 DEF TextCached, UserCached, ToolCached
<1> QED
  BY <1>2, <1>3, <1>4, <1>9 DEF CacheInv

(* A message more of one text: what is kept for its id is dropped.          *)
LEMMA AddMessageStep ==
  ASSUME CacheParameters, CacheInv, NEW sender \in {"user", "agent"}, NEW content \in Nat,
         NEW status \in {"queued", "active", "done"},
         Cache!AddMessageWithId(sender, content, status)
  PROVE  CacheInv'
<1> DEFINE m == Cache!Message(next, sender, status, <<Cache!Text(content)>>)
           segment == Cache!Text(content)
           n == Len(cards)
<1>1. /\ next \in Cache!Ids /\ next' = next + 1 /\ children' = children
      /\ cards' = Append(cards, m)
      /\ active' = IF sender = "agent" /\ status = "active" THEN next ELSE active
      /\ texts' = [texts EXCEPT ![next] = Cache!NoTexts]
      /\ users' = [users EXCEPT ![next] = Cache!NoUser]
      /\ stackStale' = TRUE /\ blocks' = blocks
      /\ built' = Cache!Build(cards', children') /\ builtStale' = FALSE
  BY DEF Cache!AddMessageWithId, Cache!Synced
<1>2. segment \in ASegment /\ Cache!IsText(segment)
  BY TextSegment
<1>3. /\ m.id = next /\ m.sender = sender /\ m.status = status /\ m.segments = <<segment>>
      /\ m = [id |-> next, sender |-> sender, status |-> status, segments |-> <<segment>>]
  BY DEF Cache!Message
<1>4. next \in Nat
  BY <1>1 DEF Cache!Ids
<1> HIDE DEF segment
<1>5. /\ <<segment>> \in Seq(ASegment) /\ Len(<<segment>>) = 1
      /\ DOMAIN <<segment>> = {1} /\ <<segment>>[1] = segment
  BY <1>2
<1>6. m \in ACard
  BY <1>3, <1>4, <1>5 DEF ACard
<1> HIDE DEF m
<1>7. /\ DOMAIN m.segments = {1} /\ Cache!IsText(m.segments[1]) /\ Len(m.segments) <= MaxSegments
  <2>1. 1 <= MaxSegments
    BY DEF CacheParameters
  <2>2. m.segments = <<segment>>
    BY <1>3
  <2> QED
    BY <1>2, <1>5, <2>1, <2>2
<1>8. /\ CardsTyped(cards', children', next')
      /\ \A i \in DOMAIN cards' :
           (i \in DOMAIN cards /\ cards'[i] = cards[i]) \/ (i = n + 1 /\ cards'[i] = m)
  <2>1. next + 1 \in Nat /\ m.id < next + 1 /\ m.id >= next /\ m.id \in Cache!Ids
    BY <1>1, <1>3, <1>4
  <2>2. CardsTyped(cards, children, next)
    BY DEF CacheInv
  <2> QED
    BY <1>1, <1>6, <1>7, <2>1, <2>2, CardAdded
<1>9. \A i \in DOMAIN cards : cards[i].id # next /\ cards[i].id < next /\ cards[i].id \in Cache!Ids
  BY DEF CacheInv, CardsTyped, Cache!Ids
<1>10. ActiveIsAgent(cards', active', next')
  <2>1. active \in Nat /\ active < next /\ next \in Nat
    BY <1>4 DEF CacheInv, ActiveIsAgent
  <2>2. active' \in Nat /\ active' < next'
    BY <1>1, <2>1
  <2> SUFFICES ASSUME NEW i \in DOMAIN cards', cards'[i].id = active'
               PROVE  cards'[i].sender = "agent"
    BY <2>2 DEF ActiveIsAgent
  <2>3. CASE i \in DOMAIN cards /\ cards'[i] = cards[i]
    <3>1. active' = active
      BY <1>1, <1>9, <2>3
    <3> QED
      BY <2>3, <3>1 DEF CacheInv, ActiveIsAgent
  <2>4. CASE i = n + 1 /\ cards'[i] = m
    <3>1. next # active
      BY <2>1
    <3> QED
      BY <1>1, <1>3, <2>4, <3>1
  <2> QED
    BY <1>8, <2>3, <2>4
<1>11. \A i, j, t : ToolAt(cards', i, j, t) =>
         ToolAt(cards, i, j, t) /\ cards'[i].segments[j] = cards[i].segments[j]
  BY <1>7, <1>8 DEF ToolAt
<1>12. CardsOfTools(cards', children', next') /\ ToolCached(cards', blocks')
  <2>1. /\ next \in Nat /\ next' \in Nat /\ next <= next'
        /\ CardsOfTools(cards, children, next) /\ ToolCached(cards, blocks)
    BY <1>1, <1>4 DEF CacheInv
  <2>2. CardsOfTools(cards', children, next') /\ ToolCached(cards', blocks)
    BY <1>11, <2>1, ToolsUnmoved
  <2> QED
    BY <1>1, <2>2
<1>14. CachesTyped(texts', users', blocks')
  BY <1>1 DEF CacheInv, CachesTyped, Cache!NoTexts
<1>15. TextCached(cards', texts')
  <2> SUFFICES ASSUME NEW i \in DOMAIN cards', cards'[i].sender = "agent",
                      NEW j \in DOMAIN cards'[i].segments, Cache!IsText(cards'[i].segments[j])
               PROVE  texts'[cards'[i].id][Nth(cards'[i].segments, j)]
                        \in {Cache!None, cards'[i].segments[j].text}
    BY DEF TextCached
  <2>1. CASE i \in DOMAIN cards /\ cards'[i] = cards[i]
    <3>1. texts'[cards[i].id] = texts[cards[i].id]
      BY <1>1, <1>9, <2>1 DEF CacheInv, CachesTyped
    <3> QED
      BY <2>1, <3>1 DEF CacheInv, TextCached
  <2>2. CASE i = n + 1 /\ cards'[i] = m
    <3>1. texts'[next] = Cache!NoTexts
      BY <1>1 DEF CacheInv, CachesTyped
    <3>2. Nth(m.segments, j) \in 1..MaxSegments
      BY <1>3, <1>5, <1>7, <2>2, NthFacts
    <3> QED
      BY <1>3, <2>2, <3>1, <3>2 DEF Cache!NoTexts
  <2> QED
    BY <1>8, <2>1, <2>2
<1>16. UserCached(cards', users')
  <2> SUFFICES ASSUME NEW i \in DOMAIN cards', cards'[i].sender = "user"
               PROVE  users'[cards'[i].id]
                        \in {Cache!NoUser, <<cards'[i].segments[1].text, cards'[i].status>>}
    BY DEF UserCached
  <2>1. CASE i \in DOMAIN cards /\ cards'[i] = cards[i]
    <3>1. users'[cards[i].id] = users[cards[i].id]
      BY <1>1, <1>9, <2>1 DEF CacheInv, CachesTyped
    <3> QED
      BY <2>1, <3>1 DEF CacheInv, UserCached
  <2>2. CASE i = n + 1 /\ cards'[i] = m
    <3>1. users'[next] = Cache!NoUser
      BY <1>1 DEF CacheInv, CachesTyped
    <3> QED
      BY <1>3, <2>2, <3>1
  <2> QED
    BY <1>8, <2>1, <2>2
<1>17. /\ PlanIsCurrent(cards', children', built', builtStale')
       /\ PlanIsCurrent(cards', children', stack', stackStale')
  BY <1>1 DEF PlanIsCurrent
<1> QED
  BY <1>8, <1>10, <1>12, <1>14, <1>15, <1>16, <1>17 DEF CacheInv

(* A delta drops what is kept of the text it extends, and of no other.      *)
LEMMA TextDeltaStep ==
  ASSUME CacheParameters, CacheInv, NEW i \in DOMAIN cards, Cache!TextDelta(i)
  PROVE  CacheInv'
<1> DEFINE m == cards[i]
           s == m.segments
           opens == s = <<>> \/ ~Cache!IsText(Cache!Last(s))
           r == IF opens THEN Append(s, Cache!Text(1))
                ELSE [s EXCEPT ![Len(s)].text = @ + 1]
           new == [id |-> m.id, sender |-> m.sender, status |-> m.status, segments |-> r]
           last == Len(r)
<1>1. /\ m.sender = "agent" /\ children' = children /\ Len(r) <= MaxSegments
      /\ cards' = [cards EXCEPT ![i].segments = r]
      /\ texts' = [texts EXCEPT ![m.id][Cache!TextsOf(r)] = Cache!None]
      /\ stackStale' = (stackStale \/ opens)
      /\ IF opens \/ builtStale
         THEN built' = Cache!Build(cards', children') /\ builtStale' = FALSE
         ELSE built' = built /\ builtStale' = builtStale
      /\ active' = active /\ next' = next /\ stack' = stack /\ users' = users /\ blocks' = blocks
  BY DEF Cache!TextDelta, Cache!ResetTextSegment, Cache!TrailingTextSegmentIndex, Cache!Synced
<1>2. /\ cards \in Seq(ACard) /\ CardsTyped(cards, children, next)
      /\ \A k \in DOMAIN cards : cards[k].id \in Cache!Ids
      /\ \A k \in DOMAIN cards : k # i => cards[k].id # m.id
      /\ next \in Nat /\ DOMAIN children = Cache!Ids
  BY DEF CacheInv, CardsTyped
<1>3. /\ m \in ACard /\ s \in Seq(ASegment) /\ Len(s) \in Nat /\ DOMAIN s = 1..Len(s)
      /\ m.status \in {"queued", "active", "done"} /\ m.sender \in {"user", "agent"}
      /\ m.id \in Nat /\ m = [id |-> m.id, sender |-> m.sender, status |-> m.status, segments |-> s]
  <2>1. m \in ACard
    BY <1>2
  <2> QED
    BY <1>2, <2>1, CardTypes DEF ACard
<1>4. cards' = [cards EXCEPT ![i] = new]
  <2>1. [m EXCEPT !.segments = r] = new
    <3> HIDE DEF m, r
    <3> QED
      BY <1>3
  <2> QED
    BY <1>1, <2>1
<1>5. /\ r \in Seq(ASegment) /\ last \in DOMAIN r /\ Cache!IsText(r[last])
      /\ \A j \in DOMAIN r : j # last => j \in DOMAIN s /\ r[j] = s[j]
      /\ ~opens => DOMAIN r = DOMAIN s /\ Cache!IsText(s[last])
  <2>1. CASE opens
    <3>1. r = Append(s, Cache!Text(1)) /\ Cache!Text(1) \in ASegment /\ Cache!IsText(Cache!Text(1))
      BY <2>1, TextSegment
    <3> HIDE DEF r, s, opens
    <3>2. /\ r \in Seq(ASegment) /\ last = Len(s) + 1 /\ DOMAIN r = 1..(Len(s) + 1)
          /\ r[Len(s) + 1] = Cache!Text(1) /\ \A j \in 1..Len(s) : r[j] = s[j]
      BY <1>3, <3>1
    <3> QED
      BY <1>3, <2>1, <3>1, <3>2
  <2>2. CASE ~opens
    <3>1. r = [s EXCEPT ![Len(s)].text = @ + 1] /\ s # <<>> /\ Cache!IsText(Cache!Last(s))
      BY <2>2
    <3> HIDE DEF r, s, opens
    <3>2. Len(s) \in DOMAIN s /\ Cache!Last(s) = s[Len(s)]
      BY <1>3, <3>1 DEF Cache!Last
    <3>3. /\ s[Len(s)] \in ASegment /\ s[Len(s)].text \in Nat
          /\ s[Len(s)] = [kind |-> "text", text |-> s[Len(s)].text]
      <4>1. s[Len(s)] \in ASegment /\ Cache!IsText(s[Len(s)])
        BY <1>3, <3>1, <3>2
      <4> QED
        BY <4>1, ATextIs
    <3> DEFINE q == s[Len(s)]
               more == [q EXCEPT !.text = @ + 1]
    <3>4. more = Cache!Text(q.text + 1)
      <4> HIDE DEF q
      <4> QED
        BY <3>3 DEF Cache!Text, q
    <3>5. more \in ASegment /\ Cache!IsText(more)
      <4>1. q.text + 1 \in Nat
        BY <3>3
      <4> HIDE DEF more
      <4> QED
        BY <3>4, <4>1, TextSegment
    <3>6. r = [s EXCEPT ![Len(s)] = more]
      BY <3>1
    <3> HIDE DEF more, q
    <3>7. r \in Seq(ASegment) /\ DOMAIN r = DOMAIN s /\ Len(r) = Len(s) /\ r[Len(s)] = more
          /\ \A j \in DOMAIN s : j # Len(s) => r[j] = s[j]
      BY <1>3, <3>2, <3>5, <3>6
    <3> QED
      BY <3>1, <3>2, <3>5, <3>7
  <2> QED
    BY <2>1, <2>2
<1>6. new.id = m.id /\ new.sender = m.sender /\ new.status = m.status /\ new.segments = r
  OBVIOUS
<1> HIDE DEF r, s, opens
<1>7. new \in ACard
  BY <1>3, <1>5 DEF ACard
<1> HIDE DEF new
<1>8. /\ CardsTyped(cards', children', next')
      /\ DOMAIN cards' = DOMAIN cards /\ cards'[i] = new
      /\ \A k \in DOMAIN cards : k # i => cards'[k] = cards[k]
  <2>1. next <= next /\ (new.sender = "user" => new.segments = cards[i].segments)
    BY <1>1, <1>2, <1>6
  <2>2. /\ new.id = cards[i].id /\ new.sender = cards[i].sender /\ Len(new.segments) <= MaxSegments
        /\ DOMAIN children' = Cache!Ids
    BY <1>1, <1>2, <1>6
  <2>3. /\ CardsTyped(cards', children', next)
        /\ DOMAIN cards' = DOMAIN cards /\ cards'[i] = new
        /\ \A k \in DOMAIN cards : k # i => cards'[k] = cards[k]
    <3> HIDE DEF m
    <3> QED
      BY <1>2, <1>4, <1>7, <2>1, <2>2, CardChanged
  <2> QED
    BY <1>1, <2>3
<1> HIDE DEF m
<1>9. \A k \in DOMAIN cards : cards'[k].id = cards[k].id /\ cards'[k].sender = cards[k].sender
  BY <1>6, <1>8 DEF m
<1>10. \A k, j, t : ToolAt(cards', k, j, t) =>
         ToolAt(cards, k, j, t) /\ cards'[k].segments[j] = cards[k].segments[j]
  <2> SUFFICES ASSUME NEW k, NEW j, NEW t, ToolAt(cards', k, j, t)
               PROVE  ToolAt(cards, k, j, t) /\ cards'[k].segments[j] = cards[k].segments[j]
    OBVIOUS
  <2>1. CASE k # i
    BY <1>8, <2>1 DEF ToolAt
  <2>2. CASE k = i
    <3>1. j \in DOMAIN r /\ ~Cache!IsText(r[j]) /\ r[j].id = t
      BY <1>6, <1>8, <2>2 DEF ToolAt
    <3>2. j \in DOMAIN s /\ r[j] = s[j]
      BY <1>5, <3>1
    <3> QED
      BY <1>6, <1>8, <2>2, <3>1, <3>2 DEF ToolAt, s, m
  <2> QED
    BY <2>1, <2>2
<1>11. CardsOfTools(cards', children', next') /\ ToolCached(cards', blocks')
  <2>1. /\ next \in Nat /\ next <= next
        /\ CardsOfTools(cards, children, next) /\ ToolCached(cards, blocks)
    BY <1>2 DEF CacheInv
  <2>2. CardsOfTools(cards', children, next) /\ ToolCached(cards', blocks)
    BY <1>10, <2>1, ToolsUnmoved
  <2> QED
    BY <1>1, <2>2
<1>13. CachesTyped(texts', users', blocks')
  BY <1>1 DEF CacheInv, CachesTyped
<1>14. UserCached(cards', users')
  <2>1. \A k \in DOMAIN cards : cards[k].sender = "user" => k # i
    BY <1>1 DEF m
  <2> QED
    BY <1>1, <1>8, <1>9, <2>1 DEF CacheInv, UserCached
<1>15. /\ Cache!TextsOf(r) = Nth(r, last)
       /\ \A j \in DOMAIN r : Cache!IsText(r[j]) /\ Nth(r, j) = Nth(r, last) => j = last
       /\ \A j \in DOMAIN r : Cache!IsText(r[j]) => Nth(r, j) \in 1..MaxSegments
  BY <1>1, <1>5, NthFacts
<1>16. ASSUME NEW j \in DOMAIN r, j # last, Cache!IsText(r[j])
       PROVE  Nth(r, j) = Nth(s, j) /\ j \in DOMAIN s /\ r[j] = s[j]
  <2>1. j \in DOMAIN s /\ j \in 0..Len(s) /\ j \in 0..Len(r) /\ j \in Nat /\ r[j] = s[j]
    BY <1>3, <1>5, <1>16
  <2>2. \A k \in 1..j : k \in DOMAIN r /\ k # last
    BY <1>5, <1>16
  <2>3. TextsUpTo(r, j) = TextsUpTo(s, j)
    BY <1>5, <2>1, <2>2, SameTexts
  <2> QED
    BY <1>3, <1>5, <2>1, <2>3, NthIs
<1>17. TextCached(cards', texts')
  <2> SUFFICES ASSUME NEW k \in DOMAIN cards, cards'[k].sender = "agent",
                      NEW j \in DOMAIN cards'[k].segments, Cache!IsText(cards'[k].segments[j])
               PROVE  texts'[cards'[k].id][Nth(cards'[k].segments, j)]
                        \in {Cache!None, cards'[k].segments[j].text}
    BY <1>8 DEF TextCached
  <2>1. CASE k # i
    <3>1. texts'[cards[k].id] = texts[cards[k].id]
      BY <1>1, <1>2, <2>1 DEF CacheInv, CachesTyped
    <3> QED
      BY <1>8, <2>1, <3>1 DEF CacheInv, TextCached
  <2>2. CASE k = i /\ j = last
    <3>1. texts'[m.id][Nth(r, last)] = Cache!None
      BY <1>1, <1>2, <1>5, <1>15 DEF CacheInv, CachesTyped, m
    <3> QED
      BY <1>6, <1>8, <2>2, <3>1
  <2>3. CASE k = i /\ j # last
    <3>1. j \in DOMAIN r /\ Cache!IsText(r[j])
      BY <1>6, <1>8, <2>3
    <3>2. Nth(r, j) = Nth(s, j) /\ j \in DOMAIN s /\ r[j] = s[j] /\ Nth(r, j) # Nth(r, last)
      BY <1>15, <1>16, <2>3, <3>1
    <3>3. texts'[m.id][Nth(r, j)] = texts[m.id][Nth(r, j)]
      BY <1>1, <1>2, <1>15, <3>1, <3>2 DEF CacheInv, CachesTyped, m
    <3>4. texts[m.id][Nth(s, j)] \in {Cache!None, s[j].text}
      BY <1>1, <3>1, <3>2 DEF CacheInv, TextCached, m, s
    <3> QED
      BY <1>6, <1>8, <2>3, <3>2, <3>3, <3>4
  <2> QED
    BY <2>1, <2>2, <2>3
<1>18. ~opens => Cache!Build(cards', children') = Cache!Build(cards, children)
  <2> SUFFICES ASSUME ~opens PROVE Cache!Build(cards', children) = Cache!Build(cards, children)
    BY <1>1
  <2>1. cards' \in Seq(ACard)
    BY <1>8 DEF CardsTyped
  <2>2. ASSUME NEW k \in DOMAIN cards
        PROVE  /\ cards'[k].sender = cards[k].sender
               /\ DOMAIN cards'[k].segments = DOMAIN cards[k].segments
               /\ \A j \in DOMAIN cards[k].segments :
                    /\ Cache!IsText(cards'[k].segments[j]) <=> Cache!IsText(cards[k].segments[j])
                    /\ ~Cache!IsText(cards[k].segments[j]) =>
                         cards'[k].segments[j] = cards[k].segments[j]
    <3>1. CASE k # i
      BY <1>8, <3>1
    <3>2. CASE k = i
      <4>1. cards'[k].segments = r /\ cards[k].segments = s /\ cards'[k].sender = cards[k].sender
        BY <1>6, <1>8, <1>9, <3>2 DEF s, m
      <4> QED
        BY <1>5, <4>1
    <3> QED
      BY <3>1, <3>2
  <2> QED
    BY <1>2, <1>8, <2>1, <2>2, BuildSame
<1>19. /\ PlanIsCurrent(cards', children', built', builtStale')
       /\ PlanIsCurrent(cards', children', stack', stackStale')
  BY <1>1, <1>18 DEF CacheInv, PlanIsCurrent
<1>20. ActiveIsAgent(cards', active', next')
  BY <1>1, <1>8, <1>9 DEF CacheInv, ActiveIsAgent
<1> QED
  BY <1>8, <1>11, <1>13, <1>14, <1>17, <1>19, <1>20 DEF CacheInv

(* A new status is drawn anew of a user message, and moves the plan.        *)
LEMMA SetStatusStep ==
  ASSUME CacheParameters, CacheInv, NEW i \in DOMAIN cards, NEW status \in {"active", "done"},
         Cache!SetMessageStatus(i, status)
  PROVE  CacheInv'
<1> DEFINE m == cards[i]
           new == [id |-> m.id, sender |-> m.sender, status |-> status, segments |-> m.segments]
<1>1. /\ cards' = [cards EXCEPT ![i].status = status]
      /\ active' = IF m.sender = "user" THEN active
                   ELSE IF status = "active" THEN m.id
                   ELSE IF active = m.id THEN Cache!Nobody ELSE active
      /\ users' = [users EXCEPT ![m.id] = Cache!NoUser]
      /\ builtStale' = TRUE /\ stackStale' = TRUE
      /\ children' = children /\ next' = next /\ texts' = texts /\ blocks' = blocks
  BY DEF Cache!SetMessageStatus, Cache!PlanMoved
<1>2. /\ cards \in Seq(ACard) /\ CardsTyped(cards, children, next)
      /\ \A k \in DOMAIN cards : cards[k].id \in Cache!Ids
      /\ \A k \in DOMAIN cards : k # i => cards[k].id # m.id
      /\ Len(m.segments) <= MaxSegments
      /\ next \in Nat \ {0} /\ DOMAIN children = Cache!Ids /\ m.id < next
  BY DEF CacheInv, CardsTyped
<1>3. /\ m \in ACard /\ m.segments \in Seq(ASegment) /\ m.sender \in {"user", "agent"}
      /\ m.id \in Nat
      /\ m = [id |-> m.id, sender |-> m.sender, status |-> m.status, segments |-> m.segments]
  <2>1. m \in ACard
    BY <1>2
  <2> HIDE DEF m
  <2> QED
    BY <2>1 DEF ACard
<1>4. cards' = [cards EXCEPT ![i] = new]
  <2>1. [m EXCEPT !.status = status] = new
    <3> HIDE DEF m
    <3> QED
      BY <1>3
  <2> QED
    BY <1>1, <2>1
<1>5. /\ new.id = m.id /\ new.sender = m.sender /\ new.status = status
      /\ new.segments = m.segments
  OBVIOUS
<1>6. new \in ACard
  BY <1>3 DEF ACard
<1> HIDE DEF new
<1>7. /\ CardsTyped(cards', children', next')
      /\ DOMAIN cards' = DOMAIN cards /\ cards'[i] = new
      /\ \A k \in DOMAIN cards : k # i => cards'[k] = cards[k]
  <2>1. next <= next /\ (new.sender = "user" => new.segments = cards[i].segments)
    BY <1>2, <1>5
  <2>2. /\ new.id = cards[i].id /\ new.sender = cards[i].sender
        /\ Len(new.segments) <= MaxSegments /\ DOMAIN children' = Cache!Ids
    BY <1>1, <1>2, <1>5
  <2>3. /\ CardsTyped(cards', children', next)
        /\ DOMAIN cards' = DOMAIN cards /\ cards'[i] = new
        /\ \A k \in DOMAIN cards : k # i => cards'[k] = cards[k]
    <3> HIDE DEF m
    <3> QED
      BY <1>2, <1>4, <1>6, <2>1, <2>2, CardChanged
  <2> QED
    BY <1>1, <2>3
<1>8. \A k \in DOMAIN cards :
        /\ cards'[k].id = cards[k].id /\ cards'[k].sender = cards[k].sender
        /\ cards'[k].segments = cards[k].segments
  BY <1>5, <1>7
<1>9. CardsOfTools(cards', children', next') /\ ToolCached(cards', blocks')
  <2>1. /\ next \in Nat /\ next <= next
        /\ CardsOfTools(cards, children, next) /\ ToolCached(cards, blocks)
    BY <1>2 DEF CacheInv
  <2>2. \A k, j, t : ToolAt(cards', k, j, t) =>
          ToolAt(cards, k, j, t) /\ cards'[k].segments[j] = cards[k].segments[j]
    BY <1>7, <1>8 DEF ToolAt
  <2>3. CardsOfTools(cards', children, next) /\ ToolCached(cards', blocks)
    BY <2>1, <2>2, ToolsUnmoved
  <2> QED
    BY <1>1, <2>3
<1>10. CachesTyped(texts', users', blocks')
  BY <1>1 DEF CacheInv, CachesTyped
<1>11. TextCached(cards', texts')
  <2>1. TextCached(cards, texts)
    BY DEF CacheInv
  <2> QED
    BY <1>1, <1>7, <1>8, <2>1 DEF TextCached
<1>12. UserCached(cards', users')
  <2> SUFFICES ASSUME NEW k \in DOMAIN cards, cards'[k].sender = "user"
               PROVE  users'[cards'[k].id]
                        \in {Cache!NoUser, <<cards'[k].segments[1].text, cards'[k].status>>}
    BY <1>7 DEF UserCached
  <2>1. CASE k # i
    <3>1. users'[cards[k].id] = users[cards[k].id]
      BY <1>1, <1>2, <2>1
    <3> QED
      BY <1>7, <2>1, <3>1 DEF CacheInv, UserCached
  <2>2. CASE k = i
    <3>1. users'[m.id] = Cache!NoUser
      BY <1>1, <1>2 DEF CacheInv, CachesTyped
    <3> QED
      BY <1>8, <2>2, <3>1
  <2> QED
    BY <2>1, <2>2
<1>13. /\ PlanIsCurrent(cards', children', built', builtStale')
       /\ PlanIsCurrent(cards', children', stack', stackStale')
  BY <1>1 DEF PlanIsCurrent
<1>14. ActiveIsAgent(cards', active', next')
  <2>1. /\ active \in Nat /\ active < next
        /\ \A k \in DOMAIN cards : cards[k].id = active => cards[k].sender = "agent"
    BY DEF CacheInv, ActiveIsAgent
  <2>2. active' \in {active, m.id, 0} /\ (active' = m.id => active = m.id \/ m.sender = "agent" \/ active' = 0)
    BY <1>1, <1>3 DEF Cache!Nobody
  <2>3. active' \in Nat /\ active' < next'
    BY <1>1, <1>2, <1>3, <2>1, <2>2
  <2>4. ASSUME NEW k \in DOMAIN cards, cards[k].id = active'
        PROVE  cards[k].sender = "agent"
    <3>1. cards[k].id # 0
      BY <1>2 DEF Cache!Ids
    <3>2. active' = m.id => k = i
      BY <1>2, <2>4
    <3> QED
      BY <2>1, <2>2, <2>4, <3>1, <3>2
  <2> QED
    BY <1>7, <1>8, <2>3, <2>4 DEF ActiveIsAgent
<1> QED
  BY <1>7, <1>9, <1>10, <1>11, <1>12, <1>13, <1>14 DEF CacheInv

(* Other than e, the tools are as they were; e has one card, and nothing is *)
(* kept of it.                                                              *)
OthersStay(ms, mr, e) ==
  \A i, j, t : ToolAt(mr, i, j, t) /\ t # e =>
    ToolAt(ms, i, j, t) /\ mr[i].segments[j] = ms[i].segments[j]
OneCard(mr, e) == \A i, j, k, l : ToolAt(mr, i, j, e) /\ ToolAt(mr, k, l, e) => i = k /\ j = l
Dropped(bl, br, e) == br[e] = Cache!None /\ \A t \in Cache!Ids : t # e => br[t] = bl[t]

(* What is kept of a tool that changed is dropped, the rest is current.     *)
LEMMA ToolDropped ==
  ASSUME NEW ms, NEW kids, NEW nxt, CardsOfTools(ms, kids, nxt), NEW bl, ToolCached(ms, bl),
         NEW mr, NEW e, OthersStay(ms, mr, e), NEW br, Dropped(bl, br, e)
  PROVE  ToolCached(mr, br)
<1>1. ASSUME NEW i, NEW j, NEW t, ToolAt(mr, i, j, t)
      PROVE  br[t] \in {Cache!None, mr[i].segments[j].block}
  <2>1. CASE t = e
    BY <2>1 DEF Dropped
  <2>2. CASE t # e
    <3>1. ToolAt(ms, i, j, t) /\ mr[i].segments[j] = ms[i].segments[j]
      BY <1>1, <2>2 DEF OthersStay
    <3>2. bl[t] \in {Cache!None, ms[i].segments[j].block} /\ t \in Cache!Ids
      BY <3>1 DEF ToolCached, CardsOfTools
    <3> QED
      BY <2>2, <3>1, <3>2 DEF Dropped
  <2> QED
    BY <2>1, <2>2
<1> QED
  BY <1>1 DEF ToolCached

(* A tool of a new id has its one card.                                     *)
LEMMA ToolAdded ==
  ASSUME NEW ms, NEW kids, NEW nxt \in Nat, CardsOfTools(ms, kids, nxt), nxt \in Cache!Ids,
         NEW mr, NEW nr \in Nat, nxt < nr, OthersStay(ms, mr, nxt), OneCard(mr, nxt)
  PROVE  CardsOfTools(mr, kids, nr)
<1> DEFINE none == {nxt}
<1>3. ASSUME NEW i, NEW j, NEW t, ToolAt(mr, i, j, t)
      PROVE  \/ ToolAt(ms, i, j, t) /\ mr[i].segments[j].what = ms[i].segments[j].what
             \/ t \in none
  <2>1. CASE t = nxt
    BY <2>1
  <2>2. CASE t # nxt
    BY <1>3, <2>2 DEF OthersStay
  <2> QED
    BY <2>1, <2>2
<1>4. /\ none \in SUBSET Cache!Ids /\ nxt <= nr /\ \A t \in none : nxt <= t /\ t < nr
      /\ \A t \in none : \A i, j, k, l : ToolAt(mr, i, j, t) /\ ToolAt(mr, k, l, t) => i = k /\ j = l
  BY DEF OneCard
<1> HIDE DEF none
<1> QED
  BY <1>3, <1>4, ToolsStay

(* What is added at the end leaves the numbers of the texts.                *)
LEMMA NthStays ==
  ASSUME NEW s \in Seq(ASegment), NEW r \in Seq(ASegment), Len(s) <= Len(r),
         \A j \in DOMAIN s : Cache!IsText(r[j]) <=> Cache!IsText(s[j])
  PROVE  \A j \in DOMAIN s : Nth(r, j) = Nth(s, j)
<1> SUFFICES ASSUME NEW j \in DOMAIN s PROVE Nth(r, j) = Nth(s, j)
  OBVIOUS
<1>1. j \in 0..Len(s) /\ j \in 0..Len(r) /\ j \in Nat
  OBVIOUS
<1>2. \A k \in 1..j : k \in DOMAIN s
  OBVIOUS
<1>3. TextsUpTo(r, j) = TextsUpTo(s, j)
  BY <1>1, <1>2, SameTexts
<1> QED
  BY <1>1, <1>3, NthIs

(* A tool in the active message.                                            *)
LEMMA InActiveTurnStep ==
  ASSUME CacheParameters, CacheInv, NEW what \in {"write", "task"},
         Cache!InActiveTurn(what), children' = children,
         blocks' = [blocks EXCEPT ![next] = Cache!None],
         stackStale' = TRUE, Cache!Synced, texts' = texts, users' = users
  PROVE  CacheInv'
<1>0. PICK i \in Cache!Messages(active) :
        /\ next \in Cache!Ids /\ next' = next + 1 /\ active' = active
        /\ Len(cards[i].segments) < MaxSegments
        /\ cards' = [cards EXCEPT ![i].segments = Append(@, Cache!Tool(next, what, "active"))]
  BY DEF Cache!InActiveTurn
<1> DEFINE m == cards[i]
           s == m.segments
           q == Cache!Tool(next, what, "active")
           r == Append(s, q)
           new == [id |-> m.id, sender |-> m.sender, status |-> m.status, segments |-> r]
<1>1. i \in DOMAIN cards /\ m.id = active
  BY DEF Cache!Messages
<1>2. /\ cards \in Seq(ACard) /\ CardsTyped(cards, children, next)
      /\ \A k \in DOMAIN cards : cards[k].id \in Cache!Ids
      /\ next \in Nat /\ DOMAIN children = Cache!Ids
  BY DEF CacheInv, CardsTyped
<1>3. /\ m \in ACard /\ s \in Seq(ASegment) /\ m.sender \in {"user", "agent"} /\ m.id \in Nat
      /\ m.status \in {"queued", "active", "done"}
      /\ m = [id |-> m.id, sender |-> m.sender, status |-> m.status, segments |-> s]
  <2>1. m \in ACard
    BY <1>1, <1>2
  <2> HIDE DEF m
  <2> QED
    BY <2>1 DEF ACard
<1>4. m.sender = "agent"
  BY <1>1 DEF CacheInv, ActiveIsAgent
<1>5. q \in ASegment /\ ~Cache!IsText(q) /\ q.id = next /\ q.what = what
  BY <1>2, ToolSegment
<1> HIDE DEF q
<1>6. /\ r \in Seq(ASegment) /\ Len(r) = Len(s) + 1 /\ r[Len(s) + 1] = q
      /\ DOMAIN r = 1..(Len(s) + 1) /\ DOMAIN s = 1..Len(s) /\ Len(s) \in Nat
      /\ \A j \in DOMAIN s : r[j] = s[j] /\ Nth(r, j) = Nth(s, j)
  <2>1. s \in Seq(ASegment)
    BY <1>3
  <2> HIDE DEF s
  <2>2. /\ r \in Seq(ASegment) /\ Len(r) = Len(s) + 1 /\ r[Len(s) + 1] = q
        /\ DOMAIN r = 1..(Len(s) + 1) /\ DOMAIN s = 1..Len(s) /\ Len(s) \in Nat
        /\ \A j \in DOMAIN s : r[j] = s[j]
    BY <1>5, <2>1
  <2> HIDE DEF r
  <2>3. Len(s) <= Len(r)
    BY <2>2
  <2>4. \A j \in DOMAIN s : Nth(r, j) = Nth(s, j)
    BY <2>1, <2>2, <2>3, NthStays
  <2> QED
    BY <2>2, <2>4
<1>7. cards' = [cards EXCEPT ![i] = new]
  <2>1. cards' = [cards EXCEPT ![i].segments = r]
    BY <1>0 DEF q
  <2>2. [m EXCEPT !.segments = r] = new
    <3> HIDE DEF m, r
    <3> QED
      BY <1>3
  <2> QED
    BY <1>1, <2>1, <2>2
<1>8. new.id = m.id /\ new.sender = m.sender /\ new.status = m.status /\ new.segments = r
  OBVIOUS
<1> HIDE DEF r, s
<1>9. new \in ACard
  BY <1>3, <1>6 DEF ACard
<1> HIDE DEF new
<1>10. /\ CardsTyped(cards', children', next')
       /\ DOMAIN cards' = DOMAIN cards /\ cards'[i] = new
       /\ \A k \in DOMAIN cards : k # i => cards'[k] = cards[k]
  <2>1. /\ next + 1 \in Nat /\ next <= next + 1 /\ Len(new.segments) <= MaxSegments
        /\ (new.sender = "user" => new.segments = cards[i].segments)
    <3>1. MaxSegments \in Nat
      BY DEF CacheParameters
    <3> QED
      BY <1>0, <1>2, <1>4, <1>6, <1>8, <3>1 DEF s, m
  <2>2. /\ new.id = cards[i].id /\ new.sender = cards[i].sender /\ DOMAIN children = Cache!Ids
    BY <1>2, <1>8
  <2>3. /\ CardsTyped(cards', children, next + 1)
        /\ DOMAIN cards' = DOMAIN cards /\ cards'[i] = new
        /\ \A k \in DOMAIN cards : k # i => cards'[k] = cards[k]
    <3> HIDE DEF m
    <3> QED
      BY <1>1, <1>2, <1>7, <1>9, <2>1, <2>2, CardChanged
  <2> QED
    BY <1>0, <2>3
<1> HIDE DEF m
<1>11. \A k \in DOMAIN cards : cards'[k].id = cards[k].id /\ cards'[k].sender = cards[k].sender
         /\ cards'[k].status = cards[k].status
  BY <1>8, <1>10 DEF m
<1>12. CardsOfTools(cards', children', next') /\ ToolCached(cards', blocks')
  <2>1. /\ next' \in Nat /\ next < next' /\ next \in Cache!Ids
        /\ CardsOfTools(cards, children, next) /\ ToolCached(cards, blocks)
        /\ Dropped(blocks, blocks', next)
    BY <1>0, <1>2 DEF CacheInv, CachesTyped, Dropped
  <2>2. ASSUME NEW k, NEW j, NEW t, ToolAt(cards', k, j, t)
        PROVE  \/ ToolAt(cards, k, j, t) /\ cards'[k].segments[j] = cards[k].segments[j]
               \/ k = i /\ j = Len(s) + 1 /\ t = next
    <3>1. CASE k # i
      BY <1>10, <2>2, <3>1 DEF ToolAt
    <3>2. CASE k = i
      <4>1. j \in DOMAIN r /\ ~Cache!IsText(r[j]) /\ r[j].id = t
        BY <1>8, <1>10, <2>2, <3>2 DEF ToolAt
      <4>2. CASE j = Len(s) + 1
        BY <1>5, <1>6, <3>2, <4>1, <4>2
      <4>3. CASE j \in DOMAIN s
        <5>1. r[j] = s[j]
          BY <1>6, <4>3
        <5> QED
          BY <1>1, <1>8, <1>10, <3>2, <4>1, <4>3, <5>1 DEF ToolAt, s, m
      <4>4. j = Len(s) + 1 \/ j \in DOMAIN s
        BY <1>6, <4>1
      <4> QED
        BY <4>2, <4>3, <4>4
    <3> QED
      BY <3>1, <3>2
  <2>3. OthersStay(cards, cards', next) /\ OneCard(cards', next)
    <3>1. \A k, j : ~ToolAt(cards, k, j, next)
      BY <1>2, <2>1 DEF CardsOfTools
    <3> QED
      BY <2>2, <3>1 DEF OthersStay, OneCard
  <2>4. CardsOfTools(cards', children, next') /\ ToolCached(cards', blocks')
    BY <1>2, <2>1, <2>3, ToolAdded, ToolDropped
  <2> QED
    BY <2>4
<1>13. CachesTyped(texts', users', blocks')
  BY DEF CacheInv, CachesTyped
<1>14. UserCached(cards', users')
  <2>1. \A k \in DOMAIN cards : cards[k].sender = "user" => k # i
    BY <1>4 DEF m
  <2> QED
    BY <1>10, <1>11, <2>1 DEF CacheInv, UserCached
<1>15. TextCached(cards', texts')
  <2> SUFFICES ASSUME NEW k \in DOMAIN cards, cards'[k].sender = "agent",
                      NEW j \in DOMAIN cards'[k].segments, Cache!IsText(cards'[k].segments[j])
               PROVE  texts[cards'[k].id][Nth(cards'[k].segments, j)]
                        \in {Cache!None, cards'[k].segments[j].text}
    BY <1>10 DEF TextCached
  <2>1. CASE k # i
    BY <1>10, <2>1 DEF CacheInv, TextCached
  <2>2. CASE k = i
    <3>1. cards'[k].segments = r /\ cards'[k].id = m.id /\ j \in DOMAIN r /\ Cache!IsText(r[j])
      BY <1>8, <1>10, <2>2
    <3>2. j \in DOMAIN s /\ r[j] = s[j] /\ Nth(r, j) = Nth(s, j)
      BY <1>5, <1>6, <3>1
    <3>3. texts[m.id][Nth(s, j)] \in {Cache!None, s[j].text}
      BY <1>1, <1>4, <3>1, <3>2 DEF CacheInv, TextCached, m, s
    <3> QED
      BY <3>1, <3>2, <3>3
  <2> QED
    BY <2>1, <2>2
<1>16. /\ PlanIsCurrent(cards', children', built', builtStale')
       /\ PlanIsCurrent(cards', children', stack', stackStale')
  BY DEF PlanIsCurrent, Cache!Synced
<1>17. ActiveIsAgent(cards', active', next')
  <2>1. /\ active \in Nat /\ active < next /\ next \in Nat
        /\ \A k \in DOMAIN cards : cards[k].id = active => cards[k].sender = "agent"
    BY <1>2 DEF CacheInv, ActiveIsAgent
  <2>2. active < next + 1
    BY <2>1
  <2> QED
    BY <1>0, <1>10, <1>11, <2>1, <2>2 DEF ActiveIsAgent
<1> QED
  BY <1>10, <1>12, <1>13, <1>14, <1>15, <1>16, <1>17 DEF CacheInv

(* A tool in a message of its own.                                          *)
LEMMA EnsureAgentTurnStep ==
  ASSUME CacheParameters, CacheInv, NEW what \in {"write", "task"},
         Cache!EnsureAgentTurn(what), children' = children,
         blocks' = [blocks EXCEPT ![next] = Cache!None],
         stackStale' = TRUE, Cache!Synced, texts' = texts, users' = users
  PROVE  CacheInv'
<1> DEFINE q == Cache!Tool(next, what, "active")
           m == Cache!Message(next + 1, "agent", "active", <<q>>)
           n == Len(cards)
<1>1. /\ next + 1 \in Cache!Ids /\ next' = next + 2 /\ active' = next + 1
      /\ cards' = Append(cards, m)
  BY DEF Cache!EnsureAgentTurn
<1>2. /\ CardsTyped(cards, children, next) /\ next \in Nat \ {0} /\ next \in Cache!Ids
  BY <1>1 DEF CacheInv, CardsTyped, Cache!Ids, CacheParameters
<1>3. q \in ASegment /\ ~Cache!IsText(q) /\ q.id = next /\ q.what = what
  BY <1>2, ToolSegment
<1> HIDE DEF q
<1>4. /\ m.id = next + 1 /\ m.sender = "agent" /\ m.status = "active" /\ m.segments = <<q>>
      /\ m = [id |-> next + 1, sender |-> "agent", status |-> "active", segments |-> <<q>>]
  BY DEF Cache!Message
<1>5. <<q>> \in Seq(ASegment) /\ Len(<<q>>) = 1 /\ DOMAIN <<q>> = {1} /\ <<q>>[1] = q
  BY <1>3
<1>6. m \in ACard
  <2> HIDE DEF m
  <2>1. next + 1 \in Nat
    BY <1>2
  <2> QED
    BY <1>4, <1>5, <2>1 DEF ACard
<1> HIDE DEF m
<1>7. /\ CardsTyped(cards', children', next')
      /\ \A i \in DOMAIN cards' :
           (i \in DOMAIN cards /\ cards'[i] = cards[i]) \/ (i = n + 1 /\ cards'[i] = m)
  <2>1. /\ next + 2 \in Nat /\ m.id < next + 2 /\ m.id >= next /\ m.id \in Cache!Ids
    BY <1>1, <1>2, <1>4
  <2>2. Len(m.segments) <= MaxSegments /\ m.sender # "user"
    BY <1>4, <1>5 DEF CacheParameters
  <2> QED
    BY <1>1, <1>2, <1>6, <2>1, <2>2, CardAdded
<1>8. \A i \in DOMAIN cards : cards[i].id # next + 1
  BY <1>2 DEF CardsTyped, Cache!Ids
<1>9. ActiveIsAgent(cards', active', next')
  <2>1. active' \in Nat /\ active' < next'
    BY <1>1, <1>2
  <2> QED
    BY <1>1, <1>4, <1>7, <1>8, <2>1 DEF ActiveIsAgent
<1>10. CardsOfTools(cards', children', next') /\ ToolCached(cards', blocks')
  <2>1. /\ next' \in Nat /\ next < next'
        /\ CardsOfTools(cards, children, next) /\ ToolCached(cards, blocks)
        /\ Dropped(blocks, blocks', next)
    BY <1>1, <1>2 DEF CacheInv, CachesTyped, Dropped
  <2>2. ASSUME NEW k, NEW j, NEW t, ToolAt(cards', k, j, t)
        PROVE  \/ ToolAt(cards, k, j, t) /\ cards'[k].segments[j] = cards[k].segments[j]
               \/ k = n + 1 /\ j = 1 /\ t = next
    BY <1>3, <1>4, <1>5, <1>7, <2>2 DEF ToolAt
  <2>3. OthersStay(cards, cards', next) /\ OneCard(cards', next)
    <3>1. \A k, j : ~ToolAt(cards, k, j, next)
      BY <1>2, <2>1 DEF CardsOfTools
    <3> QED
      BY <2>2, <3>1 DEF OthersStay, OneCard
  <2>4. CardsOfTools(cards', children, next') /\ ToolCached(cards', blocks')
    BY <1>2, <2>1, <2>3, ToolAdded, ToolDropped
  <2> QED
    BY <2>4
<1>11. CachesTyped(texts', users', blocks')
  BY DEF CacheInv, CachesTyped
<1>12. UserCached(cards', users')
  BY <1>4, <1>7 DEF CacheInv, UserCached
<1>13. TextCached(cards', texts')
  <2> SUFFICES ASSUME NEW k \in DOMAIN cards', cards'[k].sender = "agent",
                      NEW j \in DOMAIN cards'[k].segments, Cache!IsText(cards'[k].segments[j])
               PROVE  texts[cards'[k].id][Nth(cards'[k].segments, j)]
                        \in {Cache!None, cards'[k].segments[j].text}
    BY DEF TextCached
  <2>1. k \in DOMAIN cards /\ cards'[k] = cards[k]
    <3>1. cards'[k] # m
      BY <1>3, <1>4, <1>5
    <3> QED
      BY <1>7, <3>1
  <2> QED
    BY <2>1 DEF CacheInv, TextCached
<1>14. /\ PlanIsCurrent(cards', children', built', builtStale')
       /\ PlanIsCurrent(cards', children', stack', stackStale')
  BY DEF PlanIsCurrent, Cache!Synced
<1> QED
  BY <1>7, <1>9, <1>10, <1>11, <1>12, <1>13, <1>14 DEF CacheInv

(* A tool that starts has its card in the active message, or in a new one.  *)
LEMMA ToolCallStartedStep ==
  ASSUME CacheParameters, CacheInv, NEW what \in {"write", "task"}, Cache!ToolCallStarted(what)
  PROVE  CacheInv'
BY InActiveTurnStep, EnsureAgentTurnStep DEF Cache!ToolCallStarted

(* The card of a tool counts one change more, and has its status.           *)
Changed(q, status) ==
  [kind |-> "tool", id |-> q.id, what |-> q.what, block |-> q.block + 1, status |-> status]
Moved(m, j, status) ==
  [id |-> m.id, sender |-> m.sender, status |-> m.status,
   segments |-> [m.segments EXCEPT ![j] = Changed(m.segments[j], status)]]
Bumped(p, status) == [cards EXCEPT ![p[1]].segments[p[2]].block = @ + 1,
                                   ![p[1]].segments[p[2]].status = status]
PlaceOf(t) == CHOOSE p \in Cache!Places(t) : TRUE

(* The update finds the card of the tool and changes it alone.              *)
LEMMA CardMoved ==
  ASSUME CacheParameters, CacheInv, NEW t, NEW status \in {"active", "done"},
         NEW i, NEW j, ToolAt(cards, i, j, t)
  PROVE  /\ Bumped(PlaceOf(t), status) = [cards EXCEPT ![i] = Moved(cards[i], j, status)]
         /\ Cache!FindToolSegment(t) = cards[i].segments[j]
<1> DEFINE p == CHOOSE x \in Cache!Places(t) : TRUE
           m == cards[i]
           s == m.segments
           q == s[j]
           changed == [kind |-> "tool", id |-> q.id, what |-> q.what, block |-> q.block + 1,
                       status |-> status]
<1>1. /\ Cache!HasToolSegment(t) /\ p = <<i, j>>
      /\ Cache!FindToolSegment(t) = cards[i].segments[j]
  BY FindIs DEF CacheInv
<1> HIDE DEF p
<1>3. p[1] = i /\ p[2] = j
  BY <1>1
<1>2. Bumped(p, status) = [cards EXCEPT ![p[1]].segments[p[2]].block = @ + 1,
                                        ![p[1]].segments[p[2]].status = status]
  BY DEF Bumped
<1>4. Bumped(p, status) = [cards EXCEPT ![i].segments[j].block = @ + 1, ![i].segments[j].status = status]
  BY <1>2, <1>3
<1>5. cards \in Seq(ACard) /\ i \in DOMAIN cards /\ j \in DOMAIN s
  BY DEF CacheInv, CardsTyped, ToolAt
<1>6. m \in ACard
  BY <1>5
<1>7. /\ s \in Seq(ASegment)
      /\ m = [id |-> m.id, sender |-> m.sender, status |-> m.status, segments |-> s]
  <2> HIDE DEF m
  <2> QED
    BY <1>6 DEF ACard
<1>8. q \in ASegment /\ ~Cache!IsText(q) /\ q.id = t
  BY <1>5, <1>7 DEF ToolAt
<1>9. /\ q.block \in Nat /\ q.what \in {"write", "task"}
      /\ q = [kind |-> "tool", id |-> q.id, what |-> q.what, block |-> q.block, status |-> q.status]
  BY <1>8, AToolIs
<1>10. [[q EXCEPT !.block = @ + 1] EXCEPT !.status = status] = changed
  <2> DEFINE AsTool(b, u) == [kind |-> "tool", id |-> q.id, what |-> q.what, block |-> b, status |-> u]
             one == [q EXCEPT !.block = @ + 1]
  <2>1. q = AsTool(q.block, q.status)
    BY <1>9
  <2>2. one = AsTool(q.block + 1, q.status)
    <3>1. one = [q EXCEPT !.block = q.block + 1]
      OBVIOUS
    <3>2. \A b, u, c : [AsTool(b, u) EXCEPT !.block = c] = AsTool(c, u)
      OBVIOUS
    <3> HIDE DEF AsTool, one
    <3> QED
      BY <2>1, <3>1, <3>2
  <2>3. \A b, u, c : [AsTool(b, u) EXCEPT !.status = c] = AsTool(b, c)
    OBVIOUS
  <2>4. changed = AsTool(q.block + 1, status)
    OBVIOUS
  <2> HIDE DEF AsTool, one, changed
  <2>5. [one EXCEPT !.status = status] = changed
    BY <2>2, <2>3, <2>4
  <2> QED
    BY <2>5 DEF one
<1> HIDE DEF changed
<1>11. [[s EXCEPT ![j].block = @ + 1] EXCEPT ![j].status = status] = [s EXCEPT ![j] = changed]
  <2> DEFINE one == [q EXCEPT !.block = @ + 1]
             two == [one EXCEPT !.status = status]
             s1 == [s EXCEPT ![j] = one]
  <2>1. [s EXCEPT ![j].block = @ + 1] = s1
    OBVIOUS
  <2>2. two = changed
    BY <1>10
  <2> HIDE DEF one
  <2>3. s1[j] = one
    BY <1>5, <1>7
  <2>4. [s1 EXCEPT ![j].status = status] = [s1 EXCEPT ![j] = two]
    BY <2>3
  <2> HIDE DEF two, s
  <2>5. [s1 EXCEPT ![j] = two] = [s EXCEPT ![j] = two]
    BY <1>5, <1>7
  <2> QED
    BY <2>1, <2>2, <2>4, <2>5
<1> DEFINE r == [s EXCEPT ![j] = changed]
           new == [id |-> m.id, sender |-> m.sender, status |-> m.status, segments |-> r]
<1>12. [[cards EXCEPT ![i].segments[j].block = @ + 1] EXCEPT ![i].segments[j].status = status] =
         [cards EXCEPT ![i] = new]
  <2> DEFINE sa == [s EXCEPT ![j].block = @ + 1]
             sb == [sa EXCEPT ![j].status = status]
             ma == [m EXCEPT !.segments = sa]
             mb == [ma EXCEPT !.segments = sb]
             ca == [cards EXCEPT ![i] = ma]
  <2>1. [cards EXCEPT ![i].segments[j].block = @ + 1] = ca
    OBVIOUS
  <2>2. sb = r
    BY <1>11
  <2> HIDE DEF sa
  <2>3. ma.segments = sa /\ ma = [id |-> m.id, sender |-> m.sender, status |-> m.status, segments |-> sa]
    <3> HIDE DEF m, s
    <3> QED
      BY <1>7
  <2> HIDE DEF ma
  <2>4. ca[i] = ma
    BY <1>5
  <2>5. [ca EXCEPT ![i].segments[j].status = status] = [ca EXCEPT ![i] = mb]
    BY <2>3, <2>4
  <2> HIDE DEF r
  <2>6. mb = new
    <3> HIDE DEF sb, m
    <3> QED
      BY <2>2, <2>3
  <2> HIDE DEF mb, new
  <2>7. [ca EXCEPT ![i] = mb] = [cards EXCEPT ![i] = mb]
    BY <1>5
  <2> QED
    BY <2>1, <2>5, <2>6, <2>7
<1>13. Bumped(p, status) = [cards EXCEPT ![i] = new]
  BY <1>4, <1>12
<1> QED
  BY <1>1, <1>13 DEF Changed, Moved, changed, p, PlaceOf

(* The children of a task are its own.                                      *)
OnlyChildrenOf(t, kids, kr) == \A u \in Cache!Ids : u # t => kr[u] = kids[u]

(* Children that come to a task leave the other tools.                      *)
LEMMA ChildrenOfTask ==
  ASSUME NEW ms, NEW kids, NEW nxt \in Nat, CardsOfTools(ms, kids, nxt), NEW i, NEW j, NEW t,
         ToolAt(ms, i, j, t), ms[i].segments[j].what = "task",
         NEW kr, OnlyChildrenOf(t, kids, kr)
  PROVE  CardsOfTools(ms, kr, nxt)
<1>1. t \in Cache!Ids /\ t < nxt
  BY DEF CardsOfTools
<1>2. ASSUME NEW k, NEW l, NEW u, ToolAt(ms, k, l, u)
      PROVE  /\ u \in Cache!Ids /\ u < nxt
             /\ ms[k].segments[l].what # "task" => kr[u] = <<>>
  <2>1. /\ u \in Cache!Ids /\ u < nxt
        /\ ms[k].segments[l].what # "task" => kids[u] = <<>>
    BY <1>2 DEF CardsOfTools
  <2>2. u = t => k = i /\ l = j
    BY <1>2 DEF CardsOfTools
  <2> QED
    BY <2>1, <2>2 DEF OnlyChildrenOf
<1>3. \A u \in Cache!Ids : u >= nxt => kr[u] = <<>>
  BY <1>1 DEF CardsOfTools, Cache!Ids, OnlyChildrenOf
<1>4. \A k, l, m, n, u : ToolAt(ms, k, l, u) /\ ToolAt(ms, m, n, u) => k = m /\ l = n
  BY DEF CardsOfTools
<1> QED
  BY <1>2, <1>3, <1>4 DEF CardsOfTools

(* A tool that changed is drawn anew, and moves the plan.                   *)
LEMMA UpdateToolCallStep ==
  ASSUME CacheParameters, CacheInv, NEW t \in Cache!Ids, NEW status \in {"active", "done"},
         Cache!UpdateToolCall(t, status),
         active' = active, next' = next, stack' = stack, texts' = texts, users' = users,
         DOMAIN children' = Cache!Ids, OnlyChildrenOf(t, children, children'),
         children' # children =>
           Cache!HasToolSegment(t) /\ Cache!FindToolSegment(t).what = "task"
  PROVE  CacheInv'
<1>1. blocks' = [blocks EXCEPT ![t] = Cache!None]
  BY DEF Cache!UpdateToolCall
<1>2. /\ CardsTyped(cards, children, next) /\ CachesTyped(texts, users, blocks)
      /\ ActiveIsAgent(cards, active, next) /\ CardsOfTools(cards, children, next)
      /\ PlanIsCurrent(cards, children, built, builtStale)
      /\ PlanIsCurrent(cards, children, stack, stackStale)
      /\ TextCached(cards, texts) /\ UserCached(cards, users) /\ ToolCached(cards, blocks)
      /\ next \in Nat
  BY DEF CacheInv, CardsTyped
<1>3. CachesTyped(texts', users', blocks')
  BY <1>1, <1>2 DEF CachesTyped
<1>4. Dropped(blocks, blocks', t)
  BY <1>1, <1>2 DEF CachesTyped, Dropped
<1>5. CASE ~Cache!HasToolSegment(t)
  <2>1. /\ cards' = cards /\ children' = children /\ built' = built
        /\ builtStale' = builtStale /\ stackStale' = stackStale
    BY <1>5 DEF Cache!UpdateToolCall
  <2>2. OthersStay(cards, cards, t)
    BY DEF OthersStay
  <2>3. ToolCached(cards', blocks')
    BY <1>2, <1>4, <2>1, <2>2, ToolDropped
  <2> QED
    BY <1>2, <1>3, <2>1, <2>3 DEF CacheInv
<1>6. CASE Cache!HasToolSegment(t)
  <2>1. PICK i, j : ToolAt(cards, i, j, t)
    BY <1>2, <1>6, FindIs
  <2>23. /\ builtStale' = TRUE /\ stackStale' = TRUE
         /\ cards' = [cards EXCEPT ![i] = Moved(cards[i], j, status)]
         /\ Cache!FindToolSegment(t) = cards[i].segments[j]
    <3>1. /\ builtStale' = TRUE /\ stackStale' = TRUE
          /\ cards' = Bumped(PlaceOf(t), status)
      BY <1>6 DEF Cache!UpdateToolCall, Cache!PlanMoved, Bumped, PlaceOf
    <3>2. /\ Bumped(PlaceOf(t), status) = [cards EXCEPT ![i] = Moved(cards[i], j, status)]
          /\ Cache!FindToolSegment(t) = cards[i].segments[j]
      BY <2>1, CardMoved
    <3> QED
      BY <3>1, <3>2
  <2> DEFINE m == cards[i]
             s == m.segments
             q == s[j]
             changed == Changed(q, status)
             r == [s EXCEPT ![j] = changed]
             new == Moved(m, j, status)
  <2>3. /\ cards \in Seq(ACard) /\ i \in DOMAIN cards /\ j \in DOMAIN s
        /\ Len(s) <= MaxSegments
        /\ m.sender = "user" => \A k \in DOMAIN s : Cache!IsText(s[k])
    BY <1>2, <2>1 DEF CardsTyped, ToolAt
  <2>2. /\ builtStale' = TRUE /\ stackStale' = TRUE /\ cards' = [cards EXCEPT ![i] = new]
        /\ Cache!FindToolSegment(t) = q
    BY <2>23
  <2>4. /\ m \in ACard /\ s \in Seq(ASegment) /\ m.id \in Nat /\ m.sender \in {"user", "agent"}
        /\ m.status \in {"queued", "active", "done"} /\ DOMAIN s = 1..Len(s) /\ Len(s) \in Nat
    <3>1. m \in ACard
      BY <2>3
    <3>2. /\ s \in Seq(ASegment) /\ m.id \in Nat /\ m.sender \in {"user", "agent"}
          /\ m.status \in {"queued", "active", "done"}
      BY <3>1 DEF ACard
    <3> QED
      BY <3>1, <3>2
  <2>22. /\ q \in ASegment /\ ~Cache!IsText(q) /\ q.id = t /\ q.block \in Nat
         /\ q.what \in {"write", "task"}
    <3>1. q \in ASegment /\ ~Cache!IsText(q) /\ q.id = t
      BY <2>1, <2>3, <2>4 DEF ToolAt
    <3> HIDE DEF q
    <3> QED
      BY <3>1, AToolIs
  <2>5. /\ changed \in ASegment /\ ~Cache!IsText(changed) /\ changed.id = t /\ changed.what = q.what
    <3>1. q.id \in Nat /\ q.block + 1 \in Nat
      BY <2>22 DEF Cache!Ids
    <3> HIDE DEF q
    <3> QED
      BY <2>22, <3>1 DEF ASegment, Cache!IsText, Changed
  <2> HIDE DEF changed
  <2>6. /\ r \in Seq(ASegment) /\ Len(r) = Len(s) /\ DOMAIN r = DOMAIN s /\ r[j] = changed
        /\ \A k \in DOMAIN s : k # j => r[k] = s[k]
    <3> HIDE DEF s
    <3> QED
      BY <2>3, <2>4, <2>5
  <2>7. /\ new.id = m.id /\ new.sender = m.sender /\ new.status = m.status /\ new.segments = r
    BY DEF Moved, changed
  <2> HIDE DEF r
  <2>24. new = [id |-> m.id, sender |-> m.sender, status |-> m.status, segments |-> r]
    BY DEF Moved, changed, r
  <2> HIDE DEF new
  <2>8. new \in ACard
    <3> HIDE DEF m, s
    <3> QED
      BY <2>4, <2>6, <2>24 DEF ACard
  <2>9. m.sender = "agent"
    BY <2>22, <2>3, <2>4
  <2>10. /\ CardsTyped(cards', children', next')
         /\ DOMAIN cards' = DOMAIN cards /\ cards'[i] = new
         /\ \A k \in DOMAIN cards : k # i => cards'[k] = cards[k]
    <3>1. /\ new.id = cards[i].id /\ new.sender = cards[i].sender
          /\ Len(new.segments) <= MaxSegments /\ next <= next /\ new.sender # "user"
      BY <1>2, <2>3, <2>6, <2>7, <2>9
    <3>2. cards' = [cards EXCEPT ![i] = new]
      BY <2>2
    <3>3. /\ CardsTyped(cards', children', next)
          /\ DOMAIN cards' = DOMAIN cards /\ cards'[i] = new
          /\ \A k \in DOMAIN cards : k # i => cards'[k] = cards[k]
      <4> HIDE DEF m, s, q
      <4> QED
        BY <1>2, <2>3, <2>8, <3>1, <3>2, CardChanged, ZenonT(40)
    <3> QED
      BY <3>3
  <2> HIDE DEF m, s, q
  <2>11. \A k \in DOMAIN cards : cards'[k].id = cards[k].id /\ cards'[k].sender = cards[k].sender
           /\ cards'[k].status = cards[k].status
    BY <2>7, <2>10 DEF m
  <2>12. ASSUME NEW k, NEW l, NEW u, ToolAt(cards', k, l, u)
         PROVE  /\ ToolAt(cards, k, l, u)
                /\ cards'[k].segments[l].what = cards[k].segments[l].what
                /\ u # t => cards'[k].segments[l] = cards[k].segments[l]
    <3>1. CASE k # i
      BY <2>10, <2>12, <3>1 DEF ToolAt
    <3>2. CASE k = i
      <4>1. l \in DOMAIN r /\ ~Cache!IsText(r[l]) /\ r[l].id = u /\ cards'[k].segments = r
        BY <2>7, <2>10, <2>12, <3>2 DEF ToolAt
      <4>2. cards[k].segments = s /\ k \in DOMAIN cards
        BY <2>3, <3>2 DEF s, m
      <4>3. CASE l = j
        <5>1. u = t
          BY <2>5, <2>6, <4>1, <4>3
        <5>2. r[l].what = s[l].what
          BY <2>5, <2>6, <4>3 DEF q
        <5> QED
          BY <2>1, <3>2, <4>1, <4>2, <4>3, <5>1, <5>2
      <4>4. CASE l # j
        <5>1. r[l] = s[l] /\ l \in DOMAIN s
          BY <2>6, <4>1, <4>4
        <5> QED
          BY <4>1, <4>2, <5>1 DEF ToolAt
      <4> QED
        BY <4>3, <4>4
    <3> QED
      BY <3>1, <3>2
  <2>13. ToolCached(cards', blocks')
    <3>1. OthersStay(cards, cards', t)
      BY <2>12 DEF OthersStay
    <3> QED
      BY <1>2, <1>4, <3>1, ToolDropped
  <2>14. CardsOfTools(cards', children, next)
    <3> DEFINE none == {}
    <3>1. \A k, l, u : ToolAt(cards', k, l, u) =>
            \/ ToolAt(cards, k, l, u) /\ cards'[k].segments[l].what = cards[k].segments[l].what
            \/ u \in none
      BY <2>12
    <3>2. /\ none \in SUBSET Cache!Ids /\ (\A u \in none : next <= u /\ u < next) /\ next <= next
          /\ \A u \in none : \A k, l, k2, l2 :
               ToolAt(cards', k, l, u) /\ ToolAt(cards', k2, l2, u) => k = k2 /\ l = l2
      BY <1>2
    <3> HIDE DEF none
    <3> QED
      BY <1>2, <3>1, <3>2, ToolsStay
  <2>15. CardsOfTools(cards', children', next')
    <3>1. CASE children' = children
      BY <2>14, <3>1
    <3>2. CASE children' # children
      <4>1. q.what = "task"
        BY <2>2, <3>2
      <4>2. ToolAt(cards', i, j, t) /\ cards'[i].segments[j].what = "task"
        BY <2>3, <2>5, <2>6, <2>7, <2>10, <4>1 DEF ToolAt
      <4> QED
        BY <1>2, <2>14, <4>2, ChildrenOfTask
    <3> QED
      BY <3>1, <3>2
  <2>16. UserCached(cards', users')
    <3>1. \A k \in DOMAIN cards : cards[k].sender = "user" => k # i
      BY <2>9 DEF m
    <3> QED
      BY <1>2, <2>10, <2>11, <3>1 DEF UserCached
  <2>17. \A k \in DOMAIN s : /\ Cache!IsText(r[k]) <=> Cache!IsText(s[k])
                             /\ Cache!IsText(s[k]) => r[k] = s[k]
    <3>1. ~Cache!IsText(s[j])
      BY <2>22 DEF q
    <3> QED
      BY <2>5, <2>6, <3>1
  <2>18. \A k \in DOMAIN s : Nth(r, k) = Nth(s, k)
    <3>1. Len(s) <= Len(r)
      BY <2>4, <2>6
    <3> QED
      BY <2>4, <2>6, <2>17, <3>1, NthStays
  <2>19. TextCached(cards', texts')
    <3> SUFFICES ASSUME NEW k \in DOMAIN cards, cards'[k].sender = "agent",
                        NEW l \in DOMAIN cards'[k].segments, Cache!IsText(cards'[k].segments[l])
                 PROVE  texts[cards'[k].id][Nth(cards'[k].segments, l)]
                          \in {Cache!None, cards'[k].segments[l].text}
      BY <2>10 DEF TextCached
    <3>1. CASE k # i
      BY <1>2, <2>10, <3>1 DEF TextCached
    <3>2. CASE k = i
      <4>1. /\ cards'[k].segments = r /\ cards'[k].id = m.id /\ l \in DOMAIN s /\ Cache!IsText(r[l])
        BY <2>6, <2>7, <2>10, <3>2
      <4>2. r[l] = s[l] /\ Nth(r, l) = Nth(s, l) /\ Cache!IsText(s[l])
        BY <2>17, <2>18, <4>1
      <4>3. texts[m.id][Nth(s, l)] \in {Cache!None, s[l].text}
        BY <1>2, <2>3, <2>9, <4>1, <4>2 DEF TextCached, m, s
      <4> QED
        BY <4>1, <4>2, <4>3
    <3> QED
      BY <3>1, <3>2
  <2>20. /\ PlanIsCurrent(cards', children', built', builtStale')
         /\ PlanIsCurrent(cards', children', stack', stackStale')
    BY <2>2 DEF PlanIsCurrent
  <2>21. ActiveIsAgent(cards', active', next')
    BY <1>2, <2>10, <2>11 DEF ActiveIsAgent
  <2> QED
    BY <1>3, <2>10, <2>13, <2>15, <2>16, <2>19, <2>20, <2>21 DEF CacheInv
<1> QED
  BY <1>5, <1>6

(* Of what is cleared nothing is kept.                                      *)
LEMMA ClearedStep ==
  ASSUME CacheParameters, CacheInv, NEW history, history = <<>> \/ history = cards,
         Cache!Cleared(history)
  PROVE  CacheInv'
<1> DEFINE one == Cache!Text(1)
<1>1. /\ cards' = [i \in DOMAIN history |->
                    Cache!Message(history[i].id, history[i].sender, "done", <<one>>)]
      /\ children' = [t \in Cache!Ids |-> <<>>] /\ active' = Cache!Nobody
      /\ texts' = [i \in Cache!Ids |-> Cache!NoTexts]
      /\ users' = [i \in Cache!Ids |-> Cache!NoUser]
      /\ blocks' = [i \in Cache!Ids |-> Cache!None]
      /\ builtStale' = FALSE => built' = Cache!Build(cards', children')
      /\ stackStale' = TRUE /\ builtStale' \in BOOLEAN /\ next' = next
  BY DEF Cache!Cleared, Cache!Synced
<1>2. /\ cards \in Seq(ACard) /\ next \in Nat \ {0}
      /\ \A i \in DOMAIN cards : cards[i].id \in Cache!Ids /\ cards[i].id < next
      /\ \A i, j \in DOMAIN cards : cards[i].id = cards[j].id => i = j
  BY DEF CacheInv, CardsTyped
<1>3. /\ history \in Seq(ACard)
      /\ \A i \in DOMAIN history : history[i].id \in Cache!Ids /\ history[i].id < next
      /\ \A i, j \in DOMAIN history : history[i].id = history[j].id => i = j
  <2>1. CASE history = <<>>
    <3>1. <<>> \in Seq(ACard) /\ DOMAIN <<>> = {}
      OBVIOUS
    <3> QED
      BY <2>1, <3>1
  <2>2. CASE history = cards
    BY <1>2, <2>2
  <2> QED
    BY <2>1, <2>2
<1>4. one \in ASegment /\ Cache!IsText(one)
  BY TextSegment
<1> HIDE DEF one
<1>5. /\ <<one>> \in Seq(ASegment) /\ Len(<<one>>) = 1 /\ DOMAIN <<one>> = {1} /\ <<one>>[1] = one
      /\ 1 <= MaxSegments
  BY <1>4 DEF CacheParameters
<1>6. DOMAIN cards' = DOMAIN history
      /\ \A i \in DOMAIN history :
           /\ cards'[i].id = history[i].id /\ cards'[i].sender = history[i].sender
           /\ cards'[i].segments = <<one>> /\ cards'[i].status = "done"
           /\ cards'[i] = [id |-> history[i].id, sender |-> history[i].sender, status |-> "done",
                           segments |-> <<one>>]
  BY <1>1 DEF Cache!Message
<1>7. \A i \in DOMAIN history : cards'[i] \in ACard
  <2> SUFFICES ASSUME NEW i \in DOMAIN history PROVE cards'[i] \in ACard
    OBVIOUS
  <2>1. history[i] \in ACard
    BY <1>3
  <2>2. history[i].id \in Nat /\ history[i].sender \in {"user", "agent"}
    BY <2>1 DEF ACard
  <2> DEFINE only == <<one>>
  <2>3. /\ only \in Seq(ASegment)
        /\ cards'[i] = [id |-> history[i].id, sender |-> history[i].sender, status |-> "done",
                        segments |-> only]
    BY <1>5, <1>6
  <2> HIDE DEF only
  <2> QED
    BY <2>2, <2>3 DEF ACard
<1>8. cards' \in Seq(ACard)
  <2>1. cards' = [i \in DOMAIN history |-> cards'[i]]
    BY <1>1
  <2>2. DOMAIN history = 1..Len(history) /\ Len(history) \in Nat
    BY <1>3
  <2>3. cards' \in [1..Len(history) -> ACard]
    BY <1>7, <2>1, <2>2
  <2> QED
    BY <2>2, <2>3
<1>9. CardsTyped(cards', children', next')
  <2> DEFINE only == <<one>>
  <2>4. /\ Len(only) <= MaxSegments /\ 1 \in DOMAIN only
        /\ \A j \in DOMAIN only : Cache!IsText(only[j])
    <3>1. \A j \in DOMAIN only : j = 1
      BY <1>5
    <3>2. Len(only) = 1 /\ only[1] = one /\ DOMAIN only = {1}
      BY <1>5
    <3> HIDE DEF only
    <3> QED
      BY <1>4, <1>5, <3>1, <3>2
  <2>5. \A i \in DOMAIN history :
          cards'[i].id = history[i].id /\ cards'[i].segments = only
    BY <1>6
  <2> HIDE DEF only
  <2>1. \A i \in DOMAIN cards' :
          /\ cards'[i].id \in Cache!Ids /\ cards'[i].id < next'
          /\ Len(cards'[i].segments) <= MaxSegments
          /\ 1 \in DOMAIN cards'[i].segments
          /\ \A j \in DOMAIN cards'[i].segments : Cache!IsText(cards'[i].segments[j])
    <3>1. DOMAIN cards' = DOMAIN history /\ next' = next
      BY <1>1, <1>6
    <3> QED
      BY <1>3, <2>4, <2>5, <3>1
  <2>2. \A i, j \in DOMAIN cards' : cards'[i].id = cards'[j].id => i = j
    BY <1>3, <1>6
  <2>3. DOMAIN children' = Cache!Ids /\ next' \in Nat \ {0}
    BY <1>1, <1>2
  <2> QED
    BY <1>8, <2>1, <2>2, <2>3 DEF CardsTyped
<1>10. \A i, j, t : ~ToolAt(cards', i, j, t)
  BY <1>4, <1>5, <1>6 DEF ToolAt
<1>11. CardsOfTools(cards', children', next')
  <2>1. \A t \in Cache!Ids : children'[t] = <<>>
    BY <1>1
  <2> QED
    BY <1>10, <2>1 DEF CardsOfTools
<1>12. ToolCached(cards', blocks')
  BY <1>10 DEF ToolCached
<1>13. CachesTyped(texts', users', blocks')
  BY <1>1 DEF CachesTyped, Cache!NoTexts
<1>14. UserCached(cards', users')
  BY <1>1, <1>3, <1>6 DEF UserCached
<1>15. TextCached(cards', texts')
  <2> SUFFICES ASSUME NEW i \in DOMAIN cards', NEW j \in DOMAIN cards'[i].segments,
                      Cache!IsText(cards'[i].segments[j])
               PROVE  texts'[cards'[i].id][Nth(cards'[i].segments, j)] = Cache!None
    BY DEF TextCached
  <2>1. cards'[i].segments = <<one>> /\ cards'[i].id \in Cache!Ids
    BY <1>3, <1>6
  <2> DEFINE s == cards'[i].segments
  <2>2. s \in Seq(ASegment) /\ Len(s) <= MaxSegments /\ j \in DOMAIN s /\ Cache!IsText(s[j])
    BY <1>5, <2>1
  <2> HIDE DEF s
  <2>3. Nth(s, j) \in 1..MaxSegments
    BY <2>2, NthFacts
  <2>4. texts'[cards'[i].id] = Cache!NoTexts
    BY <1>1, <2>1
  <2> QED
    BY <2>3, <2>4 DEF Cache!NoTexts, s
<1>16. /\ PlanIsCurrent(cards', children', built', builtStale')
       /\ PlanIsCurrent(cards', children', stack', stackStale')
  BY <1>1 DEF PlanIsCurrent
<1>17. ActiveIsAgent(cards', active', next')
  <2>1. \A i \in DOMAIN cards' : cards'[i].id # 0
    BY <1>3, <1>6 DEF Cache!Ids
  <2>2. active' = 0 /\ 0 \in Nat /\ 0 < next'
    BY <1>1, <1>2 DEF Cache!Nobody
  <2> QED
    BY <2>1, <2>2 DEF ActiveIsAgent
<1> QED
  BY <1>9, <1>11, <1>12, <1>13, <1>14, <1>15, <1>16, <1>17 DEF CacheInv

(* Every step preserves the invariant of what is kept.                      *)
LEMMA CacheNext ==
  ASSUME CacheParameters, CacheInv, [Cache!Next]_Cache!vars
  PROVE  CacheInv'
<1>1. CASE Cache!Frame
  BY <1>1, FrameStep
<1>2. CASE Cache!UserMessageQueued
  <2>1. Cache!AddMessageWithId("user", 1, "queued")
    BY <1>2 DEF Cache!UserMessageQueued
  <2> QED
    BY <2>1, AddMessageStep
<1>3. CASE Cache!Started
  <2>1. Cache!AddMessageWithId("agent", 0, "active")
    BY <1>3 DEF Cache!Started
  <2> QED
    BY <2>1, AddMessageStep
<1>4. CASE Cache!Error
  <2>1. Cache!AddMessageWithId("agent", 1, "done")
    BY <1>4 DEF Cache!Error
  <2> QED
    BY <2>1, AddMessageStep
<1>5. ASSUME NEW i \in DOMAIN cards, Cache!TextDelta(i)
      PROVE  CacheInv'
  BY <1>5, TextDeltaStep
<1>6. ASSUME NEW i \in DOMAIN cards,
             Cache!SetMessageStatus(i, Cache!AfterStatus(cards[i].status))
      PROVE  CacheInv'
  <2> DEFINE status == Cache!AfterStatus(cards[i].status)
  <2>1. status \in {"active", "done"} /\ Cache!SetMessageStatus(i, status)
    BY <1>6 DEF Cache!AfterStatus
  <2> HIDE DEF status
  <2> QED
    BY <2>1, SetStatusStep
<1>7. ASSUME NEW what \in {"write", "task"}, Cache!ToolCallStarted(what)
      PROVE  CacheInv'
  BY <1>7, ToolCallStartedStep
<1>8. ASSUME NEW t \in Cache!Ids, Cache!ToolCallDone(t)
      PROVE  CacheInv'
  <2>1. /\ Cache!UpdateToolCall(t, "done") /\ children' = children
        /\ active' = active /\ next' = next /\ stack' = stack /\ texts' = texts /\ users' = users
    BY <1>8 DEF Cache!ToolCallDone
  <2>2. DOMAIN children' = Cache!Ids /\ OnlyChildrenOf(t, children, children')
    BY <2>1 DEF CacheInv, CardsTyped, OnlyChildrenOf
  <2> QED
    BY <2>1, <2>2, UpdateToolCallStep
<1>9. ASSUME NEW t \in Cache!Ids, Cache!SubAgentProgress(t)
      PROVE  CacheInv'
  <2>1. /\ Cache!UpdateToolCall(t, "active") /\ children' \in Cache!Upserted(t)
        /\ Cache!HasToolSegment(t) /\ Cache!FindToolSegment(t).what = "task"
        /\ active' = active /\ next' = next /\ stack' = stack /\ texts' = texts /\ users' = users
    BY <1>9 DEF Cache!SubAgentProgress
  <2>2. DOMAIN children' = Cache!Ids /\ OnlyChildrenOf(t, children, children')
    BY <2>1 DEF CacheInv, CardsTyped, OnlyChildrenOf, Cache!Upserted
  <2> QED
    BY <2>1, <2>2, UpdateToolCallStep
<1>10. CASE Cache!ConversationCleared
  <2>1. Cache!Cleared(<<>>)
    BY <1>10 DEF Cache!ConversationCleared
  <2> QED
    BY <2>1, ClearedStep
<1>11. CASE Cache!ConversationCompacted
  <2>1. Cache!Cleared(cards)
    BY <1>11 DEF Cache!ConversationCompacted
  <2> QED
    BY <2>1, ClearedStep
<1>12. CASE UNCHANGED Cache!vars
  BY <1>12 DEF Cache!vars, Cache!session, Cache!components, Cache!caches, CacheInv
<1> QED
  BY <1>1, <1>2, <1>3, <1>4, <1>5, <1>6, <1>7, <1>8, <1>9, <1>10, <1>11, <1>12 DEF Cache!Next

(* The next frame shows the session: each text to its last delta, each card *)
(* with its state, its peek and a row for every tool of its sub-agent,      *)
(* whatever is kept of the frames before: for every number of messages,     *)
(* segments, deltas and children.                                           *)
THEOREM ShowsTheSession ==
  ASSUME CacheParameters
  PROVE  Cache!Spec => []Cache!ShowsTheSession
<1>1. Cache!Init => CacheInv
  BY CacheInit
<1>2. CacheInv /\ [Cache!Next]_Cache!vars => CacheInv'
  BY CacheNext
<1>3. CacheInv => Cache!ShowsTheSession
  BY InvShows
<1> QED
  BY <1>1, <1>2, <1>3, PTL DEF Cache!Spec
=============================================================================
