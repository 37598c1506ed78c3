------------------------------ MODULE ScreenCache -----------------------------
(***************************************************************************)
(* What ChatUI keeps between two frames: the components built from the     *)
(* session's messages, the stack that shows them, and the elements drawn   *)
(* from each text, user message and tool card (MessageRenderCacheStore).   *)
(* The events of the chat change the session and reset what they know to   *)
(* be stale; all runs on the UI thread.                                    *)
(*                                                                         *)
(* A text is the number of deltas in it, a tool block the number of        *)
(* changes to it.  The generations are booleans: whether they moved since  *)
(* the reader last looked.  Left out are notices, colours and heights, the *)
(* filler that stands for a card off the screen, and the width: an element *)
(* of another width is never shown.                                        *)
(***************************************************************************)
EXTENDS Naturals, Sequences, FiniteSets, SequencesExt

CONSTANTS MaxIds,      \* message and tool ids
          MaxSegments, \* segments of a message
          MaxText, MaxBlock, MaxChildren

VARIABLES messages,    \* messages_
          children,    \* sub_agent_tool_messages_, by the id of the card
          active,      \* active_agent_id_
          next,        \* next_id_
          built,       \* message_components_
          builtStale,  \* ~plan_valid_ or the plan generation moved on
          stack,       \* the children of the DynamicMessageStack
          stackStale,  \* the plan generation moved since seen_generation_
          texts, users, tools   \* the caches, by id

session == <<messages, children, active, next>>
components == <<built, builtStale, stack, stackStale>>
caches == <<texts, users, tools>>
vars == <<session, components, caches>>

Ids == 1..MaxIds
Nobody == 0

None == MaxText + MaxBlock       \* nothing is kept
NoUser == <<None, "none">>
NoTexts == [k \in 1..MaxSegments |-> None]

Text(n) == [kind |-> "text", text |-> n]
Tool(t, what, status) ==
  [kind |-> "tool", id |-> t, what |-> what, block |-> 1, status |-> status]
IsText(segment) == segment.kind = "text"

TypeOK ==
  /\ Len(messages) <= MaxIds /\ next \in 1..(MaxIds + 1) /\ active \in Ids \cup {Nobody}
  /\ \A i \in DOMAIN messages :
       /\ messages[i].id \in Ids /\ messages[i].sender \in {"user", "agent"}
       /\ messages[i].status \in {"queued", "active", "done"}
       /\ Len(messages[i].segments) <= MaxSegments
  /\ \A t \in Ids : Len(children[t]) <= MaxChildren
  /\ builtStale \in BOOLEAN /\ stackStale \in BOOLEAN

Init ==
  /\ messages = <<>> /\ children = [t \in Ids |-> <<>>] /\ active = Nobody /\ next = 1
  /\ built = <<>> /\ builtStale = TRUE /\ stack = <<>> /\ stackStale = TRUE
  /\ texts = [i \in Ids |-> NoTexts] /\ users = [i \in Ids |-> NoUser]
  /\ tools = [i \in Ids |-> None]

-----------------------------------------------------------------------------
(* The session.                                                            *)

Messages(id) == {i \in DOMAIN messages : messages[i].id = id}
Places(t) == {p \in (DOMAIN messages) \X (1..MaxSegments) :
               /\ p[2] <= Len(messages[p[1]].segments)
               /\ ~IsText(messages[p[1]].segments[p[2]])
               /\ messages[p[1]].segments[p[2]].id = t}
HasToolSegment(t) == Places(t) # {}
FindToolSegment(t) ==
  LET p == CHOOSE p \in Places(t) : TRUE IN messages[p[1]].segments[p[2]]

Message(id, sender, status, segments) ==
  [id |-> id, sender |-> sender, status |-> status, segments |-> segments]

TextsOf(segments) == Cardinality({j \in DOMAIN segments : IsText(segments[j])})

\* Mutant: counted among all segments.
LastSegmentIndex(segments) == Len(segments)

\* The trailing text segment, counted among the texts.
TrailingTextSegmentIndex(segments) == TextsOf(segments)

PlanMoved == builtStale' = TRUE /\ stackStale' = TRUE

-----------------------------------------------------------------------------
(* The components: what is fixed when they are built.                      *)

\* The state of a sub-agent's tool, a file_write: 1 while it runs, then 2.
Running == 1
Ended == 2

\* The rows of a card and the peeks are those of this moment.
BuildTool(segment, rows) ==
  [kind |-> "tool", id |-> segment.id, rows |-> IF segment.what = "task" THEN rows ELSE <<>>,
   peek |-> segment.what = "write" /\ segment.status = "active"]

BuildAgent(m, childTools) ==
  [j \in DOMAIN m.segments |->
     IF IsText(m.segments[j])
     THEN [kind |-> "text", at |-> j, nth |-> TextsOf(SubSeq(m.segments, 1, j))]
     ELSE BuildTool(m.segments[j], [c \in DOMAIN childTools[m.segments[j].id] |->
                                        childTools[m.segments[j].id][c] = Running])]

Build(ms, childTools) ==
  [i \in DOMAIN ms |->
     IF ms[i].sender = "user" THEN <<>> ELSE BuildAgent(ms[i], childTools)]

\* SyncMessageComponents, with the session as the step leaves it.
Synced == built' = Build(messages', children') /\ builtStale' = FALSE

-----------------------------------------------------------------------------
(* What a frame drawn now would show.                                      *)

\* RenderTextSegment: the element or the parsed blocks, else the text; an
\* element is drawn from the blocks and never outlives them.
DrawnText(m, part) ==
  IF texts[m.id][part.nth] # None THEN texts[m.id][part.nth] ELSE m.segments[part.at].text

DrawnBlock(t) == IF tools[t] # None THEN tools[t] ELSE FindToolSegment(t).block

DrawnPart(m, part) ==
  CASE part.kind = "text" ->
         IF part.at > Len(m.segments) \/ ~IsText(m.segments[part.at]) THEN <<"blank">>
         ELSE <<"text", DrawnText(m, part)>>
    [] part.kind = "tool" ->
         IF ~HasToolSegment(part.id) THEN <<"unavailable">>
         ELSE <<"tool", DrawnBlock(part.id), part.peek,
                [r \in DOMAIN part.rows |-> <<children[part.id][r], part.rows[r]>>]>>

DrawnUser(m) == IF users[m.id] # NoUser THEN users[m.id] ELSE <<m.segments[1].text, m.status>>

\* SyncChildren takes the components anew when the plan generation moved.
Children == IF ~stackStale THEN stack
            ELSE IF builtStale THEN Build(messages, children) ELSE built

Drawn == [i \in DOMAIN Children |->
            IF messages[i].sender = "user" THEN DrawnUser(messages[i])
            ELSE [j \in DOMAIN Children[i] |-> DrawnPart(messages[i], Children[i][j])]]

(* And a screen drawn from the session alone.                              *)
FreshPart(segment) ==
  IF IsText(segment) THEN <<"text", segment.text>>
  ELSE <<"tool", segment.block, segment.what = "write" /\ segment.status = "active",
         [c \in DOMAIN children[segment.id] |->
            <<children[segment.id][c], children[segment.id][c] = Running>>]>>

Fresh == [i \in DOMAIN messages |->
            IF messages[i].sender = "user" THEN <<messages[i].segments[1].text, messages[i].status>>
            ELSE [j \in DOMAIN messages[i].segments |-> FreshPart(messages[i].segments[j])]]

-----------------------------------------------------------------------------
(* A frame.                                                                *)

PartOf(i, k) == {part \in Range(Children[i]) : part.kind = "text" /\ part.nth = k}

Shows(t) == \E i \in DOMAIN Children : messages[i].sender = "agent"
              /\ \E part \in Range(Children[i]) : part.kind = "tool" /\ part.id = t

Frame ==
  /\ stack' = Children /\ stackStale' = FALSE
  /\ IF stackStale THEN built' = Children /\ builtStale' = FALSE
     ELSE UNCHANGED <<built, builtStale>>
  /\ texts' = [id \in Ids |-> [k \in 1..MaxSegments |->
       LET shown == {i \in Messages(id) : messages[i].sender = "agent" /\ PartOf(i, k) # {}} IN
       IF shown = {} THEN texts[id][k]
       ELSE LET i == CHOOSE i \in shown : TRUE IN
            DrawnText(messages[i], CHOOSE p \in PartOf(i, k) : TRUE)]]
  /\ users' = [id \in Ids |->
       IF \E i \in Messages(id) : messages[i].sender = "user"
       THEN DrawnUser(messages[CHOOSE i \in Messages(id) : TRUE]) ELSE users[id]]
  /\ tools' = [t \in Ids |->
       IF Shows(t) /\ HasToolSegment(t) THEN DrawnBlock(t) ELSE tools[t]]
  /\ UNCHANGED session

-----------------------------------------------------------------------------
(* The events of the chat.                                                 *)

AddMessageWithId(sender, content, status) ==
  /\ next \in Ids /\ next' = next + 1 /\ UNCHANGED children
  /\ messages' = Append(messages, Message(next, sender, status, <<Text(content)>>))
  /\ active' = IF sender = "agent" /\ status = "active" THEN next ELSE active
  /\ texts' = [texts EXCEPT ![next] = NoTexts]
  /\ users' = [users EXCEPT ![next] = NoUser]
  /\ stackStale' = TRUE /\ Synced
  /\ UNCHANGED <<stack, tools>>

UserMessageQueued == AddMessageWithId("user", 1, "queued")
Started == AddMessageWithId("agent", 0, "active")
Error == AddMessageWithId("agent", 1, "done")

ResetTextSegment(id, k) == texts' = [texts EXCEPT ![id][k] = None]

\* AppendToAgentMessage: a text after a tool opens a segment, and moves the plan.
TextDelta(i) ==
  LET m == messages[i]
      opens == m.segments = <<>> \/ ~IsText(Last(m.segments))
      segments == IF opens THEN Append(m.segments, Text(1))
                  ELSE [m.segments EXCEPT ![Len(m.segments)].text = @ + 1] IN
  /\ m.sender = "agent" /\ m.status = "active" /\ UNCHANGED children
  /\ Len(segments) <= MaxSegments
  /\ Last(segments).text <= MaxText
  /\ messages' = [messages EXCEPT ![i].segments = segments]
  /\ ResetTextSegment(m.id, TrailingTextSegmentIndex(segments))
  /\ stackStale' = (stackStale \/ opens)
  /\ IF opens \/ builtStale THEN Synced ELSE UNCHANGED <<built, builtStale>>
  /\ UNCHANGED <<active, next, stack, users, tools>>

AfterStatus(status) == IF status = "queued" THEN "active" ELSE "done"

\* ResetElement: of a text, what was parsed is kept.
SetMessageStatus(i, status) ==
  LET m == messages[i] IN
  /\ m.status # status
  /\ messages' = [messages EXCEPT ![i].status = status]
  /\ active' = IF m.sender = "user" THEN active
               ELSE IF status = "active" THEN m.id
               ELSE IF active = m.id THEN Nobody ELSE active
  /\ users' = [users EXCEPT ![m.id] = NoUser]
  /\ PlanMoved
  /\ UNCHANGED <<children, next, built, stack, texts, tools>>

\* AddToolCallSegment, in the active agent message or in one of its own.
InActiveTurn(what) ==
  \E i \in Messages(active) :
    /\ next \in Ids /\ next' = next + 1 /\ UNCHANGED active
    /\ Len(messages[i].segments) < MaxSegments
    /\ messages' = [messages EXCEPT ![i].segments = Append(@, Tool(next, what, "active"))]

EnsureAgentTurn(what) ==
  /\ Messages(active) = {} /\ next + 1 \in Ids /\ next' = next + 2 /\ active' = next + 1
  /\ messages' = Append(messages,
       Message(next + 1, "agent", "active", <<Tool(next, what, "active")>>))

ToolCallStarted(what) ==
  /\ UNCHANGED children
  /\ InActiveTurn(what) \/ EnsureAgentTurn(what)
  /\ tools' = [tools EXCEPT ![next] = None]
  /\ stackStale' = TRUE /\ Synced
  /\ UNCHANGED <<stack, texts, users>>

\* UpdateToolCallMessage, with the children as the event leaves them.
UpdateToolCall(t, status) ==
  /\ tools' = [tools EXCEPT ![t] = None]
  /\ IF HasToolSegment(t)
     THEN /\ FindToolSegment(t).block < MaxBlock
          /\ LET p == CHOOSE p \in Places(t) : TRUE IN
             messages' = [messages EXCEPT ![p[1]].segments[p[2]].block = @ + 1,
                                          ![p[1]].segments[p[2]].status = status]
          /\ PlanMoved /\ UNCHANGED built
     ELSE UNCHANGED <<messages, built, builtStale, stackStale>>

ToolCallDone(t) ==
  /\ UpdateToolCall(t, "done")
  /\ UNCHANGED <<children, active, next, stack, texts, users>>

\* The children of the card, one of them new or changed.
Upserted(t) ==
  {[children EXCEPT ![t] = Append(@, Running)] : c \in 1..(MaxChildren - Len(children[t]))}
    \cup {[children EXCEPT ![t][c] = Ended] : c \in DOMAIN children[t]}

\* Mutant: the child alone, as UpdateSubAgentToolCallMessage leaves it.
ChildOnly(t) ==
  /\ children' \in Upserted(t) /\ HasToolSegment(t) /\ FindToolSegment(t).what = "task"
  /\ tools' = [tools EXCEPT ![t] = None] /\ UNCHANGED messages
  /\ IF Len(children'[t]) > Len(children[t]) THEN Synced ELSE UNCHANGED <<built, builtStale>>
  /\ UNCHANGED <<active, next, stack, stackStale, texts, users>>

\* A new child builds the components, which the stack does not take, as the
\* plan generation has not moved: that is left to the update of the card.
SubAgentProgress(t) ==
  /\ children' \in Upserted(t)
  /\ HasToolSegment(t) /\ FindToolSegment(t).what = "task"
  /\ UpdateToolCall(t, "active")
  /\ UNCHANGED <<active, next, stack, texts, users>>

\* RefreshFromHistory after a compaction, with nothing of it for a reset.
Cleared(history) ==
  /\ messages # <<>>
  /\ messages' = [i \in DOMAIN history |->
       Message(history[i].id, history[i].sender, "done", <<Text(1)>>)]
  /\ children' = [t \in Ids |-> <<>>] /\ active' = Nobody
  /\ texts' = [i \in Ids |-> NoTexts] /\ users' = [i \in Ids |-> NoUser]
  /\ tools' = [i \in Ids |-> None]
  /\ IF history = <<>> THEN built' = <<>> /\ builtStale' = TRUE ELSE Synced
  /\ stackStale' = TRUE
  /\ UNCHANGED <<next, stack>>

ConversationCleared == Cleared(<<>>)
ConversationCompacted == Cleared(messages)

Next ==
  \/ Frame
  \/ UserMessageQueued \/ Started \/ Error
  \/ \E i \in DOMAIN messages :
       TextDelta(i) \/ SetMessageStatus(i, AfterStatus(messages[i].status))
  \/ \E what \in {"write", "task"} : ToolCallStarted(what)
  \/ \E t \in Ids : ToolCallDone(t) \/ SubAgentProgress(t)
  \/ ConversationCleared \/ ConversationCompacted

Spec == Init /\ [][Next]_vars

-----------------------------------------------------------------------------
(* The next frame shows the session: each text to its last delta, each     *)
(* card with its state, its peek and a row for every tool of its           *)
(* sub-agent, whatever the caches, the components and the stack hold.      *)
ShowsTheSession == Drawn = Fresh
=============================================================================
