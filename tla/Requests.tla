------------------------------ MODULE Requests ------------------------------
(***************************************************************************)
(* What of a conversation reaches the model: the request a round is built  *)
(* from (system prompt, reminders, history, tools) and the three wire      *)
(* forms it is sent in: chat completions, responses (OpenAI with a         *)
(* sign-in) and Bedrock's Converse.                                        *)
(*                                                                         *)
(* Histories grow the way turns grow them and are compacted like theirs.   *)
(* The text of a message is left out; a wire item says which message it is *)
(* made of.                                                                *)
(***************************************************************************)
EXTENDS History, SequencesExt, Ordered

CONSTANTS
  MaxMessages,   \* bound: messages of a history
  MaxTurns,      \* bound: turns
  MaxTools,      \* bound: tools of a round
  Keep           \* auto_compact_keep_last

VARIABLES
  history,
  turn,          \* [id, asked, open, over]: the turn, its rounds, the round's
                 \* tools still without a result, whether it ended
  sent           \* the request that is being answered

vars == <<history, turn, sent>>

(* What a round's snapshot of the configuration may be.                    *)
Configs ==
  {c \in [provider : {"openai-compatible", "openai", "bedrock"},
          oauth : BOOLEAN,              \* ResolveEffectiveAuth has a sign-in
          agents : BOOLEAN,             \* AGENTS.md or CLAUDE.md is there
          mode : {"build", "plan"},
          reminder : BOOLEAN] :         \* active_plan_path, build_switch_plan_path
     c.oauth => c.provider = "openai"}

NothingSent == [provider |-> "none", instructions |-> {}, items |-> <<>>, tools |-> {}]

Init ==
  /\ history = <<>>
  /\ turn = [id |-> 0, asked |-> 0, open |-> {}, over |-> TRUE]
  /\ sent = NothingSent

-----------------------------------------------------------------------------
(* The conversation.                                                       *)
Grows(message) ==
  /\ Len(history) < MaxMessages
  /\ history' = Append(history, message)
  /\ sent' = NothingSent

(* A prompt, also after a turn that was cancelled among its tools.         *)
AppendActiveUserMessage ==
  /\ turn.id < MaxTurns
  /\ Grows(UserMessage(turn.id + 1))
  /\ turn' = [id |-> turn.id + 1, asked |-> 0, open |-> {}, over |-> FALSE]

(* The turn goes on with a round.                                          *)
Answering == ~turn.over /\ turn.open = {} /\ Last(history).role \in {"user", "tool"}

AppendAssistantToolRound(n) ==
  /\ Answering
  /\ Grows(CallsMessage(turn.id, turn.asked + 1, n))
  /\ turn' = [turn EXCEPT !.asked = @ + 1, !.open = 1..n]

AppendToolResult(k) ==
  /\ ~turn.over
  /\ k \in turn.open /\ \A j \in turn.open : k <= j
  /\ Grows(ResultMessage(turn.id, turn.asked, k))
  /\ turn' = [turn EXCEPT !.open = @ \ {k}]

AppendFinalAssistantMessage ==
  /\ Answering
  /\ Grows(FinalMessage(turn.id, turn.asked + 1))
  /\ turn' = [turn EXCEPT !.over = TRUE]

(* Between two turns; a cancelled one ends anywhere.                       *)
Compact ==
  /\ CompactHistory(history, Keep) # history
  /\ history' = CompactHistory(history, Keep)
  /\ turn' = [turn EXCEPT !.over = TRUE]
  /\ sent' = NothingSent

-----------------------------------------------------------------------------
(* The request: ChatServiceRequestBuilder.                                 *)
ComposeSystemPrompt(c) ==
  (IF c.agents THEN {"workspace prompt"} ELSE {})
    \cup (IF ~c.reminder THEN {}
          ELSE IF c.mode = "plan" THEN {"plan reminder"} ELSE {"switch reminder"})

SystemPrompt == [Notice EXCEPT !.n = 1]

WithSystemPrompt(messages, prompt) ==
  IF prompt = {} THEN messages ELSE <<SystemPrompt>> \o messages

BuiltInTools == {"file_read", "file_write", "plan_exit"}
McpTools == {"mcp tool"}

IsToolAllowedForMode(mode, tool) ==
  IF mode = "plan" THEN tool \in {"file_read", "plan_exit"} ELSE tool # "plan_exit"

FilterToolsForAgentMode(mode) ==
  {t \in BuiltInTools \cup McpTools : IsToolAllowedForMode(mode, t)}

BuildRequest(c) ==
  LET prompt == ComposeSystemPrompt(c) IN
  [messages |-> WithSystemPrompt(history, prompt),
   instructions |-> IF c.provider = "openai" THEN prompt ELSE {},
   tools |-> FilterToolsForAgentMode(c.mode)]

-----------------------------------------------------------------------------
(* The wire forms.  An item is a role and the messages it carries.         *)
Item(role, parts) == [role |-> role, parts |-> parts]

RoleToOpenAi(m) ==
  CASE m.role = "calls" -> "assistant"
    [] m.role = "assistant" -> "assistant"
    [] OTHER -> m.role

BuildChatPayload(messages) ==
  [i \in DOMAIN messages |-> Item(RoleToOpenAi(messages[i]), <<messages[i]>>)]

(* With a sign-in the instructions are never empty: Codex's own come first.*)
WithCodexInstructions(instructions) == {"codex"} \cup instructions

SystemSkipped(instructions, m) == instructions # {} /\ m.role = "system"

BuildResponsesPayload(messages, instructions) ==
  LET input == PickedAt(messages, {i \in DOMAIN messages :
                                     ~SystemSkipped(instructions, messages[i])})
      ItemsOf(m) ==
        CASE m.role = "calls" ->
               [k \in 1..m.n |-> Item("function_call", <<m>>)]
          [] m.role = "tool" -> <<Item("function_call_output", <<m>>)>>
          [] OTHER -> <<Item(m.role, <<m>>)>>
  IN FlattenSeq([i \in DOMAIN input |-> ItemsOf(input[i])])

(* A run of tool results, which a system message breaks as well, becomes   *)
(* one user message.                                                       *)
Alone(messages, i) == TRUE
Begins(messages, i) ==
  ~(messages[i].role = "tool" /\ i > 1 /\ messages[i - 1].role = "tool")

RunFrom(messages, i) ==
  LET after == {j \in DOMAIN messages : j > i /\ Begins(messages, j)}
      end == IF after = {} THEN Len(messages)
             ELSE (CHOOSE j \in after : \A k \in after : j <= k) - 1
  IN SubSeq(messages, i, end)

BedrockRole(m) == IF m.role \in {"user", "tool"} THEN "user" ELSE "assistant"

CoalesceToolResults(messages) ==
  LET starts == InOrder({i \in DOMAIN messages :
                           Begins(messages, i) /\ messages[i].role # "system"})
  IN [s \in DOMAIN starts |->
        Item(BedrockRole(messages[starts[s]]), RunFrom(messages, starts[s]))]

(* The texts of all system messages are one system block.                  *)
BuildConverseStreamRequest(messages) ==
  LET system == PickedAt(messages, {i \in DOMAIN messages : messages[i].role = "system"})
  IN (IF system = <<>> THEN <<>> ELSE <<Item("system", system)>>)
       \o CoalesceToolResults(messages)

CompleteStream(c, request) ==
  IF c.provider = "bedrock" THEN BuildConverseStreamRequest(request.messages)
  ELSE IF c.oauth
  THEN BuildResponsesPayload(request.messages, WithCodexInstructions(request.instructions))
  ELSE BuildChatPayload(request.messages)

(* A round is asked for after a prompt or after the results of its tools,  *)
(* with the configuration of that moment.                                  *)
BuildRoundRequest(c) ==
  /\ Answering
  /\ LET request == BuildRequest(c) IN
     sent' = [provider |-> c.provider, instructions |-> request.instructions,
              items |-> CompleteStream(c, request), tools |-> request.tools]
  /\ UNCHANGED <<history, turn>>

Next ==
  \/ AppendActiveUserMessage
  \/ AppendFinalAssistantMessage
  \/ Compact
  \/ \E c \in Configs : BuildRoundRequest(c)
  \/ \E n \in 1..MaxTools : AppendAssistantToolRound(n)
  \/ \E k \in 1..MaxTools : AppendToolResult(k)

Spec == Init /\ [][Next]_vars

-----------------------------------------------------------------------------
TypeOK ==
  /\ \A i \in DOMAIN history : history[i].role \in Roles
  /\ turn.open \subseteq 1..MaxTools
  /\ sent.tools \subseteq BuiltInTools \cup McpTools

(* Converse wants the results of a round together, in the message after    *)
(* the one that asks for the tools: so they are sent, whatever surrounds   *)
(* them, and no message of the conversation is left out.                   *)
ResultsFollowCalls ==
  sent # NothingSent /\ sent.provider = "bedrock" =>
    /\ \A s \in DOMAIN sent.items : sent.items[s].parts[1].role = "calls" =>
         LET m == sent.items[s].parts[1]
             answers == {j \in DOMAIN history :
                           /\ history[j].role = "tool"
                           /\ history[j].turn = m.turn
                           /\ history[j].round = m.round}
         IN answers # {} =>
              /\ s + 1 \in DOMAIN sent.items
              /\ Range(sent.items[s + 1].parts) = {history[j] : j \in answers}
    /\ \A j \in DOMAIN history :
         \E s \in DOMAIN sent.items : history[j] \in Range(sent.items[s].parts)

(* What a compaction put in the place of the messages it removed, their    *)
(* summary, is part of every later request.                                *)
SummaryIsSent ==
  sent # NothingSent /\ Notice \in Range(history) =>
    \E s \in DOMAIN sent.items : Notice \in Range(sent.items[s].parts)

=============================================================================
