------------------------------- MODULE History -------------------------------
(***************************************************************************)
(* The conversation history: the sequence of messages that ChatService     *)
(* keeps under its mutex and replays to the provider on every round        *)
(* (ChatHistoryStore, ChatServiceHistory).                                 *)
(*                                                                         *)
(* A message keeps what the properties tell apart: who wrote it, the turn  *)
(* it belongs to (a turn is named by the id of the prompt that started     *)
(* it), the provider round inside the turn, and a number: how many tools   *)
(* an assistant round requested, or which of them a tool message answers.  *)
(* Text, status, tool name and arguments are left out.                     *)
(***************************************************************************)
EXTENDS Naturals, Sequences, FiniteSets

Roles == {"system", "user", "calls", "tool", "assistant"}

Messages == [role : Roles, turn : Nat, round : Nat, n : Nat]

Message(role, t, r, n) == [role |-> role, turn |-> t, round |-> r, n |-> n]

(* AppendActiveUserMessage, and the message a continuation is stored as. *)
UserMessage(t) == Message("user", t, 0, 0)

(* AppendAssistantToolRound: the assistant turn that requests n tools. *)
CallsMessage(t, r, n) == Message("calls", t, r, n)

(* AppendToolResult: the answer to the k-th tool of round r. *)
ResultMessage(t, r, k) == Message("tool", t, r, k)

(* AppendFinalAssistantMessage. *)
FinalMessage(t, r) == Message("assistant", t, r, 0)

(* The system message left in the place of what a compaction removed. *)
Notice == Message("system", 0, 0, 0)

-----------------------------------------------------------------------------
(* The only system messages of a history are the notices of earlier         *)
(* compactions, and they come first: each compaction puts its notice just   *)
(* before the first non-system message.                                     *)
SystemsLead(h) ==
  \A i, j \in DOMAIN h : i < j /\ h[j].role = "system" => h[i].role = "system"

Leading(h) == Cardinality({i \in DOMAIN h : h[i].role = "system"})

NonSystem(h) == Len(h) - Leading(h)

(* CompactHistory: keep the leading system messages, put a notice after     *)
(* them, drop the oldest non-system messages until keep of them are left.   *)
(* On a history whose system messages lead, the messages that survive are   *)
(* its last keep ones.                                                      *)
CompactHistory(h, keep) ==
  IF NonSystem(h) <= keep
  THEN h
  ELSE SubSeq(h, 1, Leading(h)) \o <<Notice>>
         \o SubSeq(h, Len(h) - keep + 1, Len(h))

(* The turn t has its prompt in the history. *)
HasPrompt(h, t) == \E i \in DOMAIN h : h[i] = UserMessage(t)

(* The k-th tool of round r of turn t has been answered after position i. *)
Answered(h, i, t, r, k) ==
  \E j \in DOMAIN h : i < j /\ h[j] = ResultMessage(t, r, k)
=============================================================================
