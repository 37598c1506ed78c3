----------------------------- MODULE Transcript -----------------------------
(***************************************************************************)
(* What ChatService promises about the conversation it keeps, whatever     *)
(* the threads do: at any time at most one turn holds the pen.  A turn     *)
(* gets it by writing its prompt, and while it holds it writes rounds of   *)
(* tool requests, the answers to them one by one and in order, and one     *)
(* final answer that gives the pen back.  A turn that lost the pen, be it  *)
(* by an error, by a cancellation or because the conversation was cleared, *)
(* never writes again.  Messages of background sub-agents may come in      *)
(* between at any time; the history is cleared or compacted only when      *)
(* nobody is left holding the pen.                                         *)
(***************************************************************************)
EXTENDS History

CONSTANTS
  Turns,     \* the ids of the turns
  Rounds,    \* the numbers of their rounds
  Sizes      \* how many tools a round may request

VARIABLES
  history,   \* the messages
  pen        \* the turn that may write, or 0

vars == <<history, pen>>

Init == history = <<>> /\ pen = 0

Begin == \E t \in Turns :
  /\ pen = 0
  /\ pen' = t
  /\ history' = Append(history, UserMessage(t))

(* A round of tools, once every tool of the round before is answered. *)
Request == \E r \in Rounds, n \in Sizes :
  /\ pen # 0
  /\ \A i \in DOMAIN history :
        history[i].role = "calls" /\ history[i].turn = pen =>
          \A j \in 1..history[i].n :
             Answered(history, i, pen, history[i].round, j)
  /\ history' = Append(history, CallsMessage(pen, r, n))
  /\ UNCHANGED pen

(* The next unanswered tool of the turn's last round. *)
Answer == \E i \in DOMAIN history :
  /\ pen # 0
  /\ history[i].role = "calls" /\ history[i].turn = pen
  /\ \E j \in 1..history[i].n :
       /\ ~Answered(history, i, pen, history[i].round, j)
       /\ \A l \in 1..(j - 1) : Answered(history, i, pen, history[i].round, l)
       /\ history' = Append(history, ResultMessage(pen, history[i].round, j))
  /\ UNCHANGED pen

Conclude == \E r \in Rounds :
  /\ pen # 0
  /\ history' = Append(history, FinalMessage(pen, r))
  /\ pen' = 0

LosePen == pen # 0 /\ pen' = 0 /\ UNCHANGED history

Interject == \E t \in Turns :
  /\ t # pen
  /\ history' = Append(history, UserMessage(t))
  /\ UNCHANGED pen

Clear == history' = <<>> /\ pen' = 0

Compact == \E keep \in 0..Len(history) :
  /\ pen = 0
  /\ history' = CompactHistory(history, keep)
  /\ UNCHANGED pen

Next == Begin \/ Request \/ Answer \/ Conclude \/ LosePen \/ Interject
        \/ Clear \/ Compact

Spec == Init /\ [][Next]_vars
=============================================================================
