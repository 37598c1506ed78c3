----------------------------- MODULE MCApprovals -----------------------------
(* Small instances of Approvals for TLC. *)
EXTENDS Approvals, TLC

ToolsAndQuestions == {"tool", "ask"}
ToolsOnly == {"tool"}

Symmetry == Permutations(Agents)
=============================================================================
