------------------------------ MODULE ToolCalls ------------------------------
(***************************************************************************)
(* One tool call from the request of the language model to its result      *)
(* (tool_round_runner.cpp, executor_catalog.cpp, executor.cpp,             *)
(* agent_mode.cpp, workspace_filesystem.cpp and                            *)
(* filesystem_tool_executor.cpp): the call is prepared, the user may have  *)
(* to approve it, the agent mode is read again, the executor resolves the  *)
(* path and reads and writes the workspace file by file.  The user may     *)
(* switch the mode, answer or stop the turn and change the files at any    *)
(* point in between.                                                       *)
(*                                                                         *)
(* Arguments are the keys that are there with the type the tool wants      *)
(* (has) and the ones that are there with another type (bad).  The         *)
(* conversation of the user and the one of a sub-agent run the same code;  *)
(* agent tells which one this is.                                          *)
(***************************************************************************)
EXTENDS Naturals, FiniteSets

CONSTANTS MaxCalls,   \* calls in a behaviour
          MaxSwitches \* mode switches, and changes of the file, by the user

VARIABLES agent, mode, disk, todos, stopped, call, made, switches

vars == <<agent, mode, disk, todos, stopped, call, made, switches>>

-----------------------------------------------------------------------------
(* The tools, as their descriptors and their Prepare functions know them.  *)

\* What the schema that the model is given requires.
SchemaRequired ==
  [ file_read |-> {"filepath"}, file_write |-> {"filepath", "content"},
    list_dir |-> {"path"}, lsp_diagnostics |-> {"file_path"},
    lsp_references |-> {"file_path", "line", "character"},
    lsp_goto_definition |-> {"file_path", "line", "character"},
    lsp_rename |-> {"file_path", "line", "character", "new_name"},
    lsp_symbols |-> {"file_path"}, sub_agent |-> {"task"},
    todo_write |-> {"todos"}, ask_user |-> {"question"},
    plan_exit |-> {"plan"}, bash |-> {"command"},
    file_edit |-> {"filepath", "old_string", "new_string"},
    grep |-> {"pattern"}, glob |-> {"pattern"}, web_fetch |-> {"url"},
    web_search |-> {"query"} ]

BuiltIns == DOMAIN SchemaRequired
McpTool == "mcp_tool"
Tools == BuiltIns \cup {McpTool, "unknown"}

SchemaOptional(tool) ==
  CASE tool \in {"lsp_references", "lsp_goto_definition"} -> {"symbol"}
    [] tool = "lsp_rename" -> {"old_name"}
    [] tool = "sub_agent" -> {"mode"}
    [] tool = "ask_user" -> {"options"}
    [] tool = "bash" -> {"timeout_ms"}
    [] tool = "file_edit" -> {"replace_all"}
    [] tool \in {"grep", "glob"} -> {"path", "include_ignored"}
    [] tool = "web_fetch" -> {"format", "timeout"}
    [] tool = "web_search" -> {"num_results", "context_max_characters"}
    [] OTHER -> {}

Keys(tool) == IF tool \in BuiltIns
              THEN SchemaRequired[tool] \cup SchemaOptional(tool) ELSE {}

\* The keys a Prepare function refuses to go without ...
PrepareRequires(tool) ==
  CASE tool \in {"lsp_references", "lsp_diagnostics", "lsp_symbols"} -> {"file_path"}
    [] tool \in {"todo_write", McpTool} -> {}
    [] OTHER -> SchemaRequired[tool]

\* ... and the ones it refuses with another type (OptionalString and
\* OptionalBool take another type for an absent key).
PrepareChecks(tool) ==
  CASE tool = "web_fetch" -> {"timeout"}
    [] tool = "web_search" -> {"num_results", "context_max_characters"}
    [] OTHER -> {}

\* The arguments are parsed again when the call is executed.
ExecuteRequires(tool) ==
  IF tool = "lsp_references" THEN {"file_path", "line", "character"} ELSE {}

RequiresApproval(tool, policy) ==
  \/ tool \in {"file_write", "lsp_rename", "plan_exit", "ask_user", "bash", "file_edit"}
  \/ tool = McpTool /\ policy

IsToolAllowedForMode(m, tool) ==
  IF m = "Build" THEN tool # "plan_exit"
  ELSE tool \in {"file_read", "list_dir", "glob", "grep", "lsp_diagnostics",
                 "lsp_references", "lsp_goto_definition", "lsp_symbols",
                 "sub_agent", "ask_user", "todo_write", "plan_exit"}

PlanModePermission(tool) == mode = "Plan" => IsToolAllowedForMode("Plan", tool)

Writers == {"file_write", "file_edit"}
Readers == {"file_read", "list_dir", "lsp_diagnostics", "lsp_references",
            "lsp_goto_definition", "lsp_symbols", "lsp_rename"}

-----------------------------------------------------------------------------
(* Requests.                                                               *)

Arguments(tool) ==
  { [parsed |-> TRUE, has |-> h, bad |-> b] :
      h \in {Keys(tool)} \cup
            (IF tool \in BuiltIns
             THEN {SchemaRequired[tool]} \cup
                  {SchemaRequired[tool] \ {k} : k \in SchemaRequired[tool]}
             ELSE {}),
      b \in {{}} \cup {{k} : k \in SchemaOptional(tool)} }
  \cup {[parsed |-> FALSE, has |-> {}, bad |-> {}]}

Given(a) == [a EXCEPT !.has = a.has \ a.bad]

SchemaValid(tool, a) ==
  /\ tool \in BuiltIns /\ a.parsed /\ a.bad = {}
  /\ SchemaRequired[tool] \subseteq a.has

\* file: what the path of the call names; "outside" leaves the workspace
\* before any link is followed.
Kinds == {"absent", "text", "big", "dir", "link", "link_outside"}

NoCall == [phase |-> "idle", tool |-> "unknown", args |-> [parsed |-> FALSE, has |-> {}, bad |-> {}],
           outside |-> FALSE, policy |-> FALSE, approved |-> FALSE,
           beenBuild |-> FALSE, result |-> "none"]

Init == /\ agent \in BOOLEAN
        /\ mode \in {"Build", "Plan"}
        /\ disk = "text" /\ todos = 0 /\ stopped = FALSE
        /\ call = NoCall /\ made = 0 /\ switches = 0

\* A request of the round; the model may name a tool that was not offered.
Request ==
  /\ call.phase \in {"idle", "done"} /\ made < MaxCalls /\ ~stopped
  /\ \E tool \in Tools, outside, policy \in BOOLEAN :
       \E a \in Arguments(tool) :
         /\ policy => tool = McpTool
         /\ outside => tool \in Writers \cup Readers
         /\ call' = [NoCall EXCEPT !.phase = "requested", !.tool = tool,
                       !.args = Given(a), !.outside = outside, !.policy = policy]
  /\ made' = made + 1
  /\ UNCHANGED <<agent, mode, disk, todos, stopped, switches>>

Accepts(tool, a) ==
  /\ a.parsed /\ tool # "unknown"
  /\ PrepareRequires(tool) \subseteq a.has
  /\ a.bad \cap PrepareChecks(tool) = {}

End(result) == call' = [call EXCEPT !.phase = "done", !.result = result]

\* PrepareOneToolCall: a preparation that failed is a result; the arguments
\* of an MCP tool are not looked at.
PrepareOneToolCall ==
  /\ call.phase = "requested"
  /\ LET tool == call.tool IN
     IF ~PlanModePermission(tool) THEN End("denied")
     ELSE IF tool # McpTool /\ ~Accepts(tool, call.args) THEN End("invalid")
     ELSE call' = [call EXCEPT !.phase =
                     IF RequiresApproval(tool, call.policy) THEN "asked" ELSE "decided",
                     !.approved = ~RequiresApproval(tool, call.policy),
                     !.beenBuild = (mode = "Build")]
  /\ UNCHANGED <<agent, mode, disk, todos, stopped, made, switches>>

\* MaybeAwaitApproval: ask_user waits in its executor, with the same outcomes.
\* A sub-agent that holds the gate after its stop leaves the round.
MaybeAwaitApproval ==
  /\ call.phase = "asked"
  /\ \/ /\ agent /\ stopped /\ End("aborted")
     \/ \E yes \in BOOLEAN :
          /\ stopped => ~yes
          /\ call' = [call EXCEPT !.phase = "decided", !.approved = yes,
                                  !.beenBuild = (mode = "Build")]
  /\ UNCHANGED <<agent, mode, disk, todos, stopped, made, switches>>

\* A mutant: the look before the question is enough.
MayRunAsPrepared == TRUE

\* The mode is looked at again: the user may have switched while the question
\* was open.
MayRun == PlanModePermission(call.tool)

\* ExecuteOneToolCall before any executor: the user said no, or the mode does.
RefuseToolCall ==
  /\ call.phase = "decided"
  /\ \/ ~call.approved /\ End("rejected")
     \/ call.approved /\ ~MayRun /\ End("denied")
  /\ UNCHANGED <<agent, mode, disk, todos, stopped, made, switches>>

\* ApplyApprovedPlanExit; a sub-agent has no plan to leave.
ExitPlan ==
  /\ call.phase = "decided" /\ call.approved /\ MayRun /\ call.tool = "plan_exit"
  /\ IF ~agent /\ mode = "Plan" THEN End("ok") /\ mode' = "Build"
     ELSE End("failed") /\ UNCHANGED mode
  /\ UNCHANGED <<agent, disk, todos, stopped, made, switches>>

\* What the executor does first: it does not begin after a stop, and it parses
\* the arguments again.
Begun(tool) ==
  CASE stopped -> {"cancelled"}
    [] ~stopped /\ ~(ExecuteRequires(tool) \subseteq call.args.has) -> {"invalid"}
    [] ~stopped /\ agent /\ tool = "sub_agent" -> {"failed"}
    [] ~stopped /\ tool = "todo_write" -> {"ok"}
    [] OTHER -> {"ok", "failed"}

ExecuteOneToolCall ==
  /\ call.phase = "decided" /\ call.approved /\ MayRun /\ call.tool # "plan_exit"
  /\ IF Begun(call.tool) = {"ok", "failed"} /\ call.tool \in Writers \cup Readers
     THEN call' = [call EXCEPT !.phase = "resolving"]
     ELSE IF Begun(call.tool) = {"ok", "failed"} /\ call.tool \in {"bash", McpTool}
     THEN call' = [call EXCEPT !.phase = "running"]
     ELSE \E r \in Begun(call.tool) : End(r)
  /\ todos' = IF call.tool = "todo_write" /\ ~stopped THEN made ELSE todos
  /\ UNCHANGED <<agent, mode, disk, stopped, made, switches>>

\* ResolvePath: the lexical gate, then the one that follows the links.
ResolvePath ==
  /\ call.phase = "resolving"
  /\ IF call.outside \/ disk = "link_outside" THEN End("failed")
     ELSE call' = [call EXCEPT !.phase = "reading"]
  /\ UNCHANGED <<agent, mode, disk, todos, stopped, made, switches>>

\* ReadFile follows no link and reads nothing over the limit; a file to be
\* written need not be there.
Readable(tool) ==
  CASE tool = "list_dir" -> disk = "dir"
    [] tool = "file_write" -> disk \in {"absent", "text"}
    [] OTHER -> disk = "text"

ReadFile ==
  /\ call.phase = "reading"
  /\ IF ~Readable(call.tool) THEN End("failed")
     ELSE IF call.tool \in Writers \cup {"lsp_rename"}
     THEN call' = [call EXCEPT !.phase = "writing"]
     ELSE End("ok")
  /\ UNCHANGED <<agent, mode, disk, todos, stopped, made, switches>>

\* WriteFile: directories are made, the file is truncated, then written.
WriteFile ==
  /\ call.phase = "writing"
  /\ IF disk \in {"link", "link_outside", "dir"} THEN End("failed") /\ UNCHANGED disk
     ELSE /\ disk' = "text"
          /\ \E r \in {"ok", "failed"} : End(r)
  /\ UNCHANGED <<agent, mode, todos, stopped, made, switches>>

\* A command, or a tool of an MCP server, does what it likes.
RunCommand ==
  /\ call.phase = "running"
  /\ \/ disk' \in Kinds \ {disk} /\ UNCHANGED call
     \/ UNCHANGED disk /\ \E r \in {"ok", "failed"} : End(r)
  /\ UNCHANGED <<agent, mode, todos, stopped, made, switches>>

-----------------------------------------------------------------------------
(* The user: modes, files, the stop of the turn.                           *)

SetAgentMode ==
  /\ switches < MaxSwitches
  /\ mode' \in {"Build", "Plan"} \ {mode}
  /\ call' = [call EXCEPT !.beenBuild = @ \/ mode' = "Build"]
  /\ switches' = switches + 1
  /\ UNCHANGED <<agent, disk, todos, stopped, made>>

ChangeFile ==
  /\ switches < MaxSwitches
  /\ disk' \in Kinds \ {disk}
  /\ switches' = switches + 1
  /\ UNCHANGED <<agent, mode, todos, stopped, call, made>>

StopTurn ==
  /\ ~stopped /\ call.phase # "idle" /\ stopped' = TRUE
  /\ UNCHANGED <<agent, mode, disk, todos, call, made, switches>>

Steps == \/ Request \/ PrepareOneToolCall \/ MaybeAwaitApproval
         \/ RefuseToolCall \/ ExitPlan \/ ExecuteOneToolCall
         \/ ResolvePath \/ ReadFile \/ WriteFile \/ RunCommand

Next == Steps \/ SetAgentMode \/ ChangeFile \/ StopTurn

Spec == Init /\ [][Next]_vars

-----------------------------------------------------------------------------

TypeOK ==
  /\ agent \in BOOLEAN /\ mode \in {"Build", "Plan"} /\ disk \in Kinds
  /\ todos \in 0..MaxCalls /\ stopped \in BOOLEAN
  /\ made \in 0..MaxCalls /\ switches \in 0..MaxSwitches
  /\ call.phase \in {"idle", "requested", "asked", "decided", "resolving",
                     "reading", "writing", "running", "done"}
  /\ call.tool \in Tools /\ call.policy \in BOOLEAN /\ call.approved \in BOOLEAN
  /\ call.result \in {"none", "denied", "invalid", "aborted", "rejected",
                      "cancelled", "failed", "ok"}

\* A tool changes a file only when the user approved it (an MCP tool whose
\* policy asks for nothing excepted), and only when the conversation has been
\* in Build mode at some moment since the user answered: a plan that begins
\* while a question is open keeps the workspace as it is.
PlanKeepsWorkspace ==
  (disk' # disk /\ switches' = switches)
    => /\ call.approved /\ call.beenBuild
       /\ call.tool \in {"file_write", "file_edit", "lsp_rename", "bash"}
            => RequiresApproval(call.tool, FALSE)

\* Arguments that satisfy the schema the model was given are never refused as
\* invalid, neither by the preparation nor by the executor.
SchemaIsEnough ==
  (call.phase = "done" /\ call.result = "invalid") => ~SchemaValid(call.tool, call.args)
=============================================================================
