--------------------------- MODULE WorkspaceProofs ---------------------------
(***************************************************************************)
(* Proofs about the workspace and what the tools read of it, for every     *)
(* bound.  It changes while it is read: the file index (FileIndex), the    *)
(* tool calls of a conversation whose mode and files the user changes in   *)
(* between (ToolCalls), the language client, whose calls share one document*)
(* (Lsp), and the prompt files a start and the user both write             *)
(* (PromptLibrary).  And what is read arrives in pieces: the output of a   *)
(* command (Subprocess) and a page (Web).  Each component has variables of *)
(* its own.                                                                *)
(***************************************************************************)
EXTENDS FileIndex, TLAPS, FiniteSetTheorems

-----------------------------------------------------------------------------
(*                           THE FILE INDEX                                *)

(* An index has room for a row and never more rows than its bound, because  *)
(* a walk that goes on has seen fewer files; and it visits no place twice.  *)
WalkTypes ==
  /\ disk \subseteq Files /\ rows \subseteq Files /\ seen \subseteq Files
  /\ todo \cap seen = {}
  /\ state \in {"cold", "warming", "ready"}
  /\ worker \in {"waiting", "walking", "published", "gone"}
  /\ callbacks \in 0..1
  /\ truncated \in BOOLEAN
  /\ IsFiniteSet(seen) /\ IsFiniteSet(rows)
  /\ Cardinality(seen) <= MaxEntries /\ Cardinality(rows) <= MaxEntries
  /\ worker = "walking" /\ ~truncated /\ todo # {} => Cardinality(seen) < MaxEntries

(* Where a walk has been, and no file has changed since the last rebuild    *)
(* was asked for, it has seen what is there.                                *)
Fresh(found, f) == f \in found <=> f \in disk /\ Lists(walker, filter, f)

WalkInv ==
  /\ worker = "walking" => state = "warming"
  /\ worker = "walking" /\ ~requested /\ ~truncated =>
       \A f \in Files \ changed : f \in todo \/ Fresh(seen, f)
  /\ RowsAreFresh

(* No file has been seen, and none listed.                                  *)
LEMMA WalkTypesInit ==
  ASSUME MaxEntries \in Nat \ {0}
  PROVE  Init => WalkTypes
<1>1. IsFiniteSet({}) /\ Cardinality({}) = 0
  BY FS_EmptySet
<1>2. 0 <= MaxEntries /\ 0 \in 0..1
  OBVIOUS
<1>3. ASSUME Init
      PROVE  Cardinality(seen) = 0 /\ Cardinality(rows) = 0
  BY <1>1, <1>3 DEF Init
<1> QED
  BY <1>1, <1>2, <1>3 DEF Init, WalkTypes

(* What the index holds keeps to its types, and to its bound.               *)
LEMMA WalkTypesStep ==
  ASSUME MaxEntries \in Nat \ {0}, WalkTypes, [Next]_vars
  PROVE  WalkTypes'
<1> USE DEF index, walk, world
<1>0. MaxEntries \in Nat /\ Cardinality(seen) \in Nat
  BY FS_CardinalityType DEF WalkTypes
<1>1. IsFiniteSet({}) /\ Cardinality({}) = 0
  BY FS_EmptySet
<1>2. ASSUME NEW w, StartWalk(w), disk' = disk, rows' = rows, state' \in {state, "warming"},
             worker' = "walking", callbacks' = callbacks
      PROVE  WalkTypes'
  <2>1. seen' = {} /\ truncated' = FALSE
    BY <1>2 DEF StartWalk
  <2>2. IsFiniteSet(seen') /\ Cardinality(seen') = 0
    BY <1>1, <2>1
  <2>3. Cardinality(seen') < MaxEntries
    BY <2>2
  <2>4. /\ state' \in {"cold", "warming", "ready"}
        /\ disk' \subseteq Files /\ rows' \subseteq Files /\ callbacks' \in 0..1
    BY <1>2 DEF WalkTypes
  <2>5. IsFiniteSet(rows') /\ Cardinality(rows') <= MaxEntries
    BY <1>2 DEF WalkTypes
  <2>6. Cardinality(seen') <= MaxEntries
    BY <1>0, <2>2, <2>3
  <2> QED
    BY <1>2, <2>1, <2>2, <2>3, <2>4, <2>5, <2>6 DEF WalkTypes
<1>3. CASE TakeRequest
  BY <1>2, <1>3 DEF TakeRequest
<1>4. CASE RipgrepFails
  BY <1>2, <1>4 DEF RipgrepFails
<1>5. CASE Visit
  <2>1. PICK f \in todo :
          /\ todo' = todo \ {f}
          /\ seen' = IF f \in disk /\ Lists(walker, filter, f) THEN seen \cup {f} ELSE seen
          /\ truncated' = (Cardinality(seen') >= MaxEntries
                             /\ (walker = "std" \/ todo' # {}))
    BY <1>5 DEF Visit
  <2>2. Cardinality(seen) < MaxEntries
    BY <1>5, <2>1 DEF Visit, WalkTypes
  <2>3. /\ IsFiniteSet(seen \cup {f})
        /\ Cardinality(seen \cup {f}) \in {Cardinality(seen), Cardinality(seen) + 1}
    BY FS_AddElement DEF WalkTypes
  <2>4. /\ IsFiniteSet(seen') /\ Cardinality(seen') \in Nat
        /\ Cardinality(seen') <= MaxEntries /\ seen' \subseteq Files
        /\ todo' \cap seen' = {}
    <3>1. CASE f \in disk /\ Lists(walker, filter, f)
      BY <1>0, <2>1, <2>2, <2>3, <3>1 DEF WalkTypes
    <3>2. CASE ~(f \in disk /\ Lists(walker, filter, f))
      BY <1>0, <2>1, <3>2 DEF WalkTypes
    <3> QED
      BY <3>1, <3>2
  <2>5. truncated' \in BOOLEAN
    BY <2>1
  <2>6. ~truncated' /\ todo' # {} => Cardinality(seen') < MaxEntries
    <3>1. ASSUME ~truncated', todo' # {}
          PROVE  ~(Cardinality(seen') >= MaxEntries)
      BY <2>1, <3>1, Zenon
    <3> QED
      BY <1>0, <2>4, <3>1
  <2>7. /\ disk' = disk /\ rows' = rows /\ state' = state /\ worker' = worker
        /\ callbacks' = callbacks
    BY <1>5 DEF Visit
  <2> QED
    BY <2>4, <2>5, <2>6, <2>7 DEF WalkTypes
<1>6. CASE Publish
  BY <1>0, <1>1, <1>6 DEF Publish, WalkTypes
<1>7. CASE WorkerEnds
  BY <1>0, <1>1, <1>7 DEF WorkerEnds, WalkTypes
<1>8. CASE \/ WarmAsync \/ TimePasses \/ Query \/ ChangeFile \/ Callback \/ Redraw
           \/ Destroy \/ UNCHANGED vars
  <2>1. /\ disk' \subseteq Files /\ rows' = rows /\ seen' = seen /\ state' = state
        /\ truncated' = truncated /\ todo' = todo /\ callbacks' \in 0..1
        /\ worker' \in {worker, "waiting"}
    BY <1>8 DEF WarmAsync, TimePasses, Query, ChangeFile, Callback, Redraw, Destroy,
       vars, WalkTypes
  <2> QED
    BY <2>1 DEF WalkTypes
<1> QED
  BY <1>3, <1>4, <1>5, <1>6, <1>7, <1>8 DEF Next

(* Whatever the types, the walk keeps track of what may have escaped it.    *)
LEMMA WalkStep ==
  ASSUME WalkTypes, WalkInv, [Next]_vars
  PROVE  WalkInv'
<1> USE DEF index, walk, world
<1>1. CASE TakeRequest \/ RipgrepFails
  <2>1. /\ worker' = "walking" /\ state' = "warming" /\ todo' = Files
        /\ changed' = changed
    BY <1>1 DEF TakeRequest, RipgrepFails, StartWalk, WalkInv
  <2> QED
    BY <2>1 DEF WalkInv, RowsAreFresh
<1>2. CASE Visit
  <2>1. /\ worker = "walking" /\ worker' = worker /\ state' = state /\ state = "warming"
        /\ requested' = requested /\ ~truncated /\ changed' = changed
    BY <1>2 DEF Visit, WalkInv
  <2>2. SUFFICES ASSUME ~requested, NEW f \in Files \ changed
                 PROVE  f \in todo' \/ Fresh(seen, f)'
    BY <2>1 DEF WalkInv, RowsAreFresh
  <2>3. PICK g \in todo :
          /\ todo' = todo \ {g}
          /\ seen' = IF g \in disk /\ Lists(walker, filter, g) THEN seen \cup {g} ELSE seen
    BY <1>2 DEF Visit
  <2>4. f \in todo \/ Fresh(seen, f)
    BY <2>1, <2>2 DEF WalkInv
  <2>5. disk' = disk /\ (Lists(walker, filter, f)' <=> Lists(walker, filter, f))
    BY <1>2 DEF Visit, Lists, RipgrepLists
  <2>6. CASE f = g
    <3>1. f \in seen' <=> f \in disk /\ Lists(walker, filter, f)
      BY <2>3, <2>6 DEF WalkTypes
    <3> QED
      BY <2>5, <3>1 DEF Fresh
  <2>7. CASE f # g
    <3>1. (f \in todo' <=> f \in todo) /\ (f \in seen' <=> f \in seen)
      BY <2>3, <2>7
    <3> QED
      BY <2>4, <2>5, <3>1 DEF Fresh
  <2> QED
    BY <2>6, <2>7
<1>3. CASE Publish
  <2>1. ASSUME ~requested, ~truncated, NEW f \in Files \ changed
        PROVE  f \in seen <=> f \in disk /\ Lists(walker, filter, f)
    BY <1>3, <2>1 DEF Publish, WalkInv, Fresh
  <2>2. /\ worker' = "published" /\ requested' = requested /\ truncated' = truncated
        /\ changed' = changed /\ rows' = seen /\ disk' = disk
        /\ \A f : Lists(walker, filter, f)' <=> Lists(walker, filter, f)
    BY <1>3 DEF Publish, AfterWalk, Lists, RipgrepLists
  <2> QED
    BY <2>1, <2>2 DEF WalkInv, RowsAreFresh
<1>4. CASE ChangeFile
  <2>1. PICK g \in Files :
          /\ disk' = IF g \in disk THEN disk \ {g} ELSE disk \cup {g}
          /\ changed' = changed \cup {g}
    BY <1>4 DEF ChangeFile
  <2>2. \A f \in Files \ changed' : f \in Files \ changed /\ (f \in disk' <=> f \in disk)
    BY <2>1
  <2>3. /\ worker' = worker /\ state' = state /\ requested' = requested /\ rows' = rows
        /\ truncated' = truncated /\ todo' = todo /\ seen' = seen
        /\ \A f : Lists(walker, filter, f)' <=> Lists(walker, filter, f)
    BY <1>4 DEF ChangeFile, Lists, RipgrepLists
  <2> QED
    BY <2>2, <2>3 DEF WalkInv, RowsAreFresh, Fresh
<1>5. CASE WarmAsync \/ Query \/ Destroy
  <2>1. requested' = TRUE /\ worker' = worker /\ state' = state
    BY <1>5 DEF WarmAsync, Query, Destroy
  <2> QED
    BY <2>1 DEF WalkInv, RowsAreFresh
<1>6. CASE TimePasses \/ Callback \/ Redraw \/ WorkerEnds \/ UNCHANGED vars
  <2>1. /\ worker' = "walking" => worker = "walking" /\ todo' = todo /\ seen' = seen
        /\ state' = state /\ requested' = requested /\ rows' = rows
        /\ truncated' = truncated /\ changed' = changed /\ disk' = disk
        /\ \A f : Lists(walker, filter, f)' <=> Lists(walker, filter, f)
    BY <1>6 DEF TimePasses, Callback, Redraw, WorkerEnds, vars, Lists, RipgrepLists
  <2> QED
    BY <2>1 DEF WalkInv, RowsAreFresh, Fresh
<1> QED
  BY <1>1, <1>2, <1>3, <1>4, <1>5, <1>6 DEF Next

(* The index is well-typed, and never has more rows than its bound, with    *)
(* either walker, also when ripgrep fails in the middle of a walk.          *)
THEOREM IndexTypes ==
  ASSUME MaxEntries \in Nat \ {0}
  PROVE  Spec => []TypeOK
<1>1. Init => WalkTypes
  BY WalkTypesInit
<1>2. WalkTypes /\ [Next]_vars => WalkTypes'
  BY WalkTypesStep
<1>3. WalkTypes => TypeOK
  BY DEF WalkTypes, TypeOK
<1> QED
  BY <1>1, <1>2, <1>3, PTL DEF Spec

(* Rows that are presented as ready, with no rebuild asked for, show every  *)
(* file that has not changed since the last rebuild was asked for: a        *)
(* request during a walk is never lost to that walk.                        *)
THEOREM ReadyRowsAreFresh ==
  ASSUME MaxEntries \in Nat \ {0}
  PROVE  Spec => []RowsAreFresh
<1>1. Init => WalkTypes /\ WalkInv
  BY WalkTypesInit DEF Init, WalkInv, RowsAreFresh
<1>2. WalkTypes /\ WalkInv /\ [Next]_vars => (WalkTypes /\ WalkInv)'
  BY WalkTypesStep, WalkStep
<1>3. WalkInv => RowsAreFresh
  BY DEF WalkInv
<1> QED
  BY <1>1, <1>2, <1>3, PTL DEF Spec

-----------------------------------------------------------------------------
(*                             TOOL CALLS                                  *)

CONSTANTS MaxCalls, MaxSwitches

VARIABLES agent, mode, target, todos, stopped, call, made, switches

Calls == INSTANCE ToolCalls WITH disk <- target

CallBounds == MaxCalls \in Nat /\ MaxSwitches \in Nat

Phases == {"idle", "requested", "asked", "decided", "resolving", "reading", "writing",
           "running", "done"}
Results == {"none", "denied", "invalid", "aborted", "rejected", "cancelled", "failed", "ok"}
AllKeys == UNION {Calls!Keys(t) : t \in Calls!Tools}
Call == [phase : Phases, tool : Calls!Tools,
         args : [parsed : BOOLEAN, has : SUBSET AllKeys, bad : SUBSET AllKeys],
         outside : BOOLEAN, policy : BOOLEAN, approved : BOOLEAN,
         beenBuild : BOOLEAN, result : Results]

CallTypes ==
  /\ agent \in BOOLEAN /\ mode \in {"Build", "Plan"} /\ target \in Calls!Kinds
  /\ todos \in 0..MaxCalls /\ stopped \in BOOLEAN
  /\ made \in 0..MaxCalls /\ switches \in 0..MaxSwitches
  /\ call \in Call

(* The phases in which an executor works for an approved call.              *)
Executing == {"resolving", "reading", "writing", "running"}

(* An executor works for a call that was approved and that the mode let     *)
(* pass: there was a moment of Build mode since the answer, or the tool is  *)
(* one of those that plan.  Only the tools that change files write.         *)
CallInv ==
  /\ call.phase \in {"asked", "decided"} \cup Executing /\ mode = "Build" => call.beenBuild
  /\ call.phase \in Executing =>
       call.approved /\ (call.beenBuild \/ Calls!IsToolAllowedForMode("Plan", call.tool))
  /\ call.phase = "writing" => call.tool \in Calls!Writers \cup {"lsp_rename"}
  /\ call.phase = "running" => call.tool \in {"bash", Calls!McpTool}

(* The arguments that the schema allows, the preparation accepts; and the   *)
(* executor asks for no key that the schema does not.                       *)
LEMMA SchemaIsAccepted ==
  ASSUME NEW tool, NEW a, Calls!SchemaValid(tool, a)
  PROVE  /\ Calls!Accepts(tool, a)
         /\ Calls!ExecuteRequires(tool) \subseteq a.has
<1>1. tool \in Calls!BuiltIns /\ a.parsed /\ a.bad = {}
      /\ Calls!SchemaRequired[tool] \subseteq a.has
  BY DEF Calls!SchemaValid
<1>2. tool # "unknown"
  BY <1>1 DEF Calls!BuiltIns, Calls!SchemaRequired
<1>3. CASE tool \in {"lsp_references", "lsp_diagnostics", "lsp_symbols"}
  <2>1. /\ "file_path" \in a.has
        /\ tool = "lsp_references" => {"file_path", "line", "character"} \subseteq a.has
    BY <1>1, <1>3 DEF Calls!SchemaRequired
  <2> QED
    BY <1>1, <1>2, <1>3, <2>1 DEF Calls!Accepts, Calls!PrepareRequires,
       Calls!ExecuteRequires
<1>4. CASE tool \notin {"lsp_references", "lsp_diagnostics", "lsp_symbols"}
  <2>1. Calls!PrepareRequires(tool) \subseteq a.has
    BY <1>1, <1>4 DEF Calls!PrepareRequires
  <2> QED
    BY <1>1, <1>2, <1>4, <2>1 DEF Calls!Accepts, Calls!ExecuteRequires
<1> QED
  BY <1>3, <1>4

(* What a request, a step of the call and a switch make of it.              *)
LEMMA CallTypesStep ==
  ASSUME CallBounds, CallTypes, [Calls!Next]_(Calls!vars)
  PROVE  CallTypes'
<1>0. call \in Call /\ MaxCalls \in Nat /\ MaxSwitches \in Nat
  BY DEF CallTypes, CallBounds
<1>1. ASSUME NEW phase \in Phases, NEW result \in Results
      PROVE  [call EXCEPT !.phase = phase, !.result = result] \in Call
  BY <1>0 DEF Call
<1>2. ASSUME NEW result \in Results, Calls!End(result)
      PROVE  call' \in Call
  BY <1>1, <1>2 DEF Calls!End, Phases
<1>3. ASSUME NEW phase \in Phases, call' = [call EXCEPT !.phase = phase]
      PROVE  call' \in Call
  BY <1>0, <1>3 DEF Call
<1>4. CASE Calls!Request
  <2>1. PICK tool \in Calls!Tools, outside \in BOOLEAN, policy \in BOOLEAN :
          \E a \in Calls!Arguments(tool) :
            call' = [Calls!NoCall EXCEPT !.phase = "requested", !.tool = tool,
                       !.args = Calls!Given(a), !.outside = outside, !.policy = policy]
    BY <1>4 DEF Calls!Request
  <2>2. PICK a \in Calls!Arguments(tool) :
          call' = [Calls!NoCall EXCEPT !.phase = "requested", !.tool = tool,
                     !.args = Calls!Given(a), !.outside = outside, !.policy = policy]
    BY <2>1
  <2>3. /\ a = [parsed |-> a.parsed, has |-> a.has, bad |-> a.bad] /\ a.parsed \in BOOLEAN
        /\ a.has \subseteq Calls!Keys(tool) /\ a.bad \subseteq Calls!Keys(tool)
    <3>1. Calls!SchemaOptional(tool) \subseteq Calls!Keys(tool)
      <4>1. CASE tool \in Calls!BuiltIns
        BY <4>1 DEF Calls!Keys
      <4>2. CASE tool \in {Calls!McpTool, "unknown"}
        BY <4>2 DEF Calls!SchemaOptional, Calls!McpTool
      <4> QED
        BY <4>1, <4>2 DEF Calls!Tools
    <3>2. tool \in Calls!BuiltIns => Calls!SchemaRequired[tool] \subseteq Calls!Keys(tool)
      BY DEF Calls!Keys
    <3>3. CASE a = [parsed |-> FALSE, has |-> {}, bad |-> {}]
      BY <3>3
    <3>4. CASE a # [parsed |-> FALSE, has |-> {}, bad |-> {}]
      <4> DEFINE Hs == {Calls!Keys(tool)} \cup
                       (IF tool \in Calls!BuiltIns
                        THEN {Calls!SchemaRequired[tool]} \cup
                             {Calls!SchemaRequired[tool] \ {x} :
                                x \in Calls!SchemaRequired[tool]}
                        ELSE {})
                 Bs == {{}} \cup {{x} : x \in Calls!SchemaOptional(tool)}
      <4>1. \E h \in Hs, b \in Bs : a = [parsed |-> TRUE, has |-> h, bad |-> b]
        BY <3>4 DEF Calls!Arguments
      <4>2. \A h \in Hs : h \subseteq Calls!Keys(tool)
        BY <3>2
      <4>3. \A b \in Bs : b \subseteq Calls!Keys(tool)
        BY <3>1
      <4> HIDE DEF Hs, Bs
      <4>4. PICK h \in Hs, b \in Bs : a = [parsed |-> TRUE, has |-> h, bad |-> b]
        BY <4>1
      <4> QED
        BY <4>2, <4>3, <4>4
    <3> QED
      BY <3>3, <3>4
  <2> HIDE DEF AllKeys
  <2>7. Calls!Keys(tool) \subseteq AllKeys
    BY DEF AllKeys
  <2>4. Calls!Given(a) \in [parsed : BOOLEAN, has : SUBSET AllKeys, bad : SUBSET AllKeys]
    BY <2>3, <2>7 DEF Calls!Given
  <2>5. call' \in Call
    BY <2>2, <2>4 DEF Call, Calls!NoCall, Phases, Results
  <2>6. /\ made' \in 0..MaxCalls
        /\ UNCHANGED <<agent, mode, target, todos, stopped, switches>>
    BY <1>0, <1>4 DEF Calls!Request, CallTypes
  <2> QED
    BY <2>5, <2>6 DEF CallTypes
<1>5. CASE Calls!PrepareOneToolCall
  <2>1. call' \in Call
    <3>1. \/ Calls!End("denied") \/ Calls!End("invalid")
          \/ \E phase \in {"asked", "decided"}, yes, build \in BOOLEAN :
               call' = [call EXCEPT !.phase = phase, !.approved = yes, !.beenBuild = build]
      BY <1>5 DEF Calls!PrepareOneToolCall
    <3>2. ASSUME NEW phase \in {"asked", "decided"}, NEW yes \in BOOLEAN,
                 NEW build \in BOOLEAN
          PROVE  [call EXCEPT !.phase = phase, !.approved = yes, !.beenBuild = build] \in Call
      BY <1>0 DEF Call, Phases
    <3> QED
      BY <1>2, <3>1, <3>2 DEF Results
  <2> QED
    BY <1>5, <2>1 DEF Calls!PrepareOneToolCall, CallTypes
<1>6. CASE Calls!MaybeAwaitApproval
  <2>1. call' \in Call
    <3>1. \/ Calls!End("aborted")
          \/ \E yes, build \in BOOLEAN :
               call' = [call EXCEPT !.phase = "decided", !.approved = yes, !.beenBuild = build]
      BY <1>6 DEF Calls!MaybeAwaitApproval
    <3>2. ASSUME NEW yes \in BOOLEAN, NEW build \in BOOLEAN
          PROVE  [call EXCEPT !.phase = "decided", !.approved = yes, !.beenBuild = build] \in Call
      BY <1>0 DEF Call, Phases
    <3> QED
      BY <1>2, <3>1, <3>2 DEF Results
  <2> QED
    BY <1>6, <2>1 DEF Calls!MaybeAwaitApproval, CallTypes
<1>7. CASE Calls!RefuseToolCall
  BY <1>2, <1>7 DEF Calls!RefuseToolCall, CallTypes, Results
<1>8. CASE Calls!ExitPlan
  <2>1. call' \in Call /\ mode' \in {"Build", "Plan"}
    BY <1>2, <1>8 DEF Calls!ExitPlan, CallTypes, Results
  <2> QED
    BY <1>8, <2>1 DEF Calls!ExitPlan, CallTypes
<1>9. CASE Calls!ExecuteOneToolCall
  <2>1. \/ call' = [call EXCEPT !.phase = "resolving"]
        \/ call' = [call EXCEPT !.phase = "running"]
        \/ \E r \in Calls!Begun(call.tool) : Calls!End(r)
    BY <1>9 DEF Calls!ExecuteOneToolCall
  <2>2. Calls!Begun(call.tool) \subseteq Results
    BY DEF Calls!Begun, Results
  <2>3. call' \in Call
    BY <1>2, <1>3, <2>1, <2>2 DEF Phases
  <2>4. todos' \in 0..MaxCalls
    BY <1>9 DEF Calls!ExecuteOneToolCall, CallTypes
  <2> QED
    BY <1>9, <2>3, <2>4 DEF Calls!ExecuteOneToolCall, CallTypes
<1>10. CASE Calls!ResolvePath \/ Calls!ReadFile
  <2>1. call' \in Call
    BY <1>2, <1>3, <1>10 DEF Calls!ResolvePath, Calls!ReadFile, Phases, Results
  <2> QED
    BY <1>10, <2>1 DEF Calls!ResolvePath, Calls!ReadFile, CallTypes
<1>11. CASE Calls!WriteFile \/ Calls!RunCommand
  <2>1. call' \in Call
    BY <1>0, <1>2, <1>11 DEF Calls!WriteFile, Calls!RunCommand, Results
  <2>2. target' \in Calls!Kinds
    BY <1>11 DEF Calls!WriteFile, Calls!RunCommand, CallTypes, Calls!Kinds
  <2> QED
    BY <1>11, <2>1, <2>2 DEF Calls!WriteFile, Calls!RunCommand, CallTypes
<1>12. CASE Calls!SetAgentMode
  <2>1. call' = [call EXCEPT !.beenBuild = call.beenBuild \/ mode' = "Build"]
    BY <1>12 DEF Calls!SetAgentMode
  <2>2. call' \in Call
    BY <1>0, <2>1 DEF Call
  <2>3. mode' \in {"Build", "Plan"} /\ switches' \in 0..MaxSwitches
    BY <1>0, <1>12 DEF Calls!SetAgentMode, CallTypes
  <2> QED
    BY <1>12, <2>2, <2>3 DEF Calls!SetAgentMode, CallTypes
<1>13. CASE Calls!ChangeFile
  <2>1. switches' \in 0..MaxSwitches /\ target' \in Calls!Kinds
    BY <1>0, <1>13 DEF Calls!ChangeFile, CallTypes, Calls!Kinds
  <2> QED
    BY <1>13, <2>1 DEF Calls!ChangeFile, CallTypes
<1>14. CASE Calls!StopTurn \/ UNCHANGED Calls!vars
  BY <1>14 DEF Calls!StopTurn, Calls!vars, CallTypes
<1> QED
  BY <1>4, <1>5, <1>6, <1>7, <1>8, <1>9, <1>10, <1>11, <1>12, <1>13,
     <1>14 DEF Calls!Next, Calls!Steps

(* Whatever the user does in between, an executor that has begun works for  *)
(* a call that was approved while, or before, the mode let it pass.         *)
LEMMA CallStep ==
  ASSUME CallBounds, CallTypes, CallInv, [Calls!Next]_(Calls!vars)
  PROVE  CallInv' /\ [Calls!PlanKeepsWorkspace]_(Calls!vars)
<1>0. call \in Call /\ mode \in {"Build", "Plan"} /\ switches \in Nat
  BY DEF CallTypes, CallBounds
<1>1. ASSUME NEW result, Calls!End(result)
      PROVE  call'.phase = "done"
  BY <1>0, <1>1 DEF Calls!End, Call
<1>2. ASSUME call'.phase \in {"idle", "requested", "done"}, target' = target
      PROVE  CallInv' /\ [Calls!PlanKeepsWorkspace]_(Calls!vars)
  BY <1>2 DEF CallInv, Executing, Calls!PlanKeepsWorkspace
<1>3. CASE Calls!Request
  <2>1. PICK tool \in Calls!Tools, outside \in BOOLEAN, policy \in BOOLEAN :
          \E a \in Calls!Arguments(tool) :
            call' = [Calls!NoCall EXCEPT !.phase = "requested", !.tool = tool,
                       !.args = Calls!Given(a), !.outside = outside, !.policy = policy]
    BY <1>3 DEF Calls!Request
  <2>2. call'.phase = "requested" /\ target' = target
    BY <1>3, <2>1 DEF Calls!Request, Calls!NoCall
  <2> QED
    BY <1>2, <2>2
(* A look at the mode, without an executor. *)
<1>4. CASE Calls!PrepareOneToolCall \/ Calls!MaybeAwaitApproval
  <2>1. target' = target /\ mode' = mode
    BY <1>4 DEF Calls!PrepareOneToolCall, Calls!MaybeAwaitApproval
  <2>2. \/ \E result \in Results : Calls!End(result)
        \/ \E phase \in {"asked", "decided"}, yes \in BOOLEAN :
             call' = [call EXCEPT !.phase = phase, !.approved = yes,
                                  !.beenBuild = (mode = "Build")]
    BY <1>4 DEF Calls!PrepareOneToolCall, Calls!MaybeAwaitApproval, Results
  <2>3. CASE \E result \in Results : Calls!End(result)
    BY <1>1, <1>2, <2>1, <2>3
  <2>4. ASSUME NEW phase \in {"asked", "decided"}, NEW yes \in BOOLEAN,
               call' = [call EXCEPT !.phase = phase, !.approved = yes,
                                    !.beenBuild = (mode = "Build")]
        PROVE  CallInv' /\ [Calls!PlanKeepsWorkspace]_(Calls!vars)
    <3>1. call'.phase \in {"asked", "decided"} /\ (call'.beenBuild <=> mode = "Build")
      BY <1>0, <2>4 DEF Call
    <3> QED
      BY <2>1, <3>1 DEF CallInv, Executing, Calls!PlanKeepsWorkspace
  <2> QED
    BY <2>2, <2>3, <2>4
<1>5. CASE Calls!RefuseToolCall \/ Calls!ExitPlan
  BY <1>1, <1>2, <1>5 DEF Calls!RefuseToolCall, Calls!ExitPlan
(* The second look: what the mode does not let pass has seen Build mode. *)
<1>6. CASE Calls!ExecuteOneToolCall
  <2>1. /\ call.phase = "decided" /\ call.approved /\ target' = target /\ mode' = mode
        /\ mode = "Plan" => Calls!IsToolAllowedForMode("Plan", call.tool)
    BY <1>6 DEF Calls!ExecuteOneToolCall, Calls!MayRun, Calls!PlanModePermission
  <2>2. \/ call' = [call EXCEPT !.phase = "resolving"]
        \/ call' = [call EXCEPT !.phase = "running"] /\ call.tool \in {"bash", Calls!McpTool}
        \/ \E r \in Calls!Begun(call.tool) : Calls!End(r)
    BY <1>6 DEF Calls!ExecuteOneToolCall
  <2>3. CASE \E r \in Calls!Begun(call.tool) : Calls!End(r)
    BY <1>1, <1>2, <2>1, <2>3
  <2>4. CASE ~\E r \in Calls!Begun(call.tool) : Calls!End(r)
    <3>1. /\ call'.phase \in {"resolving", "running"} /\ call'.approved = call.approved
          /\ call'.tool = call.tool /\ call'.beenBuild = call.beenBuild
          /\ call'.phase = "running" => call.tool \in {"bash", Calls!McpTool}
      BY <1>0, <2>2, <2>4 DEF Call
    <3>2. /\ mode = "Build" => call.beenBuild
          /\ call.beenBuild \/ Calls!IsToolAllowedForMode("Plan", call.tool)
      BY <1>0, <2>1 DEF CallInv
    <3>3. CallInv'
      BY <2>1, <3>1, <3>2 DEF CallInv, Executing, Calls!IsToolAllowedForMode
    <3> QED
      BY <2>1, <3>3 DEF Calls!PlanKeepsWorkspace
  <2> QED
    BY <2>3, <2>4
(* The executor goes on, or ends. *)
<1>7. CASE Calls!ResolvePath \/ Calls!ReadFile
  <2>1. target' = target /\ mode' = mode /\ call.phase \in {"resolving", "reading"}
    BY <1>7 DEF Calls!ResolvePath, Calls!ReadFile
  <2>2. \/ \E r \in {"failed", "ok"} : Calls!End(r)
        \/ call' = [call EXCEPT !.phase = "reading"]
        \/ /\ call' = [call EXCEPT !.phase = "writing"]
           /\ call.tool \in Calls!Writers \cup {"lsp_rename"}
    BY <1>7 DEF Calls!ResolvePath, Calls!ReadFile
  <2>3. CASE \E r \in {"failed", "ok"} : Calls!End(r)
    BY <1>1, <1>2, <2>1, <2>3
  <2>4. CASE ~\E r \in {"failed", "ok"} : Calls!End(r)
    <3>1. /\ call'.phase \in {"reading", "writing"} /\ call'.approved = call.approved
          /\ call'.tool = call.tool /\ call'.beenBuild = call.beenBuild
          /\ call'.phase = "writing" => call.tool \in Calls!Writers \cup {"lsp_rename"}
      BY <1>0, <2>2, <2>4 DEF Call
    <3>2. CallInv'
      BY <2>1, <3>1 DEF CallInv, Executing, Calls!IsToolAllowedForMode
    <3> QED
      BY <2>1, <3>2 DEF Calls!PlanKeepsWorkspace
  <2> QED
    BY <2>3, <2>4
(* Here the workspace changes: no tool that plans gets this far. *)
<1>8. CASE Calls!WriteFile \/ Calls!RunCommand
  <2>1. call.phase \in {"writing", "running"} /\ mode' = mode
    BY <1>8 DEF Calls!WriteFile, Calls!RunCommand
  <2>2. /\ call.approved
        /\ call.tool \in Calls!Writers \cup {"lsp_rename", "bash", Calls!McpTool}
        /\ call.beenBuild \/ Calls!IsToolAllowedForMode("Plan", call.tool)
    BY <2>1 DEF CallInv, Executing
  <2>3. ~Calls!IsToolAllowedForMode("Plan", call.tool)
    BY <2>2 DEF Calls!IsToolAllowedForMode, Calls!Writers, Calls!McpTool
  <2>4. Calls!PlanKeepsWorkspace
    BY <2>2, <2>3 DEF Calls!PlanKeepsWorkspace, Calls!RequiresApproval
  <2>5. call' = call \/ \E r \in {"failed", "ok"} : Calls!End(r)
    BY <1>8 DEF Calls!WriteFile, Calls!RunCommand
  <2>6. CASE call' = call
    BY <2>1, <2>4, <2>6 DEF CallInv, Calls!IsToolAllowedForMode
  <2>7. CASE \E r \in {"failed", "ok"} : Calls!End(r)
    BY <1>1, <2>4, <2>7 DEF CallInv, Executing
  <2> QED
    BY <2>5, <2>6, <2>7
(* The user switches the mode, which a call that has begun remembers. *)
<1>9. CASE Calls!SetAgentMode
  <2>1. call' = [call EXCEPT !.beenBuild = call.beenBuild \/ mode' = "Build"]
    BY <1>9 DEF Calls!SetAgentMode
  <2>2. /\ call'.phase = call.phase /\ call'.approved = call.approved
        /\ call'.tool = call.tool
        /\ call'.beenBuild <=> call.beenBuild \/ mode' = "Build"
    BY <1>0, <2>1 DEF Call
  <2>3. target' = target
    BY <1>9 DEF Calls!SetAgentMode
  <2> QED
    BY <2>2, <2>3 DEF CallInv, Calls!IsToolAllowedForMode, Calls!PlanKeepsWorkspace
<1>10. CASE Calls!ChangeFile
  <2>1. switches' # switches /\ call' = call /\ mode' = mode
    BY <1>0, <1>10 DEF Calls!ChangeFile
  <2> QED
    BY <2>1 DEF CallInv, Calls!IsToolAllowedForMode, Calls!PlanKeepsWorkspace
<1>11. CASE Calls!StopTurn \/ UNCHANGED Calls!vars
  <2>1. call' = call /\ mode' = mode /\ target' = target
    BY <1>11 DEF Calls!StopTurn, Calls!vars
  <2> QED
    BY <2>1 DEF CallInv, Calls!IsToolAllowedForMode, Calls!PlanKeepsWorkspace
<1> QED
  BY <1>3, <1>4, <1>5, <1>6, <1>7, <1>8, <1>9, <1>10, <1>11 DEF Calls!Next, Calls!Steps

(* No call has been made.                                                   *)
LEMMA CallInit ==
  ASSUME CallBounds, Calls!Init
  PROVE  CallTypes /\ CallInv
<1>1. call \in Call /\ call.phase = "idle"
  BY DEF Calls!Init, Calls!NoCall, Call, Phases, Results, Calls!Tools
<1>2. target \in Calls!Kinds /\ 0 \in 0..MaxCalls /\ 0 \in 0..MaxSwitches
  BY DEF Calls!Init, Calls!Kinds, CallBounds
<1> QED
  BY <1>1, <1>2 DEF Calls!Init, CallTypes, CallInv, Executing

(* A tool changes a file only for a call that was approved, and only when   *)
(* the conversation has been in Build mode at some moment since the answer: *)
(* a plan that begins while the question is open keeps the workspace.       *)
THEOREM PlansKeepTheWorkspace ==
  ASSUME CallBounds
  PROVE  Calls!Spec => [][Calls!PlanKeepsWorkspace]_(Calls!vars)
<1>1. Calls!Init => CallTypes /\ CallInv
  BY CallInit
<1>2. CallTypes /\ CallInv /\ [Calls!Next]_(Calls!vars)
        => (CallTypes /\ CallInv)' /\ [Calls!PlanKeepsWorkspace]_(Calls!vars)
  BY CallTypesStep, CallStep
<1> QED
  BY <1>1, <1>2, PTL DEF Calls!Spec

(* Arguments that satisfy the schema the model was given are never refused  *)
(* as invalid: a call that has ended as invalid did not satisfy it.         *)
LEMMA RefusalStep ==
  ASSUME CallTypes, Calls!SchemaIsEnough, [Calls!Next]_(Calls!vars)
  PROVE  Calls!SchemaIsEnough'
<1> SUFFICES ASSUME call'.phase = "done", call'.result = "invalid"
             PROVE  ~Calls!SchemaValid(call'.tool, call'.args)
  BY DEF Calls!SchemaIsEnough, Calls!SchemaValid
<1>0. call \in Call
  BY DEF CallTypes
<1>1. CASE call.phase = "done" /\ call.result = "invalid" /\ call'.tool = call.tool
             /\ call'.args = call.args
  BY <1>1 DEF Calls!SchemaIsEnough
<1>2. ASSUME NEW result, Calls!End(result)
      PROVE  call'.tool = call.tool /\ call'.args = call.args /\ call'.result = result
  BY <1>0, <1>2 DEF Calls!End, Call
<1>3. CASE Calls!Request
  <2>1. PICK tool \in Calls!Tools, outside \in BOOLEAN, policy \in BOOLEAN :
          \E a \in Calls!Arguments(tool) :
            call' = [Calls!NoCall EXCEPT !.phase = "requested", !.tool = tool,
                       !.args = Calls!Given(a), !.outside = outside, !.policy = policy]
    BY <1>3 DEF Calls!Request
  <2> QED
    BY <2>1 DEF Calls!NoCall
<1>4. CASE Calls!PrepareOneToolCall
  <2>1. CASE \E result \in {"denied"} : Calls!End(result)
    BY <1>2, <2>1
  <2>2. CASE ~Calls!Accepts(call.tool, call.args) /\ Calls!End("invalid")
    BY <1>2, <2>2, SchemaIsAccepted
  <2>3. ASSUME NEW phase \in {"asked", "decided"}, NEW yes, NEW build,
               call' = [call EXCEPT !.phase = phase, !.approved = yes, !.beenBuild = build]
        PROVE  FALSE
    BY <1>0, <2>3 DEF Call
  <2> QED
    <3>1. \/ Calls!End("denied")
          \/ ~Calls!Accepts(call.tool, call.args) /\ Calls!End("invalid")
          \/ \E phase \in {"asked", "decided"}, yes, build \in BOOLEAN :
               call' = [call EXCEPT !.phase = phase, !.approved = yes, !.beenBuild = build]
      BY <1>4 DEF Calls!PrepareOneToolCall
    <3> QED
      BY <2>1, <2>2, <2>3, <3>1
<1>5. CASE Calls!ExecuteOneToolCall
  <2>1. CASE \E r \in Calls!Begun(call.tool) : Calls!End(r)
    <3>1. PICK r \in Calls!Begun(call.tool) : Calls!End(r)
      BY <2>1
    <3>2. r = "invalid"
      BY <1>2, <3>1
    <3>3. ~(Calls!ExecuteRequires(call.tool) \subseteq call.args.has)
      BY <3>1, <3>2 DEF Calls!Begun
    <3> QED
      BY <1>2, <3>1, <3>3, SchemaIsAccepted
  <2>2. CASE ~\E r \in Calls!Begun(call.tool) : Calls!End(r)
    <3>1. call'.phase \in {"resolving", "running"}
      BY <1>0, <1>5, <2>2 DEF Calls!ExecuteOneToolCall, Call
    <3> QED
      BY <3>1
  <2> QED
    BY <2>1, <2>2
<1>6. CASE \/ Calls!MaybeAwaitApproval \/ Calls!RefuseToolCall \/ Calls!ExitPlan
           \/ Calls!ResolvePath \/ Calls!ReadFile \/ Calls!WriteFile \/ Calls!RunCommand
  <2>1. \/ \E r \in Results \ {"invalid"} : Calls!End(r)
        \/ call' = call /\ call.phase = "running"
        \/ \E phase \in {"reading", "writing"} : call' = [call EXCEPT !.phase = phase]
        \/ \E yes, build \in BOOLEAN :
             call' = [call EXCEPT !.phase = "decided", !.approved = yes, !.beenBuild = build]
    BY <1>6 DEF Calls!MaybeAwaitApproval, Calls!RefuseToolCall, Calls!ExitPlan,
       Calls!ResolvePath, Calls!ReadFile, Calls!WriteFile, Calls!RunCommand, Results
  <2>2. CASE \E r \in Results \ {"invalid"} : Calls!End(r)
    BY <1>2, <2>2
  <2>3. CASE ~\E r \in Results \ {"invalid"} : Calls!End(r)
    <3>1. call'.phase # "done"
      BY <1>0, <2>1, <2>3 DEF Call
    <3> QED
      BY <3>1
  <2> QED
    BY <2>2, <2>3
<1>7. CASE Calls!SetAgentMode
  <2>1. /\ call'.phase = call.phase /\ call'.result = call.result
        /\ call'.tool = call.tool /\ call'.args = call.args
    BY <1>0, <1>7 DEF Calls!SetAgentMode, Call
  <2> QED
    BY <1>1, <2>1
<1>8. CASE Calls!ChangeFile \/ Calls!StopTurn \/ UNCHANGED Calls!vars
  BY <1>1, <1>8 DEF Calls!ChangeFile, Calls!StopTurn, Calls!vars
<1> QED
  BY <1>3, <1>4, <1>5, <1>6, <1>7, <1>8 DEF Calls!Next, Calls!Steps

(* The schemas and the functions that read the arguments agree: what the    *)
(* schema allows is never refused, by the preparation or by the executor.   *)
THEOREM SchemasSuffice ==
  ASSUME CallBounds
  PROVE  Calls!Spec => []Calls!SchemaIsEnough
<1>1. Calls!Init => CallTypes /\ Calls!SchemaIsEnough
  <2>1. ASSUME Calls!Init
        PROVE  call.phase = "idle"
    BY <2>1 DEF Calls!Init, Calls!NoCall
  <2> QED
    BY <2>1, CallInit DEF Calls!SchemaIsEnough
<1>2. CallTypes /\ Calls!SchemaIsEnough /\ [Calls!Next]_(Calls!vars)
        => (CallTypes /\ Calls!SchemaIsEnough)'
  BY CallTypesStep, RefusalStep
<1> QED
  BY <1>1, <1>2, PTL DEF Calls!Spec

-----------------------------------------------------------------------------
(*                       THE LANGUAGE CLIENT                               *)

CONSTANTS Callers, MaxTexts, MaxSyncs

VARIABLES file, initialized, starting, diagnostics, version, told, analysed, ask

Client == INSTANCE Lsp WITH call <- ask

ClientParameters ==
  MaxTexts \in Nat /\ MaxSyncs \in Nat /\ Client!Nobody \notin Callers

Ask ==
  [at : {"idle", "starting", "reading", "erasing", "sending", "waiting", "requesting",
         "applying", "done"},
   tool : Client!Tools, text : Client!Texts \cup {Client!NoText},
   got : Client!Texts \cup {Client!NoText},
   entry : BOOLEAN, since : BOOLEAN, alone : BOOLEAN]

ClientTypes ==
  /\ file \in Client!Texts
  /\ initialized \in BOOLEAN
  /\ starting \in Callers \cup {Client!Nobody}
  /\ diagnostics \in BOOLEAN
  /\ told \in Seq(Client!Texts) /\ Len(told) <= MaxSyncs
  /\ version \in 0..Len(told)
  /\ analysed \in 0..Len(told)
  /\ ask \in [Callers -> Ask]

(* What a call has when it sends, when it waits, and when it is answered.   *)
AskInv(c) ==
  /\ starting = c => ask[c].at = "starting"
  /\ ask[c].at \in {"erasing", "sending"} => ask[c].text \in Client!Texts
  /\ ask[c].at \in {"waiting", "requesting"} => Len(told) >= 1
  /\ ask[c].at # "done" => ~ask[c].entry
  /\ ask[c].at \in {"sending", "waiting"} /\ diagnostics => ask[c].since
  /\ ask[c].at = "done" /\ ask[c].entry => ask[c].since

(* A call nobody has disturbed is the only one, and has the file as it is;  *)
(* what it has sent is what the server was told last.                       *)
AloneInv(c) ==
  ask[c].alone =>
    /\ ask[c].at # "idle" /\ \A o \in Callers \ {c} : ask[o].at = "idle"
    /\ ask[c].at \in {"erasing", "sending", "requesting"} => ask[c].text = file
    /\ ask[c].at = "requesting" => told[Len(told)] = ask[c].text
    /\ ask[c].at = "applying" => ask[c].got = file

ClientInv == ClientTypes /\ \A c \in Callers : AskInv(c) /\ AloneInv(c)

(* The calls and the server keep the client well-typed.                     *)
LEMMA ClientTypesStep ==
  ASSUME ClientParameters, ClientInv, [Client!Next]_(Client!vars)
  PROVE  ClientTypes'
<1>0. /\ MaxTexts \in Nat /\ MaxSyncs \in Nat /\ ask \in [Callers -> Ask]
      /\ told \in Seq(Client!Texts) /\ Len(told) \in Nat /\ Len(told) <= MaxSyncs
      /\ \A c \in Callers : AskInv(c)
  BY DEF ClientParameters, ClientInv, ClientTypes
<1>1. ASSUME NEW c \in Callers, NEW q \in Ask, ask' = [ask EXCEPT ![c] = q]
      PROVE  ask' \in [Callers -> Ask]
  BY <1>0, <1>1
<1>2. ASSUME NEW c \in Callers,
             NEW place \in {"reading", "sending", "waiting", "requesting", "done"},
             Client!Goes(c, place)
      PROVE  ask' \in [Callers -> Ask]
  <2> DEFINE q == [ask[c] EXCEPT !.at = place]
  <2>1. q \in Ask /\ ask' = [ask EXCEPT ![c] = q]
    BY <1>0, <1>2 DEF Ask, Client!Goes
  <2> QED
    BY <1>1, <2>1
<1>3. Client!Idle \in Ask
  BY DEF Client!Idle, Ask, Client!Tools
<1>4. ASSUME NEW c \in Callers, Client!Ends(c)
      PROVE  ask' \in [Callers -> Ask]
  BY <1>1, <1>3, <1>4 DEF Client!Ends
<1>5. CASE Client!PublishDiagnostics
  <2>1. \A c \in Callers :
          [ask[c] EXCEPT !.since = ask[c].since \/ Client!At(c, "sending")
                                     \/ Client!At(c, "waiting")] \in Ask
    <3>1. SUFFICES ASSUME NEW c \in Callers, NEW b \in BOOLEAN
                   PROVE  [ask[c] EXCEPT !.since = b] \in Ask
      BY Zenon
    <3> QED
      BY <1>0 DEF Ask
  <2>2. ask' \in [Callers -> Ask]
    BY <1>5, <2>1 DEF Client!PublishDiagnostics
  <2>3. analysed' \in 0..Len(told) /\ diagnostics' \in BOOLEAN
    BY <1>0, <1>5 DEF Client!PublishDiagnostics, ClientInv, ClientTypes
  <2> QED
    BY <1>5, <2>2, <2>3 DEF Client!PublishDiagnostics, ClientInv, ClientTypes
<1>6. CASE Client!EditFile
  <2>1. ask' \in [Callers -> Ask]
    BY <1>0, <1>6 DEF Client!EditFile, Ask
  <2>2. file' \in Client!Texts
    BY <1>0, <1>6 DEF Client!EditFile, ClientInv, ClientTypes, Client!Texts
  <2> QED
    BY <1>6, <2>1, <2>2 DEF Client!EditFile, ClientInv, ClientTypes
<1>7. ASSUME NEW c \in Callers, Client!Call(c)
      PROVE  ClientTypes'
  <2>1. PICK tool \in Client!Tools :
          ask' = [d \in Callers |->
                    IF d = c
                    THEN [Client!Idle EXCEPT
                            !.at = IF initialized THEN "reading" ELSE "starting",
                            !.tool = tool,
                            !.alone = \A o \in Client!Others(c) : Client!At(o, "idle")]
                    ELSE [ask[d] EXCEPT !.alone = FALSE]]
    BY <1>7 DEF Client!Call
  <2>2. \A b \in BOOLEAN, place \in {"reading", "starting"} :
          [Client!Idle EXCEPT !.at = place, !.tool = tool, !.alone = b] \in Ask
    BY <1>3 DEF Ask
  <2>3. \A d \in Callers : [ask[d] EXCEPT !.alone = FALSE] \in Ask
    BY <1>0 DEF Ask
  <2>4. ask' \in [Callers -> Ask]
    <3> DEFINE b == \A o \in Client!Others(c) : Client!At(o, "idle")
               place == IF initialized THEN "reading" ELSE "starting"
    <3>1. b \in BOOLEAN /\ place \in {"reading", "starting"}
      BY Zenon
    <3> HIDE DEF b, place
    <3>2. [Client!Idle EXCEPT !.at = place, !.tool = tool, !.alone = b] \in Ask
      BY <2>2, <3>1
    <3>3. ask' = [d \in Callers |->
                    IF d = c
                    THEN [Client!Idle EXCEPT !.at = place, !.tool = tool, !.alone = b]
                    ELSE [ask[d] EXCEPT !.alone = FALSE]]
      BY <2>1 DEF b, place
    <3> QED
      BY <2>3, <3>2, <3>3
  <2> QED
    BY <1>7, <2>4 DEF Client!Call, ClientInv, ClientTypes
<1>8. ASSUME NEW c \in Callers, Client!Starts(c)
      PROVE  ClientTypes'
  <2>1. ask' \in [Callers -> Ask] /\ starting' \in Callers \cup {Client!Nobody}
    BY <1>0, <1>2, <1>8 DEF Client!Starts, ClientInv, ClientTypes
  <2> QED
    BY <1>8, <2>1 DEF Client!Starts, ClientInv, ClientTypes
<1>9. ASSUME NEW c \in Callers,
             \/ Client!Initialized(c) \/ Client!StartFails(c)
             \/ Client!EraseDiagnostics(c) \/ Client!RequestFails(c)
             \/ Client!Returns(c)
      PROVE  ClientTypes'
  <2>1. ask' \in [Callers -> Ask]
    BY <1>2, <1>4, <1>9 DEF Client!Initialized, Client!StartFails,
       Client!EraseDiagnostics, Client!RequestFails, Client!Returns
  <2> QED
    BY <1>9, <2>1 DEF Client!Initialized, Client!StartFails,
       Client!EraseDiagnostics, Client!RequestFails, Client!Returns,
       Client!Invalidated, Client!Erased, ClientInv, ClientTypes
<1>10. ASSUME NEW c \in Callers, Client!ReadWholeFile(c)
       PROVE  ClientTypes'
  <2> DEFINE q == [ask[c] EXCEPT !.at = "erasing", !.text = file]
  <2>1. q \in Ask /\ ask' = [ask EXCEPT ![c] = q]
    BY <1>0, <1>10 DEF Client!ReadWholeFile, Ask, ClientInv, ClientTypes
  <2> QED
    BY <1>1, <1>10, <2>1 DEF Client!ReadWholeFile, ClientInv, ClientTypes
<1>11. ASSUME NEW c \in Callers, Client!SendText(c)
       PROVE  ClientTypes'
  <2>1. ask[c].text \in Client!Texts
    BY <1>0, <1>11 DEF Client!SendText, Client!At, AskInv
  <2>2. /\ told' \in Seq(Client!Texts) /\ Len(told') = Len(told) + 1
        /\ Len(told) < MaxSyncs
    BY <1>0, <1>11, <2>1 DEF Client!SendText, Client!Announced, Client!Told
  <2>3. version' \in {version, version + 1}
    BY <1>11 DEF Client!SendText
  <2>4. ask' \in [Callers -> Ask]
    BY <1>2, <1>11 DEF Client!SendText
  <2>5. Len(told') <= MaxSyncs /\ version' \in 0..Len(told') /\ analysed \in 0..Len(told')
    BY <1>0, <2>2, <2>3 DEF ClientInv, ClientTypes
  <2> QED
    BY <1>11, <2>2, <2>4, <2>5 DEF Client!SendText, ClientInv, ClientTypes
<1>12. ASSUME NEW c \in Callers, Client!DiagnosticsReturns(c)
       PROVE  ClientTypes'
  <2> DEFINE q == [ask[c] EXCEPT !.at = "done", !.entry = diagnostics]
  <2>1. q \in Ask /\ ask' = [ask EXCEPT ![c] = q]
    BY <1>0, <1>12 DEF Client!DiagnosticsReturns, Ask, ClientInv, ClientTypes
  <2> QED
    BY <1>1, <1>12, <2>1 DEF Client!DiagnosticsReturns, ClientInv, ClientTypes
<1>13. ASSUME NEW c \in Callers, Client!Answered(c)
       PROVE  ClientTypes'
  <2>1. Len(told) >= 1
    BY <1>0, <1>13 DEF Client!Answered, Client!At, AskInv
  <2>2. Client!Last(told) \in Client!Texts
    BY <1>0, <2>1 DEF Client!Last
  <2> DEFINE q == [ask[c] EXCEPT
                     !.at = IF ask[c].tool = "rename" THEN "applying" ELSE "done",
                     !.got = Client!Last(told)]
  <2>3. q \in Ask /\ ask' = [ask EXCEPT ![c] = q]
    BY <1>0, <1>13, <2>2 DEF Client!Answered, Ask
  <2> QED
    BY <1>1, <1>13, <2>3 DEF Client!Answered, ClientInv, ClientTypes
<1>14. ASSUME NEW c \in Callers, Client!ApplyRename(c)
       PROVE  ClientTypes'
  <2>1. ask' \in [Callers -> Ask] /\ file' \in Client!Texts
    BY <1>0, <1>2, <1>14 DEF Client!ApplyRename, Client!Texts, ClientInv, ClientTypes
  <2> QED
    BY <1>14, <2>1 DEF Client!ApplyRename, ClientInv, ClientTypes
<1>15. CASE UNCHANGED Client!vars
  BY <1>15 DEF Client!vars, ClientInv, ClientTypes
<1> QED
  BY <1>5, <1>6, <1>7, <1>8, <1>9, <1>10, <1>11, <1>12, <1>13, <1>14, <1>15
     DEF Client!Next, Client!CallSteps

(* A step of a call leaves the others' as they were: while it is under way, *)
(* none of them is undisturbed.                                             *)
LEMMA OtherCalls ==
  ASSUME ClientParameters, ClientInv, ClientTypes', NEW c \in Callers,
         ask[c].at # "idle", \A d \in Callers \ {c} : ask'[d] = ask[d],
         starting' \in {starting, c, Client!Nobody}, Len(told') >= Len(told),
         diagnostics' => diagnostics
  PROVE  \A d \in Callers \ {c} : AskInv(d)' /\ AloneInv(d)'
<1> SUFFICES ASSUME NEW d \in Callers \ {c}
             PROVE  AskInv(d)' /\ AloneInv(d)'
  OBVIOUS
<1>1. ask'[d] = ask[d] /\ ~ask[d].alone
  BY DEF ClientInv, AloneInv
<1>2. Len(told) \in Nat /\ Len(told') \in Nat
  BY DEF ClientInv, ClientTypes
<1>3. Len(told) >= 1 => Len(told') >= 1
  BY <1>2
<1>4. starting' = d => starting = d
  BY DEF ClientParameters
<1>5. AskInv(d)
  BY DEF ClientInv
<1> QED
  BY <1>1, <1>3, <1>4, <1>5 DEF AskInv, AloneInv

(* A call that nobody disturbs has sent the file as it is, and no other     *)
(* call, edit or notification comes in between; and what a call finds of    *)
(* the diagnostics was published after it had erased them.                  *)
LEMMA ClientStep ==
  ASSUME ClientParameters, ClientInv, [Client!Next]_(Client!vars)
  PROVE  ClientInv'
<1>0. /\ ClientTypes' /\ ask \in [Callers -> Ask]
      /\ \A c \in Callers : AskInv(c) /\ AloneInv(c)
      /\ told \in Seq(Client!Texts) /\ Len(told) \in Nat
      /\ \A c \in Callers : ask[c] \in Ask /\ Client!Nobody # c
  BY ClientTypesStep DEF ClientInv, ClientTypes, ClientParameters
<1>1. SUFFICES \A c \in Callers : AskInv(c)' /\ AloneInv(c)'
  BY <1>0 DEF ClientInv
<1>2. ASSUME NEW c \in Callers, NEW q, ask' = [ask EXCEPT ![c] = q]
      PROVE  ask'[c] = q /\ \A d \in Callers \ {c} : ask'[d] = ask[d]
  BY <1>0, <1>2
<1>3. ASSUME NEW c \in Callers, NEW place, Client!Goes(c, place)
      PROVE  ask' = [ask EXCEPT ![c] = [ask[c] EXCEPT !.at = place]]
  BY <1>3 DEF Client!Goes
<1>4. CASE Client!PublishDiagnostics
  <2> SUFFICES ASSUME NEW c \in Callers
               PROVE  AskInv(c)' /\ AloneInv(c)'
    OBVIOUS
  <2>1. \A d \in Callers :
          /\ ask'[d].at = ask[d].at /\ ask'[d].text = ask[d].text
          /\ ask'[d].got = ask[d].got /\ ask'[d].entry = ask[d].entry
          /\ ask'[d].alone = ask[d].alone
          /\ ask[d].since => ask'[d].since
          /\ ask[d].at \in {"sending", "waiting"} => ask'[d].since
    BY <1>0, <1>4 DEF Client!PublishDiagnostics, Client!At, Ask
  <2>2. file' = file /\ starting' = starting /\ told' = told
    BY <1>4 DEF Client!PublishDiagnostics
  <2> QED
    BY <1>0, <2>1, <2>2 DEF AskInv, AloneInv
<1>5. CASE Client!EditFile
  <2> SUFFICES ASSUME NEW c \in Callers
               PROVE  AskInv(c)' /\ AloneInv(c)'
    OBVIOUS
  <2>1. /\ ask'[c].at = ask[c].at /\ ask'[c].text = ask[c].text
        /\ ask'[c].entry = ask[c].entry /\ ask'[c].since = ask[c].since
        /\ ~ask'[c].alone
    BY <1>0, <1>5 DEF Client!EditFile, Ask
  <2>2. starting' = starting /\ told' = told /\ diagnostics' = diagnostics
    BY <1>5 DEF Client!EditFile
  <2> QED
    BY <1>0, <2>1, <2>2 DEF AskInv, AloneInv
<1>6. ASSUME NEW c \in Callers, Client!Call(c)
      PROVE  \A d \in Callers : AskInv(d)' /\ AloneInv(d)'
  <2>1. PICK tool \in Client!Tools :
          ask' = [d \in Callers |->
                    IF d = c
                    THEN [Client!Idle EXCEPT
                            !.at = IF initialized THEN "reading" ELSE "starting",
                            !.tool = tool,
                            !.alone = \A o \in Client!Others(c) : Client!At(o, "idle")]
                    ELSE [ask[d] EXCEPT !.alone = FALSE]]
    BY <1>6 DEF Client!Call
  <2>2. /\ ask[c].at = "idle" /\ starting' = starting /\ told' = told
        /\ diagnostics' = diagnostics /\ file' = file
    BY <1>6 DEF Client!Call, Client!At
  <2>3. \A d \in Callers \ {c} :
          /\ ask'[d].at = ask[d].at /\ ask'[d].text = ask[d].text
          /\ ask'[d].entry = ask[d].entry /\ ask'[d].since = ask[d].since
          /\ ~ask'[d].alone
    BY <1>0, <2>1 DEF Ask
  <2>4. /\ ask'[c].at \in {"reading", "starting"} /\ ~ask'[c].entry
        /\ ask'[c].alone => \A o \in Callers \ {c} : ask[o].at = "idle"
    BY <2>1 DEF Client!Idle, Client!Others, Client!At
  <2>5. starting # c
    BY <1>0, <2>2 DEF AskInv
  <2>6. AskInv(c)' /\ AloneInv(c)'
    BY <2>2, <2>3, <2>4, <2>5 DEF AskInv, AloneInv
  <2>7. ASSUME NEW d \in Callers \ {c}
        PROVE  AskInv(d)' /\ AloneInv(d)'
    BY <1>0, <2>2, <2>3 DEF AskInv, AloneInv
  <2> QED
    BY <2>6, <2>7
<1>7. ASSUME NEW c \in Callers, Client!Starts(c) \/ Client!Initialized(c)
      PROVE  \A d \in Callers : AskInv(d)' /\ AloneInv(d)'
  <2>1. /\ ask[c].at = "starting" /\ file' = file /\ told' = told
        /\ diagnostics' = diagnostics
    BY <1>0, <1>7 DEF Client!Starts, Client!Initialized, Client!At, AskInv
  <2>2. \/ starting' = c /\ ask' = ask
        \/ starting' = Client!Nobody /\ ask' = [ask EXCEPT ![c] = [ask[c] EXCEPT !.at = "reading"]]
    BY <1>3, <1>7 DEF Client!Starts, Client!Initialized
  <2>3. /\ \A d \in Callers \ {c} : ask'[d] = ask[d]
        /\ ask'[c] \in {ask[c], [ask[c] EXCEPT !.at = "reading"]}
        /\ starting' = c => ask'[c] = ask[c]
    BY <1>0, <1>2, <2>2
  <2>4. /\ ask'[c].at \in {"starting", "reading"} /\ ask'[c].entry = ask[c].entry
        /\ ask'[c].alone = ask[c].alone
        /\ starting' = c => ask'[c].at = "starting"
    BY <1>0, <2>1, <2>3 DEF Ask
  <2>5. AskInv(c)' /\ AloneInv(c)'
    BY <1>0, <2>1, <2>3, <2>4 DEF AskInv, AloneInv
  <2>6. \A d \in Callers \ {c} : AskInv(d)' /\ AloneInv(d)'
    BY <1>0, <2>1, <2>2, <2>3, OtherCalls
  <2> QED
    BY <2>5, <2>6
<1>8. ASSUME NEW c \in Callers,
             Client!StartFails(c) \/ Client!RequestFails(c) \/ Client!Returns(c)
      PROVE  \A d \in Callers : AskInv(d)' /\ AloneInv(d)'
  <2>1. /\ ask[c].at # "idle" /\ file' = file /\ told' = told
        /\ diagnostics' = diagnostics /\ starting' \in {starting, Client!Nobody}
        /\ starting' # c
    BY <1>0, <1>8 DEF Client!StartFails, Client!RequestFails, Client!Returns,
       Client!At, AskInv
  <2>2. ask' = [ask EXCEPT ![c] = Client!Idle]
    BY <1>8 DEF Client!StartFails, Client!RequestFails, Client!Returns, Client!Ends
  <2>3. ask'[c] = Client!Idle /\ \A d \in Callers \ {c} : ask'[d] = ask[d]
    BY <1>2, <2>2
  <2>4. AskInv(c)' /\ AloneInv(c)'
    BY <2>1, <2>3 DEF AskInv, AloneInv, Client!Idle
  <2>5. \A d \in Callers \ {c} : AskInv(d)' /\ AloneInv(d)'
    BY <1>0, <2>1, <2>3, OtherCalls
  <2> QED
    BY <2>4, <2>5
<1>9. ASSUME NEW c \in Callers, Client!ReadWholeFile(c)
      PROVE  \A d \in Callers : AskInv(d)' /\ AloneInv(d)'
  <2>1. /\ ask[c].at = "reading" /\ file' = file /\ told' = told
        /\ diagnostics' = diagnostics /\ starting' = starting
        /\ ask' = [ask EXCEPT ![c] = [ask[c] EXCEPT !.at = "erasing", !.text = file]]
    BY <1>9 DEF Client!ReadWholeFile, Client!At
  <2>2. /\ \A d \in Callers \ {c} : ask'[d] = ask[d]
        /\ ask'[c] = [ask[c] EXCEPT !.at = "erasing", !.text = file]
    BY <1>2, <2>1
  <2>3. /\ ask'[c].at = "erasing" /\ ask'[c].text = file
        /\ ask'[c].entry = ask[c].entry /\ ask'[c].alone = ask[c].alone
    BY <1>0, <2>2 DEF Ask
  <2>4. AskInv(c)' /\ AloneInv(c)'
    BY <1>0, <2>1, <2>2, <2>3 DEF AskInv, AloneInv, ClientInv, ClientTypes
  <2>5. \A d \in Callers \ {c} : AskInv(d)' /\ AloneInv(d)'
    BY <1>0, <2>1, <2>2, OtherCalls
  <2> QED
    BY <2>4, <2>5
<1>10. ASSUME NEW c \in Callers, Client!EraseDiagnostics(c)
       PROVE  \A d \in Callers : AskInv(d)' /\ AloneInv(d)'
  <2>1. /\ ask[c].at = "erasing" /\ file' = file /\ told' = told
        /\ ~diagnostics' /\ starting' = starting
        /\ ask' = [ask EXCEPT ![c] = [ask[c] EXCEPT !.at = "sending"]]
    BY <1>3, <1>10 DEF Client!EraseDiagnostics, Client!At, Client!Invalidated,
       Client!Erased
  <2>2. /\ \A d \in Callers \ {c} : ask'[d] = ask[d]
        /\ ask'[c] = [ask[c] EXCEPT !.at = "sending"]
    BY <1>2, <2>1
  <2>3. /\ ask'[c].at = "sending" /\ ask'[c].text = ask[c].text
        /\ ask'[c].entry = ask[c].entry /\ ask'[c].alone = ask[c].alone
    BY <1>0, <2>2 DEF Ask
  <2>4. AskInv(c)' /\ AloneInv(c)'
    BY <1>0, <2>1, <2>2, <2>3 DEF AskInv, AloneInv
  <2>5. \A d \in Callers \ {c} : AskInv(d)' /\ AloneInv(d)'
    BY <1>0, <2>1, <2>2, OtherCalls
  <2> QED
    BY <2>4, <2>5
<1>11. ASSUME NEW c \in Callers, Client!SendText(c)
       PROVE  \A d \in Callers : AskInv(d)' /\ AloneInv(d)'
  <2>1. /\ ask[c].at = "sending" /\ file' = file /\ told' = Append(told, ask[c].text)
        /\ diagnostics' = diagnostics /\ starting' = starting
        /\ Client!Goes(c, IF ask[c].tool = "diagnostics" THEN "waiting" ELSE "requesting")
    BY <1>11 DEF Client!SendText, Client!At, Client!Announced, Client!Told
  <2>2. PICK place \in {"waiting", "requesting"} :
          ask' = [ask EXCEPT ![c] = [ask[c] EXCEPT !.at = place]]
    BY <1>3, <2>1
  <2>3. /\ \A d \in Callers \ {c} : ask'[d] = ask[d]
        /\ ask'[c] = [ask[c] EXCEPT !.at = place]
    BY <1>2, <2>2
  <2>4. /\ ask'[c].at \in {"waiting", "requesting"} /\ ask'[c].text = ask[c].text
        /\ ask'[c].entry = ask[c].entry /\ ask'[c].alone = ask[c].alone
        /\ ask'[c].since = ask[c].since
    BY <1>0, <2>3 DEF Ask
  <2>5. ask[c].text \in Client!Texts
    BY <1>0, <2>1 DEF AskInv
  <2>6. Len(told') = Len(told) + 1 /\ told'[Len(told')] = ask[c].text
    BY <1>0, <2>1, <2>5
  <2>7. Len(told') >= 1 /\ Len(told') >= Len(told)
    BY <1>0, <2>6
  <2>8. AskInv(c)' /\ AloneInv(c)'
    BY <1>0, <2>1, <2>3, <2>4, <2>6, <2>7 DEF AskInv, AloneInv
  <2>9. \A d \in Callers \ {c} : AskInv(d)' /\ AloneInv(d)'
    BY <1>0, <2>1, <2>3, <2>7, OtherCalls
  <2> QED
    BY <2>8, <2>9
<1>12. ASSUME NEW c \in Callers, Client!DiagnosticsReturns(c)
       PROVE  \A d \in Callers : AskInv(d)' /\ AloneInv(d)'
  <2>1. /\ ask[c].at = "waiting" /\ file' = file /\ told' = told
        /\ diagnostics' = diagnostics /\ starting' = starting
        /\ ask' = [ask EXCEPT ![c] = [ask[c] EXCEPT !.at = "done", !.entry = diagnostics]]
    BY <1>12 DEF Client!DiagnosticsReturns, Client!At
  <2>2. /\ \A d \in Callers \ {c} : ask'[d] = ask[d]
        /\ ask'[c] = [ask[c] EXCEPT !.at = "done", !.entry = diagnostics]
    BY <1>2, <2>1
  <2>3. /\ ask'[c].at = "done" /\ ask'[c].entry = diagnostics
        /\ ask'[c].since = ask[c].since /\ ask'[c].alone = ask[c].alone
    BY <1>0, <2>2 DEF Ask
  <2>4. AskInv(c)' /\ AloneInv(c)'
    BY <1>0, <2>1, <2>2, <2>3 DEF AskInv, AloneInv
  <2>5. \A d \in Callers \ {c} : AskInv(d)' /\ AloneInv(d)'
    BY <1>0, <2>1, <2>2, OtherCalls
  <2> QED
    BY <2>4, <2>5
<1>13. ASSUME NEW c \in Callers, Client!Answered(c)
       PROVE  \A d \in Callers : AskInv(d)' /\ AloneInv(d)'
  <2>1. /\ ask[c].at = "requesting" /\ file' = file /\ told' = told
        /\ diagnostics' = diagnostics /\ starting' = starting
    BY <1>13 DEF Client!Answered, Client!At
  <2>2. PICK place \in {"applying", "done"} :
          ask' = [ask EXCEPT ![c] = [ask[c] EXCEPT !.at = place, !.got = told[Len(told)]]]
    BY <1>13 DEF Client!Answered, Client!Last
  <2>3. /\ \A d \in Callers \ {c} : ask'[d] = ask[d]
        /\ ask'[c] = [ask[c] EXCEPT !.at = place, !.got = told[Len(told)]]
    BY <1>2, <2>2
  <2>4. /\ ask'[c].at \in {"applying", "done"} /\ ask'[c].got = told[Len(told)]
        /\ ask'[c].entry = ask[c].entry /\ ask'[c].alone = ask[c].alone
    BY <1>0, <2>3 DEF Ask
  <2>5. AskInv(c)' /\ AloneInv(c)'
    BY <1>0, <2>1, <2>3, <2>4 DEF AskInv, AloneInv
  <2>6. \A d \in Callers \ {c} : AskInv(d)' /\ AloneInv(d)'
    BY <1>0, <2>1, <2>3, OtherCalls
  <2> QED
    BY <2>5, <2>6
<1>14. ASSUME NEW c \in Callers, Client!ApplyRename(c)
       PROVE  \A d \in Callers : AskInv(d)' /\ AloneInv(d)'
  <2>1. /\ ask[c].at = "applying" /\ told' = told
        /\ diagnostics' = diagnostics /\ starting' = starting
        /\ ask' = [ask EXCEPT ![c] = [ask[c] EXCEPT !.at = "done"]]
    BY <1>3, <1>14 DEF Client!ApplyRename, Client!At
  <2>2. /\ \A d \in Callers \ {c} : ask'[d] = ask[d]
        /\ ask'[c] = [ask[c] EXCEPT !.at = "done"]
    BY <1>2, <2>1
  <2>3. /\ ask'[c].at = "done" /\ ask'[c].entry = ask[c].entry
        /\ ask'[c].alone = ask[c].alone
    BY <1>0, <2>2 DEF Ask
  <2>4. AskInv(c)' /\ AloneInv(c)'
    BY <1>0, <2>1, <2>2, <2>3 DEF AskInv, AloneInv
  <2>5. \A d \in Callers \ {c} : AskInv(d)' /\ AloneInv(d)'
    BY <1>0, <2>1, <2>2, OtherCalls
  <2> QED
    BY <2>4, <2>5
<1>15. CASE UNCHANGED Client!vars
  BY <1>0, <1>15 DEF Client!vars, AskInv, AloneInv
<1> QED
  BY <1>4, <1>5, <1>6, <1>7, <1>8, <1>9, <1>10, <1>11, <1>12, <1>13, <1>14, <1>15
     DEF Client!Next, Client!CallSteps

(* Nobody calls, and the server was told of nothing.                        *)
LEMMA ClientInit ==
  ASSUME ClientParameters, Client!Init
  PROVE  ClientInv
<1>1. Client!Idle \in Ask
  BY DEF Client!Idle, Ask, Client!Tools
<1>2. /\ file \in Client!Texts /\ told \in Seq(Client!Texts) /\ Len(told) = 0
      /\ 0 <= MaxSyncs /\ 0 \in 0..0 /\ version = 0 /\ analysed = 0
  BY DEF ClientParameters, Client!Init, Client!Texts
<1>3. ask \in [Callers -> Ask] /\ \A c \in Callers : ask[c] = Client!Idle
  BY <1>1 DEF Client!Init
<1>4. ClientTypes
  BY <1>2, <1>3 DEF Client!Init, ClientTypes
<1>5. \A c \in Callers : AskInv(c) /\ AloneInv(c)
  BY <1>3 DEF Client!Init, ClientParameters, AskInv, AloneInv, Client!Idle
<1> QED
  BY <1>4, <1>5 DEF ClientInv

(* The client is well-typed, and never counts more texts, or diagnostics of *)
(* more texts, than it has sent.                                            *)
THEOREM ClientTypesHold ==
  ASSUME ClientParameters
  PROVE  Client!Spec => []Client!TypeOK
<1>1. Client!Init => ClientInv
  BY ClientInit
<1>2. ClientInv /\ [Client!Next]_(Client!vars) => ClientInv'
  BY ClientStep
<1>3. ClientInv => Client!TypeOK
  <2> SUFFICES ASSUME ClientInv
               PROVE  Client!TypeOK
    OBVIOUS
  <2>1. MaxSyncs \in Nat /\ Len(told) \in Nat /\ Len(told) <= MaxSyncs
    BY DEF ClientParameters, ClientInv, ClientTypes
  <2>2. version \in 0..MaxSyncs /\ analysed \in 0..MaxSyncs
    BY <2>1 DEF ClientInv, ClientTypes
  <2> QED
    BY <2>2 DEF ClientInv, ClientTypes, Client!TypeOK, Ask
<1> QED
  BY <1>1, <1>2, <1>3, PTL DEF Client!Spec

(* A Diagnostics call that finds an entry finds one published after the     *)
(* call erased the old one, however the calls of other threads erase, send  *)
(* and wait in between.                                                     *)
THEOREM DiagnosticsAreFresh ==
  ASSUME ClientParameters
  PROVE  Client!Spec => []Client!DiagnosticsPublishedSince
<1>1. Client!Init => ClientInv
  BY ClientInit
<1>2. ClientInv /\ [Client!Next]_(Client!vars) => ClientInv'
  BY ClientStep
<1>3. ClientInv => Client!DiagnosticsPublishedSince
  BY DEF ClientInv, AskInv, Client!DiagnosticsPublishedSince, Client!At
<1> QED
  BY <1>1, <1>2, <1>3, PTL DEF Client!Spec

(* The edits of a rename that no other call and no edit has disturbed are   *)
(* applied to the very text the server computed them for.                   *)
THEOREM RenamesFit ==
  ASSUME ClientParameters
  PROVE  Client!Spec => []Client!RenameFitsItsText
<1>1. Client!Init => ClientInv
  BY ClientInit
<1>2. ClientInv /\ [Client!Next]_(Client!vars) => ClientInv'
  BY ClientStep
<1>3. ClientInv => Client!RenameFitsItsText
  BY DEF ClientInv, AloneInv, Client!RenameFitsItsText, Client!At
<1> QED
  BY <1>1, <1>2, <1>3, PTL DEF Client!Spec

-----------------------------------------------------------------------------
(*                     THE OUTPUT OF A COMMAND                             *)

CONSTANTS MaxChunks, MaxOutput

VARIABLES caller, stage, leader, helper, pipe, written, captured, outcome, stop, late

Command == INSTANCE Subprocess WITH phase <- stage, result <- outcome

OutputBounds == MaxChunks \in Nat /\ MaxOutput \in Nat

Counts == [leader : Nat, helper : Nat]
Outcome == [cancelled : BOOLEAN, timed_out : BOOLEAN, truncated : BOOLEAN,
            spawn_failed : BOOLEAN, exit_code : {"none", "of_leader"},
            outcome : {"none", "whole", "partial", "error", "fallback", "cancelled"}]

CommandTypes ==
  /\ caller \in {"bash", "grep", "walk"}
  /\ stage \in {"idle", "polling", "hung_up", "checking", "draining", "waiting",
                "killing", "returned"}
  /\ leader \in {"none", "writing", "silent", "exited", "reaped"}
  /\ helper \in {"none", "writing", "silent", "exited", "reaped"}
  /\ pipe \in Counts /\ captured \in Counts /\ written \in Counts
  /\ outcome \in Outcome
  /\ stop \in BOOLEAN /\ late \in BOOLEAN

(* What was written is in the pipe or was read, but for what the runner     *)
(* threw away; and nobody writes more than its bound.                       *)
NothingIsLost ==
  \A p \in {"leader", "helper"} :
    written[p] <= MaxChunks /\ pipe[p] + captured[p] <= written[p]

Listening == {"idle", "polling", "hung_up", "checking", "draining"}
GivenUp == outcome.cancelled \/ outcome.timed_out

(* The runner stops listening to the leader only when it can write no more: *)
(* it closed its output, or it has been reaped.  A call that gives up says  *)
(* so.                                                                      *)
CommandInv ==
  /\ stage \in Listening /\ ~outcome.truncated =>
       pipe.leader + captured.leader = written.leader
  /\ stage = "idle" => leader = "none" /\ helper = "none"
  /\ stage \in {"hung_up", "waiting"} => leader # "writing" /\ helper # "writing"
  /\ stage = "draining" => leader = "reaped"
  /\ stage = "waiting" /\ ~outcome.truncated => captured.leader = written.leader
  /\ stage # "returned" => ~outcome.spawn_failed
  /\ stage \in Listening \cup {"waiting"} => ~GivenUp
  /\ stage = "killing" => GivenUp
  /\ stage = "returned" =>
       /\ leader \in {"none", "reaped"}
       /\ GivenUp => helper \notin Command!Alive
       /\ ~outcome.truncated /\ ~GivenUp /\ ~outcome.spawn_failed =>
            captured.leader = written.leader
  /\ outcome.outcome = "whole" =>
       /\ stage = "returned"
       /\ ~outcome.truncated /\ ~GivenUp /\ ~outcome.spawn_failed

(* Nothing runs, and nothing was written.                                   *)
LEMMA CommandInit ==
  ASSUME OutputBounds, Command!Init
  PROVE  CommandTypes /\ NothingIsLost /\ CommandInv
<1>1. Command!Nothing \in Outcome
  BY DEF Command!Nothing, Outcome
<1>2. [leader |-> 0, helper |-> 0] \in Counts
  BY DEF Counts
<1>3. /\ ~outcome.cancelled /\ ~outcome.timed_out /\ ~outcome.spawn_failed
      /\ outcome.outcome = "none"
  BY DEF Command!Init, Command!Nothing
<1>4. CommandTypes
  BY <1>1, <1>2 DEF Command!Init, CommandTypes
<1>5. /\ pipe.leader = 0 /\ captured.leader = 0 /\ written.leader = 0
      /\ pipe.helper = 0 /\ captured.helper = 0 /\ written.helper = 0
      /\ stage = "idle" /\ leader = "none" /\ helper = "none"
  BY DEF Command!Init
<1>6. NothingIsLost
  BY <1>5 DEF OutputBounds, NothingIsLost
<1>7. CommandInv
  BY <1>3, <1>5 DEF CommandInv, Listening, GivenUp
<1> QED
  BY <1>4, <1>6, <1>7

(* The processes write, let go of the pipe and start others; the user stops *)
(* the call; time passes.                                                   *)
LEMMA ProcessStep ==
  ASSUME OutputBounds, CommandTypes, NothingIsLost, CommandInv,
         \/ Command!WriteOutput \/ Command!StartHelper \/ Command!LetGo
         \/ Command!RequestStop \/ Command!TimePasses \/ UNCHANGED Command!vars
  PROVE  CommandTypes' /\ NothingIsLost' /\ CommandInv'
<1> USE DEF Listening, GivenUp, Command!Alive
<1>1. CASE Command!WriteOutput
  <2>1. PICK p \in {"leader", "helper"} :
          /\ Command!State(p) = "writing" /\ written[p] < MaxChunks
          /\ written' = [written EXCEPT ![p] = @ + 1]
          /\ pipe' = IF stage \in {"killing", "waiting", "returned"} THEN pipe
                     ELSE [pipe EXCEPT ![p] = @ + 1]
    BY <1>1 DEF Command!WriteOutput
  <2>2. /\ caller' = caller /\ stage' = stage /\ leader' = leader /\ helper' = helper
        /\ captured' = captured /\ outcome' = outcome /\ stop' = stop /\ late' = late
    BY <1>1 DEF Command!WriteOutput
  <2>3. written[p] \in Nat /\ pipe[p] \in Nat
    BY DEF CommandTypes, Counts
  <2>4. written' \in Counts /\ pipe' \in Counts
    BY <2>1, <2>3 DEF CommandTypes, Counts
  <2>5. CommandTypes'
    BY <2>2, <2>4 DEF CommandTypes
  <2>6. NothingIsLost'
    BY <2>1, <2>2, <2>3 DEF NothingIsLost, CommandTypes, Counts, OutputBounds
  <2>7. CASE p = "leader"
    <3>1. leader = "writing"
      BY <2>1, <2>7 DEF Command!State
    <3>2. stage \notin {"waiting", "returned", "idle"}
      BY <3>1 DEF CommandInv
    <3>3. stage \in Listening => /\ pipe'.leader = pipe.leader + 1
                                 /\ written'.leader = written.leader + 1
      BY <2>1, <2>7 DEF CommandTypes, Counts
    <3> QED
      BY <2>2, <2>5, <2>6, <3>1, <3>2, <3>3 DEF CommandInv, CommandTypes, Counts
  <2>8. CASE p = "helper"
    <3>1. pipe'.leader = pipe.leader /\ written'.leader = written.leader
      BY <2>1, <2>8 DEF CommandTypes, Counts
    <3> QED
      BY <2>2, <2>5, <2>6, <3>1 DEF CommandInv
  <2> QED
    BY <2>7, <2>8
<1>2. CASE Command!StartHelper
  <2>1. stage \notin {"idle", "hung_up", "waiting", "returned"}
    BY <1>2 DEF Command!StartHelper, CommandInv
  <2> QED
    BY <1>2, <2>1 DEF Command!StartHelper, CommandTypes, NothingIsLost, CommandInv
<1>3. CASE Command!LetGo
  <2>1. /\ leader' \in {leader} \cup {"silent", "exited"}
        /\ helper' \in {helper} \cup {"silent", "exited"}
        /\ leader' # leader => leader \in Command!Alive
        /\ helper' # helper => helper \in Command!Alive
    BY <1>3 DEF Command!LetGo, Command!Processes, Command!State
  <2>2. /\ caller' = caller /\ stage' = stage /\ pipe' = pipe /\ written' = written
        /\ captured' = captured /\ outcome' = outcome /\ stop' = stop /\ late' = late
    BY <1>3 DEF Command!LetGo
  <2> QED
    BY <2>1, <2>2 DEF CommandTypes, NothingIsLost, CommandInv
<1>4. CASE Command!RequestStop \/ Command!TimePasses \/ UNCHANGED Command!vars
  <2>1. /\ caller' = caller /\ stage' = stage /\ leader' = leader /\ helper' = helper
        /\ pipe' = pipe /\ written' = written /\ captured' = captured
        /\ outcome' = outcome
    BY <1>4 DEF Command!RequestStop, Command!TimePasses, Command!vars
  <2>2. stop' \in BOOLEAN /\ late' \in BOOLEAN
    BY <1>4 DEF Command!RequestStop, Command!TimePasses, Command!vars, CommandTypes
  <2> QED
    BY <2>1, <2>2 DEF CommandTypes, NothingIsLost, CommandInv
<1> QED
  BY <1>1, <1>2, <1>3, <1>4

(* One chunk goes from the pipe to what was captured, or is thrown away,    *)
(* and then the result is marked.                                           *)
LEMMA AppendStep ==
  ASSUME OutputBounds, CommandTypes, NothingIsLost, NEW p \in {"leader", "helper"},
         Command!Append(p), written' = written
  PROVE  /\ pipe' \in Counts /\ captured' \in Counts /\ outcome' \in Outcome
         /\ NothingIsLost'
         /\ ~outcome'.truncated =>
              /\ outcome' = outcome
              /\ pipe'.leader + captured'.leader = pipe.leader + captured.leader
         /\ outcome'.cancelled = outcome.cancelled
         /\ outcome'.timed_out = outcome.timed_out
         /\ outcome'.spawn_failed = outcome.spawn_failed
         /\ outcome'.outcome = outcome.outcome
<1>1. pipe[p] \in Nat /\ pipe[p] > 0 /\ captured[p] \in Nat
  BY DEF Command!Append, CommandTypes, Counts
<1>2. pipe' = [pipe EXCEPT ![p] = @ - 1] /\ pipe' \in Counts
  BY <1>1 DEF Command!Append, CommandTypes, Counts
<1>3. CASE Command!Size >= MaxOutput
  <2>1. outcome' = [outcome EXCEPT !.truncated = TRUE] /\ captured' = captured
    BY <1>3 DEF Command!Append
  <2>2. outcome' \in Outcome /\ outcome'.truncated
    BY <2>1 DEF CommandTypes, Outcome
  <2> QED
    BY <1>1, <1>2, <2>1, <2>2 DEF CommandTypes, Counts, Outcome, NothingIsLost
<1>4. CASE ~(Command!Size >= MaxOutput)
  <2>1. outcome' = outcome /\ captured' = [captured EXCEPT ![p] = @ + 1]
    BY <1>4 DEF Command!Append
  <2>2. captured' \in Counts
    BY <1>1, <2>1 DEF CommandTypes, Counts
  <2>3. pipe'.leader + captured'.leader = pipe.leader + captured.leader
    BY <1>1, <1>2, <2>1 DEF CommandTypes, Counts
  <2>4. NothingIsLost'
    BY <1>1, <1>2, <2>1 DEF CommandTypes, Counts, NothingIsLost
  <2> QED
    BY <1>2, <2>1, <2>2, <2>3, <2>4 DEF CommandTypes
<1> QED
  BY <1>3, <1>4

(* The runner polls, reads to the end, drains, waits and kills.             *)
LEMMA RunnerStep ==
  ASSUME OutputBounds, CommandTypes, NothingIsLost, CommandInv, Command!Runner
  PROVE  CommandTypes' /\ NothingIsLost' /\ CommandInv'
<1> USE DEF Listening, GivenUp, Command!Alive
<1>1. CASE Command!Spawn
  <2>1. CASE leader' = "writing" /\ stage' = "polling" /\ outcome' = outcome
    BY <1>1, <2>1 DEF Command!Spawn, CommandTypes, NothingIsLost, CommandInv
  <2>2. CASE leader' = "none" /\ stage' = "returned"
             /\ outcome' = [Command!Nothing EXCEPT !.spawn_failed = TRUE]
    <3>1. /\ outcome' \in Outcome /\ outcome'.spawn_failed
          /\ ~outcome'.cancelled /\ ~outcome'.timed_out /\ outcome'.outcome = "none"
      BY <2>2 DEF Command!Nothing, Outcome
    <3> QED
      BY <1>1, <2>2, <3>1 DEF Command!Spawn, CommandTypes, NothingIsLost, CommandInv
  <2> QED
    BY <1>1, <2>1, <2>2 DEF Command!Spawn
<1>2. CASE Command!GiveUp
  <2>1. /\ outcome' \in Outcome
        /\ outcome'.cancelled \/ outcome'.timed_out
        /\ outcome'.truncated = outcome.truncated
        /\ outcome'.spawn_failed = outcome.spawn_failed
        /\ outcome'.outcome = outcome.outcome
    BY <1>2 DEF Command!GiveUp, CommandTypes, Outcome
  <2>2. outcome.outcome # "whole" /\ ~outcome.spawn_failed
    BY <1>2 DEF Command!GiveUp, CommandInv
  <2> QED
    BY <1>2, <2>1, <2>2 DEF Command!GiveUp, CommandTypes, NothingIsLost, CommandInv
<1>3. ASSUME NEW p \in {"leader", "helper"}, Command!Append(p),
             stage \in {"polling", "hung_up", "draining"},
             stage' = stage \/ (stage = "polling" /\ stage' = "hung_up" /\ Command!HungUp),
             UNCHANGED <<caller, leader, helper, written, stop, late>>
      PROVE  CommandTypes' /\ NothingIsLost' /\ CommandInv'
  <2>1. /\ pipe' \in Counts /\ captured' \in Counts /\ outcome' \in Outcome
        /\ NothingIsLost'
        /\ ~outcome'.truncated =>
             /\ outcome' = outcome
             /\ pipe'.leader + captured'.leader = pipe.leader + captured.leader
        /\ outcome'.cancelled = outcome.cancelled
        /\ outcome'.timed_out = outcome.timed_out
        /\ outcome'.spawn_failed = outcome.spawn_failed
        /\ outcome'.outcome = outcome.outcome
    BY <1>3, AppendStep
  <2>2. outcome.outcome # "whole" /\ ~outcome.spawn_failed /\ ~GivenUp
    BY <1>3 DEF CommandInv
  <2> QED
    BY <1>3, <2>1, <2>2 DEF CommandTypes, CommandInv, Command!HungUp
<1>4. CASE Command!PollReadable
  BY <1>3, <1>4 DEF Command!PollReadable
<1>5. CASE Command!PollHangup \/ Command!PollTimesOut \/ Command!CheckExit
  BY <1>5 DEF Command!PollHangup, Command!PollTimesOut, Command!CheckExit,
     Command!AfterExit, Command!HungUp, CommandTypes, NothingIsLost, CommandInv
<1>6. CASE Command!ReadToTheEnd
  <2>1. CASE \E p \in {"leader", "helper"} : Command!Append(p) /\ stage' = stage
    BY <1>3, <1>6, <2>1 DEF Command!ReadToTheEnd
  <2>2. CASE /\ Command!Empty /\ stage' = "waiting"
             /\ pipe' = pipe /\ captured' = captured /\ outcome' = outcome
    BY <1>6, <2>2 DEF Command!ReadToTheEnd, Command!Empty, CommandTypes, Counts,
       NothingIsLost, CommandInv
  <2> QED
    BY <1>6, <2>1, <2>2 DEF Command!ReadToTheEnd
<1>7. ASSUME Command!Return(outcome)
      PROVE  /\ outcome' \in Outcome
             /\ outcome'.cancelled = outcome.cancelled
             /\ outcome'.timed_out = outcome.timed_out
             /\ outcome'.truncated = outcome.truncated
             /\ outcome'.spawn_failed = outcome.spawn_failed
             /\ outcome'.outcome = outcome.outcome
  BY <1>7 DEF Command!Return, CommandTypes, Outcome
<1>8. CASE Command!Drain
  <2>1. CASE \E p \in {"leader", "helper"} : Command!Append(p) /\ stage' = stage
    BY <1>3, <1>8, <2>1 DEF Command!Drain
  <2>2. CASE /\ Command!Empty \/ outcome.truncated
             /\ Command!Return(outcome) /\ pipe' = pipe /\ captured' = captured
    <3>1. ~outcome.truncated => captured.leader = written.leader
      BY <1>8, <2>2 DEF Command!Drain, Command!Empty, CommandInv, CommandTypes, Counts
    <3> QED
      BY <1>7, <1>8, <2>2, <3>1 DEF Command!Drain, Command!Return, CommandTypes,
         NothingIsLost, CommandInv
  <2> QED
    BY <1>8, <2>1, <2>2 DEF Command!Drain
<1>9. CASE Command!WaitForExit
  BY <1>7, <1>9 DEF Command!WaitForExit, Command!Return, CommandTypes, NothingIsLost,
     CommandInv
<1>10. CASE Command!KillProcessGroupWithGrace
  BY <1>10 DEF Command!KillProcessGroupWithGrace, Command!Killed, CommandTypes,
     NothingIsLost, CommandInv
<1>11. CASE Command!UseResult
  <2>1. PICK o \in Command!Outcome(outcome) : outcome' = [outcome EXCEPT !.outcome = o]
    BY <1>11 DEF Command!UseResult
  <2>2. /\ o \in {"whole", "partial", "error", "fallback", "cancelled"}
        /\ o = "whole" => ~outcome.truncated /\ ~GivenUp /\ ~outcome.spawn_failed
    BY <2>1 DEF Command!Outcome, CommandTypes, Outcome
  <2>3. /\ outcome' \in Outcome /\ outcome'.outcome = o
        /\ outcome'.cancelled = outcome.cancelled
        /\ outcome'.timed_out = outcome.timed_out
        /\ outcome'.truncated = outcome.truncated
        /\ outcome'.spawn_failed = outcome.spawn_failed
    BY <2>1, <2>2 DEF CommandTypes, Outcome
  <2> QED
    BY <1>11, <2>2, <2>3 DEF Command!UseResult, CommandTypes, NothingIsLost, CommandInv
<1> QED
  BY <1>1, <1>2, <1>4, <1>5, <1>6, <1>8, <1>9, <1>10, <1>11 DEF Command!Runner

(* Output that is reported as whole holds everything the command wrote,     *)
(* however the runner learned of the end; and no command outlives its call  *)
(* (RunSubprocessCapture).                                                  *)
THEOREM OutputIsWhole ==
  ASSUME OutputBounds
  PROVE  Command!Spec => [](Command!TypeOK /\ Command!WholeIsWhole /\ Command!NothingIsLeft)
<1> DEFINE Inv == CommandTypes /\ NothingIsLost /\ CommandInv
<1>1. Command!Init => Inv
  BY CommandInit
<1>2. Inv /\ [Command!Next]_(Command!vars) => Inv'
  BY ProcessStep, RunnerStep DEF Command!Next
<1>3. Inv => Command!TypeOK /\ Command!WholeIsWhole /\ Command!NothingIsLeft
  <2> SUFFICES ASSUME Inv
               PROVE  Command!TypeOK /\ Command!WholeIsWhole /\ Command!NothingIsLeft
    OBVIOUS
  <2>1. \A p \in {"leader", "helper"} : written[p] \in 0..MaxChunks
    BY DEF OutputBounds, CommandTypes, Counts, NothingIsLost
  <2> QED
    BY <2>1 DEF CommandTypes, NothingIsLost, CommandInv, GivenUp, Command!TypeOK,
       Command!WholeIsWhole, Command!NothingIsLeft
<1> QED
  BY <1>1, <1>2, <1>3, PTL DEF Command!Spec

-----------------------------------------------------------------------------
(*                     THE USER'S EDITS OF A PROMPT                        *)

CONSTANTS Builtin, Later, Protected, Names, UserText, Arguments, MaxStarts, MaxEdits

VARIABLES seed, others, fingerprint, revision, step, commands, submitted, saved,
          starts, edits

Library == INSTANCE PromptLibrary WITH version <- revision, phase <- step

(* What is recorded beside the file is what YAC wrote, so it never looks    *)
(* like an edit; an edit is the file as long as it counts as saved; and     *)
(* while a start writes the file, the user has nothing in it to lose.       *)
SeedInv ==
  /\ fingerprint.text # "mine"
  /\ saved # Library!Absent => saved.text = "mine" /\ seed = saved
  /\ step \in {"truncate", "write"} => saved = Library!Absent

(* A start leaves alone a file whose text is the user's.                    *)
LEMMA EditedIsKept ==
  ASSUME SeedInv, seed.text = "mine"
  PROVE  seed # Library!Absent /\ Library!KeepsFile(seed)
<1>1. Library!BuildSeedContent(revision).text # "mine" /\ Library!Absent.text # "mine"
  BY DEF Library!BuildSeedContent, Library!Absent
<1>2. seed # Library!BuildSeedContent(revision) /\ fingerprint # seed /\ seed # Library!Absent
  BY <1>1 DEF SeedInv
<1> QED
  BY <1>2 DEF Library!KeepsFile, Library!IsUnmodifiedSeed, Library!MatchesRecordedSeed

(* Every step of a start, a crash and an edit keep the invariant.           *)
LEMMA SeedStep ==
  ASSUME SeedInv, [Library!Next]_(Library!vars)
  PROVE  SeedInv'
<1> USE DEF Library!disk
<1>1. CASE Library!WriteSeedPrompt
  <2>1. CASE saved = Library!Absent
    BY <1>1, <2>1 DEF Library!WriteSeedPrompt, SeedInv
  <2>2. CASE saved # Library!Absent
    <3>1. seed # Library!Absent /\ Library!KeepsFile(seed)
      BY <2>2, EditedIsKept DEF SeedInv
    <3>2. step' = "load"
      BY <1>1, <3>1 DEF Library!WriteSeedPrompt
    <3> QED
      BY <1>1, <3>2 DEF Library!WriteSeedPrompt, SeedInv
  <2> QED
    BY <2>1, <2>2
<1>2. CASE Library!Truncate \/ Library!WriteContent
  BY <1>2 DEF Library!Truncate, Library!WriteContent, SeedInv
<1>3. CASE Library!RecordSeedFingerprint
  <2>1. fingerprint'.text # "mine"
    BY <1>3 DEF Library!RecordSeedFingerprint, Library!BuildSeedContent, Library!Absent
  <2> QED
    BY <1>3, <2>1 DEF Library!RecordSeedFingerprint, SeedInv
<1>4. CASE Library!Edit
  <2>1. PICK f \in {[rev |-> seed.rev, text |-> "mine"], [rev |-> 0, text |-> "mine"],
                    Library!Absent, Library!BuildSeedContent(1)} :
          /\ seed' = f
          /\ saved' = IF f.text = "mine" /\ step \notin {"truncate", "write"}
                      THEN f ELSE Library!Absent
    BY <1>4 DEF Library!Edit
  <2>2. fingerprint' = fingerprint /\ step' = step
    BY <1>4 DEF Library!Edit
  <2> QED
    BY <2>1, <2>2 DEF SeedInv
<1>5. CASE \/ Library!Start \/ Library!Crash \/ Library!RegisterPromptSlashCommands
           \/ Library!Submit \/ UNCHANGED Library!vars
  <2>1. fingerprint' = fingerprint /\ seed' = seed /\ saved' = saved
    BY <1>5 DEF Library!Start, Library!Crash, Library!RegisterPromptSlashCommands,
       Library!Submit, Library!vars
  <2>2. step' = step \/ step' \notin {"truncate", "write"}
    BY <1>5 DEF Library!Start, Library!Crash, Library!RegisterPromptSlashCommands,
       Library!Submit, Library!vars
  <2> QED
    BY <2>1, <2>2 DEF SeedInv
<1> QED
  BY <1>1, <1>2, <1>3, <1>4, <1>5 DEF Library!Next

(* No start loses an edit of a default prompt, whichever versions start,    *)
(* whatever revision field the user left and wherever earlier starts        *)
(* crashed (prompt_library.cpp, WriteSeedPrompt).                           *)
THEOREM EditsOfPromptsSurvive == Library!Spec => []Library!EditsSurvive
<1>1. Library!Init => SeedInv
  BY DEF Library!Init, Library!Absent, SeedInv
<1>2. SeedInv /\ [Library!Next]_(Library!vars) => SeedInv'
  BY SeedStep
<1>3. SeedInv => Library!EditsSurvive
  BY DEF SeedInv, Library!EditsSurvive
<1> QED
  BY <1>1, <1>2, <1>3, PTL DEF Library!Spec

-----------------------------------------------------------------------------
(*                       A PAGE IS THE RESPONSE                            *)

CONSTANTS MaxBody, MaxHeaders

VARIABLES asking, halt, perform, sent, headers, got, error, reply

Page == INSTANCE Web WITH tool <- asking, stop <- halt, result <- reply

(* Of Web!ResultIsTheResponse all but what a search reads in its lines: a   *)
(* call that succeeded returns the final response, a page the whole of it   *)
(* and within the cap.                                                      *)
PageIsTheResponse ==
  reply.ok =>
    /\ perform = "ok" /\ sent.status = 200
    /\ reply.type = sent.type
    /\ asking = "fetch" => reply.body = sent.body /\ Len(reply.body) <= MaxBody

(* What the callbacks collected is what the server sent in its current      *)
(* response, as long as no callback refused: an interim response brings no  *)
(* body, and its headers are forgotten when another begins.                 *)
WebInv ==
  /\ DOMAIN sent = {"status", "type", "body"} /\ DOMAIN got = {"type", "body"}
  /\ got.body \in Seq(Page!SearchLines \cup {"chunk"})
  /\ sent.status \in {0, 100, 200, 404}
  /\ got.type = sent.type
  /\ sent.status < 200 => sent.body = <<>>
  /\ ~error => got.body = sent.body
  /\ error => perform = "aborted"
  /\ asking = Page!None => perform = Page!None /\ got.body = <<>>
  /\ asking = "fetch" => Len(got.body) <= MaxBody
  /\ PageIsTheResponse

(* Nothing was asked for, sent or collected.                                *)
LEMMA WebInit ==
  ASSUME MaxBody \in Nat, Page!Init
  PROVE  WebInv
<1>1. /\ sent = [status |-> 0, type |-> "none", body |-> <<>>]
      /\ got = [type |-> "none", body |-> <<>>]
      /\ ~error /\ ~reply.ok /\ perform = "none" /\ asking = "none"
  BY DEF Page!Init, Page!NoResponse, Page!NoResult, Page!None
<1>2. got.body \in Seq(Page!SearchLines \cup {"chunk"}) /\ Len(got.body) = 0
  BY <1>1
<1> QED
  BY <1>1, <1>2 DEF WebInv, PageIsTheResponse, Page!None

(* The callbacks, and what ends the transfer.                               *)
LEMMA TransferStep ==
  ASSUME MaxBody \in Nat, WebInv, perform = "running", reply' = reply, asking' = asking,
         \/ \E how \in {"aborted", "timeout", "failed"} : Page!Ends(how)
         \/ Page!Complete
         \/ \E s \in {100, 200, 404} : Page!StatusLine(s)
         \/ \E t \in Page!Types : Page!ContentType(t)
         \/ Page!ContentLengthOverCap
         \/ \E c \in IF asking = "search" THEN Page!SearchLines ELSE {"chunk"} : Page!Chunk(c)
  PROVE  WebInv'
<1>1. ~reply.ok /\ asking # Page!None /\ ~error
  BY DEF WebInv, PageIsTheResponse, Page!None
<1>2. ~reply'.ok /\ asking' # Page!None
  BY <1>1
<1>3. CASE \/ \E how \in {"aborted", "timeout", "failed"} : Page!Ends(how)
           \/ Page!Complete
  <2>1. sent' = sent /\ got' = got /\ error' = error
    BY <1>3 DEF Page!Ends, Page!Complete
  <2> QED
    BY <1>1, <1>2, <2>1 DEF WebInv, PageIsTheResponse
<1>4. ASSUME NEW s \in {100, 200, 404}, Page!StatusLine(s)
      PROVE  WebInv'
  <2>1. /\ sent' = [status |-> s, type |-> "none", body |-> <<>>]
        /\ got' = [got EXCEPT !.type = "none"] /\ error' = error /\ perform' = perform
        /\ sent.body = <<>>
    BY <1>4 DEF Page!StatusLine, Page!NoResponse, Page!None, WebInv
  <2>2. /\ DOMAIN got' = {"type", "body"} /\ got'.type = "none" /\ got'.body = got.body
    BY <2>1 DEF WebInv
  <2> QED
    BY <1>1, <1>2, <2>1, <2>2 DEF WebInv, PageIsTheResponse
<1>5. ASSUME NEW t \in Page!Types, Page!ContentType(t)
      PROVE  WebInv'
  <2>1. /\ sent' = [sent EXCEPT !.type = t] /\ got' = [got EXCEPT !.type = t]
        /\ error' = error /\ perform' = perform
    BY <1>5 DEF Page!ContentType
  <2>2. /\ DOMAIN sent' = {"status", "type", "body"} /\ sent'.type = t
        /\ sent'.status = sent.status /\ sent'.body = sent.body
        /\ DOMAIN got' = {"type", "body"} /\ got'.type = t /\ got'.body = got.body
    BY <2>1 DEF WebInv
  <2> QED
    BY <1>1, <1>2, <2>1, <2>2 DEF WebInv, PageIsTheResponse
<1>6. CASE Page!ContentLengthOverCap
  BY <1>1, <1>2, <1>6 DEF Page!ContentLengthOverCap, Page!Refuse, WebInv, PageIsTheResponse
<1>7. ASSUME NEW c \in IF asking = "search" THEN Page!SearchLines ELSE {"chunk"},
             Page!Chunk(c)
      PROVE  WebInv'
  <2>1. /\ sent.status >= 200 /\ sent' = [sent EXCEPT !.body = Append(@, c)]
        /\ c \in Page!SearchLines \cup {"chunk"}
    BY <1>7 DEF Page!Chunk
  <2>2. /\ DOMAIN sent' = {"status", "type", "body"} /\ sent'.type = sent.type
        /\ sent'.status = sent.status /\ sent'.body = Append(sent.body, c)
    BY <2>1 DEF WebInv
  <2>3. CASE asking = "fetch" /\ Len(got.body) >= MaxBody
    <3>1. error' /\ perform' = "aborted" /\ got' = got
      BY <1>7, <2>3 DEF Page!Chunk, Page!Refuse
    <3> QED
      BY <1>2, <2>1, <2>2, <3>1 DEF WebInv, PageIsTheResponse
  <2>4. CASE ~(asking = "fetch" /\ Len(got.body) >= MaxBody)
    <3>1. /\ got' = [got EXCEPT !.body = Append(@, c)]
          /\ error' = error /\ perform' = perform
      BY <1>7, <2>4 DEF Page!Chunk
    <3>2. /\ DOMAIN got' = {"type", "body"} /\ got'.type = got.type
          /\ got'.body = Append(got.body, c)
      BY <3>1 DEF WebInv
    <3>3. /\ got'.body \in Seq(Page!SearchLines \cup {"chunk"})
          /\ Len(got'.body) = Len(got.body) + 1 /\ Len(got.body) \in Nat
      BY <2>1, <3>2 DEF WebInv
    <3>4. asking = "fetch" => Len(got'.body) <= MaxBody
      BY <2>4, <3>3
    <3> QED
      BY <1>1, <1>2, <2>1, <2>2, <3>1, <3>2, <3>3, <3>4 DEF WebInv, PageIsTheResponse
  <2> QED
    BY <2>3, <2>4
<1> QED
  BY <1>3, <1>4, <1>5, <1>6, <1>7

(* The call: its beginning, its cancellation, its result.                   *)
LEMMA CallStepOfWeb ==
  ASSUME MaxBody \in Nat, WebInv,
         Page!Begin \/ Page!Cancel \/ Page!Return \/ UNCHANGED Page!vars
  PROVE  WebInv'
<1>1. CASE Page!Begin
  <2>1. /\ sent' = sent /\ got' = got /\ error' = error /\ asking = Page!None
        /\ asking' \in {"fetch", "search"}
        /\ perform' \in {perform, "running"}
        /\ reply' = reply \/ ~reply'.ok
    BY <1>1 DEF Page!Begin, Page!Tools, Page!Failure, Page!NoResult
  <2>2. Len(got.body) <= MaxBody /\ perform = Page!None /\ ~reply.ok
    BY <2>1 DEF WebInv, PageIsTheResponse, Page!None
  <2>3. ~error /\ ~reply'.ok /\ asking' # Page!None
    BY <2>1, <2>2 DEF WebInv, Page!None
  <2> QED
    BY <2>1, <2>2, <2>3 DEF WebInv, PageIsTheResponse
<1>2. CASE Page!Cancel \/ UNCHANGED Page!vars
  BY <1>2 DEF Page!Cancel, Page!vars, WebInv, PageIsTheResponse
<1>3. CASE Page!Return
  <2>1. UNCHANGED <<asking, halt, perform, sent, headers, got, error>>
    BY <1>3 DEF Page!Return
  <2>2. ASSUME reply'.ok
        PROVE  /\ perform = "ok" /\ sent.status = 200 /\ ~error
               /\ reply'.type = got.type
               /\ asking = "fetch" => reply'.body = got.body
    <3>1. ~Page!Failure("cancelled").ok /\ ~Page!Failure("size").ok
          /\ ~Page!Failure(perform).ok /\ ~Page!Failure("status").ok
          /\ ~Page!Failure("transform").ok
      BY DEF Page!Failure, Page!NoResult
    <3>2. /\ perform = "ok" /\ ~error /\ sent.status \in 200..299
          /\ reply' = IF asking = "fetch" THEN Page!TransformWebFetchBody
                      ELSE Page!ParseExaWebSearchResponse
      BY <1>3, <2>2, <3>1 DEF Page!Return
    <3>3. sent.status = 200
      <4>1. sent.status \in {0, 100, 200, 404}
        BY DEF WebInv
      <4>2. 200 <= sent.status /\ sent.status <= 299
        BY <3>2
      <4> QED
        BY <4>1, <4>2
    <3>4. CASE asking = "fetch"
      BY <2>2, <3>1, <3>2, <3>3, <3>4 DEF Page!TransformWebFetchBody
    <3>5. CASE asking # "fetch"
      <4>1. \A why : ~Page!Failure(why).ok
        BY DEF Page!Failure, Page!NoResult
      <4> HIDE DEF Page!Failure
      <4>2. reply'.type = got.type
        BY <2>2, <3>2, <3>5, <4>1 DEF Page!ParseExaWebSearchResponse
      <4> QED
        BY <3>2, <3>3, <3>5, <4>2
    <3> QED
      BY <3>4, <3>5
  <2> QED
    BY <2>1, <2>2 DEF WebInv, PageIsTheResponse
<1> QED
  BY <1>1, <1>2, <1>3

(* What web_fetch returns as a page is the whole body of the final response *)
(* within the cap, and what web_search reads is a final response too,       *)
(* however the callbacks, the timeout and a cancellation fall together      *)
(* (web_fetch.cpp and web_search.cpp).                                      *)
THEOREM PagesAreWhole ==
  ASSUME MaxBody \in Nat
  PROVE  Page!Spec => []PageIsTheResponse
<1>1. Page!Init => WebInv
  BY WebInit
<1>2. WebInv /\ [Page!Next]_(Page!vars) => WebInv'
  <2> SUFFICES ASSUME WebInv, [Page!Next]_(Page!vars)
               PROVE  WebInv'
    OBVIOUS
  <2>1. CASE Page!Begin \/ Page!Cancel \/ Page!Return \/ UNCHANGED Page!vars
    BY <2>1, CallStepOfWeb
  <2>2. CASE ~(Page!Begin \/ Page!Cancel \/ Page!Return \/ UNCHANGED Page!vars)
    <3>1. \/ \E how \in {"aborted", "timeout", "failed"} : Page!Ends(how)
          \/ Page!Complete
          \/ \E s \in {100, 200, 404} : Page!StatusLine(s)
          \/ \E t \in Page!Types : Page!ContentType(t)
          \/ Page!ContentLengthOverCap
          \/ \E c \in IF asking = "search" THEN Page!SearchLines ELSE {"chunk"} : Page!Chunk(c)
      BY <2>2 DEF Page!Next, Page!Progress, Page!TimesOut, Page!Breaks
    <3>2. perform = "running" /\ reply' = reply /\ asking' = asking
      BY <3>1 DEF Page!Ends, Page!Complete, Page!StatusLine, Page!ContentType,
         Page!ContentLengthOverCap, Page!Chunk
    <3> QED
      BY <3>1, <3>2, TransferStep
  <2> QED
    BY <2>1, <2>2
<1>3. WebInv => PageIsTheResponse
  BY DEF WebInv
<1> QED
  BY <1>1, <1>2, <1>3, PTL DEF Page!Spec
=============================================================================
