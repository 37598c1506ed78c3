------------------------------ MODULE Overlays ------------------------------
(* The command palettes of the terminal UI: ChatUiOverlayState with its three
   CommandPalette components (root, models, themes), the modal panels that
   decide which of them a key reaches, and the model discovery that replaces
   two of their lists from a background thread's task while they are open.

   A command is its id. What a filter finds in a command's name and description
   is the constant Hits. Dialogs for approvals and questions only take the keys
   here: module Approvals has their answers. *)
EXTENDS Naturals, Sequences, SequencesExt, Ordered

CONSTANTS
    Configured,     \* the model of the configuration ("" when there is none)
    Offered,        \* the lists of models ListModels may return
    Fallback,       \* the built-in list (<<>>: the provider is not Z.ai)
    Themes,         \* ListThemes
    Hits            \* Hits[f]: the commands whose text contains filter f

Root == "root"
ModelList == "model"
ThemeList == "theme"
Palettes == {Root, ModelList, ThemeList}
None == "none"

VARIABLES
    discovery,  \* "running", or the status of the result that was applied
    level,      \* palette_level_: 0 none (-1 in the code), 1 root, 2 sub-palette
    kind,       \* sub_palette_kind_
    shown,      \* the show_* flags that are set
    lists,      \* commands_, model_commands_, theme_commands_
    pal,        \* per palette: its copy of the list, filter_text_,
                \* filtered_indices_ and selected_index_
    ran         \* the last command Enter chose: what, where, under which filter
vars == <<discovery, level, kind, shown, lists, pal, ran>>

---------------------------------------------------------------------------
(* What the lists hold. *)

BuildCommands(models) ==
    <<"new_chat", "help", "switch_theme">>
        \o (IF models = <<>> THEN <<>> ELSE <<"switch_model">>)
        \o <<"mcp_list">>

EnsureModelPresent(models) ==
    IF Configured = "" \/ Configured \in ToSet(models)
    THEN models ELSE <<Configured>> \o models

\* DiscoverModelsWithStatus for the list the provider returned; an exception
\* of ListModels leaves the list empty and fails.
Discovered(returned, threw) ==
    LET fallback == returned = <<>> /\ Fallback # <<>>
        models == EnsureModelPresent(IF fallback THEN Fallback ELSE returned)
    IN  [models |-> models,
         status |-> CASE fallback -> "fallback"
                      [] ~fallback /\ (threw \/ models = <<>>) -> "failed"
                      [] OTHER -> "success"]

\* A provider that cannot list its models, one that throws, and every answer.
Results ==
    {[models |-> <<>>, status |-> "unsupported"], Discovered(<<>>, TRUE)}
        \union {Discovered(models, FALSE) : models \in Offered \union {<<>>}}

---------------------------------------------------------------------------
(* One palette. *)

Matching(commands, filter) ==
    InOrder({i \in DOMAIN commands : commands[i] \in Hits[filter]})

\* A highlight that is not brought back into the shorter list.
SelectionKept(p, commands, filter) ==
    [commands |-> commands, filter |-> filter, filtered |-> Matching(commands, filter),
     selected |-> IF p.filtered = <<>> THEN 1 ELSE p.selected]

\* RefreshFiltered: the highlight stays on the same position of the list when
\* the filter still finds it there, and returns to the first row otherwise.
RefreshFiltered(p, commands, filter) ==
    LET before == IF p.filtered = <<>> THEN 0 ELSE p.filtered[p.selected]
        found == Matching(commands, filter)
    IN  [commands |-> commands, filter |-> filter, filtered |-> found,
         selected |-> IF before \in ToSet(found)
                      THEN CHOOSE row \in DOMAIN found : found[row] = before ELSE 1]

\* A palette that kept its rows when the list changes.
RowsKept(p, commands) == [p EXCEPT !.commands = commands]

\* CommandsEqual in SyncCommands spares a refresh of equal lists only.
Resynced(p, commands) == RefreshFiltered(p, commands, p.filter)

SyncCommands(q, p) ==
    IF p.commands = lists[q] THEN p ELSE Resynced(p, lists[q])

Fresh(commands) ==
    RefreshFiltered([filtered |-> <<>>], commands, "")

---------------------------------------------------------------------------
Init ==
    /\ discovery = "running"
    /\ level = 0
    /\ kind = None
    /\ shown = {}
    /\ lists = [q \in Palettes |-> CASE q = Root -> BuildCommands(<<>>)
                                    [] q = ModelList -> <<>>
                                    [] q = ThemeList -> Themes]
    /\ pal = [q \in Palettes |-> Fresh(lists[q])]
    /\ ran = [command |-> None, palette |-> None, filter |-> ""]

\* SyncPaletteVisibility
Visible(l, k) ==
    (IF l >= 1 THEN {Root} ELSE {}) \union (IF l >= 2 THEN {k} ELSE {})

Panels(s) == s \intersect Palettes

\* ApplyModelDiscoveryResult, a task of the UI thread: the palettes take the
\* new lists when they are drawn or given a key.
ApplyModelDiscoveryResult ==
    /\ discovery = "running"
    /\ \E result \in Results :
         /\ discovery' = result.status
         /\ lists' = [lists EXCEPT ![Root] = BuildCommands(result.models),
                                   ![ModelList] = result.models]
    /\ UNCHANGED <<level, kind, shown, pal, ran>>

\* A dialog or the help text is opened from outside the palettes.
Raise ==
    /\ \E d \in {"help", "approval", "ask"} \ shown : shown' = shown \union {d}
    /\ UNCHANGED <<discovery, level, kind, lists, pal, ran>>

\* The keys that answer the dialogs: they are taken before any palette.
Answer ==
    /\ \/ "ask" \in shown /\ shown' = shown \ {"ask"}
       \/ /\ "ask" \notin shown /\ "approval" \in shown
          /\ shown' = shown \ {"approval"}
    /\ UNCHANGED <<discovery, level, kind, lists, pal, ran>>

Dialogs == {"ask", "approval"}

\* Ctrl+P in HandleGlobalEvent
OpenPalette ==
    /\ shown \intersect Dialogs = {}
    /\ level' = 1
    /\ shown' = (shown \ Palettes) \union Visible(1, kind)
    /\ UNCHANGED <<discovery, kind, lists, pal, ran>>

\* The panel a key reaches: the modals are nested, help outermost.
Top == CASE "help" \in shown -> "help"
         [] "help" \notin shown /\ ThemeList \in shown -> ThemeList
         [] "help" \notin shown /\ ThemeList \notin shown
              /\ ModelList \in shown -> ModelList
         [] OTHER -> Root

Reaches(q) == shown \intersect Dialogs = {} /\ q \in shown /\ Top = q

\* DialogPanel closes on Escape and leaves palette_level_ as it is.
Escape ==
    /\ \E q \in Palettes \union {"help"} : Reaches(q) /\ shown' = shown \ {q}
    /\ UNCHANGED <<discovery, level, kind, lists, pal, ran>>

Keep(q, p) == pal' = [pal EXCEPT ![q] = p]

Draw(q) ==
    /\ q \in shown
    /\ pal[q].commands # lists[q]
    /\ Keep(q, SyncCommands(q, pal[q]))
    /\ UNCHANGED <<discovery, level, kind, shown, lists, ran>>

\* ArrowUp and ArrowDown wrap around.
MoveSelection(q) ==
    /\ Reaches(q)
    /\ LET p == SyncCommands(q, pal[q])
           n == Len(p.filtered)
       IN  IF n = 0 THEN Keep(q, [p EXCEPT !.selected = 1])
           ELSE \E delta \in {1, n - 1} :
                  Keep(q, [p EXCEPT !.selected = ((p.selected - 1 + delta) % n) + 1])
    /\ UNCHANGED <<discovery, level, kind, shown, lists, ran>>

Type(q) ==
    /\ Reaches(q)
    /\ \E f \in DOMAIN Hits :
         LET p == SyncCommands(q, pal[q])
         IN  Keep(q, RefreshFiltered(p, p.commands, f))
    /\ UNCHANGED <<discovery, level, kind, shown, lists, ran>>

\* HandleCommandSelection opens a sub-palette or closes them all and runs the
\* command; "help" shows the help text.
HandleCommandSelection(c) ==
    CASE c = "switch_model" -> [level |-> 2, kind |-> ModelList, opens |-> {}]
      [] c = "switch_theme" -> [level |-> 2, kind |-> ThemeList, opens |-> {}]
      [] c = "help" -> [level |-> 0, kind |-> None, opens |-> {"help"}]
      [] OTHER -> [level |-> 0, kind |-> None, opens |-> {}]

\* HandleModelSelection and HandleThemeSelection
HandleSubSelection(c) == [level |-> 0, kind |-> None, opens |-> {}]

\* Return: the row's position in the list is looked up again by the overlay
\* state, and the palette that was open hides itself whatever was opened.
Return(q) ==
    /\ Reaches(q)
    /\ LET p == SyncCommands(q, pal[q])
       IN  /\ Keep(q, p)
           /\ p.filtered # <<>>
           /\ LET index == p.filtered[p.selected]
                  known == index \in DOMAIN lists[q]
                  command == IF known THEN lists[q][index] ELSE None
                  effect == IF q = Root THEN HandleCommandSelection(command)
                            ELSE HandleSubSelection(command)
              IN  IF q = Root /\ ~known
                  THEN shown' = shown \ {q} /\ UNCHANGED <<level, kind, ran>>
                  ELSE /\ level' = effect.level
                       /\ kind' = effect.kind
                       /\ shown' = ((shown \ Palettes)
                                      \union Visible(effect.level, effect.kind)
                                      \union effect.opens) \ {q}
                       /\ ran' = [command |-> command, palette |-> q,
                                  filter |-> p.filter]
    /\ UNCHANGED <<discovery, lists>>

Next ==
    \/ ApplyModelDiscoveryResult \/ Raise \/ Answer \/ OpenPalette \/ Escape
    \/ \E q \in Palettes :
         Draw(q) \/ MoveSelection(q) \/ Type(q) \/ Return(q)

Spec == Init /\ [][Next]_vars

---------------------------------------------------------------------------
\* Every palette's highlight is a row of its rows, and its rows are positions
\* of the list it copied: Enter reads both without a bounds check.
TypeOK ==
    /\ discovery \in {"running", "unsupported", "success", "fallback", "failed"}
    /\ level \in 0..2
    /\ kind \in {None, ModelList, ThemeList}
    /\ shown \subseteq Palettes \union Dialogs \union {"help"}
    /\ \A q \in Palettes :
         /\ pal[q].filter \in DOMAIN Hits
         /\ ToSet(pal[q].filtered) \subseteq DOMAIN pal[q].commands
         /\ pal[q].selected \in 1..(Len(pal[q].filtered) + 1)

\* The command that Enter runs is one the filter in the palette finds, even
\* when discovery replaced the list under the highlight (command_palette.cpp
\* SyncCommands), and there is never a second palette open behind the one that
\* takes the keys.
RunsAMatch ==
    /\ ran.command # None => ran.command \in Hits[ran.filter]
    /\ ran.palette # None => ran.command # None
    /\ \A q, r \in Panels(shown) : q = r
=============================================================================
