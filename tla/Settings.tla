------------------------------ MODULE Settings ------------------------------
(***************************************************************************)
(* What YAC is configured with, and what it remembers: the layers a start  *)
(* reads (settings.toml, environment, SQLite, presets), the selections a   *)
(* session saves, and the editor that changes settings.toml line by line.  *)
(*                                                                         *)
(* A file is its [provider] keys and its lines from the first              *)
(* [[provider.model_settings]] on; a line is a key and a value, the header *)
(* of such a block ("[[") or that of another table ("[").  A value of the  *)
(* configuration carries the layer it came from: source of the code, whose *)
(* explicit fields are those of the file and of the environment.           *)
(* The user edits the file and the environment while YAC does not run.     *)
(***************************************************************************)
EXTENDS Ordered, SequencesExt

CONSTANTS
  Models,        \* models a user selects
  Efforts,       \* values of a reasoning effort
  FilesOfUser,   \* settings.toml files a user writes
  EnvsOfUser,    \* environments YAC is started in
  Profiles,      \* provider profiles in SQLite, by name
  MaxCommands    \* bound: /model and /effort commands

VARIABLES
  file,     \* settings.toml
  env,      \* YAC_* variables
  store,    \* app_state in SQLite
  config,   \* ChatConfig of the running process
  saving,   \* writes the running process still has to make, in order
  told,     \* efforts the user was told are saved   (history variable)
  left,     \* the selection the last session ended with (history variable)
  commands  \* commands entered

vars == <<file, env, store, config, saving, told, left, commands>>

None == "none"
Providers == {"openai-compatible", "openai", "zai", "bedrock"}
WithPreset == Providers \ {"openai-compatible"}
Pairs == {"openai-compatible", "openai"} \X Models   \* with an effort

Layer(value, source) == [value |-> value, source |-> source]
IsBuiltInDefault(field) == field.source = "default"
Explicit(field) == field.source \in {"toml", "env"}

NoSelection == <<>>
Unsaved == <<"unsaved">>
NoProfile == [name |-> None, provider |-> None, enabled |-> FALSE,
              base_url |-> None, model |-> None]

Off == [running |-> FALSE]
EmptyFile == [id |-> None, model |-> None, lines |-> <<>>]
NothingStored == [provider |-> None, profile |-> None, model |-> None,
                  efforts |-> [q \in Pairs |-> None]]

Init ==
  /\ file = EmptyFile
  /\ env = [provider |-> None, model |-> None]
  /\ store = NothingStored
  /\ config = Off
  /\ saving = <<>>
  /\ told = [q \in Pairs |-> None]
  /\ left = NoSelection
  /\ commands = 0

-----------------------------------------------------------------------------
(* The lines of settings.toml.                                             *)
Line(key, value) == [key |-> key, value |-> value]
BlockHeader == Line("[[", None)
IsAnyTableHeader(line) == line.key \in {"[[", "["}

Headers(lines) == {i \in DOMAIN lines : lines[i] = BlockHeader}

(* The lines of the block whose header is at i.                            *)
BlockLines(lines, i) ==
  {j \in DOMAIN lines : /\ j > i
                        /\ \A k \in (i + 1)..j : ~IsAnyTableHeader(lines[k])}
ToTheEnd(lines, i) == {j \in DOMAIN lines : j > i /\ lines[j] # BlockHeader}
FindModelSettingsBlock(lines, i) == BlockLines(lines, i)

KeyIn(lines, where, key) ==
  IF \E j \in where : lines[j].key = key
  THEN lines[CHOOSE j \in where : lines[j].key = key].value
  ELSE None

Entry(lines, i) ==
  LET within == BlockLines(lines, i) IN
  [provider |-> KeyIn(lines, within, "provider"),
   model |-> KeyIn(lines, within, "model"),
   effort |-> KeyIn(lines, within, "effort")]

(* An entry without a provider or a model is dropped with an error.        *)
LoadProviderModelSettings(lines) ==
  LET order == InOrder({i \in Headers(lines) : /\ Entry(lines, i).provider # None
                                               /\ Entry(lines, i).model # None})
  IN [k \in DOMAIN order |-> Entry(lines, order[k])]

First(S) == CHOOSE i \in S : \A j \in S : i <= j

EffortIn(settings, p, m) ==
  LET matching == {k \in DOMAIN settings : settings[k].provider = p /\ settings[k].model = m}
  IN IF matching = {} THEN None ELSE settings[First(matching)].effort

(* One line changes: the effort of the first block of the pair, a line     *)
(* after its model when it has none, or a block of its own at the end.     *)
WithProviderModelEffort(lines, p, m, effort) ==
  LET matching == {i \in Headers(lines) : /\ Entry(lines, i).provider = p
                                          /\ Entry(lines, i).model = m}
      within == FindModelSettingsBlock(lines, First(matching))
      efforts == {j \in within : lines[j].key = "effort"}
      models == {j \in within : lines[j].key = "model"}
      line == Line("effort", effort) IN
  IF matching = {}
  THEN IF effort = None THEN lines
       ELSE lines \o <<BlockHeader, Line("provider", p), Line("model", m), line>>
  ELSE IF efforts # {}
  THEN IF effort = None THEN RemoveAt(lines, First(efforts))
       ELSE [lines EXCEPT ![First(efforts)] = line]
  ELSE IF effort = None THEN lines
       ELSE InsertAt(lines, First(models) + 1, line)

-----------------------------------------------------------------------------
(* A start: LoadChatConfigResultFrom.                                      *)
BuiltIn ==
  [running |-> TRUE,
   provider |-> Layer("openai-compatible", "default"),
   model |-> Layer("openai", "default"),       \* gpt-4o-mini, as the preset's
   base_url |-> Layer("openai", "default"),    \* as the preset of openai
   api_key_env |-> Layer("openai", "default"),
   profile |-> None,
   settings |-> <<>>,
   fromFile |-> FALSE]                         \* fields.model_settings

Override(field, value, source) ==
  IF value = None THEN field ELSE Layer(value, source)

ApplyProviderDefaults(c) ==
  LET preset == c.provider.value
      Filled(field) == IF Explicit(field) THEN field ELSE [field EXCEPT !.value = preset]
  IN IF preset \in WithPreset
     THEN [c EXCEPT !.model = Filled(@), !.base_url = Filled(@), !.api_key_env = Filled(@)]
     ELSE c

LoadSettingsFromToml(f) ==
  LET c == [BuiltIn EXCEPT
              !.provider = Override(@, f.id, "toml"),
              !.model = Override(@, f.model, "toml"),
              !.settings = LoadProviderModelSettings(f.lines),
              !.fromFile = Headers(f.lines) # {}]
  IN IF f.id # None THEN ApplyProviderDefaults(c) ELSE c

ApplyEnvOverrides(c, e) ==
  LET named == [c EXCEPT !.provider = Override(@, e.provider, "env")]
      filled == IF e.provider # None THEN ApplyProviderDefaults(named) ELSE named
  IN [filled EXCEPT !.model = Override(@, e.model, "env")]

ResolveStateProfile(c, s) ==
  LET name == IF s.profile # None THEN s.profile ELSE c.provider.value IN
  IF name \in DOMAIN Profiles /\ Profiles[name].enabled THEN Profiles[name] ELSE NoProfile

(* The provider of SQLite: of the last profile, else the last one used.    *)
StateProvider(c, s) ==
  LET profile == ResolveStateProfile(c, s) IN
  IF s.profile # None /\ profile # NoProfile THEN profile.provider
  ELSE IF s.provider \in Providers THEN s.provider
  ELSE None

WithStateProvider(c, s) ==
  LET p == StateProvider(c, s) IN
  IF IsBuiltInDefault(c.provider) /\ p # None
  THEN ApplyProviderDefaults([c EXCEPT !.provider = Layer(p, "store")])
  ELSE c

UsesProfile(c, s) ==
  ResolveStateProfile(c, s).provider = c.provider.value

WithProfile(c, s) ==
  LET profile == ResolveStateProfile(c, s)
      Stored(field, value) ==
        IF IsBuiltInDefault(field) THEN Override(field, value, "store") ELSE field
  IN IF UsesProfile(c, s)
     THEN [c EXCEPT !.profile = profile.name,
                    !.base_url = Stored(@, profile.base_url),
                    !.model = Stored(@, profile.model)]
     ELSE c

MayBeLastModel(field) == field.source \in {"default", "store"}

(* The last model is left alone when SQLite names a provider or a profile  *)
(* that is not there any more.                                             *)
WithLastModel(c, s) ==
  LET stale == /\ IsBuiltInDefault(c.provider)
               /\ ~UsesProfile(c, s)
               /\ s.profile # None \/ s.provider # None
  IN IF MayBeLastModel(c.model) /\ ~stale
     THEN [c EXCEPT !.model = Override(@, s.model, "store")]
     ELSE c

WithLastEffort(c, s) ==
  LET q == <<c.provider.value, c.model.value>> IN
  IF c.fromFile \/ q \notin Pairs \/ s.efforts[q] = None THEN c
  ELSE [c EXCEPT !.settings =
          Append(@, [provider |-> q[1], model |-> q[2], effort |-> s.efforts[q]])]

ApplyStateStoreOverrides(c, s) ==
  WithLastEffort(WithLastModel(WithProfile(WithStateProvider(c, s), s), s), s)

Loaded ==
  ApplyStateStoreOverrides(ApplyEnvOverrides(LoadSettingsFromToml(file), env), store)

LoadChatConfig ==
  /\ ~config.running
  /\ config' = Loaded
  /\ UNCHANGED <<file, env, store, saving, told, left, commands>>

-----------------------------------------------------------------------------
(* The running process, on the thread of the UI.                           *)
Ready == config.running /\ saving = <<>>

CountsAsCommand == commands < MaxCommands /\ commands' = commands + 1

Write(what, value) == [what |-> what, value |-> value]

(* SaveRuntimeSelection: three keys, each written by itself.               *)
SetModel(m) ==
  /\ Ready
  /\ CountsAsCommand
  /\ config.model.value # m
  /\ config' = [config EXCEPT !.model.value = m]
  /\ saving' = <<Write("provider", config.provider.value),
                 Write("profile", config.profile), Write("model", m)>>
  /\ UNCHANGED <<file, env, store, told, left>>

EffortSupported ==
  \/ config.provider.value = "openai"
  \/ config.provider.value = "openai-compatible" /\ config.base_url.value = "openai"

ActivePair == <<config.provider.value, config.model.value>>

Edited(effort) ==
  [file EXCEPT !.lines =
     WithProviderModelEffort(@, ActivePair[1], ActivePair[2], effort)]

(* A save of an unchanged file succeeds without a write.                   *)
HandleEffortCommand(effort) ==
  /\ Ready
  /\ CountsAsCommand
  /\ EffortSupported
  /\ config.model.value \in Models
  /\ IF Edited(effort) = file
     THEN file' = file
     ELSE file' = EmptyFile        \* opened with std::ios::trunc
  /\ saving' = <<Write("file", Edited(effort)), Write("effort", effort)>>
  /\ UNCHANGED <<env, store, config, told, left>>

Settings(effort) ==
  LET matching == {k \in DOMAIN config.settings :
                     /\ config.settings[k].provider = ActivePair[1]
                     /\ config.settings[k].model = ActivePair[2]}
  IN IF matching # {}
     THEN [config.settings EXCEPT ![First(matching)].effort = effort]
     ELSE IF effort = None THEN config.settings
     ELSE Append(config.settings,
            [provider |-> ActivePair[1], model |-> ActivePair[2], effort |-> effort])

(* The file is there: SetReasoningEffort changes the configuration.        *)
WriteTextFile ==
  /\ saving # <<>> /\ Head(saving).what = "file"
  /\ file' = Head(saving).value
  /\ saving' = Tail(saving)
  /\ LET effort == Head(saving').value IN
     /\ config' = [config EXCEPT !.settings = Settings(effort)]
     /\ told' = [told EXCEPT ![ActivePair] = IF effort = None THEN "unset" ELSE effort]
  /\ UNCHANGED <<env, store, left, commands>>

StoredAfter(write) ==
  IF write.what = "effort"
  THEN [store EXCEPT !.efforts[ActivePair] = write.value]
  ELSE [store EXCEPT ![write.what] = write.value]

SaveRuntimeAppState ==
  /\ saving # <<>> /\ Head(saving).what # "file"
  /\ store' = StoredAfter(Head(saving))
  /\ saving' = Tail(saving)
  /\ UNCHANGED <<file, env, config, told, left, commands>>

(* A failing write is logged and the next one is made.                     *)
SaveFails ==
  /\ saving # <<>> /\ Head(saving).what # "file"
  /\ saving' = Tail(saving)
  /\ left' = Unsaved
  /\ UNCHANGED <<file, env, store, config, told, commands>>

Selection == <<config.provider.value, config.model.value>>

Quit ==
  /\ Ready
  /\ config' = Off
  /\ left' = IF left = Unsaved THEN NoSelection ELSE Selection
  /\ UNCHANGED <<file, env, store, saving, told, commands>>

(* Between the truncation of the file and its new text the settings are    *)
(* gone, with what the user was told of them.                              *)
Crash ==
  /\ config.running
  /\ config' = Off
  /\ saving' = <<>>
  /\ left' = NoSelection
  /\ told' = IF file = EmptyFile THEN [q \in Pairs |-> None] ELSE told
  /\ UNCHANGED <<file, env, store, commands>>

EditFile(f) ==
  /\ ~config.running
  /\ file' = f
  /\ told' = [q \in Pairs |-> None]
  /\ left' = NoSelection
  /\ UNCHANGED <<env, store, config, saving, commands>>

SetEnv(e) ==
  /\ ~config.running
  /\ env' = e
  /\ left' = NoSelection
  /\ UNCHANGED <<file, store, config, saving, told, commands>>

Next ==
  \/ LoadChatConfig
  \/ WriteTextFile \/ SaveRuntimeAppState \/ SaveFails
  \/ Quit \/ Crash
  \/ \E m \in Models : SetModel(m)
  \/ \E e \in Efforts \cup {None} : HandleEffortCommand(e)
  \/ \E f \in FilesOfUser : EditFile(f)
  \/ \E e \in EnvsOfUser : SetEnv(e)

Spec == Init /\ [][Next]_vars

-----------------------------------------------------------------------------
TypeOK ==
  /\ file.id \in Providers \cup {None}
  /\ file.model \in Models \cup {None}
  /\ env.provider \in Providers \cup {None}
  /\ env.model \in Models \cup {None}
  /\ store.provider \in Providers \cup {None}
  /\ store.efforts \in [Pairs -> Efforts \cup {None}]
  /\ config.running => config.provider.value \in Providers
  /\ told \in [Pairs -> Efforts \cup {None, "unset"}]

(* An effort that /effort reported as saved is the one a start reads from  *)
(* the file, whatever other blocks it has, until the user edits the file.  *)
EffortReloads ==
  (saving = <<>> \/ Head(saving).what # "file") =>
    \A q \in Pairs : told[q] # None =>
      LET read == EffortIn(LoadProviderModelSettings(file.lines), q[1], q[2])
      IN read = IF told[q] = "unset" THEN None ELSE told[q]

(* A session that saved its selection comes back with it, when neither the *)
(* file nor the environment was changed since and no model is named there. *)
SelectionReturns ==
  (~config.running /\ Len(left) = 2 /\ file.model = None /\ env.model = None)
    => <<Loaded.provider.value, Loaded.model.value>> = left
=============================================================================
