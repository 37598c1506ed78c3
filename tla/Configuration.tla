---------------------------- MODULE Configuration ----------------------------
(***************************************************************************)
(* The settings of a start, key by key: what settings.toml and the YAC_*   *)
(* variables may say, what is rejected and reported, and what is left in   *)
(* effect; and the MCP servers, which the file lists, presets complete and *)
(* variables named after a server override.                                *)
(*                                                                         *)
(* A value is legal ("a", "b"), a text or a number outside the legal ones  *)
(* ("illegal"), of another type ("mistyped"), or empty (Blank).  Settings *)
(* is the model of provider, model and profile, which SQLite remembers.    *)
(***************************************************************************)
EXTENDS Naturals, Sequences, FiniteSets, SequencesExt, Ordered

CONSTANTS
  Entries,     \* entries of [[mcp.servers]] a user writes
  Variables    \* variables YAC_MCP_<ID>_<FIELD> a user sets

VARIABLES
  file,    \* settings.toml
  env,     \* the environment
  config   \* what was loaded: values, reported keys and servers

vars == <<file, env, config>>

None == "none"
Blank == ""
Legal == {"a", "b"}
Raw == Legal \cup {None, "illegal", "mistyped", Blank}
Default == "default"

-----------------------------------------------------------------------------
(* The keys of the registry by section, and how their values are checked.  *)
General == {"temperature", "system_prompt", "workspace_root"}
Provider == {"provider.base_url", "provider.api_key_env", "provider.context_window"}
Clangd == {"lsp.clangd.command", "lsp.clangd.args"}
Theme == {"theme.sync_terminal_background", "theme.name", "theme.density"}
Compact == {"compact.auto_enabled", "compact.threshold", "compact.keep_last", "compact.mode"}
ApiKey == "provider.api_key"
WebSearch ==
  {"web_search.enabled", "web_search.provider", "web_search.endpoint",
   "web_search.timeout_seconds", "web_search.result_limit", "web_search.context_limit"}
MaxTokens == "provider.options.max_tokens"
OfBedrock ==
  {"provider.options.region", "provider.options.profile",
   "provider.options.endpoint_override",
   "provider.options.credential_refresh_command", MaxTokens}

Keys == General \cup Provider \cup Clangd \cup Theme \cup Compact \cup WebSearch
          \cup OfBedrock \cup {ApiKey, "mcp.result_max_bytes"}
Switches == {"theme.sync_terminal_background", "compact.auto_enabled", "web_search.enabled"}
Checked == {"temperature", "provider.context_window", "mcp.result_max_bytes"}
             \cup ((Compact \cup WebSearch) \ (Switches \cup {"web_search.endpoint"}))
FileOnly == {"web_search.result_limit", "web_search.context_limit"}
HasVariable(k) == k \notin FileOnly

-----------------------------------------------------------------------------
(* One key.  A layer gives a value and says whether it reports the key.    *)
Said(value, reported) == [value |-> value, reported |-> reported]

FileRejects(k, raw) ==
  \/ raw = "mistyped"
  \/ k \in Checked \cup Switches /\ raw \notin Legal

LoadSection(k, raw) ==
  IF raw = None THEN Said(Default, FALSE)
  ELSE IF FileRejects(k, raw) THEN Said(Default, TRUE)
  ELSE IF k = "theme.name" /\ raw = Blank THEN Said(Default, TRUE)
  ELSE IF k = "theme.density" /\ raw \notin Legal THEN Said(Default, TRUE)
  ELSE Said(raw, FALSE)

LoadBedrockProviderOptions(k, raw, provider) ==
  IF provider = "bedrock" /\ k = MaxTokens /\ raw \in Legal \cup {"illegal", Blank}
  THEN Said(raw, FALSE)                  \* its range is checked later
  ELSE IF provider = "bedrock" THEN LoadSection(k, raw)
  ELSE Said(Default, FALSE)

LoadSettingsFromToml(k, raw, provider) ==
  IF k \in OfBedrock THEN LoadBedrockProviderOptions(k, raw, provider)
  ELSE LoadSection(k, raw)

ParseEnvBool(raw) == IF raw = "b" THEN "b" ELSE "a"

NeverRejects(k, raw) == FALSE
EnvRejects(k, raw) == k \in Checked /\ raw \notin Legal

Override(k, raw, before) ==
  IF raw = None \/ ~HasVariable(k) THEN before
  ELSE IF EnvRejects(k, raw) THEN Said(before.value, TRUE)
  ELSE IF k \in Switches THEN Said(ParseEnvBool(raw), before.reported)
  ELSE Said(raw, before.reported)

(* Options of Bedrock are only looked at for Bedrock; a number of tokens   *)
(* out of range falls back to the default, whatever the file says.         *)
BedrockOverride(k, raw, before, provider) ==
  IF provider # "bedrock" THEN before
  ELSE LET s == Override(k, raw, before) IN
       IF k = MaxTokens /\ s.value \notin Legal \cup {Default}
       THEN Said(Default, TRUE) ELSE s

(* The variable named by api_key_env is read when the file has no key; the *)
(* provider reads it again, first, when it sends a request.                *)
ResolveApiKey(raw, before) ==
  IF raw \notin {None, Blank} THEN Said(raw, before.reported) ELSE before

Setting(k, f, e) ==
  LET used == IF e.provider # None THEN e.provider ELSE f.provider
      written == LoadSettingsFromToml(k, f.key[k], f.provider)
  IN IF k \in OfBedrock THEN BedrockOverride(k, e.key[k], written, used)
     ELSE IF k = ApiKey THEN ResolveApiKey(e.key[k], written)
     ELSE Override(k, e.key[k], written)

-----------------------------------------------------------------------------
(* The MCP servers: transport, command and url of each, and its auth.      *)
UpperSnakeCase(id) == IF id \in {"a-b", "a_b"} THEN "A_B" ELSE id

McpServerPresets(s) ==
  IF s.id # "context7" THEN s
  ELSE [s EXCEPT !.transport = IF @ = None THEN "stdio" ELSE @,
                 !.command = IF @ = None THEN "npx" ELSE @]

CanStart(s) ==
  \/ s.transport = "stdio" /\ s.command # None
  \/ s.transport = "http" /\ s.url # None

(* An id counts as seen even when its entry is then rejected.              *)
LoadOneMcpServer(servers, i) ==
  /\ servers[i].id # None
  /\ \A j \in 1..(i - 1) : servers[j].id # servers[i].id
  /\ CanStart(McpServerPresets(servers[i]))

LoadMcpSection(servers) ==
  LET listed == [i \in DOMAIN servers |-> McpServerPresets(servers[i])]
  IN PickedAt(listed, {i \in DOMAIN servers : LoadOneMcpServer(servers, i)})

(* Two ids that share their variables get none of them.                    *)
Colliding(servers) ==
  {i \in DOMAIN servers : \E j \in DOMAIN servers \ {i} :
     UpperSnakeCase(servers[i].id) = UpperSnakeCase(servers[j].id)}
Ambiguous(servers) == Colliding(servers)

ServerFields ==
  {"transport", "command", "url", "auth_type", "oauth_client_id", "headers_json"}
NoVariable == [server |-> None, field |-> None, value |-> None]

EnsureOAuthAuth(s) == [s EXCEPT !.auth = "oauth"]

ParseStringMapJson(text) == text = "a map of strings"

Applied(s, v) ==
  CASE v.field \in {"transport", "command", "url"} -> [s EXCEPT ![v.field] = v.value]
    [] v.field = "auth_type" -> IF v.value \in {"bearer", "oauth"}
                                THEN [s EXCEPT !.auth = v.value] ELSE s
    [] v.field = "oauth_client_id" -> EnsureOAuthAuth(s)
    [] v.field = "headers_json" -> IF ParseStringMapJson(v.value)
                                   THEN [s EXCEPT !.headers = v.value] ELSE s

ServerOverrides(servers, v) ==
  LET all == [i \in DOMAIN servers |->
                IF v # NoVariable /\ i \notin Ambiguous(servers)
                     /\ UpperSnakeCase(servers[i].id) = v.server
                THEN Applied(servers[i], v) ELSE servers[i]]
  IN PickedAt(all, {i \in DOMAIN all : CanStart(all[i])})

Loaded(f, e) ==
  LET setting == [k \in Keys |-> Setting(k, f, e)] IN
  [loaded |-> TRUE,
   value |-> [k \in Keys |-> setting[k].value],
   issues |-> {k \in Keys : setting[k].reported},
   servers |-> ServerOverrides(LoadMcpSection(f.servers), e.server)]

-----------------------------------------------------------------------------
NoKeys == [k \in Keys |-> None]
EmptyFile == [provider |-> None, key |-> NoKeys, servers |-> <<>>]
EmptyEnv == [provider |-> None, key |-> NoKeys, server |-> NoVariable]
NotLoaded == [loaded |-> FALSE]

Init == file = EmptyFile /\ env = EmptyEnv /\ config = NotLoaded

(* One key and the provider at a time, then the servers: keys do not meet. *)
LoadChatConfigResultFrom(f, e) ==
  /\ ~config.loaded
  /\ file' = f /\ env' = e
  /\ config' = Loaded(f, e)

StartWithKey ==
  \E k \in Keys, inFile \in Raw, inEnv \in Raw \ {"mistyped"} :
  \E p \in {None, "bedrock"}, q \in {None, "bedrock"} :
    LoadChatConfigResultFrom(
      [EmptyFile EXCEPT !.provider = p, !.key[k] = inFile],
      [EmptyEnv EXCEPT !.provider = q, !.key[k] = inEnv])

StartWithServers ==
  \E servers \in SeqOf(Entries, 2), v \in Variables \cup {NoVariable} :
    LoadChatConfigResultFrom([EmptyFile EXCEPT !.servers = servers],
                             [EmptyEnv EXCEPT !.server = v])

Quit ==
  /\ config.loaded
  /\ file' = EmptyFile /\ env' = EmptyEnv /\ config' = NotLoaded

Next == StartWithKey \/ StartWithServers \/ Quit

Spec == Init /\ [][Next]_vars

-----------------------------------------------------------------------------
TypeOK ==
  /\ file.key \in [Keys -> Raw] /\ env.key \in [Keys -> Raw]
  /\ config.loaded =>
       /\ config.value \in [Keys -> Raw \cup {Default}]
       /\ config.issues \subseteq Keys
  /\ env.server.field \in ServerFields \cup {None}

(* What the user wrote for a key is in effect, or the environment says     *)
(* otherwise, or the key is reported: no layer loses a value silently, and *)
(* no value that is checked takes effect outside its range.  Not so for    *)
(* options of Bedrock in a file that does not name Bedrock, and for a      *)
(* switch, which any text turns on.                                        *)
EffectiveOrReported ==
  config.loaded => \A k \in Keys :
    /\ (file.key[k] # None /\ (k \in OfBedrock => file.provider = "bedrock")) =>
         \/ config.value[k] = file.key[k]
         \/ k \in config.issues
         \/ env.key[k] # None /\ HasVariable(k)
    /\ (env.key[k] # None /\ HasVariable(k) /\ k \notin Switches \cup OfBedrock
          /\ (k = ApiKey => env.key[k] # Blank)) =>
         config.value[k] = env.key[k] \/ k \in config.issues
    /\ k \in Checked \cup {MaxTokens} => config.value[k] \in Legal \cup {Default}

(* A variable named after a server changes that server and no other, none  *)
(* when two ids share its name; and every server that is left can start.   *)
OverridesAreUnambiguous ==
  config.loaded =>
    LET before == LoadMcpSection(file.servers)
        Named(s) == env.server # NoVariable /\ UpperSnakeCase(s.id) = env.server.server
        named == {i \in DOMAIN before : Named(before[i])}
    IN /\ \A i \in DOMAIN before :
            (~Named(before[i]) \/ Cardinality(named) > 1) =>
              \E j \in DOMAIN config.servers : config.servers[j] = before[i]
       /\ \A i \in DOMAIN config.servers : CanStart(config.servers[i])
       /\ Len(config.servers) <= Len(before)
=============================================================================
