---------------------------- MODULE MCComponents ----------------------------
(* The small instances of the components that are checked for safety. They share
   no state: the first state picks the component, "part", and the run is one of
   that component alone, so one run of TLC checks them all without multiplying
   their states. Each component's variables stand for the first of v1, v2, ...
   in the order in which its module declares them. *)
EXTENDS Naturals, Sequences, SequencesExt, FiniteSets, TLC

VARIABLES
    part,   \* the component that runs
    v1, v2, v3, v4, v5, v6, v7, v8, v9, v10, v11, v12, v13, v14, v15, v16, v17, v18

Unused == "unused"
vars == <<part, v1, v2, v3, v4, v5, v6, v7, v8, v9, v10, v11, v12, v13, v14, v15, v16, v17,
          v18>>

---------------------------------------------------------------------------
(* Constants that are more than a number. *)

\* Answers: every marker the parser tells apart, indented and not.
AnswerLines ==
    {[indent |-> 0, toks |-> t] :
       t \in {<<>>, <<"a">>, <<"#tag">>, <<"#", "a">>, <<"---">>, <<"===">>,
              <<">", "a">>, <<">", "-", "a">>, <<"-", "a">>, <<"1.", "a">>,
              <<"-", "[x]", "a">>, <<"fence">>, <<"a", "|", "b">>,
              <<"---", "|", "---">>}}
    \union {[indent |-> 4, toks |-> <<"a">>], [indent |-> 2, toks |-> <<"-", "a">>]}

\* Filters that find all commands, some of two lists, and one that moves when
\* discovery adds another before it.
Hits ==
    [f \in {"", "m", "mcp"} |->
       CASE f = "mcp" -> {"mcp_list"}
         [] f = "m" -> {"switch_theme", "switch_model", "mcp_list", "m1", "m2",
                        "m3", "glm"}
         [] f = "" -> {"new_chat", "help", "switch_theme", "switch_model", "mcp_list",
                       "m1", "m2", "m3", "glm", "dark", "light"}]

\* Commands one of which begins with another's name, and paths one of which the
\* mention syntax cannot hold; the sizes of the files that exist.
SlashCommands ==
    <<[name |-> <<"a", "b">>, aliases |-> {}, arguments |-> TRUE],
      [name |-> <<"a">>, aliases |-> {<<"b">>}, arguments |-> FALSE]>>
WorkspacePaths == << <<"a">>, <<"a", " ", "b">>, <<"b", "/", "a">> >>
FileSizes == (<<"a">> :> 1) @@ (<<"b", "/", "a">> :> 3)

\* A plain file, one of the repository's own and one that may be ignored.
IndexedFiles == {<<"a">>, <<".git", "x">>, <<"build", "o">>}
IgnoreLines == {[form |-> "plain", path |-> <<"build">>],
                [form |-> "not", path |-> <<"build", "o">>]}

BuiltinCommands ==
    <<[name |-> "quit", aliases |-> {"exit"}], [name |-> "init", aliases |-> {}],
      [name |-> "task", aliases |-> {}]>>

\* No settings file, one without model settings, and one with two blocks for the
\* same provider, the second ended by another section.
SettingsFiles ==
    LET Line(k, v) == [key |-> k, value |-> v]
        header == Line("[[", "none")
    IN  {[id |-> "none", model |-> "none", lines |-> <<>>],
         [id |-> "zai", model |-> "none", lines |-> <<>>],
         [id |-> "openai", model |-> "none",
          lines |-> <<header, Line("provider", "openai"), Line("model", "m1"),
                      header, Line("provider", "openai"), Line("effort", "low"),
                      Line("model", "m2"), Line("[", "none"), Line("effort", "low")>>]}
Environments == {[provider |-> p, model |-> "none"] : p \in {"none", "openai-compatible"}}
StoredProfiles ==
    [n \in {"openai-compatible"} |->
       [name |-> n, provider |-> n, enabled |-> TRUE, base_url |-> "none", model |-> "m1"]]

\* Servers whose ids differ, or only before they are upper-cased, or are missing.
Server(id, transport, command, url) ==
    [id |-> id, transport |-> transport, command |-> command, url |-> url,
     auth |-> "none", headers |-> "none"]
ServerEntries ==
    {Server("a-b", "stdio", "cmd", "none"), Server("a_b", "stdio", "cmd", "none"),
     Server("a_b", "bad", "cmd", "none"), Server("a-b", "http", "none", "none"),
     Server("c", "http", "none", "url"), Server("context7", "none", "none", "none"),
     Server("none", "stdio", "cmd", "none")}
ServerVariables ==
    {[server |-> s, field |-> f[1], value |-> f[2]] :
       s \in {"A_B", "c"},
       f \in {<<"transport", "http">>, <<"transport", "bad">>, <<"command", "other">>,
              <<"url", "there">>, <<"auth_type", "oauth">>, <<"auth_type", "none">>,
              <<"headers_json", "a map of strings">>, <<"headers_json", "text">>,
              <<"oauth_client_id", "id">>}}

\* Objects of two fields: the first, of any form, may hold the key as text.
Escaped ==
    [k |-> <<"k">>, a |-> <<"a">>, quote |-> <<"backslash", "quote">>,
     backslash |-> <<"backslash", "backslash">>, newline |-> <<"backslash", "n">>,
     unit |-> <<"backslash", "u", "unit">>,
     pair |-> <<"backslash", "u", "high", "backslash", "u", "low">>]
Quoted(t) ==
    <<"quote">> \o FlattenSeq([i \in DOMAIN t |-> Escaped[t[i]]]) \o <<"quote">>
FirstValues ==
    {Quoted(t) : t \in {<<>>, <<"k">>, <<"quote">>, <<"backslash">>, <<"quote", "k">>}}
      \union {<<"{">> \o Quoted(<<"k">>) \o <<":">> \o Quoted(<<"a">>) \o <<"}">>,
              <<"[">> \o Quoted(<<"k">>) \o <<"]">>}
ArgumentDocuments ==
    LET Field(key, value) == Quoted(<<key>>) \o <<" ", ":", " ">> \o value
    IN  {[text |-> <<"{">> \o Field("a", v) \o <<",">> \o Field("k", Quoted(t)) \o <<"}">>,
          value |-> t] :
           v \in FirstValues, t \in BoundedSeq(DOMAIN Escaped, 2)}

\* Files with repeated, blank and missing lines, and what an edit looks for.
FileTexts ==
    BoundedSeq({"x", "sp", "nl"}, 4)
      \union {<<"x", "nl", "y", "nl", "x", "nl", "y">>,
              <<"x", "nl", "y", "nl", "y", "nl", "x", "nl", "x">>}
OldTexts ==
    BoundedSeq({"x", "sp", "nl"}, 2)
      \union {<<"y", "nl", "x", "nl">>, <<"x", "sp", "x">>, <<"nl", "y", "nl">>,
              <<"x", "sp", "nl">>}

---------------------------------------------------------------------------
(* The components. *)

Screen == INSTANCE ChatScreen WITH
    MaxPrompts <- 1, MaxOthers <- 1, MaxDeltas <- 2, MaxTools <- 1, nextId <- v1,
    prompts <- v2, turn <- v3, tasks <- v4, made <- v5, sent <- v6, pending <- v7,
    outbox <- v8, queue <- v9, nextUiId <- v10, messages <- v11, index <- v12,
    tools <- v13, opened <- v14, working <- v15

Cache == INSTANCE ScreenCache WITH
    MaxIds <- 3, MaxSegments <- 3, MaxText <- 2, MaxBlock <- 2, MaxChildren <- 1,
    messages <- v1, children <- v2, active <- v3, next <- v4, built <- v5,
    builtStale <- v6, stack <- v7, stackStale <- v8, texts <- v9, users <- v10,
    tools <- v11

Blocks == INSTANCE Markdown WITH
    Lines <- AnswerLines, MaxLines <- 4, text <- v1, blocks <- v2

Palettes == INSTANCE Overlays WITH
    Configured <- "m1", Offered <- {<<"m1", "m2">>, <<"m2", "m1", "m3">>},
    Fallback <- <<"glm">>, Themes <- <<"dark", "light">>, Hits <- Hits,
    discovery <- v1, level <- v2, kind <- v3, shown <- v4, lists <- v5, pal <- v6,
    ran <- v7

Input == INSTANCE Composer WITH
    Commands <- SlashCommands, Paths <- WorkspacePaths, Sizes <- FileSizes,
    Rows <- 2, PerFileCap <- 2, TotalCap <- 2, Width <- 2, MaxLength <- 3,
    content <- v1, cursor <- v2, slash <- v3, at <- v4, rows <- v5, indexed <- v6,
    sent <- v7

Index == INSTANCE FileIndex WITH
    Files <- IndexedFiles, Lines <- IgnoreLines, MaxEntries <- 2, MaxChanges <- 1,
    MaxRequests <- 2, disk <- v1, ignore <- v2, requested <- v3, state <- v4,
    worker <- v5, walker <- v6, filter <- v7, todo <- v8, seen <- v9,
    truncated <- v10, noRipgrep <- v11, rows <- v12, stale <- v13, callbacks <- v14,
    stopping <- v15, changed <- v16, changes <- v17, requests <- v18

Prompts == INSTANCE PromptLibrary WITH
    Builtin <- BuiltinCommands, Later <- <<"mcp">>, Protected <- {"task"},
    Names <- <<"exit", "init", "mcp", "task">>,
    UserText <- <<"word", "$ARGUMENTS", "word">>,
    Arguments <- {<<>>, <<"foo", "$REPO_CONTEXT">>}, MaxStarts <- 3, MaxEdits <- 2,
    seed <- v1, others <- v2, fingerprint <- v3, version <- v4, phase <- v5,
    commands <- v6, submitted <- v7, saved <- v8, starts <- v9, edits <- v10

Selection == INSTANCE Settings WITH
    Models <- {"m1", "m2"}, Efforts <- {"low"}, FilesOfUser <- SettingsFiles,
    EnvsOfUser <- Environments, Profiles <- StoredProfiles, MaxCommands <- 3,
    file <- v1, env <- v2, store <- v3, config <- v4, saving <- v5, told <- v6,
    left <- v7, commands <- v8

Config == INSTANCE Configuration WITH
    Entries <- ServerEntries, Variables <- ServerVariables, file <- v1, env <- v2,
    config <- v3

Store == INSTANCE StateStore WITH
    Users <- {"u1", "u2"}, MaxSaves <- 2, MaxFailures <- 1, version <- v1,
    rows <- v2, disabled <- v3, legacy <- v4, writer <- v5, draft <- v6, user <- v7,
    saves <- v8, failures <- v9

SignIn == INSTANCE OpenAiAuth WITH
    Requests <- {"r1", "r2"}, MaxTokens <- 2, sqlite <- v1, legacy <- v2,
    cache <- v3, issued <- v4, spent <- v5, request <- v6, holder <- v7, login <- v8,
    ui <- v9, ghost <- v10

ServerSignIn == INSTANCE McpAuth WITH
    MaxAttempts <- 2, Ports <- 1..3, process <- v1, ui <- v2, thread <- v3,
    phase <- v4, redirect <- v5, awaited <- v6, callbacks <- v7, callback <- v8,
    keychain <- v9, tokens <- v10

Request == INSTANCE Requests WITH
    MaxMessages <- 6, MaxTurns <- 2, MaxTools <- 2, Keep <- 2, history <- v1,
    turn <- v2, sent <- v3

Stream == INSTANCE ProviderStream WITH
    MaxCalls <- 2, MaxParts <- 2, MaxTexts <- 1, protocol <- v1, server <- v2,
    wire <- v3, buffer <- v4, state <- v5, attempt <- v6

Arguments == INSTANCE PartialArguments WITH
    Documents <- ArgumentDocuments, Key <- <<"k">>, document <- v1, arrived <- v2,
    shown <- v3

Calls == INSTANCE ToolCalls WITH
    MaxCalls <- 1, MaxSwitches <- 2, agent <- v1, mode <- v2, disk <- v3,
    todos <- v4, stopped <- v5, call <- v6, made <- v7, switches <- v8

FileEdits == INSTANCE Edits WITH
    Texts <- FileTexts, OldTexts <- OldTexts,
    NewTexts <- {<<"y", "nl">>, <<"y", "nl", "x">>}, MaxDiffCells <- 12,
    MaxLength <- 9, file <- v1, call <- v2

Command == INSTANCE Subprocess WITH
    MaxChunks <- 2, MaxOutput <- 3, caller <- v1, phase <- v2, leader <- v3,
    helper <- v4, pipe <- v5, written <- v6, captured <- v7, result <- v8,
    stop <- v9, late <- v10

WebCall == INSTANCE Web WITH
    MaxBody <- 1, MaxChunks <- 2, MaxHeaders <- 3, tool <- v1, stop <- v2,
    perform <- v3, sent <- v4, headers <- v5, got <- v6, error <- v7, result <- v8

Servers == INSTANCE Mcp WITH
    Callers <- {"chat", "task"}, MaxAttempts <- 2, MaxVersion <- 2, server <- v1,
    session <- v2, run <- v3, stop <- v4, shown <- v5, caller <- v6, latest <- v7,
    raced <- v8

LanguageServer == INSTANCE Lsp WITH
    Callers <- {"c1", "c2"}, MaxTexts <- 1, MaxSyncs <- 2, file <- v1,
    initialized <- v2, starting <- v3, diagnostics <- v4, version <- v5, told <- v6,
    analysed <- v7, call <- v8

Transport == INSTANCE HttpTransport WITH
    Callers <- {"c1", "c2"}, MaxSessions <- 3, status <- v1, session <- v2,
    call <- v3, holder <- v4, server <- v5

---------------------------------------------------------------------------
From18 == v18 = Unused
From17 == v17 = Unused /\ From18
From16 == v16 = Unused /\ From17
From15 == v15 = Unused /\ From16
From14 == v14 = Unused /\ From15
From13 == v13 = Unused /\ From14
From12 == v12 = Unused /\ From13
From11 == v11 = Unused /\ From12
From10 == v10 = Unused /\ From11
From9 == v9 = Unused /\ From10
From8 == v8 = Unused /\ From9
From7 == v7 = Unused /\ From8
From6 == v6 = Unused /\ From7
From5 == v5 = Unused /\ From6
From4 == v4 = Unused /\ From5
From3 == v3 = Unused /\ From4

Init ==
    \/ part = "ChatScreen" /\ Screen!Init /\ From16
    \/ part = "ScreenCache" /\ Cache!Init /\ From12
    \/ part = "Markdown" /\ Blocks!Init /\ From3
    \/ part = "Overlays" /\ Palettes!Init /\ From8
    \/ part = "Composer" /\ Input!Init /\ From8
    \/ part = "FileIndex" /\ Index!Init
    \/ part = "PromptLibrary" /\ Prompts!Init /\ From11
    \/ part = "Settings" /\ Selection!Init /\ From9
    \/ part = "Configuration" /\ Config!Init /\ From4
    \/ part = "StateStore" /\ Store!Init /\ From10
    \/ part = "OpenAiAuth" /\ SignIn!Init /\ From11
    \/ part = "McpAuth" /\ ServerSignIn!Init /\ From11
    \/ part = "Requests" /\ Request!Init /\ From4
    \/ part = "ProviderStream" /\ Stream!Init /\ From7
    \/ part = "PartialArguments" /\ Arguments!Init /\ From4
    \/ part = "ToolCalls" /\ Calls!Init /\ From9
    \/ part = "Edits" /\ FileEdits!Init /\ From3
    \/ part = "Subprocess" /\ Command!Init /\ From11
    \/ part = "Web" /\ WebCall!Init /\ From9
    \/ part = "Mcp" /\ Servers!Init /\ From9
    \/ part = "Lsp" /\ LanguageServer!Init /\ From9
    \/ part = "HttpTransport" /\ Transport!Init /\ From6

Next ==
    \/ part = "ChatScreen" /\ Screen!Next
       /\ UNCHANGED <<part, v16, v17, v18>>
    \/ part = "ScreenCache" /\ Cache!Next
       /\ UNCHANGED <<part, v12, v13, v14, v15, v16, v17, v18>>
    \/ part = "Markdown" /\ Blocks!Next
       /\ UNCHANGED <<part, v3, v4, v5, v6, v7, v8, v9, v10, v11, v12, v13, v14, v15,
          v16, v17, v18>>
    \/ part = "Overlays" /\ Palettes!Next
       /\ UNCHANGED <<part, v8, v9, v10, v11, v12, v13, v14, v15, v16, v17, v18>>
    \/ part = "Composer" /\ Input!Next
       /\ UNCHANGED <<part, v8, v9, v10, v11, v12, v13, v14, v15, v16, v17, v18>>
    \/ part = "FileIndex" /\ Index!Next
       /\ UNCHANGED part
    \/ part = "PromptLibrary" /\ Prompts!Next
       /\ UNCHANGED <<part, v11, v12, v13, v14, v15, v16, v17, v18>>
    \/ part = "Settings" /\ Selection!Next
       /\ UNCHANGED <<part, v9, v10, v11, v12, v13, v14, v15, v16, v17, v18>>
    \/ part = "Configuration" /\ Config!Next
       /\ UNCHANGED <<part, v4, v5, v6, v7, v8, v9, v10, v11, v12, v13, v14, v15,
          v16, v17, v18>>
    \/ part = "StateStore" /\ Store!Next
       /\ UNCHANGED <<part, v10, v11, v12, v13, v14, v15, v16, v17, v18>>
    \/ part = "OpenAiAuth" /\ SignIn!Next
       /\ UNCHANGED <<part, v11, v12, v13, v14, v15, v16, v17, v18>>
    \/ part = "McpAuth" /\ ServerSignIn!Next
       /\ UNCHANGED <<part, v11, v12, v13, v14, v15, v16, v17, v18>>
    \/ part = "Requests" /\ Request!Next
       /\ UNCHANGED <<part, v4, v5, v6, v7, v8, v9, v10, v11, v12, v13, v14, v15,
          v16, v17, v18>>
    \/ part = "ProviderStream" /\ Stream!Next
       /\ UNCHANGED <<part, v7, v8, v9, v10, v11, v12, v13, v14, v15, v16, v17, v18>>
    \/ part = "PartialArguments" /\ Arguments!Next
       /\ UNCHANGED <<part, v4, v5, v6, v7, v8, v9, v10, v11, v12, v13, v14, v15,
          v16, v17, v18>>
    \/ part = "ToolCalls" /\ Calls!Next
       /\ UNCHANGED <<part, v9, v10, v11, v12, v13, v14, v15, v16, v17, v18>>
    \/ part = "Edits" /\ FileEdits!Next
       /\ UNCHANGED <<part, v3, v4, v5, v6, v7, v8, v9, v10, v11, v12, v13, v14, v15,
          v16, v17, v18>>
    \/ part = "Subprocess" /\ Command!Next
       /\ UNCHANGED <<part, v11, v12, v13, v14, v15, v16, v17, v18>>
    \/ part = "Web" /\ WebCall!Next
       /\ UNCHANGED <<part, v9, v10, v11, v12, v13, v14, v15, v16, v17, v18>>
    \/ part = "Mcp" /\ Servers!Next
       /\ UNCHANGED <<part, v9, v10, v11, v12, v13, v14, v15, v16, v17, v18>>
    \/ part = "Lsp" /\ LanguageServer!Next
       /\ UNCHANGED <<part, v9, v10, v11, v12, v13, v14, v15, v16, v17, v18>>
    \/ part = "HttpTransport" /\ Transport!Next
       /\ UNCHANGED <<part, v6, v7, v8, v9, v10, v11, v12, v13, v14, v15, v16, v17,
          v18>>

Spec == Init /\ [][Next]_vars

---------------------------------------------------------------------------
\* Every component is well-typed.
TypesOK ==
    /\ part = "ChatScreen" => Screen!TypeOK
    /\ part = "ScreenCache" => Cache!TypeOK
    /\ part = "Markdown" => Blocks!TypeOK
    /\ part = "Overlays" => Palettes!TypeOK
    /\ part = "Composer" => Input!TypeOK
    /\ part = "FileIndex" => Index!TypeOK
    /\ part = "PromptLibrary" => Prompts!TypeOK
    /\ part = "Settings" => Selection!TypeOK
    /\ part = "Configuration" => Config!TypeOK
    /\ part = "StateStore" => Store!TypeOK
    /\ part = "OpenAiAuth" => SignIn!TypeOK
    /\ part = "McpAuth" => ServerSignIn!TypeOK
    /\ part = "Requests" => Request!TypeOK
    /\ part = "ProviderStream" => Stream!TypeOK
    /\ part = "PartialArguments" => Arguments!TypeOK
    /\ part = "ToolCalls" => Calls!TypeOK
    /\ part = "Edits" => FileEdits!TypeOK
    /\ part = "Subprocess" => Command!TypeOK
    /\ part = "Web" => WebCall!TypeOK
    /\ part = "Mcp" => Servers!TypeOK
    /\ part = "Lsp" => LanguageServer!TypeOK
    /\ part = "HttpTransport" => Transport!TypeOK

\* What the providers, the service and the sub-agents say reaches the reader, in
\* order and once: no message shows text twice, and once everything has arrived it
\* shows all its turn streamed, whichever threads flushed it, and no ended turn or
\* card still shows as active (ChatScreen); the next frame shows the session
\* whatever the caches hold (ScreenCache); and neither the parser of an answer
\* (Markdown) nor the wrapping of the input box (Composer) drops or repeats any.
ScreenShowsTheText ==
    /\ part = "ChatScreen" => Screen!AllTextShown /\ Screen!EndedTurnsSettle
    /\ part = "ScreenCache" => Cache!ShowsTheSession
    /\ part = "Markdown" => Blocks!EveryLineShown
    /\ part = "Composer" => Input!WrapKeepsText

\* What is handed on as a success is complete: a round that ended well has the
\* answer's text and all its tool calls (ProviderStream), a command's output
\* everything its shell wrote (Subprocess; and no shell outlives its call), and a
\* page or a search the final response within the cap (Web), wherever it was cut.
AnswersAreWhole ==
    /\ part = "ProviderStream" => Stream!AnswerIsWhole
    /\ part = "Subprocess" => Command!WholeIsWhole /\ Command!NothingIsLeft
    /\ part = "Web" => WebCall!ResultIsTheResponse

\* Enter in a palette runs a command that its filter finds, also when discovery
\* replaced the list under the highlight, and only one palette is open.
RunsAMatch == part = "Overlays" => Palettes!RunsAMatch

\* Rows of the file index that are presented as ready, with no rebuild asked for,
\* show the disk as it was when the last rebuild was asked for, or later.
RowsAreFresh == part = "FileIndex" => Index!RowsAreFresh

\* No start loses the user's edit of a default prompt, whichever versions start and
\* wherever earlier starts crashed, and a prompt answers to its name with what was
\* typed behind it, as it was typed.
UsersPromptsHold ==
    part = "PromptLibrary" =>
      /\ Prompts!EditsSurvive
      /\ Prompts!PromptRunsAsTyped

\* An effort that /effort reported as saved is the one a start reads back from the
\* settings file, whatever other blocks it has, until the user edits the file; and a
\* session that saved its provider and model comes back with them.
SelectionReloads ==
    part = "Settings" =>
      /\ Selection!EffortReloads
      /\ Selection!SelectionReturns

\* What the user wrote for a setting is in effect, or overridden by the
\* environment, or reported: no layer loses a value silently; and a variable named
\* after an MCP server changes that server and no other.
EffectiveOrReported ==
    part = "Configuration" =>
      /\ Config!EffectiveOrReported
      /\ Config!OverridesAreUnambiguous

\* A refresh token that was spent is never presented again, however many requests
\* find the access token expired at once: to be refused, YAC must have lost a pair
\* a refresh had fetched.
NoTokenSpentTwice == part = "OpenAiAuth" => SignIn!NoTokenSpentTwice

\* In every request to Bedrock the results of a round stand together in the message
\* behind the one that asks for the tools, after any compaction, and no message of
\* the conversation is left out.
ResultsFollowCalls == part = "Requests" => Request!ResultsFollowCalls

\* While a call's arguments stream in, its card shows a beginning of the field's
\* value or nothing: never another field's text, nor half a character; and arguments
\* that satisfy the schema the model was given are never refused as invalid.
ArgumentsAreRead ==
    /\ part = "PartialArguments" => Arguments!ShownIsPrefix
    /\ part = "ToolCalls" => Calls!SchemaIsEnough

\* An edit takes out one stretch that reads like old_string and leaves all the rest,
\* and the diff on its card counts the lines that really differ and no more.
EditsAreExact ==
    part = "Edits" =>
      /\ FileEdits!EditIsLocal
      /\ FileEdits!DiffIsSmallest

\* A call never returns diagnostics that were published before it erased the entry
\* of the file it synchronised, and the edits of a rename nobody disturbed are
\* positions in the text they are applied to.
LspAnswersAreCurrent ==
    part = "Lsp" =>
      /\ LanguageServer!DiagnosticsPublishedSince
      /\ LanguageServer!RenameFitsItsText

\* A change of a server's tool list that was announced is never forgotten: while
\* nobody renews the list of a Ready session, it is as new as the announcement or
\* still marked dirty, unless two refreshes overlapped.
NoChangeForgotten == part = "Mcp" => Servers!NoChangeForgotten

\* A tool call over HTTP is carried out at most once, although the transport sends
\* a request again when its session is gone.
AtMostOnce == part = "HttpTransport" => Transport!AtMostOnce

\* The file a user picks from the menu is a file the message attaches, whatever the
\* text around the cursor.
PickedIsAttached == [][part = "Composer" => Input!PickedIsAttached]_vars

\* Whoever looks at the stored credential finds the old one or the new one, never
\* none and never two, but for an erase the user asked for.
ReplacedWhole == [][part = "StateStore" => Store!ReplacedWhole]_vars

\* A login stores only tokens of the authorization it asked for itself, also when
\* the page of an earlier login calls its port back.
TokensOfTheLogin == [][part = "McpAuth" => ServerSignIn!TokensOfTheLogin]_vars

\* A call changes a file only when the user approved it, and only when the mode was
\* Build at some moment since the user answered: a plan that begins while a question
\* is open keeps the workspace.
PlanKeepsWorkspace == [][part = "ToolCalls" => Calls!PlanKeepsWorkspace]_vars
=============================================================================
