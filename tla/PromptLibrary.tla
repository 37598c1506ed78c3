---------------------------- MODULE PromptLibrary ----------------------------
(***************************************************************************)
(* The prompt files under ~/.yac/prompts (prompt_library.cpp) and the      *)
(* commands they become (prompt_slash_commands.cpp).  At every start YAC   *)
(* seeds its default prompts, and refreshes one of an older revision when  *)
(* its bytes are those YAC wrote, which a fingerprint beside it records;   *)
(* the user may edit the file between two starts or during one, the start  *)
(* may crash between any two steps, and YAC may be up- or downgraded.      *)
(*                                                                         *)
(* A file is [rev, text]: rev the revision field, 0 without one, and text  *)
(* "seed1", "seed2", "mine", or "half" for a file that does not parse.  A  *)
(* prompt's text is a sequence of tokens.                                  *)
(***************************************************************************)
EXTENDS Ordered, SequencesExt

CONSTANTS Builtin,    \* <<[name, aliases]>>: the commands defined before the prompts
          Later,      \* the names defined after them
          Protected,  \* kProtectedNames
          Names,      \* the names of prompt files, sorted, "init" among them
          UserText,   \* the text of such a file
          Arguments,  \* what the user may type behind a command
          MaxStarts, MaxEdits

VARIABLES seed,       \* the file of the default prompt "init"
          others,     \* the user's other prompt files
          fingerprint, version, phase, commands, submitted,
          saved,      \* the user's last edit of the seed file
          starts, edits

disk == <<seed, others, fingerprint>>
vars == <<disk, version, phase, commands, submitted, saved, starts, edits>>

Absent == [rev |-> 0, text |-> "absent"]
Half == [rev |-> 0, text |-> "half"]
BuildSeedContent(v) == [rev |-> v, text |-> IF v = 1 THEN "seed1" ELSE "seed2"]
UserNames == Range(Names) \ {"init"}
None == [name |-> "none", message |-> <<>>, arguments |-> <<>>]

Init ==
  /\ seed = Absent /\ others \in SUBSET UserNames /\ fingerprint = Absent
  /\ version = 1 /\ phase = "off" /\ commands = <<>> /\ submitted = None
  /\ saved = Absent /\ starts = 0 /\ edits = 0

-----------------------------------------------------------------------------
(* Seeding.                                                                *)

Start ==
  /\ phase = "off" /\ starts < MaxStarts /\ starts' = starts + 1
  /\ version' \in 1..2 /\ phase' = "check"
  /\ UNCHANGED <<disk, commands, submitted, saved, edits>>

\* A mutant: without a recorded fingerprint the file counts as unmodified.
PresumedSeed(file) == fingerprint \in {file, Absent}

MatchesRecordedSeed(file) == fingerprint = file /\ fingerprint # Absent

IsUnmodifiedSeed(file) == file = BuildSeedContent(version) \/ MatchesRecordedSeed(file)

\* A file that does not parse is left alone, and so is one of this revision or a
\* later one, and one that the user has edited.
KeepsFile(file) == \/ file.text = "half"
                   \/ file.rev >= version
                   \/ ~IsUnmodifiedSeed(file)

WriteSeedPrompt ==
  /\ phase = "check"
  /\ phase' = IF seed # Absent /\ KeepsFile(seed) THEN "load" ELSE "truncate"
  /\ UNCHANGED <<disk, version, commands, submitted, saved, starts, edits>>

Truncate ==
  /\ phase = "truncate"
  /\ \/ seed' = Half /\ phase' = "write"
     \/ UNCHANGED seed /\ phase' = "load"        \* the file cannot be opened
  /\ UNCHANGED <<others, fingerprint, version, commands, submitted, saved, starts, edits>>

WriteContent ==
  /\ phase = "write"
  /\ \/ seed' = BuildSeedContent(version) /\ phase' = "record"
     \/ UNCHANGED seed /\ phase' = "load"        \* the disk is full
  /\ UNCHANGED <<others, fingerprint, version, commands, submitted, saved, starts, edits>>

RecordSeedFingerprint ==
  /\ phase = "record" /\ phase' = "load"
  /\ fingerprint' \in {BuildSeedContent(version), Absent} \* written, or cut short
  /\ UNCHANGED <<seed, others, version, commands, submitted, saved, starts, edits>>

Crash ==
  /\ phase # "off" /\ phase' = "off" /\ commands' = <<>> /\ submitted' = None
  /\ UNCHANGED <<disk, version, saved, starts, edits>>

-----------------------------------------------------------------------------
(* The user's files.                                                       *)

\* The edit keeps the revision field or removes it, or brings back what YAC
\* wrote.  It counts as lost to nobody when it lands while the start is between
\* its look at the file and its write.
Edit ==
  /\ edits < MaxEdits /\ edits' = edits + 1 /\ phase # "ready"
  /\ \E file \in {[rev |-> seed.rev, text |-> "mine"], [rev |-> 0, text |-> "mine"], Absent,
                  BuildSeedContent(1)} :
       /\ seed' = file
       /\ saved' = IF file.text = "mine" /\ phase \notin {"truncate", "write"} THEN file ELSE Absent
  /\ UNCHANGED <<others, fingerprint, version, phase, commands, submitted, starts>>

-----------------------------------------------------------------------------
(* The commands.                                                           *)

Texts(name) ==
  IF name # "init" THEN UserText
  ELSE IF seed.text = "mine" THEN <<"word">>
  ELSE <<"$REPO_CONTEXT", "$ARGUMENTS", "$WORKSPACE_ROOT">>

\* LoadPromptLibrary: the files that parse, by name.
LoadPromptLibrary ==
  PickedAt(Names, {i \in DOMAIN Names :
                     \/ Names[i] \in others
                     \/ Names[i] = "init" /\ seed.text \notin {"absent", "half"}})

Command(name, aliases, prompt) == [name |-> name, aliases |-> aliases, prompt |-> prompt]
Answers(c, name) == c.name = name \/ name \in c.aliases
First(list, name) == CHOOSE i \in DOMAIN list : /\ Answers(list[i], name)
                                                /\ \A j \in 1..(i - 1) : ~Answers(list[j], name)
Exists(list, name) == \E i \in DOMAIN list : Answers(list[i], name)

Undefine(list, name) == IF Exists(list, name) THEN RemoveAt(list, First(list, name)) ELSE list

RegisterPrompt(list, name) ==
  IF Exists(list, name) /\ name \in Protected THEN list
  ELSE Append(Undefine(list, name), Command(name, {}, TRUE))

Registered(list, names) ==
  LET registered[n \in 0..Len(names)] ==
        IF n = 0 THEN list ELSE RegisterPrompt(registered[n - 1], names[n])
  IN registered[Len(names)]

RegisterPromptSlashCommands ==
  /\ phase = "load" /\ phase' = "ready"
  /\ LET builtin == [i \in DOMAIN Builtin |-> Command(Builtin[i].name, Builtin[i].aliases, FALSE)]
         later == [i \in DOMAIN Later |-> Command(Later[i], {}, FALSE)]
     IN commands' = Registered(builtin, LoadPromptLibrary) \o later
  /\ UNCHANGED <<disk, version, submitted, saved, starts, edits>>

\* The prompt is read once from left to right.
Expanded(token, arguments) ==
  CASE token = "$ARGUMENTS" -> arguments
    [] token \in {"$REPO_CONTEXT", "$WORKSPACE_ROOT"} -> <<"value">>
    [] OTHER -> <<token>>

RenderPrompt(text, arguments) ==
  LET rendered[n \in 0..Len(text)] ==
        IF n = 0 THEN <<>> ELSE rendered[n - 1] \o Expanded(text[n], arguments)
  IN rendered[Len(text)]

Submit ==
  /\ phase = "ready" /\ submitted = None
  /\ \E name \in UserNames \cup {"init"}, a \in Arguments :
       /\ Exists(commands, name)
       /\ LET c == commands[First(commands, name)]
          IN submitted' = [name |-> name, arguments |-> a,
                           message |-> IF c.prompt THEN RenderPrompt(Texts(name), a)
                                       ELSE <<"builtin">>]
  /\ UNCHANGED <<disk, version, phase, commands, saved, starts, edits>>

Next == \/ Start \/ WriteSeedPrompt \/ Truncate \/ WriteContent \/ RecordSeedFingerprint
        \/ Crash \/ Edit \/ RegisterPromptSlashCommands \/ Submit

Spec == Init /\ [][Next]_vars

-----------------------------------------------------------------------------

TypeOK ==
  /\ phase \in {"off", "check", "truncate", "write", "record", "load", "ready"}
  /\ seed.rev \in 0..2 /\ fingerprint.rev \in 0..2 /\ others \subseteq UserNames
  /\ version \in 1..2

\* No start loses an edit of a default prompt, whichever versions start, with
\* whatever revision field the user left and wherever earlier starts crashed.
EditsSurvive == saved # Absent => seed = saved

\* A user's prompt answers to its name unless that name is protected, also when
\* it is a name or an alias of another command, and what was typed behind it is
\* in the message as it was typed.
PromptRunsAsTyped ==
  submitted # None /\ submitted.name \in others \ Protected
    => LET n == CHOOSE i \in DOMAIN UserText : UserText[i] = "$ARGUMENTS"
       IN submitted.message = SubSeq(UserText, 1, n - 1) \o submitted.arguments
                                \o SubSeq(UserText, n + 1, Len(UserText))
=============================================================================
