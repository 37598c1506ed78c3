---------------------------------- MODULE Lsp ----------------------------------
(***************************************************************************)
(* The language client: JsonRpcLspClient and the LSP tools, on one         *)
(* document.  The chat worker and its sub-agents call at the same time;    *)
(* the file itself is changed by the edit tools and by the user.           *)
(*                                                                         *)
(* A text is the number of the edit that made it.  The server reads its    *)
(* notifications in order, and publishes diagnostics of a text some time   *)
(* after it got it; the client keeps the latest publication, whichever     *)
(* text that is about.                                                     *)
(***************************************************************************)
EXTENDS Naturals, Sequences, SequencesExt

CONSTANTS
  Callers,   \* threads that run LSP tools
  MaxTexts,  \* bound: edits of the file
  MaxSyncs   \* bound: notifications about the document

VARIABLES
  file,         \* the text on disk
  initialized,  \* initialized_
  starting,     \* who holds start_mutex_
  diagnostics,  \* whether diagnostics_ has an entry of the document
  version,      \* document_versions_[uri]
  told,         \* the texts the server was told of, in order
  analysed,     \* how many of them it has published diagnostics of
  call          \* the call of each thread

vars == <<file, initialized, starting, diagnostics, version, told, analysed, call>>

Texts == 0..MaxTexts
NoText == MaxTexts + 1
Nobody == "nobody"
Tools == {"diagnostics", "query", "rename"}
Idle == [at |-> "idle", tool |-> "query", text |-> NoText, got |-> NoText,
         entry |-> FALSE, since |-> FALSE, alone |-> FALSE]

TypeOK ==
  /\ file \in Texts
  /\ initialized \in BOOLEAN
  /\ starting \in Callers \cup {Nobody}
  /\ diagnostics \in BOOLEAN
  /\ version \in 0..MaxSyncs
  /\ told \in Seq(Texts) /\ Len(told) <= MaxSyncs
  /\ analysed \in 0..MaxSyncs
  /\ call \in [Callers ->
       [at : {"idle", "starting", "reading", "erasing", "sending", "waiting",
              "requesting", "applying", "done"},
        tool : Tools, text : Texts \cup {NoText}, got : Texts \cup {NoText},
        entry : BOOLEAN, since : BOOLEAN, alone : BOOLEAN]]

Init ==
  /\ file = 0
  /\ initialized = FALSE /\ starting = Nobody
  /\ diagnostics = FALSE
  /\ version = 0 /\ told = <<>> /\ analysed = 0
  /\ call = [c \in Callers |-> Idle]

At(c, place) == call[c].at = place
Goes(c, place) == call' = [call EXCEPT ![c].at = place]
Ends(c) == call' = [call EXCEPT ![c] = Idle]
Others(c) == Callers \ {c}

-----------------------------------------------------------------------------
(* A path outside the workspace ends the call at once, and is left out.    *)
Call(c) ==
  /\ At(c, "idle")
  /\ \E tool \in Tools :
       call' = [d \in Callers |->
         IF d = c
         THEN [Idle EXCEPT !.at = IF initialized THEN "reading" ELSE "starting",
                           !.tool = tool,
                           !.alone = \A o \in Others(c) : At(o, "idle")]
         ELSE [call[d] EXCEPT !.alone = FALSE]]
  /\ UNCHANGED <<file, initialized, starting, diagnostics, version, told, analysed>>

(* EnsureInitialized keeps start_mutex_ for the whole handshake.           *)
Starts(c) ==
  /\ At(c, "starting")
  /\ starting = Nobody
  /\ IF initialized THEN Goes(c, "reading") /\ UNCHANGED starting
                    ELSE starting' = c /\ UNCHANGED call
  /\ UNCHANGED <<file, initialized, diagnostics, version, told, analysed>>

Initialized(c) ==
  /\ starting = c
  /\ starting' = Nobody
  /\ initialized' = TRUE
  /\ Goes(c, "reading")
  /\ UNCHANGED <<file, diagnostics, version, told, analysed>>

(* No such command, no answer in time: the next call starts again.         *)
StartFails(c) ==
  /\ starting = c
  /\ starting' = Nobody
  /\ Ends(c)
  /\ UNCHANGED <<file, initialized, diagnostics, version, told, analysed>>

(* SyncDocument, in its three steps.                                       *)
ReadWholeFile(c) ==
  /\ At(c, "reading")
  /\ call' = [call EXCEPT ![c].at = "erasing", ![c].text = file]
  /\ UNCHANGED <<file, initialized, starting, diagnostics, version, told, analysed>>

Erased == FALSE
Kept == diagnostics
Invalidated == Erased

EraseDiagnostics(c) ==
  /\ At(c, "erasing")
  /\ diagnostics' = Invalidated
  /\ Goes(c, "sending")
  /\ UNCHANGED <<file, initialized, starting, version, told, analysed>>

(* didOpen, and didChange from then on, carry the whole text.              *)
Told(text) == Append(told, text)
Announced(text) == Told(text)

(* document_versions_ has no lock: two callers may count from the same     *)
(* version.                                                                *)
SendText(c) ==
  /\ At(c, "sending")
  /\ Len(told) < MaxSyncs
  /\ told' = Announced(call[c].text)
  /\ version' \in {version + 1} \cup
       IF \E o \in Others(c) : At(o, "sending") THEN {version} ELSE {}
  /\ Goes(c, IF call[c].tool = "diagnostics" THEN "waiting" ELSE "requesting")
  /\ UNCHANGED <<file, initialized, starting, diagnostics, analysed>>

-----------------------------------------------------------------------------
(* The server; ProcessDiagnostics stores what it publishes.                *)
PublishDiagnostics ==
  /\ analysed < Len(told)
  /\ analysed' \in (analysed + 1)..Len(told)
  /\ diagnostics' = TRUE
  /\ call' = [c \in Callers |->
       [call[c] EXCEPT !.since = @ \/ At(c, "sending") \/ At(c, "waiting")]]
  /\ UNCHANGED <<file, initialized, starting, version, told>>

(* The wait ends when there is an entry, or after diagnostics_timeout with *)
(* none.                                                                   *)
DiagnosticsReturns(c) ==
  /\ At(c, "waiting")
  /\ call' = [call EXCEPT ![c].at = "done", ![c].entry = diagnostics]
  /\ UNCHANGED <<file, initialized, starting, diagnostics, version, told, analysed>>

(* The answer is about the last text the server was told.                  *)
Answered(c) ==
  /\ At(c, "requesting")
  /\ call' = [call EXCEPT
       ![c].at = IF call[c].tool = "rename" THEN "applying" ELSE "done",
       ![c].got = Last(told)]
  /\ UNCHANGED <<file, initialized, starting, diagnostics, version, told, analysed>>

RequestFails(c) ==
  /\ At(c, "requesting")
  /\ Ends(c)
  /\ UNCHANGED <<file, initialized, starting, diagnostics, version, told, analysed>>

(* The rename tool reads the file again, and writes the edited text.       *)
ApplyRename(c) ==
  /\ At(c, "applying")
  /\ file < MaxTexts
  /\ file' = file + 1
  /\ Goes(c, "done")
  /\ UNCHANGED <<initialized, starting, diagnostics, version, told, analysed>>

Returns(c) ==
  /\ At(c, "done")
  /\ Ends(c)
  /\ UNCHANGED <<file, initialized, starting, diagnostics, version, told, analysed>>

(* The edit tools, a shell command, the user's editor.                     *)
EditFile ==
  /\ file < MaxTexts
  /\ file' = file + 1
  /\ call' = [c \in Callers |-> [call[c] EXCEPT !.alone = FALSE]]
  /\ UNCHANGED <<initialized, starting, diagnostics, version, told, analysed>>

CallSteps(c) ==
  \/ Call(c) \/ Starts(c) \/ Initialized(c) \/ StartFails(c)
  \/ ReadWholeFile(c) \/ EraseDiagnostics(c) \/ SendText(c)
  \/ DiagnosticsReturns(c) \/ Answered(c) \/ RequestFails(c) \/ ApplyRename(c)
  \/ Returns(c)

Next == PublishDiagnostics \/ EditFile \/ \E c \in Callers : CallSteps(c)

Spec == Init /\ [][Next]_vars

-----------------------------------------------------------------------------
(* "The next Diagnostics() wait blocks for fresh data instead of           *)
(* immediately returning a stale entry from an earlier edit": a call never *)
(* returns what was published before it erased the entry.                  *)
DiagnosticsPublishedSince ==
  \A c \in Callers : At(c, "done") /\ call[c].entry => call[c].since

(* The edits of a rename are positions in the text the server was told     *)
(* last.  A call that no other call and no edit has disturbed applies them *)
(* to that very text, because each call tells the server the file as it is.*)
RenameFitsItsText ==
  \A c \in Callers : At(c, "applying") /\ call[c].alone => call[c].got = file
=============================================================================
