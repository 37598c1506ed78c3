--------------------------------- MODULE Mcp ---------------------------------
(***************************************************************************)
(* One MCP server as the program sees it: the session (McpServerSession)   *)
(* with its Run thread, and the manager (McpManager) with the threads that *)
(* take tool catalogs from it.                                             *)
(*                                                                         *)
(* The Run thread connects, retries and ends once the session is Ready.    *)
(* From then on the list is renewed by whoever takes a snapshot: the chat  *)
(* worker before each prompt and each call, and the user-interface thread  *)
(* when /task stores a sub-agent.  The transport's reader thread marks the *)
(* list dirty when the server announces a change, at any moment.  The main *)
(* thread stops everything.                                                *)
(*                                                                         *)
(* A tool list is its version, 0 before the first; the server offers its   *)
(* one tool in the odd ones.  Every server of the configuration has a      *)
(* session of its own and shares nothing with the others but the manager's *)
(* loop over them; resources follow the same steps as tools.               *)
(***************************************************************************)
EXTENDS Naturals

CONSTANTS
  Callers,      \* threads that take catalogs from the manager
  MaxAttempts,  \* kReconnectMaxAttempts
  MaxVersion    \* bound: versions the server's list goes through

VARIABLES
  server,   \* the server: its list, and the newest version announced
  session,  \* McpServerSession: state_, tools_, tools_dirty_
  run,      \* the Run thread: where it is, attempts made, the list fetched
  stop,     \* McpManager::Stop on the main thread
  shown,    \* last_emitted_state: what the user was last told
  caller,   \* where each caller is, what it fetched, the catalog it got
  latest,   \* latest_snapshot_: the version it was built from
  raced     \* two refreshes have overlapped

vars == <<server, session, run, stop, shown, caller, latest, raced>>

Versions == 0..MaxVersion
Offers(v) == v % 2 = 1

States == {"Disconnected", "Connecting", "Initializing", "Ready",
           "Reconnecting", "Failed", "ShuttingDown"}

Refreshing == {"asking", "storing"}

TypeOK ==
  /\ server \in [list : 1..MaxVersion, announced : Versions]
  /\ session \in [state : States, tools : Versions, dirty : BOOLEAN]
  /\ run \in [at : {"none", "head", "starting", "initializing", "listing",
                    "storing", "backoff", "ended"},
              attempts : 0..MaxAttempts, list : Versions]
  /\ stop \in {"no", "announced", "requested", "joined", "done"}
  /\ shown \in States \cup {"none"}
  /\ caller \in [Callers ->
       [at : {"idle", "checking", "asking", "storing", "reading",
              "publishing", "invoking", "calling"},
        list : Versions, catalog : Versions, invokes : BOOLEAN]]
  /\ latest \in Versions
  /\ raced \in BOOLEAN

Init ==
  /\ server = [list |-> 1, announced |-> 0]
  /\ session = [state |-> "Disconnected", tools |-> 0, dirty |-> FALSE]
  /\ run = [at |-> "none", attempts |-> 0, list |-> 0]
  /\ stop = "no"
  /\ shown = "none"
  /\ caller = [c \in Callers |-> [at |-> "idle", list |-> 0, catalog |-> 0,
                                  invokes |-> FALSE]]
  /\ latest = 0
  /\ raced = FALSE

SetState(s) == session' = [session EXCEPT !.state = s]

EmitStateChanges == shown' = session.state

StopRequested == stop \in {"requested", "joined", "done"}

-----------------------------------------------------------------------------
(* The server, and the transport's reader thread.                          *)

ListChanges ==
  /\ server.list < MaxVersion
  /\ server' = [server EXCEPT !.list = @ + 1]
  /\ UNCHANGED <<session, run, stop, shown, caller, latest, raced>>

(* HandleNotification: the callback is set when Run begins.                *)
HandleNotification ==
  /\ run.at \notin {"none", "head"}
  /\ server.announced < server.list
  /\ server' = [server EXCEPT !.announced = server.list]
  /\ session' = [session EXCEPT !.dirty = TRUE]
  /\ UNCHANGED <<run, stop, shown, caller, latest, raced>>

-----------------------------------------------------------------------------
(* The Run thread.                                                         *)

Start ==
  /\ run.at = "none"
  /\ stop = "no"
  /\ session' = [state |-> "Disconnected", tools |-> 0, dirty |-> FALSE]
  /\ run' = [run EXCEPT !.at = "head"]
  /\ shown' = "Disconnected"
  /\ UNCHANGED <<server, stop, caller, latest, raced>>

RunHead ==
  /\ run.at = "head"
  /\ IF StopRequested
     THEN run' = [run EXCEPT !.at = "ended"] /\ UNCHANGED session
     ELSE run' = [run EXCEPT !.at = "starting"] /\ SetState("Connecting")
  /\ UNCHANGED <<server, stop, shown, caller, latest, raced>>

Connected ==
  /\ run.at = "starting"
  /\ run' = [run EXCEPT !.at = "initializing"]
  /\ SetState("Initializing")
  /\ UNCHANGED <<server, stop, shown, caller, latest, raced>>

(* An answer that comes after the stop is thrown away by SendTracked.      *)
Initialized ==
  /\ run.at = "initializing"
  /\ ~StopRequested
  /\ run' = [run EXCEPT !.at = "listing"]
  /\ UNCHANGED <<server, session, stop, shown, caller, latest, raced>>

(* ValidateProtocolVersion: a newer protocol is not tried again.           *)
Refused ==
  /\ run.at = "initializing"
  /\ ~StopRequested
  /\ run' = [run EXCEPT !.at = "ended"]
  /\ SetState("Failed")
  /\ UNCHANGED <<server, stop, shown, caller, latest, raced>>

Listed ==
  /\ run.at = "listing"
  /\ ~StopRequested
  /\ run' = [run EXCEPT !.at = "storing", !.list = server.list]
  /\ UNCHANGED <<server, session, stop, shown, caller, latest, raced>>

BecomesReady ==
  /\ run.at = "storing"
  /\ run' = [run EXCEPT !.at = "ended", !.list = 0]
  /\ session' = [session EXCEPT !.tools = run.list, !.state = "Ready"]
  /\ UNCHANGED <<server, stop, shown, caller, latest, raced>>

(* Every request has a deadline.                                           *)
NoDeadline == FALSE
TimesOut == TRUE

(* The transport does not start, a request fails or is given up, or its    *)
(* answer is thrown away.                                                  *)
AttemptFails ==
  /\ \/ run.at = "starting"
     \/ run.at \in {"initializing", "listing"} /\ TimesOut
  /\ \/ /\ StopRequested
        /\ run' = [run EXCEPT !.at = "ended"]
        /\ UNCHANGED session
     \/ /\ ~StopRequested
        /\ run.attempts + 1 >= MaxAttempts
        /\ run' = [run EXCEPT !.at = "ended", !.attempts = MaxAttempts]
        /\ SetState("Failed")
     \/ /\ ~StopRequested
        /\ run.attempts + 1 < MaxAttempts
        /\ run' = [run EXCEPT !.at = "backoff", !.attempts = @ + 1]
        /\ SetState("Reconnecting")
  /\ UNCHANGED <<server, stop, shown, caller, latest, raced>>

(* The stop wakes the wait; otherwise it lasts its delay.                  *)
BackoffEnds ==
  /\ run.at = "backoff"
  /\ run' = [run EXCEPT !.at = "head"]
  /\ UNCHANGED <<server, session, stop, shown, caller, latest, raced>>

-----------------------------------------------------------------------------
(* McpManager::Stop and McpServerSession::Stop.                            *)

StopAnnounced ==
  /\ stop = "no"
  /\ run.at # "none"
  /\ stop' = "announced"
  /\ SetState("ShuttingDown")
  /\ UNCHANGED <<server, run, shown, caller, latest, raced>>

(* request_stop, the notice of cancellation, and the transport's Stop.     *)
StopRequest ==
  /\ stop = "announced"
  /\ stop' = "requested"
  /\ UNCHANGED <<server, session, run, shown, caller, latest, raced>>

(* worker_.join()                                                          *)
Joinable == run.at = "ended"

StopJoins ==
  /\ stop = "requested"
  /\ Joinable
  /\ stop' = "joined"
  /\ SetState("Disconnected")
  /\ UNCHANGED <<server, run, shown, caller, latest, raced>>

StopReturns ==
  /\ stop = "joined"
  /\ stop' = "done"
  /\ EmitStateChanges
  /\ UNCHANGED <<server, session, run, caller, latest, raced>>

-----------------------------------------------------------------------------
(* The callers of the manager.                                             *)

At(c, place) == caller[c].at = place
Goes(c, place) == caller' = [caller EXCEPT ![c].at = place]

GetToolCatalogSnapshot(c) ==
  /\ At(c, "idle")
  /\ caller' = [caller EXCEPT ![c].at = "checking", ![c].invokes = FALSE]
  /\ EmitStateChanges
  /\ UNCHANGED <<server, session, run, stop, latest, raced>>

(* GetServerStatusSnapshot: the status panel.                              *)
GetServerStatusSnapshot ==
  /\ shown # session.state
  /\ EmitStateChanges
  /\ UNCHANGED <<server, session, run, stop, caller, latest, raced>>

(* RefreshIfDirty: nothing to ask of a session that is not Ready, or whose *)
(* list is clean.                                                          *)
NothingToRefresh(c) ==
  /\ At(c, "checking")
  /\ session.state # "Ready" \/ ~session.dirty
  /\ Goes(c, "reading")
  /\ UNCHANGED <<server, session, run, stop, shown, latest, raced>>

(* tools_dirty_.exchange(false), before the list is asked for.             *)
TakeDirty(c) ==
  /\ At(c, "checking")
  /\ session.state = "Ready" /\ session.dirty
  /\ session' = [session EXCEPT !.dirty = FALSE]
  /\ Goes(c, "asking")
  /\ raced' = (raced \/ \E d \in Callers : caller[d].at \in Refreshing)
  /\ UNCHANGED <<server, run, stop, shown, latest>>

ListFetched(c) ==
  /\ At(c, "asking")
  /\ caller' = [caller EXCEPT ![c].at = "storing", ![c].list = server.list]
  /\ UNCHANGED <<server, session, run, stop, shown, latest, raced>>

(* The flag comes back, and the snapshot fails for all servers.            *)
RefreshFails(c) ==
  /\ At(c, "asking")
  /\ session' = [session EXCEPT !.dirty = TRUE]
  /\ Goes(c, "idle")
  /\ UNCHANGED <<server, run, stop, shown, latest, raced>>

(* The flag is left as it is: a change announced meanwhile stays marked.   *)
CleanAfterStore == FALSE
DirtyAfterStore == session.dirty

ListStored(c) ==
  /\ At(c, "storing")
  /\ session' = [session EXCEPT !.tools = caller[c].list,
                                !.dirty = DirtyAfterStore]
  /\ caller' = [caller EXCEPT ![c].at = "reading", ![c].list = 0]
  /\ UNCHANGED <<server, run, stop, shown, latest, raced>>

(* BuildSnapshot                                                           *)
SnapshotBuilt(c) ==
  /\ At(c, "reading")
  /\ caller' = [caller EXCEPT ![c].at = "publishing", ![c].list = session.tools]
  /\ UNCHANGED <<server, session, run, stop, shown, latest, raced>>

(* latest_snapshot_ is what the last to arrive has built, newest or not.   *)
SnapshotPublished(c) ==
  /\ At(c, "publishing")
  /\ latest' = caller[c].list
  /\ caller' = [caller EXCEPT ![c].at = IF caller[c].invokes THEN "calling" ELSE "idle",
                              ![c].list = 0,
                              ![c].catalog = caller[c].list]
  /\ UNCHANGED <<server, session, run, stop, shown, raced>>

(* InvokeTool for a tool of the catalog the caller has: the names are      *)
(* looked up in latest_snapshot_, which is built anew when it lacks them.  *)
InvokeTool(c) ==
  /\ At(c, "idle")
  /\ Offers(caller[c].catalog)
  /\ stop = "no"
  /\ caller' = [caller EXCEPT
       ![c].at = IF Offers(latest) THEN "calling" ELSE "checking",
       ![c].invokes = TRUE]
  /\ UNCHANGED <<server, session, run, stop, shown, latest, raced>>

(* The call is sent, or refused when the manager has been stopped or the   *)
(* name is unknown even so.                                                *)
CallReturns(c) ==
  /\ At(c, "calling")
  /\ caller' = [caller EXCEPT ![c].at = "idle", ![c].invokes = FALSE]
  /\ UNCHANGED <<server, session, run, stop, shown, latest, raced>>

-----------------------------------------------------------------------------
RunSteps ==
  RunHead \/ Connected \/ BecomesReady \/ AttemptFails \/ BackoffEnds

StopSteps == StopRequest \/ StopJoins \/ StopReturns

CallerSteps(c) ==
  \/ GetToolCatalogSnapshot(c) \/ NothingToRefresh(c) \/ TakeDirty(c)
  \/ ListFetched(c) \/ RefreshFails(c) \/ ListStored(c) \/ SnapshotBuilt(c)
  \/ SnapshotPublished(c) \/ InvokeTool(c) \/ CallReturns(c)

Next ==
  \/ ListChanges \/ HandleNotification
  \/ Start \/ RunSteps \/ Initialized \/ Refused \/ Listed
  \/ StopAnnounced \/ StopSteps
  \/ GetServerStatusSnapshot
  \/ \E c \in Callers : CallerSteps(c)

(* The threads run: a request ends at its deadline at the latest, the      *)
(* answer of the server is not counted on.                                 *)
Fairness == WF_vars(RunSteps) /\ WF_vars(StopSteps)

Spec == Init /\ [][Next]_vars
FairSpec == Spec /\ Fairness

-----------------------------------------------------------------------------
(* A change of the server's list that was announced is never forgotten:    *)
(* while nobody renews the list of a Ready session, either the list is at  *)
(* least as new as the newest announcement, or it is still marked dirty.   *)
(* (RefreshIfDirty takes the mark before it asks.)  Two refreshes that     *)
(* overlap do break this, the older answer being stored last: nothing in   *)
(* RefreshIfDirty keeps them apart, and the model remembers that they met. *)
NoChangeForgotten ==
  (/\ ~raced
   /\ session.state = "Ready"
   /\ \A c \in Callers : caller[c].at \notin Refreshing)
  => session.dirty \/ session.tools >= server.announced

(* A stop that was begun ends, whatever the server does: the requests the  *)
(* Run thread may be waiting on have deadlines and its retries are counted. *)
(* From then on no thread of the session is left that could set its state  *)
(* again, and the user was told that it is disconnected, although the Run  *)
(* thread may have written Ready or Failed over ShuttingDown meanwhile.    *)
StopEnds ==
  stop = "announced" ~>
    [](run.at = "ended" /\ session.state = "Disconnected" /\ shown = "Disconnected")
=============================================================================
