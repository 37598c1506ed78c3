------------------------------- MODULE McpProofs -------------------------------
(***************************************************************************)
(* Proofs about the servers of MCP, for every set of callers and every     *)
(* bound.  Of the manager (Mcp): the type invariant, and that no announced *)
(* change of a server's list is forgotten as long as two refreshes have    *)
(* not overlapped.  Of the HTTP transport (HttpTransport): a call runs at  *)
(* most once.  Of requests to a child process (StdioRpc): a cancellation   *)
(* is told at most once.  Of the sign-in to a server (McpAuth): a login    *)
(* stores only its own tokens.  The last three have variables of their own.*)
(***************************************************************************)
EXTENDS Mcp, TLAPS

(* The list exists from the start, and the Run thread has an attempt to make. *)
Bounds == MaxVersion \in Nat \ {0} /\ MaxAttempts \in Nat \ {0}

-----------------------------------------------------------------------------
(*                          TYPE CORRECTNESS                               *)

(* What a caller is between two of its steps. *)
CallerState ==
  [at : {"idle", "checking", "asking", "storing", "reading",
         "publishing", "invoking", "calling"},
   list : Versions, catalog : Versions, invokes : BOOLEAN]

(* The first state has the types. *)
LEMMA InitTypes ==
  ASSUME Bounds, Init
  PROVE  TypeOK
<1>1. 0 \in Versions /\ 1 \in 1..MaxVersion /\ 0 \in 0..MaxAttempts
  BY DEF Bounds, Versions
<1> QED
  BY <1>1 DEF Init, TypeOK, States

(* The server, the Run thread and the stop keep them...                     *)
LEMMA RunTypes ==
  ASSUME Bounds, TypeOK,
         \/ ListChanges \/ HandleNotification \/ Start \/ RunSteps
         \/ Initialized \/ Refused \/ Listed \/ StopAnnounced \/ StopSteps
         \/ GetServerStatusSnapshot
  PROVE  TypeOK'
<1> USE DEF SetState, EmitStateChanges
<1>1. /\ server \in [list : 1..MaxVersion, announced : Versions]
      /\ session \in [state : States, tools : Versions, dirty : BOOLEAN]
      /\ run \in [at : {"none", "head", "starting", "initializing", "listing",
                        "storing", "backoff", "ended"},
                  attempts : 0..MaxAttempts, list : Versions]
      /\ stop \in {"no", "announced", "requested", "joined", "done"}
      /\ shown \in States \cup {"none"}
      /\ run.attempts \in Nat /\ server.list \in Nat /\ server.list <= MaxVersion
      /\ server.list \in Versions /\ 0 \in Versions
      /\ MaxAttempts \in 0..MaxAttempts
  BY DEF Bounds, TypeOK, Versions
<1>2. server' \in [list : 1..MaxVersion, announced : Versions]
  <2>1. CASE ListChanges
    <3>1. server.list + 1 \in 1..MaxVersion
      BY <1>1, <2>1 DEF ListChanges, Bounds
    <3> QED
      BY <1>1, <2>1, <3>1 DEF ListChanges
  <2>2. CASE ~ListChanges
    BY <1>1, <2>2 DEF HandleNotification, Start, RunSteps, RunHead, Connected,
       BecomesReady, AttemptFails, BackoffEnds, Initialized, Refused, Listed,
       StopAnnounced, StopSteps, StopRequest, StopJoins, StopReturns,
       GetServerStatusSnapshot
  <2> QED
    BY <2>1, <2>2
<1>3. session' \in [state : States, tools : Versions, dirty : BOOLEAN]
  <2>1. CASE HandleNotification \/ Start \/ BecomesReady
    <3>1. run.list \in Versions /\ "Ready" \in States /\ "Disconnected" \in States
      BY <1>1 DEF States
    <3>2. CASE HandleNotification
      BY <1>1, <3>2 DEF HandleNotification
    <3>3. CASE Start
      BY <1>1, <3>1, <3>3 DEF Start
    <3>4. CASE BecomesReady
      BY <1>1, <3>1, <3>4 DEF BecomesReady
    <3> QED
      BY <2>1, <3>2, <3>3, <3>4
  <2>2. CASE session' = session
    BY <1>1, <2>2
  <2>3. CASE \E s \in States : SetState(s)
    BY <1>1, <2>3
  <2> QED
    BY <2>1, <2>2, <2>3 DEF ListChanges, RunSteps, RunHead, Connected,
       AttemptFails, BackoffEnds, Initialized, Refused, Listed, StopAnnounced,
       StopSteps, StopRequest, StopJoins, StopReturns, GetServerStatusSnapshot,
       States
<1>4. run' \in [at : {"none", "head", "starting", "initializing", "listing",
                     "storing", "backoff", "ended"},
               attempts : 0..MaxAttempts, list : Versions]
  <2>1. CASE AttemptFails
    <3>1. run.attempts + 1 < MaxAttempts => run.attempts + 1 \in 0..MaxAttempts
      BY <1>1 DEF Bounds
    <3> QED
      BY <1>1, <2>1, <3>1 DEF AttemptFails
  <2>2. CASE ~AttemptFails
    BY <1>1, <2>2, ZenonT(30) DEF ListChanges, HandleNotification, Start, RunSteps, RunHead,
       Connected, BecomesReady, BackoffEnds, Initialized, Refused, Listed,
       StopAnnounced, StopSteps, StopRequest, StopJoins, StopReturns,
       GetServerStatusSnapshot
  <2> QED
    BY <2>1, <2>2
<1>5. /\ stop' \in {"no", "announced", "requested", "joined", "done"}
      /\ shown' \in States \cup {"none"}
  BY <1>1 DEF ListChanges, HandleNotification, Start, RunSteps, RunHead,
     Connected, BecomesReady, AttemptFails, BackoffEnds, Initialized, Refused,
     Listed, StopAnnounced, StopSteps, StopRequest, StopJoins, StopReturns,
     GetServerStatusSnapshot, States
<1>6. caller' = caller /\ latest' = latest /\ raced' = raced
  BY DEF ListChanges, HandleNotification, Start, RunSteps, RunHead, Connected,
     BecomesReady, AttemptFails, BackoffEnds, Initialized, Refused, Listed,
     StopAnnounced, StopSteps, StopRequest, StopJoins, StopReturns,
     GetServerStatusSnapshot
<1> QED
  BY <1>2, <1>3, <1>4, <1>5, <1>6 DEF TypeOK

(* ...and so do the callers. *)
LEMMA CallerTypes ==
  ASSUME Bounds, TypeOK, NEW c \in Callers, CallerSteps(c)
  PROVE  TypeOK'
<1>1. /\ server \in [list : 1..MaxVersion, announced : Versions]
      /\ session \in [state : States, tools : Versions, dirty : BOOLEAN]
      /\ caller \in [Callers -> CallerState] /\ caller[c] \in CallerState
      /\ latest \in Versions /\ shown \in States \cup {"none"}
      /\ raced \in BOOLEAN
  BY DEF TypeOK, CallerState
<1>2. server.list \in Versions /\ 0 \in Versions
  BY <1>1 DEF Bounds, Versions
<1>3. caller' \in [Callers -> CallerState]
  BY <1>1, <1>2 DEF CallerSteps, CallerState, At, Goes, GetToolCatalogSnapshot,
     NothingToRefresh, TakeDirty, ListFetched, RefreshFails, ListStored,
     SnapshotBuilt, SnapshotPublished, InvokeTool, CallReturns
<1>4. session' \in [state : States, tools : Versions, dirty : BOOLEAN]
  BY <1>1 DEF CallerSteps, CallerState, GetToolCatalogSnapshot,
     NothingToRefresh, TakeDirty, ListFetched, RefreshFails, ListStored,
     DirtyAfterStore, SnapshotBuilt, SnapshotPublished, InvokeTool, CallReturns
<1>5. /\ latest' \in Versions /\ shown' \in States \cup {"none"}
      /\ raced' \in BOOLEAN
  BY <1>1 DEF CallerSteps, CallerState, GetToolCatalogSnapshot,
     NothingToRefresh, TakeDirty, ListFetched, RefreshFails, ListStored,
     SnapshotBuilt, SnapshotPublished, InvokeTool, CallReturns,
     EmitStateChanges
<1>6. server' = server /\ run' = run /\ stop' = stop
  BY DEF CallerSteps, GetToolCatalogSnapshot, NothingToRefresh, TakeDirty,
     ListFetched, RefreshFails, ListStored, SnapshotBuilt, SnapshotPublished,
     InvokeTool, CallReturns
<1> QED
  BY <1>3, <1>4, <1>5, <1>6 DEF TypeOK, CallerState

(* Every step keeps the types. *)
LEMMA TypesNext ==
  ASSUME Bounds, TypeOK, [Next]_vars
  PROVE  TypeOK'
<1>1. CASE UNCHANGED vars
  BY <1>1 DEF vars, TypeOK
<1> QED
  BY <1>1, RunTypes, CallerTypes DEF Next

(* Types, for any number of callers, attempts and versions. *)
THEOREM McpTypes == ASSUME Bounds PROVE Spec => []TypeOK
BY InitTypes, TypesNext, PTL DEF Spec

-----------------------------------------------------------------------------
(*                     NO CHANGE OF THE LIST IS FORGOTTEN                  *)

(* A server announces what its list has become. *)
AnnouncedIsListed == server.announced <= server.list

(* Nobody renews a list before the Run thread has handed the session over:  *)
(* from then on that thread is gone, and the session never Ready again.     *)
RunHandsOver ==
  run.at # "ended" =>
    session.state # "Ready" /\ \A c \in Callers : caller[c].at \notin Refreshing

(* The refreshes that have not met. *)
OneRefresher ==
  ~raced =>
    \A c, d \in Callers :
      caller[c].at \in Refreshing /\ caller[d].at \in Refreshing => c = d

(* A list on its way into the session is as new as the newest announcement, *)
(* or a newer one has marked the session since.                             *)
Current(list) == session.dirty \/ list >= server.announced

CarriedIsCurrent ==
  /\ run.at = "storing" => Current(run.list)
  /\ \A c \in Callers :
       ~raced /\ caller[c].at = "storing" => Current(caller[c].list)

RefreshInv ==
  /\ AnnouncedIsListed /\ RunHandsOver /\ OneRefresher /\ CarriedIsCurrent
  /\ NoChangeForgotten

(* What the server, the Run thread and the stop do. *)
LEMMA RunRefresh ==
  ASSUME Bounds, TypeOK, RefreshInv,
         \/ ListChanges \/ HandleNotification \/ Start \/ RunSteps
         \/ Initialized \/ Refused \/ Listed \/ StopAnnounced \/ StopSteps
         \/ GetServerStatusSnapshot
  PROVE  RefreshInv'
<1> USE DEF RefreshInv, AnnouncedIsListed, RunHandsOver, OneRefresher, Current,
        CarriedIsCurrent, NoChangeForgotten, SetState, EmitStateChanges
<1>1. /\ server.list \in Nat /\ server.announced \in Nat /\ run.list \in Nat
      /\ session.tools \in Nat
      /\ server \in [list : 1..MaxVersion, announced : Versions]
      /\ session \in [state : States, tools : Versions, dirty : BOOLEAN]
      /\ run \in [at : {"none", "head", "starting", "initializing", "listing",
                        "storing", "backoff", "ended"},
                  attempts : 0..MaxAttempts, list : Versions]
  BY DEF Bounds, TypeOK, Versions
<1>2. CASE ListChanges
  BY <1>1, <1>2 DEF ListChanges
<1>3. CASE HandleNotification
  <2>1. /\ session'.dirty = TRUE /\ session'.state = session.state
        /\ server'.announced = server.list /\ server'.list = server.list
        /\ run' = run /\ caller' = caller /\ raced' = raced
    BY <1>1, <1>3 DEF HandleNotification
  <2> QED
    BY <1>1, <2>1
<1>4. CASE Start \/ RunHead \/ Connected \/ Initialized \/ Refused
  <2>1. /\ session'.state # "Ready" \/ session' = session
        /\ run.at # "ended" /\ run'.at # "storing"
        /\ server' = server /\ caller' = caller /\ raced' = raced
    BY <1>1, <1>4 DEF Start, RunHead, Connected, Initialized, Refused
  <2>2. session.state # "Ready" /\ \A c \in Callers : caller[c].at \notin Refreshing
    BY <2>1
  <2>3. session'.state # "Ready"
    BY <2>1, <2>2
  <2> QED
    BY <1>1, <2>1, <2>2, <2>3 DEF Refreshing
<1>5. CASE Listed
  BY <1>1, <1>5 DEF Listed
<1>6. CASE BecomesReady
  <2>1. /\ session'.dirty = session.dirty /\ session'.tools = run.list
        /\ run.at = "storing" /\ run'.at = "ended"
        /\ server' = server /\ caller' = caller /\ raced' = raced
    BY <1>1, <1>6 DEF BecomesReady
  <2>2. \A c \in Callers : caller[c].at \notin Refreshing
    BY <2>1
  <2> QED
    BY <1>1, <2>1, <2>2 DEF Refreshing
<1>7. CASE AttemptFails \/ BackoffEnds
  <2>1. /\ session'.state # "Ready" \/ session' = session
        /\ run.at # "ended" /\ run'.at # "storing"
        /\ server' = server /\ caller' = caller /\ raced' = raced
    BY <1>1, <1>7 DEF AttemptFails, BackoffEnds
  <2>2. session.state # "Ready" /\ \A c \in Callers : caller[c].at \notin Refreshing
    BY <2>1
  <2>3. session'.state # "Ready"
    BY <2>1, <2>2
  <2> QED
    BY <1>1, <2>1, <2>2, <2>3 DEF Refreshing
<1>8. CASE StopAnnounced \/ StopSteps \/ GetServerStatusSnapshot
  BY <1>1, <1>8 DEF StopAnnounced, StopSteps, StopRequest, StopJoins,
     StopReturns, GetServerStatusSnapshot
<1> QED
  BY <1>2, <1>3, <1>4, <1>5, <1>6, <1>7, <1>8 DEF RunSteps

(* What a caller does: it takes the mark, and brings a list that is as new  *)
(* as the mark, or brings the mark back.                                    *)
LEMMA CallerRefresh ==
  ASSUME Bounds, TypeOK, RefreshInv, NEW c \in Callers, CallerSteps(c)
  PROVE  RefreshInv'
<1>1. /\ server.list \in Nat /\ server.announced \in Nat /\ run.list \in Nat
      /\ session.tools \in Nat
      /\ session \in [state : States, tools : Versions, dirty : BOOLEAN]
      /\ caller \in [Callers -> CallerState]
      /\ \A d \in Callers : caller[d] \in CallerState /\ caller[d].list \in Nat
      /\ raced \in BOOLEAN
  BY DEF Bounds, TypeOK, Versions, CallerState
<1>2. server' = server /\ run' = run /\ stop' = stop
  BY DEF CallerSteps, GetToolCatalogSnapshot, NothingToRefresh, TakeDirty,
     ListFetched, RefreshFails, ListStored, SnapshotBuilt, SnapshotPublished,
     InvokeTool, CallReturns
<1> USE DEF RefreshInv, AnnouncedIsListed, RunHandsOver, OneRefresher, Current,
        CarriedIsCurrent, NoChangeForgotten, Refreshing, CallerState, At, Goes
<1>3. CASE \/ GetToolCatalogSnapshot(c) \/ NothingToRefresh(c)
           \/ SnapshotBuilt(c) \/ SnapshotPublished(c)
           \/ InvokeTool(c) \/ CallReturns(c)
  <2>1. session' = session /\ raced' = raced
    BY <1>3 DEF GetToolCatalogSnapshot, NothingToRefresh, SnapshotBuilt,
       SnapshotPublished, InvokeTool, CallReturns
  <2>2. /\ caller[c].at \notin Refreshing /\ caller'[c].at \notin Refreshing
        /\ \A d \in Callers : d # c => caller'[d] = caller[d]
    BY <1>1, <1>3 DEF GetToolCatalogSnapshot, NothingToRefresh, SnapshotBuilt,
       SnapshotPublished, InvokeTool, CallReturns
  <2> QED
    BY <1>2, <2>1, <2>2
<1>4. CASE TakeDirty(c)
  <2>1. /\ session.state = "Ready" /\ session'.state = "Ready"
        /\ caller[c].at = "checking" /\ caller'[c].at = "asking"
        /\ \A d \in Callers : d # c => caller'[d] = caller[d]
        /\ raced' = (raced \/ \E d \in Callers : caller[d].at \in Refreshing)
    BY <1>1, <1>4 DEF TakeDirty
  <2> QED
    BY <1>1, <1>2, <2>1
<1>5. CASE ListFetched(c)
  <2>1. /\ session' = session /\ raced' = raced
        /\ caller[c].at = "asking" /\ caller'[c].at = "storing"
        /\ caller'[c].list = server.list
        /\ \A d \in Callers : d # c => caller'[d] = caller[d]
    BY <1>1, <1>5 DEF ListFetched
  <2> QED
    BY <1>1, <1>2, <2>1
<1>6. CASE RefreshFails(c)
  <2>1. /\ session'.dirty = TRUE /\ session'.state = session.state
        /\ caller[c].at = "asking" /\ caller'[c].at = "idle" /\ raced' = raced
        /\ \A d \in Callers : d # c => caller'[d] = caller[d]
    BY <1>1, <1>6 DEF RefreshFails
  <2> QED
    BY <1>1, <1>2, <2>1
<1>7. CASE ListStored(c)
  <2>1. /\ session'.dirty = session.dirty /\ session'.state = session.state
        /\ session'.tools = caller[c].list /\ raced' = raced
        /\ caller[c].at = "storing" /\ caller'[c].at = "reading"
        /\ \A d \in Callers : d # c => caller'[d] = caller[d]
    BY <1>1, <1>7 DEF ListStored, DirtyAfterStore
  <2> QED
    BY <1>1, <1>2, <2>1
<1> QED
  BY <1>3, <1>4, <1>5, <1>6, <1>7 DEF CallerSteps

(* A change of the server's list that was announced is never forgotten, for *)
(* any number of threads that renew it, as long as no two renewals overlap: *)
(* the mark is taken before the list is asked for and left as it is when    *)
(* the list is stored.                                                      *)
THEOREM AnnouncedChangesAreKept ==
  ASSUME Bounds PROVE Spec => []NoChangeForgotten
<1>1. Init => RefreshInv
  BY DEF Init, RefreshInv, AnnouncedIsListed, RunHandsOver, OneRefresher,
     CarriedIsCurrent, NoChangeForgotten, Refreshing
<1>2. TypeOK /\ RefreshInv /\ [Next]_vars => RefreshInv'
  <2> SUFFICES ASSUME TypeOK, RefreshInv, [Next]_vars PROVE RefreshInv'
    OBVIOUS
  <2>1. CASE UNCHANGED vars
    BY <2>1 DEF vars, RefreshInv, AnnouncedIsListed, RunHandsOver, OneRefresher,
       CarriedIsCurrent, Current, NoChangeForgotten
  <2> QED
    BY <2>1, RunRefresh, CallerRefresh DEF Next
<1>3. RefreshInv => NoChangeForgotten
  BY DEF RefreshInv
<1> QED
  BY <1>1, <1>2, <1>3, McpTypes, PTL DEF Spec

-----------------------------------------------------------------------------
(*                THE HTTP TRANSPORT: A CALL RUNS AT MOST ONCE             *)

(* A transport of its own for each session, with variables of its own.     *)
CONSTANT MaxSessions
VARIABLES status, sessionId, call, holder, host

Http == INSTANCE HttpTransport WITH session <- sessionId, server <- host

HttpCall ==
  [at : {"idle", "queued", "sending", "received", "resending", "done"},
   sent : Http!Sessions, code : {"none", "200", "404", "500"},
   given : Http!Sessions, ran : 0..3]

(* A request that is on the wire for the first or the second time was not  *)
(* carried out yet, nor was one whose session the server did not know.     *)
NotYetRun(q) ==
  /\ q.at \in {"idle", "queued", "sending", "resending"} => q.ran = 0
  /\ q.at = "received" /\ q.code = "404" => q.ran = 0
  /\ q.ran <= 1

RanInv == \A c \in Callers : NotYetRun(call[c])

(* What one caller's step makes of its request. *)
LEMMA HttpCallStep ==
  ASSUME MaxSessions \in Nat, Http!TypeOK, RanInv, NEW c \in Callers,
         Http!CallSteps(c)
  PROVE  \E q \in HttpCall :
           call' = [call EXCEPT ![c] = q] /\ NotYetRun(q)
<1>1. /\ call \in [Callers -> HttpCall] /\ call[c] \in HttpCall
      /\ sessionId \in Http!Sessions
      /\ host \in [known : Http!Sessions, opened : Http!Sessions]
      /\ NotYetRun(call[c]) /\ 0 \in Http!Sessions
  BY DEF Http!TypeOK, HttpCall, RanInv, Http!Sessions
<1>2. CASE Http!SendRequest(c) \/ Http!SendNotification(c)
  <2> DEFINE q == [call[c] EXCEPT !.at = "queued"]
  <2>1. call' = [call EXCEPT ![c] = q] /\ call[c].at = "idle"
    BY <1>1, <1>2 DEF Http!SendRequest, Http!SendNotification, Http!Queues, Http!At
  <2>2. q \in HttpCall /\ NotYetRun(q)
    BY <1>1, <2>1 DEF HttpCall, NotYetRun
  <2> QED
    BY <2>1, <2>2
<1>3. CASE Http!FirstAttempt(c)
  <2> DEFINE q == [call[c] EXCEPT !.at = "sending", !.sent = sessionId]
  <2>1. call' = [call EXCEPT ![c] = q] /\ call[c].at = "queued"
    BY <1>1, <1>3 DEF Http!FirstAttempt, Http!At
  <2>2. q \in HttpCall /\ NotYetRun(q)
    BY <1>1, <2>1 DEF HttpCall, NotYetRun
  <2> QED
    BY <2>1, <2>2
<1>4. CASE Http!Served(c) \/ Http!ServedInNewSession(c) \/ Http!UnknownSession(c)
  <2>1. PICK code \in {"200", "404", "500"}, given \in Http!Sessions, runs \in {0, 1} :
          Http!Receives(c, code, given, runs) /\ (code = "404" => runs = 0)
    <3>1. CASE Http!Served(c)
      BY <1>1, <3>1 DEF Http!Served
    <3>2. CASE Http!UnknownSession(c)
      BY <1>1, <3>2 DEF Http!UnknownSession
    <3>3. CASE Http!ServedInNewSession(c)
      <4>1. host'.known \in Http!Sessions
        BY <1>1, <3>3 DEF Http!ServedInNewSession, Http!Sessions
      <4> QED
        BY <3>3, <4>1 DEF Http!ServedInNewSession
    <3> QED
      BY <1>4, <3>1, <3>2, <3>3
  <2>2. call[c].at \in {"sending", "resending"}
    BY <1>4 DEF Http!Served, Http!ServedInNewSession, Http!UnknownSession,
       Http!OnTheWire, Http!At
  <2>3. call[c].ran = 0 /\ call[c].ran + runs = runs
    BY <1>1, <2>1, <2>2 DEF NotYetRun
  <2>4. PICK place \in {"received", "done"} :
          call' = [call EXCEPT ![c].at = place, ![c].code = code,
                               ![c].given = given, ![c].ran = runs]
    BY <2>1, <2>3 DEF Http!Receives
  <2> DEFINE q == [call[c] EXCEPT !.at = place, !.code = code, !.given = given,
                                  !.ran = runs]
  <2>5. call' = [call EXCEPT ![c] = q]
    BY <1>1, <2>4
  <2>6. q \in HttpCall
    <3>1. runs \in 0..3
      OBVIOUS
    <3> QED
      BY <1>1, <2>1, <2>4, <3>1 DEF HttpCall
  <2>7. q.at = place /\ q.code = code /\ q.ran = runs
    BY <1>1 DEF HttpCall
  <2>8. NotYetRun(q)
    <3>1. runs <= 1 /\ (code = "404" => runs = 0)
      BY <2>1
    <3> HIDE DEF q
    <3> QED
      BY <2>4, <2>7, <3>1 DEF NotYetRun
  <2> QED
    BY <2>5, <2>6, <2>8
<1>5. CASE Http!Resend(c)
  <2> DEFINE q == [call[c] EXCEPT !.at = "resending", !.sent = 0]
  <2>1. /\ call' = [call EXCEPT ![c] = q]
        /\ call[c].at = "received" /\ call[c].code = "404"
    BY <1>1, <1>5 DEF Http!Resend, Http!At, Http!MayResend, Http!Resendable,
       Http!SessionEnded
  <2>2. q \in HttpCall /\ NotYetRun(q)
    BY <1>1, <2>1 DEF HttpCall, NotYetRun
  <2> QED
    BY <2>1, <2>2
<1>6. CASE Http!Lost(c) \/ Http!Finish(c)
  <2>1. call' = [call EXCEPT ![c] = Http!Idle]
    BY <1>6 DEF Http!Lost, Http!Finish, Http!Unlocks
  <2>2. Http!Idle \in HttpCall /\ NotYetRun(Http!Idle)
    BY <1>1 DEF Http!Idle, HttpCall, NotYetRun
  <2> QED
    BY <2>1, <2>2
<1> QED
  BY <1>2, <1>3, <1>4, <1>5, <1>6 DEF Http!CallSteps

(* The other variables keep their types. *)
LEMMA HttpTypes ==
  ASSUME MaxSessions \in Nat, Http!TypeOK, RanInv, [Http!Next]_(Http!vars)
  PROVE  Http!TypeOK' /\ RanInv'
<1>1. /\ call \in [Callers -> HttpCall]
      /\ status \in {"Stopped", "Ready", "Reconnecting", "Failed"}
      /\ sessionId \in Http!Sessions /\ 0 \in Http!Sessions
      /\ holder \in Callers \cup {Http!Nobody}
      /\ host \in [known : Http!Sessions, opened : Http!Sessions]
  BY DEF Http!TypeOK, HttpCall, Http!Sessions
<1>2. CASE UNCHANGED Http!vars
  BY <1>2 DEF Http!vars, Http!TypeOK, RanInv
<1>3. CASE Http!Start \/ Http!Stop \/ Http!ServerForgets
  BY <1>1, <1>3 DEF Http!Start, Http!Stop, Http!ServerForgets, Http!TypeOK, RanInv
<1>4. ASSUME NEW c \in Callers, Http!CallSteps(c)
      PROVE  Http!TypeOK' /\ RanInv'
  <2>1. PICK q \in HttpCall : call' = [call EXCEPT ![c] = q] /\ NotYetRun(q)
    BY <1>4, HttpCallStep
  <2>2. call' \in [Callers -> HttpCall] /\ RanInv'
    BY <1>1, <2>1 DEF RanInv
  <2>3. /\ status' \in {"Stopped", "Ready", "Reconnecting", "Failed"}
        /\ holder' \in Callers \cup {Http!Nobody}
    BY <1>1, <1>4 DEF Http!CallSteps, Http!SendRequest, Http!SendNotification,
       Http!Queues, Http!FirstAttempt, Http!Served, Http!ServedInNewSession,
       Http!UnknownSession, Http!Lost, Http!Unlocks, Http!Resend, Http!Finish
  <2>4. sessionId' \in Http!Sessions
    <3>1. call[c].given \in Http!Sessions
      BY <1>1 DEF HttpCall
    <3> QED
      BY <1>1, <1>4, <3>1 DEF Http!CallSteps, Http!SendRequest,
         Http!SendNotification, Http!Queues, Http!FirstAttempt, Http!Served,
         Http!ServedInNewSession, Http!UnknownSession, Http!Lost, Http!Resend,
         Http!Finish
  <2>5. host' \in [known : Http!Sessions, opened : Http!Sessions]
    <3>1. CASE Http!ServedInNewSession(c)
      <4>1. host.opened + 1 \in Http!Sessions
        BY <1>1, <3>1 DEF Http!ServedInNewSession, Http!Sessions
      <4> QED
        BY <3>1, <4>1 DEF Http!ServedInNewSession
    <3>2. CASE ~Http!ServedInNewSession(c)
      BY <1>1, <1>4, <3>2 DEF Http!CallSteps, Http!SendRequest,
         Http!SendNotification, Http!Queues, Http!FirstAttempt, Http!Served,
         Http!UnknownSession, Http!Lost, Http!Resend, Http!Finish
    <3> QED
      BY <3>1, <3>2
  <2> QED
    BY <2>2, <2>3, <2>4, <2>5 DEF Http!TypeOK, HttpCall
<1> QED
  BY <1>2, <1>3, <1>4 DEF Http!Next

(* A tool call is carried out at most once, for any number of callers and   *)
(* sessions: a request is sent again only when the server said that it did  *)
(* not know the session.                                                    *)
THEOREM HttpCallsRunOnce ==
  ASSUME MaxSessions \in Nat PROVE Http!Spec => []Http!AtMostOnce
<1>1. Http!Init => Http!TypeOK /\ RanInv
  <2> SUFFICES ASSUME Http!Init PROVE Http!TypeOK /\ RanInv
    OBVIOUS
  <2>1. 0 \in Http!Sessions
    BY DEF Http!Sessions
  <2>2. Http!Idle \in HttpCall /\ NotYetRun(Http!Idle)
    BY <2>1 DEF Http!Idle, HttpCall, NotYetRun
  <2>3. call \in [Callers -> HttpCall] /\ RanInv
    BY <2>2 DEF Http!Init, RanInv
  <2> QED
    BY <2>1, <2>3 DEF Http!Init, Http!TypeOK, HttpCall
<1>2. Http!TypeOK /\ RanInv /\ [Http!Next]_(Http!vars) => (Http!TypeOK /\ RanInv)'
  BY HttpTypes
<1>3. RanInv => Http!AtMostOnce
  BY DEF RanInv, NotYetRun, Http!AtMostOnce
<1> QED
  BY <1>1, <1>2, <1>3, PTL DEF Http!Spec

-----------------------------------------------------------------------------
(*                     REQUESTS TO A CHILD PROCESS                         *)

CONSTANTS MaxIds, MaxStops

VARIABLES child, rpcStatus, request, nextId, inflight, noticed, notices, asked,
          responses, rpcStop

Rpc == INSTANCE StdioRpc WITH status <- rpcStatus, call <- request, stop <- rpcStop

RequestType ==
  [at : {"idle", "writing", "waiting", "failing"}, id : 0..MaxIds, stopped : BOOLEAN]
StopType == [at : {"none", "notifying"}, todo : SUBSET Rpc!Ids, count : 0..MaxStops]

RpcTypes ==
  /\ child \in [process : {"none", "up", "dead"}, reader : BOOLEAN]
  /\ rpcStatus \in {"Stopped", "Ready", "Failed"}
  /\ request \in [Callers -> RequestType]
  /\ nextId \in 1..(MaxIds + 1)
  /\ inflight \subseteq Rpc!Ids /\ noticed \subseteq Rpc!Ids
  /\ asked \subseteq Rpc!Ids /\ responses \subseteq Rpc!Ids
  /\ rpcStop \in StopType

(* A request in flight that was cancelled is marked, and a mark is lost only *)
(* with the request itself, whose id is never used again.                    *)
NoticeInv ==
  /\ notices \in [Rpc!Ids -> 0..1]
  /\ \A i \in Rpc!Ids : notices[i] = 1 => i < nextId /\ (i \in noticed \/ i \notin inflight)
  /\ \A c \in Callers : request[c].at # "idle" => request[c].id \in Rpc!Ids

(* The second of two cancellations of a request finds it marked.            *)
LEMMA NoticeOnce ==
  ASSUME NoticeInv, NEW i \in Rpc!Ids, Rpc!SendCancelled(i), inflight' = inflight,
         nextId' = nextId, noticed \subseteq Rpc!Ids,
         \A j \in inflight : j < nextId
  PROVE  /\ noticed' \subseteq Rpc!Ids /\ notices' \in [Rpc!Ids -> 0..1]
         /\ \A j \in Rpc!Ids :
              notices'[j] = 1 => j < nextId' /\ (j \in noticed' \/ j \notin inflight')
<1>1. CASE i \in inflight \ noticed
  <2>1. noticed' = noticed \cup {i} /\ notices' = [notices EXCEPT ![i] = notices[i] + 1]
    BY <1>1 DEF Rpc!SendCancelled, Rpc!MarkedAs, Rpc!Marked
  <2>2. notices[i] = 0
    BY <1>1 DEF NoticeInv
  <2>3. notices' = [notices EXCEPT ![i] = 1]
    BY <2>1, <2>2
  <2> QED
    BY <1>1, <2>1, <2>3 DEF NoticeInv
<1>2. CASE i \notin inflight \ noticed
  BY <1>2 DEF Rpc!SendCancelled, NoticeInv
<1> QED
  BY <1>1, <1>2

RpcInv == RpcTypes /\ NoticeInv /\ \A i \in inflight : i < nextId

(* Every step of the callers, the reader, the child and a stop.             *)
LEMMA RpcStep ==
  ASSUME MaxIds \in Nat, MaxStops \in Nat, RpcInv, [Rpc!Next]_(Rpc!vars)
  PROVE  RpcInv'
<1>0. /\ request \in [Callers -> RequestType] /\ nextId \in Nat /\ Rpc!Ids = 1..MaxIds
      /\ \A c \in Callers : request[c].at # "idle" => request[c].id \in Rpc!Ids
  BY DEF RpcInv, RpcTypes, NoticeInv, Rpc!Ids
<1>1. ASSUME NEW c \in Callers, NEW q \in RequestType,
             request' = [request EXCEPT ![c] = q], q.at # "idle" => q.id \in Rpc!Ids
      PROVE  /\ request' \in [Callers -> RequestType]
             /\ \A d \in Callers : request'[d].at # "idle" => request'[d].id \in Rpc!Ids
  BY <1>0, <1>1
<1>2. ASSUME NEW c \in Callers, request[c].at # "idle", NEW place \in {"waiting", "failing"},
             request' = [request EXCEPT ![c].at = place]
      PROVE  /\ request' \in [Callers -> RequestType]
             /\ \A d \in Callers : request'[d].at # "idle" => request'[d].id \in Rpc!Ids
  <2> DEFINE q == [request[c] EXCEPT !.at = place]
  <2>1. q \in RequestType /\ q.id = request[c].id /\ request' = [request EXCEPT ![c] = q]
    BY <1>0, <1>2 DEF RequestType
  <2> HIDE DEF q
  <2> QED
    BY <1>0, <1>1, <1>2, <2>1
<1>3. Rpc!Idle \in RequestType /\ Rpc!Idle.at = "idle"
  BY DEF Rpc!Idle, RequestType
<1>child. /\ [process |-> "up", reader |-> TRUE] \in
              [process : {"none", "up", "dead"}, reader : BOOLEAN]
       /\ [process |-> "none", reader |-> FALSE] \in
              [process : {"none", "up", "dead"}, reader : BOOLEAN]
  OBVIOUS
<1>4. CASE Rpc!Start \/ Rpc!StartFails \/ Rpc!ChildDies \/ Rpc!ReaderEnds
  <2>1. child' \in [process : {"none", "up", "dead"}, reader : BOOLEAN]
    <3>1. child \in [process : {"none", "up", "dead"}, reader : BOOLEAN]
      BY DEF RpcInv, RpcTypes
    <3>2. CASE Rpc!Start
      <4>1. child' = child \/ child' = [process |-> "up", reader |-> TRUE]
        BY <3>2 DEF Rpc!Start
      <4> QED
        BY <3>1, <4>1, <1>child
    <3>3. CASE Rpc!StartFails
      BY <3>1, <3>3 DEF Rpc!StartFails
    <3>4. CASE Rpc!ChildDies
      BY <3>1, <3>4 DEF Rpc!ChildDies
    <3>5. CASE Rpc!ReaderEnds
      BY <3>1, <3>5 DEF Rpc!ReaderEnds
    <3> QED
      BY <1>4, <3>2, <3>3, <3>4, <3>5
  <2>2. /\ asked' \subseteq Rpc!Ids /\ responses' \subseteq Rpc!Ids
        /\ rpcStatus' \in {"Stopped", "Ready", "Failed"}
    BY <1>4 DEF Rpc!Start, Rpc!StartFails, Rpc!ChildDies, Rpc!ReaderEnds,
       RpcInv, RpcTypes
  <2>3. UNCHANGED <<request, nextId, inflight, noticed, notices, rpcStop>>
    BY <1>4 DEF Rpc!Start, Rpc!StartFails, Rpc!ChildDies, Rpc!ReaderEnds
  <2> QED
    BY <2>1, <2>2, <2>3 DEF RpcInv, RpcTypes, NoticeInv
<1>5. ASSUME NEW i \in Rpc!Ids, Rpc!ProcessMessage(i)
      PROVE  RpcInv'
  BY <1>5 DEF Rpc!ProcessMessage, RpcInv, RpcTypes, NoticeInv
<1>6. ASSUME NEW c \in Callers, Rpc!SendRequest(c)
      PROVE  RpcInv'
  <2> DEFINE q == [at |-> "writing", id |-> nextId, stopped |-> FALSE]
  <2>1. nextId \in Rpc!Ids /\ nextId' = nextId + 1 /\ nextId' \in 1..(MaxIds + 1)
    BY <1>0, <1>6 DEF Rpc!SendRequest, RpcInv, RpcTypes
  <2>2. q \in RequestType /\ q.id \in Rpc!Ids /\ request' = [request EXCEPT ![c] = q]
    BY <1>0, <1>6, <2>1 DEF Rpc!SendRequest, RequestType
  <2> HIDE DEF q
  <2>3. /\ request' \in [Callers -> RequestType]
        /\ \A d \in Callers : request'[d].at # "idle" => request'[d].id \in Rpc!Ids
    BY <1>1, <2>2
  <2>4. /\ inflight' = inflight \cup {nextId}
        /\ UNCHANGED <<child, rpcStatus, noticed, notices, asked, responses, rpcStop>>
    BY <1>6 DEF Rpc!SendRequest
  <2>5. \A i \in inflight' : i < nextId'
    BY <1>0, <2>1, <2>4 DEF RpcInv, RpcTypes
  <2>6. NoticeInv'
    BY <1>0, <2>1, <2>3, <2>4 DEF RpcInv, NoticeInv
  <2> QED
    BY <2>1, <2>3, <2>4, <2>5, <2>6 DEF RpcInv, RpcTypes
<1>7. ASSUME NEW c \in Callers, Rpc!Written(c) \/ Rpc!WriteFails(c) \/ Rpc!WaitFails(c)
      PROVE  RpcInv'
  <2>1. /\ request[c].at # "idle"
        /\ \E place \in {"waiting", "failing"} : request' = [request EXCEPT ![c].at = place]
        /\ UNCHANGED <<child, rpcStatus, nextId, inflight, noticed, notices, responses, rpcStop>>
    BY <1>7 DEF Rpc!Written, Rpc!WriteFails, Rpc!WaitFails, Rpc!Writing
  <2>2. /\ request' \in [Callers -> RequestType]
        /\ \A d \in Callers : request'[d].at # "idle" => request'[d].id \in Rpc!Ids
    BY <1>2, <2>1
  <2>3. asked' \subseteq Rpc!Ids
    BY <1>0, <1>7, <2>1 DEF Rpc!Written, Rpc!WriteFails, Rpc!WaitFails, RpcInv, RpcTypes
  <2> QED
    BY <2>1, <2>2, <2>3 DEF RpcInv, RpcTypes, NoticeInv
<1>8. ASSUME NEW c \in Callers, Rpc!Returns(c) \/ Rpc!Throws(c)
      PROVE  RpcInv'
  <2>1. /\ request' = [request EXCEPT ![c] = Rpc!Idle] /\ Rpc!Forget(request[c].id)
        /\ UNCHANGED <<child, nextId, notices, asked, rpcStop>>
        /\ responses' \subseteq Rpc!Ids /\ rpcStatus' \in {"Stopped", "Ready", "Failed"}
    BY <1>8 DEF Rpc!Returns, Rpc!Throws, RpcInv, RpcTypes
  <2>2. /\ request' \in [Callers -> RequestType]
        /\ \A d \in Callers : request'[d].at # "idle" => request'[d].id \in Rpc!Ids
    BY <1>1, <1>3, <2>1
  <2>3. /\ inflight' = inflight \ {request[c].id} /\ noticed' = noticed \ {request[c].id}
    BY <2>1 DEF Rpc!Forget
  <2>4. NoticeInv'
    BY <2>1, <2>2, <2>3 DEF RpcInv, NoticeInv
  <2> QED
    BY <2>1, <2>2, <2>3, <2>4 DEF RpcInv, RpcTypes
<1>9. ASSUME NEW c \in Callers, Rpc!StopRequested(c)
      PROVE  RpcInv'
  <2> DEFINE q == [request[c] EXCEPT !.stopped = TRUE]
  <2>1. q \in RequestType /\ q.id = request[c].id /\ request' = [request EXCEPT ![c] = q]
        /\ request[c].id \in Rpc!Ids
    BY <1>0, <1>9 DEF Rpc!StopRequested, RequestType
  <2> HIDE DEF q
  <2>2. /\ request' \in [Callers -> RequestType]
        /\ \A d \in Callers : request'[d].at # "idle" => request'[d].id \in Rpc!Ids
    BY <1>1, <2>1
  <2>3. /\ Rpc!SendCancelled(request[c].id)
        /\ UNCHANGED <<child, rpcStatus, nextId, inflight, asked, responses, rpcStop>>
    BY <1>9 DEF Rpc!StopRequested
  <2>4. /\ noticed' \subseteq Rpc!Ids /\ notices' \in [Rpc!Ids -> 0..1]
        /\ \A j \in Rpc!Ids :
             notices'[j] = 1 => j < nextId' /\ (j \in noticed' \/ j \notin inflight')
    BY <2>1, <2>3, NoticeOnce DEF RpcInv, RpcTypes
  <2> QED
    BY <2>2, <2>3, <2>4 DEF RpcInv, RpcTypes, NoticeInv
<1>10. CASE Rpc!Stop
  <2>1. rpcStop' \in StopType
    BY <1>10 DEF Rpc!Stop, StopType, RpcInv, RpcTypes
  <2> QED
    BY <1>10, <2>1 DEF Rpc!Stop, RpcInv, RpcTypes, NoticeInv
<1>11. CASE Rpc!StopNotifies
  <2>1. PICK i \in rpcStop.todo :
          Rpc!SendCancelled(i) /\ rpcStop' = [rpcStop EXCEPT !.todo = rpcStop.todo \ {i}]
    BY <1>11 DEF Rpc!StopNotifies
  <2>2. i \in Rpc!Ids /\ rpcStop' \in StopType
    BY <2>1 DEF StopType, RpcInv, RpcTypes
  <2>3. UNCHANGED <<child, rpcStatus, request, nextId, inflight, asked, responses>>
    BY <1>11 DEF Rpc!StopNotifies
  <2>4. /\ noticed' \subseteq Rpc!Ids /\ notices' \in [Rpc!Ids -> 0..1]
        /\ \A j \in Rpc!Ids :
             notices'[j] = 1 => j < nextId' /\ (j \in noticed' \/ j \notin inflight')
    BY <2>1, <2>2, <2>3, NoticeOnce DEF RpcInv, RpcTypes
  <2> QED
    BY <2>2, <2>3, <2>4 DEF RpcInv, RpcTypes, NoticeInv
<1>12. CASE Rpc!StopProcess
  <2>1. rpcStop' \in StopType
    BY <1>12 DEF Rpc!StopProcess, StopType, RpcInv, RpcTypes
  <2>2. /\ child' = child \/ child' = [process |-> "none", reader |-> FALSE]
        /\ asked' = asked \/ asked' = {}
    BY <1>12 DEF Rpc!StopProcess
  <2>3. /\ child' \in [process : {"none", "up", "dead"}, reader : BOOLEAN]
        /\ asked' \subseteq Rpc!Ids
    BY <2>2, <1>child DEF RpcInv, RpcTypes
  <2> QED
    BY <1>12, <2>1, <2>3 DEF Rpc!StopProcess, RpcInv, RpcTypes, NoticeInv
<1>13. CASE UNCHANGED Rpc!vars
  BY <1>13 DEF Rpc!vars, RpcInv, RpcTypes, NoticeInv
<1> QED
  BY <1>4, <1>5, <1>6, <1>7, <1>8, <1>9, <1>10, <1>11, <1>12, <1>13
     DEF Rpc!Next, Rpc!CallSteps

(* A child is told at most once that a request is cancelled, though its     *)
(* caller's token and any number of Stops may say so, and at the same time. *)
(* The rest of TypeOK are the types of the client.                          *)
THEOREM CancelledOnce ==
  ASSUME MaxIds \in Nat, MaxStops \in Nat
  PROVE  Rpc!Spec => []Rpc!TypeOK
<1>1. Rpc!Init => RpcInv
  <2> SUFFICES ASSUME Rpc!Init
               PROVE  RpcInv
    OBVIOUS
  <2>1. /\ Rpc!Idle \in RequestType /\ rpcStop \in StopType
        /\ \A c \in Callers : request[c].at = "idle"
    BY DEF Rpc!Init, Rpc!Idle, RequestType, StopType
  <2>2. nextId \in 1..(MaxIds + 1)
    BY DEF Rpc!Init
  <2>3. notices \in [Rpc!Ids -> 0..1] /\ \A i \in Rpc!Ids : notices[i] # 1
    BY DEF Rpc!Init
  <2> QED
    BY <2>1, <2>2, <2>3 DEF Rpc!Init, RpcInv, RpcTypes, NoticeInv
<1>2. RpcInv /\ [Rpc!Next]_(Rpc!vars) => RpcInv'
  BY RpcStep
<1>3. RpcInv => Rpc!TypeOK
  BY DEF RpcInv, RpcTypes, NoticeInv, Rpc!TypeOK, RequestType, StopType
<1> QED
  BY <1>1, <1>2, <1>3, PTL DEF Rpc!Spec

-----------------------------------------------------------------------------
(*                        SIGNING IN TO A SERVER                           *)

CONSTANTS MaxLogins, Ports

VARIABLES process, ui, thread, phase, redirect, awaited, callbacks, callback,
          keychain, tokens

Login == INSTANCE McpAuth WITH MaxAttempts <- MaxLogins

(* A login that got past the check of the state has its own code.           *)
LoginInv ==
  /\ Login!TypeOK
  /\ \A a \in Login!Attempts : phase[a] \in {"exchanging", "storing"} => callback[a] = a

(* The phase of one login changes, and not to one behind the check.         *)
LEMMA PhaseStep ==
  ASSUME LoginInv, NEW a \in Login!Attempts,
         NEW new \in {"browser", "pasting", "called", "failed", "done"},
         phase' = [phase EXCEPT ![a] = new],
         \A b \in Login!Attempts \ {a} : callback'[b] = callback[b]
  PROVE  /\ phase' \in [Login!Attempts -> Login!Working \cup {"new", "failed", "done"}]
         /\ \A b \in Login!Attempts :
              phase'[b] \in {"exchanging", "storing"} => callback'[b] = b
BY DEF LoginInv, Login!TypeOK, Login!Working

(* Logins of two processes, their callbacks and the ends of both.           *)
LEMMA LoginStep ==
  ASSUME MaxLogins \in Nat, LoginInv, [Login!Next]_(Login!vars)
  PROVE  LoginInv'
<1>0. /\ Login!TypeOK /\ Login!Attempts = 1..MaxLogins
      /\ \A a \in Login!Attempts : a \in Nat /\ a # 0
  BY DEF LoginInv, Login!Attempts
<1>1. ASSUME NEW kind \in {"tui", "cli"}, NEW available \in BOOLEAN,
             Login!Start(kind, available)
      PROVE  LoginInv'
  BY <1>1 DEF Login!Start, LoginInv, Login!TypeOK
<1>2. CASE Login!Joined \/ UNCHANGED Login!vars
  BY <1>2 DEF Login!Joined, Login!vars, LoginInv, Login!TypeOK
<1>3. CASE Login!Logout
  <2>1. tokens' \in [{"keychain", "file"} -> Login!Attempts \cup {0}]
    BY <1>3 DEF Login!Logout, LoginInv, Login!TypeOK
  <2> QED
    BY <1>3, <2>1 DEF Login!Logout, LoginInv, Login!TypeOK
<1>4. CASE Login!Quit
  BY <1>4 DEF Login!Quit, LoginInv, Login!TypeOK
<1>5. CASE Login!Kill
  <2>1. /\ phase' \in [Login!Attempts -> Login!Working \cup {"new", "failed", "done"}]
        /\ \A a \in Login!Attempts : phase'[a] = phase[a] \/ phase'[a] = "failed"
    BY <1>5 DEF Login!Kill, LoginInv, Login!TypeOK
  <2> QED
    BY <1>5, <2>1 DEF Login!Kill, LoginInv, Login!TypeOK
<1>6. ASSUME NEW a \in Login!Attempts, NEW mode \in {"browser", "pasting"},
             NEW own \in Ports, NEW other \in Ports \cup {0},
             Login!Began(a, mode, own, other), thread' = a,
             ui' \in Login!Attempts \cup {0}
      PROVE  LoginInv'
  <2>1. /\ phase' = [phase EXCEPT ![a] = mode] /\ callback' = callback
        /\ redirect' \in [Login!Attempts -> Ports \cup {0}]
        /\ awaited' \in [Login!Attempts -> Ports \cup {0}]
        /\ UNCHANGED <<process, callbacks, keychain, tokens>>
    BY <1>6 DEF Login!Began, LoginInv, Login!TypeOK
  <2>2. /\ phase' \in [Login!Attempts -> Login!Working \cup {"new", "failed", "done"}]
        /\ \A b \in Login!Attempts :
             phase'[b] \in {"exchanging", "storing"} => callback'[b] = b
    BY <2>1, PhaseStep
  <2> QED
    BY <1>6, <2>1, <2>2 DEF LoginInv, Login!TypeOK
<1>7. ASSUME NEW a \in Login!Attempts, Login!SlashAuth(a)
      PROVE  LoginInv'
  BY <1>0, <1>6, <1>7 DEF Login!SlashAuth, LoginInv, Login!TypeOK
<1>8. ASSUME NEW a \in Login!Attempts, NEW mode \in {"browser", "pasting"},
             Login!CommandAuth(a, mode)
      PROVE  LoginInv'
  BY <1>6, <1>8 DEF Login!CommandAuth
<1>9. ASSUME NEW a \in Login!Attempts, Login!Granted(a)
      PROVE  LoginInv'
  <2>1. callbacks' \subseteq [login : Login!Attempts, port : Ports]
    BY <1>9 DEF Login!Granted, LoginInv, Login!TypeOK
  <2> QED
    BY <1>9, <2>1 DEF Login!Granted, LoginInv, Login!TypeOK
<1>10. ASSUME NEW a \in Login!Attempts, Login!RunUntilCallback(a) \/ Login!ParseCallbackUrl(a)
       PROVE  LoginInv'
  <2>1. PICK c \in callbacks : Login!CalledBack(a, c.login)
    BY <1>10 DEF Login!RunUntilCallback, Login!ParseCallbackUrl
  <2>2. c.login \in Login!Attempts
    BY DEF LoginInv, Login!TypeOK
  <2>3. /\ phase' = [phase EXCEPT ![a] = "called"]
        /\ callback' = [callback EXCEPT ![a] = c.login]
        /\ awaited' = [awaited EXCEPT ![a] = 0]
        /\ UNCHANGED <<process, ui, thread, redirect, callbacks, keychain, tokens>>
    BY <2>1 DEF Login!CalledBack
  <2>4. /\ callback' \in [Login!Attempts -> Login!Attempts \cup {0}]
        /\ awaited' \in [Login!Attempts -> Ports \cup {0}]
        /\ \A b \in Login!Attempts \ {a} : callback'[b] = callback[b]
    BY <2>2, <2>3 DEF LoginInv, Login!TypeOK
  <2>5. /\ phase' \in [Login!Attempts -> Login!Working \cup {"new", "failed", "done"}]
        /\ \A b \in Login!Attempts :
             phase'[b] \in {"exchanging", "storing"} => callback'[b] = b
    BY <2>3, <2>4, PhaseStep
  <2> QED
    BY <2>3, <2>4, <2>5 DEF LoginInv, Login!TypeOK
<1>11. ASSUME NEW a \in Login!Attempts, Login!Failed(a)
       PROVE  LoginInv'
  BY <1>11, PhaseStep DEF Login!Failed, LoginInv, Login!TypeOK
<1>12. ASSUME NEW a \in Login!Attempts, Login!ExchangeCode(a) \/ Login!PerformTokenRequest(a)
       PROVE  LoginInv'
  <2>1. /\ \E new \in {"exchanging", "storing"} : phase' = [phase EXCEPT ![a] = new]
        /\ callback[a] = a
        /\ UNCHANGED <<process, ui, thread, redirect, awaited, callbacks, callback,
                       keychain, tokens>>
    BY <1>12 DEF Login!ExchangeCode, Login!PerformTokenRequest, Login!ValidateState,
       LoginInv
  <2> QED
    BY <2>1 DEF LoginInv, Login!TypeOK, Login!Working
<1>13. ASSUME NEW a \in Login!Attempts, Login!Set(a)
       PROVE  LoginInv'
  <2>1. /\ tokens' \in [{"keychain", "file"} -> Login!Attempts \cup {0}]
        /\ phase' = [phase EXCEPT ![a] = "done"] /\ callback' = callback
        /\ UNCHANGED <<process, ui, thread, redirect, awaited, callbacks>>
    BY <1>13 DEF Login!Set, LoginInv, Login!TypeOK
  <2> QED
    BY <2>1, PhaseStep DEF LoginInv, Login!TypeOK
<1> QED
  BY <1>1, <1>2, <1>3, <1>4, <1>5, <1>7, <1>8, <1>9, <1>10, <1>11, <1>12, <1>13
     DEF Login!Next, Login!Flow, Login!NoCallback, Login!StateMismatch,
         Login!TokenRequestFails, Login!SetFails

(* A login stores only tokens of the authorization it asked for itself,     *)
(* also when the page of another login calls its port back, and whichever   *)
(* process, of how many logins, is killed in between.                       *)
THEOREM LoginsKeepTheirTokens ==
  ASSUME MaxLogins \in Nat
  PROVE  Login!Spec => [][Login!TokensOfTheLogin]_(Login!vars)
<1>1. Login!Init => LoginInv
  BY DEF Login!Init, LoginInv, Login!TypeOK, Login!Attempts
<1>2. LoginInv /\ [Login!Next]_(Login!vars) => LoginInv'
  BY LoginStep
<1>3. LoginInv /\ [Login!Next]_(Login!vars) => [Login!TokensOfTheLogin]_(Login!vars)
  <2> SUFFICES ASSUME LoginInv, NEW a \in Login!Attempts, Login!Set(a)
               PROVE  tokens'[Login!GetTokenStore] = a
    BY DEF Login!TokensOfTheLogin
  <2>1. /\ callback[a] = a /\ Login!GetTokenStore \in {"keychain", "file"}
        /\ tokens' = [tokens EXCEPT ![Login!GetTokenStore] = callback[a]]
    BY DEF Login!Set, Login!GetTokenStore, LoginInv
  <2> QED
    BY <2>1 DEF LoginInv, Login!TypeOK
<1> QED
  BY <1>1, <1>2, <1>3, PTL DEF Login!Spec
=============================================================================
