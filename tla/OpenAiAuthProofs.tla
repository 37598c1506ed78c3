--------------------------- MODULE OpenAiAuthProofs ---------------------------
(***************************************************************************)
(* Proofs about what outlives a process, for every bound.  Of the sign-in  *)
(* to OpenAI and its refreshes (OpenAiAuth), for every set of requests: the*)
(* type invariant, and that no refresh token is presented twice.  Of the   *)
(* SQLite store below it (StateStore), for every set of processes: a       *)
(* credential is replaced whole.  Of the selection of provider and model   *)
(* (Settings), for every file, environment and profile: a saved one returns.*)
(***************************************************************************)
EXTENDS OpenAiAuth, Sequences, TLAPS

(* There is a pair to issue, and no request is called like the absence of a *)
(* holder.                                                                  *)
Parameters == MaxTokens \in Nat \ {0} /\ NoRequest \notin Requests

-----------------------------------------------------------------------------
(*                          TYPE CORRECTNESS                               *)

Pairs == Tokens \cup {None}
Request ==
  [at : {"idle", "checking", "locking", "refreshing", "saving", "sending"},
   auth : Pairs, retried : BOOLEAN]

(* A request that is under way carries a pair. *)
Carries == \A r \in Requests : request[r].at # "idle" => request[r].auth \in Tokens

(* Reading a store returns a pair or nothing, and leaves no other memory.   *)
LEMMA LoadTypes ==
  ASSUME Parameters, TypeOK, NEW store \in Stores
  PROVE  /\ Loaded(store) \in Pairs
         /\ Load(store) =>
              /\ cache' \in [Stores -> Tokens \cup {None, Unread}]
              /\ sqlite' \in Pairs
              /\ cache'[store] = Loaded(store)
              /\ \A s \in Stores : s # store => cache'[s] = cache[s]
<1>1. /\ cache \in [Stores -> Tokens \cup {None, Unread}]
      /\ sqlite \in Pairs /\ legacy \in [token : Pairs, disabled : BOOLEAN]
  BY DEF TypeOK, Pairs
<1>2. Loaded(store) \in Pairs
  BY <1>1 DEF Loaded, Importable, Pairs
<1>3. ASSUME Load(store)
      PROVE  /\ cache' \in [Stores -> Tokens \cup {None, Unread}]
             /\ sqlite' \in Pairs
             /\ cache'[store] = Loaded(store)
             /\ \A s \in Stores : s # store => cache'[s] = cache[s]
  BY <1>1, <1>2, <1>3 DEF Load, Pairs
<1> QED
  BY <1>2, <1>3

(* The first state has the types. *)
LEMMA InitTypes ==
  ASSUME Parameters, Init
  PROVE  TypeOK /\ Carries
<1>1. 1 \in Tokens /\ legacy \in [token : Tokens \cup {None}, disabled : BOOLEAN]
  <2>1. 1 \in Tokens
    BY DEF Parameters, Tokens
  <2>2. legacy \in [token : {None, 1}, disabled : {FALSE}]
    BY DEF Init
  <2> QED
    BY <2>1, <2>2
<1>2. issued \in [Tokens -> {"no", "live", "expired", "revoked"}]
  <2>1. issued = [t \in Tokens |-> IF t = legacy.token THEN "live" ELSE "no"]
    BY DEF Init
  <2> QED
    BY <2>1
<1>3. /\ cache \in [Stores -> Tokens \cup {None, Unread}]
      /\ ghost \in [refused : BOOLEAN, lost : BOOLEAN]
  BY DEF Init
<1>4. /\ request \in [Requests ->
           [at : {"idle", "checking", "locking", "refreshing", "saving", "sending"},
            auth : Tokens \cup {None}, retried : BOOLEAN]]
      /\ Carries
  BY DEF Init, Idle, Carries
<1> QED
  BY <1>1, <1>2, <1>3, <1>4 DEF Init, TypeOK

(* A request stays one, whichever step it takes. *)
LEMMA RequestKeeps ==
  ASSUME Parameters, TypeOK, Carries, NEW r \in Requests, RequestSteps(r)
  PROVE  /\ request' \in [Requests -> Request]
         /\ Carries'
         /\ \A q \in Requests : q # r => request'[q] = request[q]
<1>1. /\ request \in [Requests -> Request] /\ request[r] \in Request
      /\ request[r].at # "idle" => request[r].auth \in Tokens
  BY DEF TypeOK, Request, Pairs, Carries
<1>2. Loaded("provider") \in Pairs /\ sqlite \in Pairs
  BY LoadTypes DEF Stores, TypeOK, Pairs
<1>3. Effective \in Pairs
  BY <1>2 DEF Effective
<1>4. request[r].at # "idle" => Reloaded(r) \in Tokens
  BY <1>1, <1>2 DEF Reloaded, Current, Pairs
<1>5. PICK q \in Request :
        /\ request' = [request EXCEPT ![r] = q]
        /\ q.at # "idle" => q.auth \in Tokens
  <2>1. CASE CompleteStream(r)
    <3>1. CASE Effective = None
      BY <1>1, <2>1, <3>1 DEF CompleteStream
    <3>2. CASE Effective # None
      BY <1>1, <1>3, <2>1, <3>2 DEF CompleteStream, Request, Pairs
    <3> QED
      BY <3>1, <3>2
  <2>2. CASE RefreshLock(r)
    <3>1. Reloaded(r) \in Tokens
      BY <1>4, <2>2 DEF RefreshLock, At
    <3>2. PICK place \in {"refreshing", "sending"} :
            request' = [request EXCEPT ![r].auth = Reloaded(r), ![r].at = place]
      BY <2>2 DEF RefreshLock
    <3> DEFINE q == [request[r] EXCEPT !.auth = Reloaded(r), !.at = place]
    <3>3. q \in Request /\ q.auth \in Tokens
      BY <1>1, <3>1, <3>2 DEF Request, Pairs
    <3>4. request' = [request EXCEPT ![r] = q]
      BY <1>1, <3>2
    <3> QED
      BY <3>3, <3>4
  <2>3. CASE RefreshToken(r)
    <3>1. PICK t \in Tokens :
            request' = [request EXCEPT ![r].at = "saving", ![r].auth = t]
      BY <2>3 DEF RefreshToken
    <3> DEFINE q == [request[r] EXCEPT !.at = "saving", !.auth = t]
    <3>2. q \in Request /\ q.auth \in Tokens
      BY <1>1 DEF Request, Pairs
    <3>3. request' = [request EXCEPT ![r] = q]
      BY <1>1, <3>1
    <3> QED
      BY <3>2, <3>3
  <2>4. CASE \/ RefreshRefused(r) \/ RefreshUnreachable(r) \/ PersistFails(r)
             \/ Answered(r)
    <3>1. request' = [request EXCEPT ![r] = Idle]
      BY <2>4 DEF RefreshRefused, RefreshUnreachable, PersistFails, Answered, Ends
    <3>2. Idle \in Request /\ Idle.at = "idle"
      BY DEF Idle, Request, Pairs
    <3> QED
      BY <3>1, <3>2
  <2>5. CASE RefreshIfNeeded(r) \/ PersistTokenResponse(r) \/ Unauthorized(r)
    BY <1>1, <2>5 DEF RefreshIfNeeded, PersistTokenResponse, Unauthorized,
       Goes, At, Request
  <2> QED
    BY <2>1, <2>2, <2>3, <2>4, <2>5 DEF RequestSteps
<1> QED
  BY <1>1, <1>5 DEF Carries

(* A request keeps the types... *)
LEMMA RequestTypes ==
  ASSUME Parameters, TypeOK, Carries, NEW r \in Requests, RequestSteps(r)
  PROVE  TypeOK' /\ Carries'
<1>1. /\ request[r] \in Request
      /\ request[r].at # "idle" => request[r].auth \in Tokens
      /\ legacy \in [token : Pairs, disabled : BOOLEAN] /\ sqlite \in Pairs
      /\ cache \in [Stores -> Tokens \cup {None, Unread}]
      /\ issued \in [Tokens -> {"no", "live", "expired", "revoked"}]
      /\ spent \subseteq Tokens
      /\ ghost \in [refused : BOOLEAN, lost : BOOLEAN]
      /\ holder \in Requests \cup {NoRequest}
  BY DEF TypeOK, Carries, Request, Pairs
<1>2. "provider" \in Stores
  BY DEF Stores
<1>3. login' = login /\ ui' = ui
  BY DEF RequestSteps, CompleteStream, RefreshIfNeeded, RefreshLock,
     RefreshToken, RefreshRefused, RefreshUnreachable, PersistTokenResponse,
     PersistFails, Answered, Unauthorized
<1>4. /\ sqlite' \in Pairs /\ cache' \in [Stores -> Tokens \cup {None, Unread}]
      /\ legacy' \in [token : Pairs, disabled : BOOLEAN]
  <2>1. CASE CompleteStream(r) \/ RefreshLock(r)
    BY <1>1, <1>2, <2>1, LoadTypes DEF CompleteStream, RefreshLock
  <2>2. CASE PersistTokenResponse(r)
    BY <1>1, <1>2, <2>2 DEF PersistTokenResponse, Save, At, Pairs
  <2>3. CASE \/ RefreshIfNeeded(r) \/ RefreshToken(r) \/ RefreshRefused(r)
             \/ RefreshUnreachable(r) \/ PersistFails(r) \/ Answered(r)
             \/ Unauthorized(r)
    BY <1>1, <2>3 DEF RefreshIfNeeded, RefreshToken, RefreshRefused,
       RefreshUnreachable, PersistFails, Answered, Unauthorized
  <2> QED
    BY <2>1, <2>2, <2>3 DEF RequestSteps
<1>5. /\ issued' \in [Tokens -> {"no", "live", "expired", "revoked"}]
      /\ spent' \subseteq Tokens
  <2>1. CASE RefreshToken(r)
    BY <1>1, <2>1 DEF RefreshToken, At
  <2>2. CASE ~RefreshToken(r)
    BY <1>1, <2>2 DEF RequestSteps, CompleteStream, RefreshIfNeeded,
       RefreshLock, RefreshRefused, RefreshUnreachable, PersistTokenResponse,
       PersistFails, Answered, Unauthorized
  <2> QED
    BY <2>1, <2>2
<1>6. /\ holder' \in Requests \cup {NoRequest}
      /\ ghost' \in [refused : BOOLEAN, lost : BOOLEAN]
  BY <1>1 DEF RequestSteps, CompleteStream, RefreshIfNeeded,
     RefreshLock, RefreshToken, RefreshRefused, RefreshUnreachable,
     PersistTokenResponse, PersistFails, Answered, Unauthorized
<1> QED
  BY <1>3, <1>4, <1>5, <1>6, RequestKeeps DEF TypeOK, Request, Pairs

(* ...and so do the endpoint, the commands and a restart. *)
LEMMA CommandTypes ==
  ASSUME Parameters, TypeOK, Carries,
         CommandSteps \/ Restart \/ \E t \in Tokens : AccessEnds(t)
  PROVE  TypeOK' /\ Carries'
<1> USE DEF Carries, TypeOK
<1>1. CASE \E t \in Tokens : AccessEnds(t)
  BY <1>1 DEF AccessEnds
<1>2. CASE Login \/ Callback \/ LoginFails
  BY <1>2 DEF Login, Callback, LoginFails
<1>3. CASE LoggedIn
  <2>1. PICK t \in Tokens :
          issued' = [issued EXCEPT ![t] = "live"] /\ Save("command", t)
    BY <1>3 DEF LoggedIn
  <2>2. issued' \in [Tokens -> {"no", "live", "expired", "revoked"}]
    BY <2>1
  <2>3. /\ sqlite' \in Tokens \cup {None}
        /\ cache' \in [Stores -> Tokens \cup {None, Unread}]
        /\ legacy' \in [token : Tokens \cup {None}, disabled : BOOLEAN]
    BY <2>1 DEF Save
  <2> QED
    BY <1>3, <2>2, <2>3 DEF LoggedIn
<1>4. CASE Status
  <2>1. Load("command") /\ "command" \in Stores
    BY <1>4 DEF Status, Stores
  <2>2. /\ cache' \in [Stores -> Tokens \cup {None, Unread}]
        /\ sqlite' \in Tokens \cup {None}
    BY <2>1, LoadTypes DEF Pairs
  <2> QED
    BY <1>4, <2>2 DEF Status
<1>5. CASE Logout
  BY <1>5 DEF Logout
<1>6. CASE Restart
  BY <1>6 DEF Restart, Idle
<1> QED
  BY <1>1, <1>2, <1>3, <1>4, <1>5, <1>6 DEF CommandSteps

(* Every step keeps the types. *)
LEMMA TypesNext ==
  ASSUME Parameters, TypeOK, Carries, [Next]_vars
  PROVE  TypeOK' /\ Carries'
<1>1. CASE UNCHANGED vars
  BY <1>1 DEF vars, TypeOK, Carries
<1> QED
  BY <1>1, RequestTypes, CommandTypes DEF Next

(* Types, for any number of requests and token pairs. *)
THEOREM OpenAiAuthTypes == ASSUME Parameters PROVE Spec => []TypeOK
<1>1. Init => TypeOK /\ Carries
  BY InitTypes
<1>2. TypeOK /\ Carries /\ [Next]_vars => (TypeOK /\ Carries)'
  BY TypesNext
<1> QED
  BY <1>1, <1>2, PTL DEF Spec

-----------------------------------------------------------------------------
(*                  NO REFRESH TOKEN IS PRESENTED TWICE                    *)

(* refresh_mutex_: one request refreshes, until it has stored the pair. *)
Refreshes(r) == request[r].at \in {"refreshing", "saving"}
OneRefreshes == \A r \in Requests : Refreshes(r) => holder = r

(* Whatever pair is kept somewhere was issued, so no new pair is one of them. *)
Known(t) == t \in Tokens => issued[t] # "no"
KeptIsKnown ==
  /\ Known(sqlite) /\ Known(legacy.token) /\ Known(cache["provider"])
  /\ \A r \in Requests : Known(request[r].auth)
  /\ \A t \in spent : Known(t)

(* What the provider may read, from its memory, from SQLite or by an        *)
(* import, was not spent, and where it would read nothing, neither were the *)
(* pairs that its requests carry.                                           *)
StoreIsFresh ==
  /\ sqlite \notin spent /\ cache["provider"] \notin spent
  /\ sqlite = None /\ ~legacy.disabled => legacy.token \notin spent
CarriedIsFresh ==
  cache["provider"] \notin Tokens => \A r \in Requests : request[r].auth \notin spent

NoSaver == \A r \in Requests : request[r].at # "saving"

(* Unless a pair was lost, this holds except between the answer of the      *)
(* endpoint and the write of the pair, which replaces all that was read.    *)
FreshInv ==
  ~ghost.lost =>
    /\ ~ghost.refused
    /\ \A r \in Requests : Refreshes(r) => request[r].auth \notin spent
    /\ NoSaver => StoreIsFresh /\ CarriedIsFresh

SpendInv == OneRefreshes /\ KeptIsKnown /\ FreshInv

(* Reading a fresh store returns what is fresh, and leaves it so. *)
LEMMA LoadIsFresh ==
  ASSUME Parameters, TypeOK, StoreIsFresh, NEW store \in Stores, Load(store),
         UNCHANGED <<legacy, spent>>
  PROVE  /\ StoreIsFresh'
         /\ store = "provider" => Loaded(store) \notin spent
<1>1. /\ None \notin spent /\ Unread \notin spent
  BY DEF TypeOK, Parameters, Tokens, None, Unread
<1>2. sqlite = None => Importable \notin spent
  BY <1>1 DEF StoreIsFresh, Importable
<1>3. cache[store] = Unread => Loaded(store) \notin spent
  BY <1>2 DEF Loaded, StoreIsFresh
<1>4. store = "provider" => Loaded(store) \notin spent
  BY <1>3 DEF Loaded, StoreIsFresh
<1>5. sqlite' \notin spent /\ (sqlite' = None => sqlite = None)
  BY <1>1, <1>3 DEF Load, StoreIsFresh
<1>6. cache'["provider"] \notin spent
  <2>1. "provider" \in Stores
    BY DEF Stores
  <2> QED
    BY <1>4, <2>1, LoadTypes DEF StoreIsFresh
<1> QED
  BY <1>4, <1>5, <1>6 DEF StoreIsFresh

(* Reading a store returns what is known. *)
LEMMA LoadIsKnown ==
  ASSUME Parameters, TypeOK, KeptIsKnown, NEW store \in Stores, Load(store)
  PROVE  /\ Known(sqlite') /\ Known(cache'["provider"])
         /\ store = "provider" => Known(Loaded(store))
<1>1. None \notin Tokens
  BY DEF None, Tokens
<1>2. Known(Importable)
  BY <1>1 DEF Importable, KeptIsKnown, Known
<1>3. /\ cache[store] = Unread => Known(Loaded(store))
      /\ store = "provider" => Known(Loaded(store))
  BY <1>2 DEF Loaded, KeptIsKnown
<1>4. Known(sqlite')
  BY <1>1, <1>3 DEF Load, KeptIsKnown, Known
<1>5. Known(cache'["provider"])
  <2>1. "provider" \in Stores
    BY DEF Stores
  <2> QED
    BY <1>3, <2>1, LoadTypes DEF KeptIsKnown
<1> QED
  BY <1>3, <1>4, <1>5

(* The mutex admits one request at a time. *)
LEMMA MutexStep ==
  ASSUME Parameters, TypeOK, Carries, OneRefreshes, NEW r \in Requests,
         RequestSteps(r)
  PROVE  OneRefreshes'
<1>1. /\ request' \in [Requests -> Request]
      /\ \A q \in Requests : q # r => request'[q] = request[q]
  BY RequestKeeps
<1>2. CASE RefreshLock(r)
  <2>1. holder = NoRequest /\ (Refreshes(r)' => holder' = r)
    BY <1>2 DEF RefreshLock, Refreshes, TypeOK
  <2>2. \A q \in Requests : ~Refreshes(q)
    BY <2>1 DEF OneRefreshes, Parameters
  <2> QED
    BY <1>1, <2>1, <2>2 DEF OneRefreshes, Refreshes
<1>3. CASE \/ RefreshRefused(r) \/ RefreshUnreachable(r)
           \/ PersistTokenResponse(r) \/ PersistFails(r)
  <2>1. Refreshes(r) /\ ~Refreshes(r)'
    BY <1>3 DEF RefreshRefused, RefreshUnreachable, PersistTokenResponse,
       PersistFails, Refreshes, At, Goes, Ends, Idle, TypeOK
  <2>2. \A q \in Requests : q # r => ~Refreshes(q)
    BY <2>1 DEF OneRefreshes
  <2> QED
    BY <1>1, <2>1, <2>2 DEF OneRefreshes, Refreshes
<1>4. CASE \/ CompleteStream(r) \/ RefreshIfNeeded(r) \/ RefreshToken(r)
           \/ Answered(r) \/ Unauthorized(r)
  <2>1. holder' = holder /\ (Refreshes(r)' => Refreshes(r))
    BY <1>4 DEF CompleteStream, RefreshIfNeeded, RefreshToken, Answered,
       Unauthorized, Refreshes, At, Goes, Ends, Idle, TypeOK
  <2> QED
    BY <1>1, <2>1 DEF OneRefreshes, Refreshes
<1> QED
  BY <1>2, <1>3, <1>4 DEF RequestSteps

(* What a request comes to keep was issued. *)
LEMMA KnownStep ==
  ASSUME Parameters, TypeOK, Carries, KeptIsKnown, NEW r \in Requests,
         RequestSteps(r)
  PROVE  KeptIsKnown'
<1>1. /\ request' \in [Requests -> Request]
      /\ \A q \in Requests : q # r => request'[q] = request[q]
  BY RequestKeeps
<1>2. "provider" \in Stores /\ None \notin Tokens
  BY DEF Stores, None, Tokens
<1>3. CASE CompleteStream(r) \/ RefreshLock(r)
  <2>1. Load("provider")
    BY <1>3 DEF CompleteStream, RefreshLock
  <2>2. Known(sqlite') /\ Known(cache'["provider"]) /\ Known(Loaded("provider"))
    BY <1>2, <2>1, LoadIsKnown
  <2>3. Known(Effective) /\ Known(Reloaded(r))
    BY <2>2 DEF Effective, Reloaded, Current, KeptIsKnown
  <2>4. request'[r].auth \in {request[r].auth, Effective, Reloaded(r)}
    BY <1>3 DEF CompleteStream, RefreshLock, TypeOK
  <2>5. issued' = issued /\ legacy' = legacy /\ spent' = spent
    BY <1>3 DEF CompleteStream, RefreshLock
  <2> QED
    BY <1>1, <2>2, <2>3, <2>4, <2>5 DEF KeptIsKnown, Known
<1>4. CASE RefreshToken(r)
  <2>1. PICK t \in Tokens :
          /\ issued' = [issued EXCEPT ![t] = "live"]
          /\ request' = [request EXCEPT ![r].at = "saving", ![r].auth = t]
    BY <1>4 DEF RefreshToken
  <2>2. /\ issued'[t] = "live"
        /\ \A s \in Tokens : issued[s] # "no" => issued'[s] # "no"
    BY <2>1 DEF TypeOK
  <2>3. request'[r].auth = t
    BY <2>1 DEF TypeOK
  <2>4. /\ sqlite' = sqlite /\ legacy' = legacy /\ cache' = cache
        /\ spent' = spent \cup {request[r].auth}
    BY <1>4 DEF RefreshToken
  <2> QED
    BY <1>1, <2>2, <2>3, <2>4 DEF KeptIsKnown, Known
<1>5. CASE PersistTokenResponse(r)
  <2>1. /\ sqlite' = request[r].auth /\ cache'["provider"] = request[r].auth
        /\ legacy'.token = legacy.token /\ request'[r].auth = request[r].auth
    BY <1>2, <1>5 DEF PersistTokenResponse, Save, Goes, TypeOK
  <2>2. issued' = issued /\ spent' = spent
    BY <1>5 DEF PersistTokenResponse
  <2> QED
    BY <1>1, <2>1, <2>2 DEF KeptIsKnown, Known
<1>6. CASE \/ RefreshIfNeeded(r) \/ RefreshRefused(r) \/ RefreshUnreachable(r)
           \/ PersistFails(r) \/ Answered(r) \/ Unauthorized(r)
  <2>1. request'[r].auth \in {request[r].auth, None}
    BY <1>6 DEF RefreshIfNeeded, RefreshRefused, RefreshUnreachable,
       PersistFails, Answered, Unauthorized, Goes, Ends, Idle, TypeOK
  <2>2. /\ sqlite' = sqlite /\ legacy' = legacy /\ cache' = cache
        /\ issued' = issued /\ spent' = spent
    BY <1>6 DEF RefreshIfNeeded, RefreshRefused, RefreshUnreachable,
       PersistFails, Answered, Unauthorized
  <2> QED
    BY <1>1, <1>2, <2>1, <2>2 DEF KeptIsKnown, Known
<1> QED
  BY <1>3, <1>4, <1>5, <1>6 DEF RequestSteps

(* What a request spends it held alone, and what it stores is new. *)
LEMMA FreshStep ==
  ASSUME Parameters, TypeOK, Carries, SpendInv, NEW r \in Requests,
         RequestSteps(r)
  PROVE  FreshInv'
<1>1. /\ request' \in [Requests -> Request]
      /\ \A q \in Requests : q # r => request'[q] = request[q]
  BY RequestKeeps
<1>2. /\ "provider" \in Stores /\ None \notin spent /\ Unread \notin spent
      /\ None \notin Tokens /\ Unread \notin Tokens
  BY DEF Stores, TypeOK, Parameters, Tokens, None, Unread
<1>3. CASE CompleteStream(r)
  <2>1. /\ Load("provider") /\ spent' = spent /\ legacy' = legacy /\ ghost' = ghost
        /\ request[r].at = "idle" /\ request'[r].at \notin {"refreshing", "saving"}
        /\ request'[r].auth \in {request[r].auth, Effective}
    BY <1>3 DEF CompleteStream, At, TypeOK
  <2>2. NoSaver' => NoSaver
    BY <1>1, <2>1 DEF NoSaver
  <2>3. \A q \in Requests : Refreshes(q)' => Refreshes(q) /\ request'[q] = request[q]
    BY <1>1, <2>1 DEF Refreshes
  <2>4. ASSUME StoreIsFresh, CarriedIsFresh PROVE StoreIsFresh' /\ CarriedIsFresh'
    <3>1. StoreIsFresh' /\ Loaded("provider") \notin spent
      BY <1>2, <2>1, <2>4, LoadIsFresh
    <3>2. Effective \notin spent
      BY <2>4, <3>1 DEF Effective, StoreIsFresh
    <3>3. cache'["provider"] = Loaded("provider") /\ Loaded("provider") \in Pairs
      BY <1>2, <2>1, LoadTypes
    <3>4. cache'["provider"] \notin Tokens => cache["provider"] \notin Tokens
      BY <1>2, <3>3 DEF Loaded
    <3> QED
      BY <1>1, <2>1, <2>4, <3>1, <3>2, <3>4 DEF CarriedIsFresh
  <2> QED
    BY <2>1, <2>2, <2>3, <2>4 DEF SpendInv, FreshInv
<1>4. CASE RefreshLock(r)
  <2>1. /\ Load("provider") /\ spent' = spent /\ legacy' = legacy /\ ghost' = ghost
        /\ request'[r].auth = Reloaded(r) /\ request'[r].at # "saving"
        /\ holder = NoRequest
    BY <1>4 DEF RefreshLock, TypeOK
  <2>2. NoSaver /\ \A q \in Requests : ~Refreshes(q)
    BY <2>1 DEF NoSaver, SpendInv, OneRefreshes, Refreshes, Parameters
  <2>3. ASSUME StoreIsFresh, CarriedIsFresh
        PROVE  /\ StoreIsFresh' /\ CarriedIsFresh'
               /\ Reloaded(r) \notin spent
    <3>1. StoreIsFresh' /\ Loaded("provider") \notin spent
      BY <1>2, <2>1, <2>3, LoadIsFresh
    <3>2. cache'["provider"] = Loaded("provider") /\ Loaded("provider") \in Pairs
      BY <1>2, <2>1, LoadTypes
    <3>3. cache'["provider"] \notin Tokens => cache["provider"] \notin Tokens
      BY <1>2, <3>2 DEF Loaded
    <3>4. Reloaded(r) \notin spent
      BY <1>2, <2>3, <3>1, <3>2, <3>3 DEF Reloaded, Current, CarriedIsFresh, Pairs
    <3> QED
      BY <1>1, <2>1, <2>3, <3>1, <3>3, <3>4 DEF CarriedIsFresh
  <2>4. \A q \in Requests : Refreshes(q)' => q = r
    BY <1>1, <2>2 DEF Refreshes
  <2> QED
    BY <2>1, <2>2, <2>3, <2>4 DEF SpendInv, FreshInv
<1>5. CASE RefreshToken(r)
  <2>1. PICK t \in Tokens :
          /\ issued[t] = "no"
          /\ request' = [request EXCEPT ![r].at = "saving", ![r].auth = t]
    BY <1>5 DEF RefreshToken, Issue
  <2>2. /\ request'[r].at = "saving" /\ request'[r].auth = t
        /\ spent' = spent \cup {request[r].auth} /\ ghost' = ghost
        /\ Refreshes(r) /\ request[r].auth \in Tokens
    BY <1>5, <2>1 DEF RefreshToken, Refreshes, At, TypeOK, Carries
  <2>3. t \notin spent'
    BY <2>1, <2>2 DEF SpendInv, KeptIsKnown, Known
  <2>4. \A q \in Requests : Refreshes(q)' => q = r
    BY <1>1, <2>2 DEF SpendInv, OneRefreshes, Refreshes
  <2>5. ~NoSaver'
    BY <2>2 DEF NoSaver
  <2> QED
    BY <2>2, <2>3, <2>4, <2>5 DEF SpendInv, FreshInv
<1>6. CASE PersistTokenResponse(r)
  <2>1. /\ sqlite' = request[r].auth /\ cache'["provider"] = request[r].auth
        /\ spent' = spent /\ ghost' = ghost /\ ~Refreshes(r)'
        /\ Refreshes(r) /\ request[r].auth \in Tokens
    BY <1>2, <1>6 DEF PersistTokenResponse, Save, Goes, At, TypeOK, Refreshes, Carries
  <2>2. \A q \in Requests : ~Refreshes(q)'
    BY <1>1, <2>1 DEF SpendInv, OneRefreshes, Refreshes
  <2> QED
    BY <1>2, <2>1, <2>2 DEF SpendInv, FreshInv, StoreIsFresh, CarriedIsFresh
<1>7. CASE RefreshRefused(r)
  BY <1>7 DEF RefreshRefused, At, Refreshes, SpendInv, FreshInv, TypeOK
<1>8. CASE PersistFails(r)
  BY <1>8 DEF PersistFails, FreshInv, TypeOK
<1>9. CASE \/ RefreshIfNeeded(r) \/ RefreshUnreachable(r) \/ Answered(r)
           \/ Unauthorized(r)
  <2>1. /\ sqlite' = sqlite /\ legacy' = legacy /\ cache' = cache
        /\ spent' = spent /\ ghost' = ghost
    BY <1>9 DEF RefreshIfNeeded, RefreshUnreachable, Answered, Unauthorized
  <2>2. /\ request'[r].auth \in {request[r].auth, None}
        /\ ~Refreshes(r)' /\ request[r].at # "saving"
    BY <1>9 DEF RefreshIfNeeded, RefreshUnreachable, Answered, Unauthorized,
       Goes, Ends, Idle, At, Refreshes, TypeOK
  <2>3. NoSaver' => NoSaver
    BY <1>1, <2>2 DEF NoSaver
  <2>4. \A q \in Requests : Refreshes(q)' => Refreshes(q) /\ request'[q] = request[q]
    BY <1>1, <2>2 DEF Refreshes
  <2>5. StoreIsFresh => StoreIsFresh'
    BY <2>1 DEF StoreIsFresh
  <2>6. CarriedIsFresh => CarriedIsFresh'
    BY <1>1, <1>2, <2>1, <2>2 DEF CarriedIsFresh
  <2> QED
    BY <2>1, <2>3, <2>4, <2>5, <2>6 DEF SpendInv, FreshInv
<1> QED
  BY <1>3, <1>4, <1>5, <1>6, <1>7, <1>8, <1>9 DEF RequestSteps

(* The commands store new pairs, read what is fresh or remove what is kept; *)
(* a restart forgets it, and a pair that was not stored yet is lost.        *)
LEMMA CommandStep ==
  ASSUME Parameters, TypeOK, Carries, SpendInv,
         CommandSteps \/ Restart \/ \E t \in Tokens : AccessEnds(t)
  PROVE  SpendInv'
<1> USE DEF SpendInv
<1>1. /\ "provider" \in Stores /\ "command" \in Stores /\ None \notin spent
      /\ Unread \notin spent /\ None \notin Tokens /\ Unread \notin Tokens
  BY DEF Stores, TypeOK, Parameters, Tokens, None, Unread
<1>2. CASE \E t \in Tokens : AccessEnds(t)
  <2>1. /\ sqlite' = sqlite /\ legacy' = legacy /\ cache' = cache /\ spent' = spent
        /\ request' = request /\ holder' = holder /\ ghost' = ghost
        /\ \A s \in Tokens : issued[s] # "no" => issued'[s] # "no"
    BY <1>2 DEF AccessEnds, TypeOK
  <2> QED
    BY <2>1 DEF OneRefreshes, Refreshes, KeptIsKnown, Known, FreshInv, NoSaver,
       StoreIsFresh, CarriedIsFresh
<1>3. CASE Login \/ Callback \/ LoginFails
  <2>1. /\ sqlite' = sqlite /\ legacy' = legacy /\ cache' = cache /\ spent' = spent
        /\ request' = request /\ holder' = holder /\ ghost' = ghost
        /\ issued' = issued
    BY <1>3 DEF Login, Callback, LoginFails
  <2> QED
    BY <2>1 DEF OneRefreshes, Refreshes, KeptIsKnown, Known, FreshInv, NoSaver,
       StoreIsFresh, CarriedIsFresh
<1>4. CASE LoggedIn
  <2>1. PICK t \in Tokens :
          /\ issued[t] = "no" /\ issued' = [issued EXCEPT ![t] = "live"]
          /\ Save("command", t)
    BY <1>4 DEF LoggedIn, Issue
  <2>2. /\ sqlite' = t /\ cache'["provider"] = cache["provider"]
        /\ legacy'.token = legacy.token /\ spent' = spent /\ request' = request
        /\ holder' = holder /\ ghost' = ghost
    BY <1>1, <1>4, <2>1 DEF LoggedIn, Save, TypeOK
  <2>3. issued'[t] # "no" /\ \A s \in Tokens : issued[s] # "no" => issued'[s] # "no"
    BY <2>1 DEF TypeOK
  <2>4. t \notin spent
    BY <2>1 DEF KeptIsKnown, Known
  <2>5. OneRefreshes' /\ KeptIsKnown'
    BY <2>2, <2>3 DEF OneRefreshes, Refreshes, KeptIsKnown, Known
  <2>6. FreshInv'
    BY <1>1, <2>2, <2>4 DEF FreshInv, Refreshes, NoSaver, StoreIsFresh,
       CarriedIsFresh
  <2> QED
    BY <2>5, <2>6
<1>5. CASE Status
  <2>1. /\ Load("command") /\ legacy' = legacy /\ spent' = spent
        /\ request' = request /\ holder' = holder /\ ghost' = ghost
        /\ issued' = issued
    BY <1>5 DEF Status
  <2>2. cache'["provider"] = cache["provider"]
    BY <1>1, <2>1, LoadTypes
  <2>3. Known(sqlite') /\ Known(cache'["provider"])
    BY <1>1, <2>1, LoadIsKnown
  <2>4. StoreIsFresh => StoreIsFresh'
    BY <1>1, <2>1, LoadIsFresh
  <2>5. OneRefreshes' /\ KeptIsKnown'
    BY <2>1, <2>3 DEF OneRefreshes, Refreshes, KeptIsKnown, Known
  <2>6. FreshInv'
    BY <2>1, <2>2, <2>4 DEF FreshInv, Refreshes, NoSaver, CarriedIsFresh
  <2> QED
    BY <2>5, <2>6
<1>6. CASE Logout
  <2>1. /\ sqlite' = None /\ cache'["provider"] = cache["provider"]
        /\ legacy'.token = legacy.token /\ legacy'.disabled
        /\ spent' = spent /\ request' = request
        /\ holder' = holder /\ ghost' = ghost /\ issued' = issued
    BY <1>1, <1>6 DEF Logout, TypeOK
  <2> QED
    BY <1>1, <2>1 DEF OneRefreshes, Refreshes, KeptIsKnown, Known, FreshInv,
       NoSaver, StoreIsFresh, CarriedIsFresh
<1>7. CASE Restart
  <2>1. /\ sqlite' = sqlite /\ cache'["provider"] = Unread /\ legacy' = legacy
        /\ spent' = spent /\ issued' = issued
        /\ \A r \in Requests : request'[r].at = "idle" /\ request'[r].auth = None
        /\ ghost'.lost = (ghost.lost \/ \E r \in Requests : request[r].at = "saving")
        /\ ghost'.refused = ghost.refused
    BY <1>1, <1>7 DEF Restart, Idle, TypeOK, At
  <2> QED
    BY <1>1, <2>1 DEF OneRefreshes, Refreshes, KeptIsKnown, Known, FreshInv,
       NoSaver, StoreIsFresh, CarriedIsFresh
<1> QED
  BY <1>2, <1>3, <1>4, <1>5, <1>6, <1>7 DEF CommandSteps

(* No request of YAC presents a refresh token that was spent, unless a pair *)
(* the endpoint had issued was lost before it was stored: for any number of *)
(* concurrent requests, whatever the commands do and wherever the process   *)
(* is restarted.                                                            *)
THEOREM RefreshTokensAreSpentOnce ==
  ASSUME Parameters PROVE Spec => []NoTokenSpentTwice
<1>1. Init => TypeOK /\ Carries /\ SpendInv
  <2> SUFFICES ASSUME Init PROVE SpendInv
    BY InitTypes
  <2>1. None \notin Tokens /\ Unread \notin Tokens /\ "provider" \in Stores
    BY DEF Parameters, Tokens, None, Unread, Stores
  <2> QED
    BY <2>1 DEF Init, Idle, SpendInv, OneRefreshes, Refreshes, KeptIsKnown,
       Known, FreshInv, NoSaver, StoreIsFresh, CarriedIsFresh
<1>2. TypeOK /\ Carries /\ SpendInv /\ [Next]_vars =>
        (TypeOK /\ Carries /\ SpendInv)'
  <2> SUFFICES ASSUME TypeOK, Carries, SpendInv, [Next]_vars PROVE SpendInv'
    BY TypesNext
  <2>1. CASE UNCHANGED vars
    BY <2>1 DEF vars, SpendInv, OneRefreshes, Refreshes, KeptIsKnown, Known,
       FreshInv, NoSaver, StoreIsFresh, CarriedIsFresh
  <2>2. ASSUME NEW r \in Requests, RequestSteps(r) PROVE SpendInv'
    BY <2>2, MutexStep, KnownStep, FreshStep DEF SpendInv
  <2> QED
    BY <2>1, <2>2, CommandStep DEF Next
<1>3. SpendInv => NoTokenSpentTwice
  BY DEF SpendInv, FreshInv, NoTokenSpentTwice
<1> QED
  BY <1>1, <1>2, <1>3, PTL DEF Spec

-----------------------------------------------------------------------------
(*             THE STORE BELOW: A CREDENTIAL IS REPLACED WHOLE             *)

(* The same credential seen by the processes that share the database, with *)
(* variables of their own.                                                 *)
CONSTANTS Users, MaxSaves, MaxFailures
VARIABLES version, rows, disabled, older, writer, draft, user, saves, failures

Store == INSTANCE StateStore WITH legacy <- older

StoreParameters == MaxSaves \in Nat /\ Store!NoOne \notin Users

User ==
  [at : Store!Phases, secret : Store!Credentials, import : BOOLEAN,
   cache : Store!Credentials \cup {Store!Unread, Store!None}]

Typed ==
  /\ user \in [Users -> User] /\ saves \in 0..MaxSaves
  /\ rows \in Seq(Store!Credentials) /\ draft \in Seq(Store!Credentials)

(* The write lock is held from BEGIN IMMEDIATE to the end of the            *)
(* transaction, by the one connection that is in it.                        *)
InTransaction(u) == user[u].at \in {"create", "delete", "insert", "commit"}
LockHeld == \A u \in Users : InTransaction(u) <=> writer = u

(* What the transaction has made of the rows so far. *)
DraftOf(u) ==
  /\ user[u].at = "create" => draft = rows
  /\ user[u].at = "insert" => draft = <<>>
  /\ user[u].at = "commit" => Len(draft) = 1

StoreInv == Typed /\ LockHeld /\ \A u \in Users : DraftOf(u)

(* What a connection reads, and any suffix of a save, are credentials. *)
LEMMA SeenTyped ==
  ASSUME StoreParameters, Typed, NEW u \in Users
  PROVE  /\ Store!Seen(u) \in Seq(Store!Credentials)
         /\ Append(Store!Seen(u), user[u].secret) \in Seq(Store!Credentials)
         /\ <<>> \in Seq(Store!Credentials)
         /\ Store!Seen(u) # <<>> => Head(Store!Seen(u)) \in Store!Credentials
         /\ Store!Legacy \in Store!Credentials
<1>1. Store!Seen(u) \in Seq(Store!Credentials) /\ user[u].secret \in Store!Credentials
  BY DEF Typed, User, Store!Seen
<1>2. Store!Legacy \in Store!Credentials
  BY DEF StoreParameters, Store!Legacy, Store!Credentials
<1> QED
  BY <1>1, <1>2

(* A user stays one, and nobody moves but the one whose step it is.         *)
LEMMA UserStep ==
  ASSUME StoreParameters, Typed, NEW u \in Users,
         \/ Store!ReadVersion(u) \/ Store!BeginMigration(u) \/ Store!CreateSchema(u)
         \/ Store!Load(u) \/ Store!ImportLegacy(u) \/ Store!Save(u)
         \/ Store!BeginSave(u) \/ Store!DeleteRow(u) \/ Store!InsertRow(u)
         \/ Store!CommitSave(u) \/ Store!ReadBack(u) \/ Store!EnableImport(u)
         \/ Store!Erase(u) \/ Store!EraseRow(u) \/ Store!DisableImport(u)
         \/ Store!SaveFails(u) \/ Store!EraseFails(u) \/ Store!Crash(u)
  PROVE  /\ user' \in [Users -> User] /\ saves' \in 0..MaxSaves
         /\ \A v \in Users : v # u => user'[v] = user[v]
<1>1. /\ user \in [Users -> User] /\ user[u] \in User /\ saves \in 0..MaxSaves
      /\ Store!Legacy \in Store!Credentials /\ 0 \in Store!Credentials
      /\ Store!Seen(u) # <<>> => Head(Store!Seen(u)) \in Store!Credentials
  BY SeenTyped DEF Typed, Store!Legacy
<1>2. ASSUME NEW q \in User, user' = [user EXCEPT ![u] = q], saves' = saves
      PROVE  /\ user' \in [Users -> User] /\ saves' \in 0..MaxSaves
             /\ \A v \in Users : v # u => user'[v] = user[v]
  BY <1>1, <1>2
<1>3. ASSUME NEW phase \in Store!Phases, Store!Goes(u, phase), saves' = saves
      PROVE  \E q \in User : user' = [user EXCEPT ![u] = q]
  <2> DEFINE q == [user[u] EXCEPT !.at = phase]
  <2>1. q \in User /\ user' = [user EXCEPT ![u] = q]
    BY <1>1, <1>3 DEF User, Store!Goes
  <2> QED
    BY <2>1
<1>4. ASSUME NEW c \in Store!Credentials \cup {Store!Unread, Store!None},
             Store!Answers(u, c)
      PROVE  \E q \in User : user' = [user EXCEPT ![u] = q]
  <2> DEFINE q == [user[u] EXCEPT !.at = "idle", !.cache = c]
  <2>1. q \in User /\ user' = [user EXCEPT ![u] = q]
    BY <1>1, <1>4 DEF User, Store!Answers, Store!Phases
  <2> QED
    BY <2>1
<1>5. ASSUME Store!Thrown(u)
      PROVE  \E q \in User : user' = [user EXCEPT ![u] = q]
  <2>1. PICK c \in Store!Credentials \cup {Store!Unread, Store!None} :
          user' = [user EXCEPT ![u].at = "idle", ![u].cache = c]
    BY <1>1, <1>5 DEF User, Store!Thrown
  <2> QED
    BY <1>4, <2>1 DEF Store!Answers
<1>6. CASE Store!Save(u)
  <2> DEFINE q == [user[u] EXCEPT !.at = "begin", !.secret = saves', !.import = FALSE]
  <2>1. saves' \in 0..MaxSaves /\ saves' \in Store!Credentials
    BY <1>1, <1>6 DEF Store!Save, StoreParameters, Store!Credentials
  <2>2. q \in User /\ user' = [user EXCEPT ![u] = q]
    BY <1>1, <1>6, <2>1 DEF Store!Save, User, Store!Phases, Store!Writing
  <2> QED
    BY <1>1, <2>1, <2>2
<1>7. CASE Store!ImportLegacy(u)
  <2>1. CASE disabled \/ ~older
    BY <1>2, <1>4, <1>7, <2>1 DEF Store!ImportLegacy
  <2>2. CASE ~(disabled \/ ~older)
    <3> DEFINE q == [user[u] EXCEPT !.at = "begin", !.secret = Store!Legacy,
                                    !.import = TRUE]
    <3>1. q \in User /\ user' = [user EXCEPT ![u] = q]
      BY <1>1, <1>7, <2>2 DEF Store!ImportLegacy, User, Store!Phases, Store!Writing
    <3> QED
      BY <1>2, <1>7, <3>1 DEF Store!ImportLegacy
  <2> QED
    BY <2>1, <2>2
<1>8. CASE \/ Store!ReadVersion(u) \/ Store!BeginMigration(u)
           \/ Store!CreateSchema(u) \/ Store!BeginSave(u) \/ Store!DeleteRow(u)
           \/ Store!InsertRow(u) \/ Store!CommitSave(u) \/ Store!Erase(u)
           \/ Store!EraseRow(u) \/ Store!EraseFails(u)
  <2>1. saves' = saves /\ \E phase \in Store!Phases : Store!Goes(u, phase)
    BY <1>8 DEF Store!ReadVersion, Store!BeginMigration, Store!CreateSchema,
       Store!BeginSave, Store!DeleteRow, Store!InsertRow, Store!CommitSave,
       Store!Erase, Store!EraseRow, Store!EraseFails, Store!Phases, Store!Writing
  <2> QED
    BY <1>2, <1>3, <2>1
<1>9. CASE Store!Load(u) \/ Store!ReadBack(u)
  <2>1. \/ \E phase \in Store!Phases : Store!Goes(u, phase)
        \/ \E c \in Store!Credentials : Store!Answers(u, c)
        \/ Store!Thrown(u)
    BY <1>1, <1>9 DEF Store!Load, Store!ReadBack, Store!Phases
  <2>2. saves' = saves
    BY <1>9 DEF Store!Load, Store!ReadBack
  <2> QED
    BY <1>2, <1>3, <1>4, <1>5, <2>1, <2>2
<1>10. CASE Store!EnableImport(u) \/ Store!DisableImport(u)
  <2>1. user[u].secret \in Store!Credentials
    BY <1>1 DEF User
  <2>2. saves' = saves /\ \E c \in Store!Credentials \cup {Store!None} : Store!Answers(u, c)
    BY <1>10, <2>1 DEF Store!EnableImport, Store!DisableImport
  <2> QED
    BY <1>2, <1>4, <2>2
<1>11. CASE Store!SaveFails(u)
  BY <1>2, <1>5, <1>11 DEF Store!SaveFails
<1>12. CASE Store!Crash(u)
  <2>1. Store!Started \in User
    BY <1>1 DEF Store!Started, User, Store!Phases
  <2> QED
    BY <1>2, <1>12, <2>1 DEF Store!Crash
<1> QED
  BY <1>6, <1>7, <1>8, <1>9, <1>10, <1>11, <1>12

(* A step keeps the invariant, and replaces the committed rows whole.       *)
LEMMA StoreStep ==
  ASSUME StoreParameters, StoreInv, [Store!Next]_(Store!vars)
  PROVE  StoreInv' /\ [Store!ReplacedWhole]_(Store!vars)
<1>1. CASE UNCHANGED Store!vars
  BY <1>1 DEF Store!vars, Store!tables, StoreInv, Typed, LockHeld, InTransaction,
     DraftOf
<1> SUFFICES ASSUME NEW u \in Users,
         \/ Store!ReadVersion(u) \/ Store!BeginMigration(u) \/ Store!CreateSchema(u)
         \/ Store!Load(u) \/ Store!ImportLegacy(u) \/ Store!Save(u)
         \/ Store!BeginSave(u) \/ Store!DeleteRow(u) \/ Store!InsertRow(u)
         \/ Store!CommitSave(u) \/ Store!ReadBack(u) \/ Store!EnableImport(u)
         \/ Store!Erase(u) \/ Store!EraseRow(u) \/ Store!DisableImport(u)
         \/ Store!SaveFails(u) \/ Store!EraseFails(u) \/ Store!Crash(u)
             PROVE  StoreInv' /\ Store!ReplacedWhole
  BY <1>1 DEF Store!Next
<1> USE DEF Store!tables
<1>2. /\ user \in [Users -> User] /\ user[u] \in User
      /\ user' \in [Users -> User] /\ saves' \in 0..MaxSaves
      /\ \A v \in Users : v # u => user'[v] = user[v]
  BY UserStep DEF StoreInv, Typed
<1>3. /\ rows \in Seq(Store!Credentials) /\ draft \in Seq(Store!Credentials)
      /\ <<>> \in Seq(Store!Credentials)
      /\ Store!Seen(u) \in Seq(Store!Credentials)
      /\ Append(Store!Seen(u), user[u].secret) \in Seq(Store!Credentials)
      /\ u # Store!NoOne /\ user[u].secret \in Store!Credentials
  BY SeenTyped DEF StoreInv, Typed, StoreParameters, User
(* The steps that neither hold nor touch the rows. *)
<1>4. ASSUME rows' = rows, draft' = draft, writer' = writer, writer # u,
             ~InTransaction(u)'
      PROVE  StoreInv' /\ Store!ReplacedWhole
  BY <1>2, <1>3, <1>4 DEF StoreInv, Typed, LockHeld, InTransaction, DraftOf,
     Store!ReplacedWhole
(* A transaction begins. *)
<1>5. CASE Store!BeginMigration(u) \/ Store!BeginSave(u)
  <2>1. /\ writer = Store!NoOne /\ writer' = u /\ draft' = rows /\ rows' = rows
        /\ user'[u].at \in {"create", "delete"}
    BY <1>2, <1>5 DEF Store!BeginMigration, Store!BeginSave, Store!BeginImmediate,
       Store!Goes, User
  <2>2. \A v \in Users : v # u => ~InTransaction(v)
    BY <2>1 DEF StoreInv, LockHeld, StoreParameters
  <2> QED
    BY <1>2, <1>3, <2>1, <2>2 DEF StoreInv, Typed, LockHeld, InTransaction,
       DraftOf, Store!ReplacedWhole
(* Inside it, only the draft changes. *)
<1>6. CASE Store!DeleteRow(u) \/ Store!InsertRow(u)
  <2>1. writer = u
    BY <1>6 DEF Store!DeleteRow, Store!InsertRow, Store!At, StoreInv, LockHeld,
       InTransaction
  <2>2. rows' = rows /\ writer' = u
    BY <1>3, <1>6, <2>1 DEF Store!DeleteRow, Store!InsertRow, Store!Run
  <2>3. /\ draft' \in Seq(Store!Credentials)
        /\ InTransaction(u)' /\ DraftOf(u)'
    <3>1. CASE Store!DeleteRow(u)
      BY <1>2, <1>3, <2>1, <3>1 DEF Store!DeleteRow, Store!Run, Store!Goes, User,
         InTransaction, DraftOf
    <3>2. CASE Store!InsertRow(u)
      <4>1. draft = <<>> /\ draft' = Append(draft, user[u].secret)
        BY <1>3, <2>1, <3>2 DEF Store!InsertRow, Store!Run, Store!Seen, Store!At,
           StoreInv, DraftOf
      <4>2. Len(draft') = 1 /\ draft' \in Seq(Store!Credentials)
        BY <1>3, <4>1
      <4>3. user'[u].at = "commit"
        BY <1>2, <3>2 DEF Store!InsertRow, Store!Goes, User
      <4> QED
        BY <4>2, <4>3 DEF InTransaction, DraftOf
    <3> QED
      BY <1>6, <3>1, <3>2
  <2>4. \A v \in Users : v # u => ~InTransaction(v)
    BY <2>1 DEF StoreInv, LockHeld
  <2> QED
    BY <1>2, <1>3, <2>1, <2>2, <2>3, <2>4 DEF StoreInv, Typed, LockHeld,
       InTransaction, DraftOf, Store!ReplacedWhole
(* It ends with a commit of the rows as they were, or of the one new row. *)
<1>7. CASE Store!CreateSchema(u) \/ Store!CommitSave(u)
  <2>1. writer = u /\ user[u].at \in {"create", "commit"}
    BY <1>7 DEF Store!CreateSchema, Store!CommitSave, Store!At, StoreInv, LockHeld,
       InTransaction
  <2>2. /\ rows' = draft /\ writer' = Store!NoOne /\ draft' = <<>>
        /\ user'[u].at \in {"idle", "read back"}
    BY <1>2, <1>7, <2>1 DEF Store!CreateSchema, Store!CommitSave, Store!Commit,
       Store!Seen, Store!Ends, Store!Goes, User
  <2>3. Store!ReplacedWhole
    BY <2>1, <2>2 DEF Store!ReplacedWhole, StoreInv, DraftOf
  <2>4. \A v \in Users : v # u => ~InTransaction(v)
    BY <2>1 DEF StoreInv, LockHeld
  <2> QED
    BY <1>2, <1>3, <2>2, <2>3, <2>4 DEF StoreInv, Typed, LockHeld, InTransaction,
       DraftOf, StoreParameters
(* Or without one: a failed statement, a crash. *)
<1>8. CASE Store!SaveFails(u) \/ Store!Crash(u)
  <2>1. /\ rows' = rows
        /\ IF writer = u THEN writer' = Store!NoOne /\ draft' = <<>>
                         ELSE writer' = writer /\ draft' = draft
        /\ user'[u].at \in {"idle", "version"}
    BY <1>2, <1>8 DEF Store!SaveFails, Store!Crash, Store!Rollback, Store!Ends,
       Store!Thrown, Store!Started, User
  <2>2. CASE writer # u
    BY <1>4, <2>1, <2>2 DEF InTransaction
  <2>3. CASE writer = u
    <3>1. \A v \in Users : v # u => ~InTransaction(v)
      BY <2>3 DEF StoreInv, LockHeld
    <3> QED
      BY <1>2, <1>3, <2>1, <2>3, <3>1 DEF StoreInv, Typed, LockHeld,
         InTransaction, DraftOf, StoreParameters, Store!ReplacedWhole
  <2> QED
    BY <2>2, <2>3
(* An erase deletes the row with no transaction around it, when nobody      *)
(* holds the lock.                                                          *)
<1>9. CASE Store!EraseRow(u)
  <2>1. user[u].at = "erase" /\ user'[u].at = "disable"
    BY <1>2, <1>9 DEF Store!EraseRow, Store!At, Store!Goes, User
  <2>2. writer # u
    BY <2>1 DEF StoreInv, LockHeld, InTransaction
  <2>3. writer = Store!NoOne /\ writer' = writer /\ rows' = <<>> /\ draft' = draft
    BY <1>9, <2>2 DEF Store!EraseRow, Store!Run
  <2>4. \A v \in Users : ~InTransaction(v)
    BY <2>3 DEF StoreInv, LockHeld, StoreParameters
  <2> QED
    BY <1>2, <1>3, <2>1, <2>3, <2>4 DEF StoreInv, Typed, LockHeld, InTransaction,
       DraftOf, Store!ReplacedWhole, Store!At
<1>10. CASE \/ Store!ReadVersion(u) \/ Store!Load(u) \/ Store!ImportLegacy(u)
            \/ Store!Save(u) \/ Store!ReadBack(u) \/ Store!EnableImport(u)
            \/ Store!Erase(u) \/ Store!DisableImport(u) \/ Store!EraseFails(u)
  <2>1. rows' = rows /\ draft' = draft /\ writer' = writer
    BY <1>10 DEF Store!ReadVersion, Store!Load, Store!ImportLegacy, Store!Save,
       Store!ReadBack, Store!EnableImport, Store!Erase, Store!DisableImport,
       Store!EraseFails
  <2>2. user[u].at \notin {"create", "delete", "insert", "commit"}
    BY <1>10 DEF Store!ReadVersion, Store!Load, Store!ImportLegacy, Store!Save,
       Store!ReadBack, Store!EnableImport, Store!Erase, Store!DisableImport,
       Store!EraseFails, Store!At
  <2>3. ASSUME NEW phase \in {"idle", "migrate", "disabled?", "enable", "erase"},
               Store!Goes(u, phase)
        PROVE  ~InTransaction(u)'
    BY <1>2, <2>3 DEF Store!Goes, InTransaction, User
  <2>4. ASSUME NEW c, Store!Answers(u, c)
        PROVE  ~InTransaction(u)'
    BY <1>2, <2>4 DEF Store!Answers, InTransaction, User
  <2>5. ASSUME Store!Thrown(u)
        PROVE  ~InTransaction(u)'
    BY <1>2, <2>5 DEF Store!Thrown, InTransaction, User
  <2>6. CASE Store!ImportLegacy(u) \/ Store!Save(u)
    <3>1. \/ Store!Answers(u, Store!None)
          \/ user' = [user EXCEPT ![u].at = "begin", ![u].secret = Store!Legacy,
                                  ![u].import = TRUE]
          \/ user' = [user EXCEPT ![u].at = "begin", ![u].secret = saves',
                                  ![u].import = FALSE]
      BY <2>6 DEF Store!ImportLegacy, Store!Save
    <3>2. user'[u].at \in {"idle", "begin"}
      BY <1>2, <3>1 DEF Store!Answers, User
    <3>3. ~InTransaction(u)'
      BY <3>2 DEF InTransaction
    <3> QED
      BY <2>2, <3>3, <1>4, <2>1 DEF StoreInv, LockHeld, InTransaction
  <2>7. CASE ~(Store!ImportLegacy(u) \/ Store!Save(u))
    <3>1. \/ \E phase \in {"idle", "migrate", "disabled?", "enable", "erase"} :
               Store!Goes(u, phase)
          \/ \E c \in {Head(Store!Seen(u)), user[u].secret, Store!None} :
               Store!Answers(u, c)
          \/ Store!Thrown(u)
      BY <1>10, <2>7 DEF Store!ReadVersion, Store!Load, Store!ReadBack,
         Store!EnableImport, Store!Erase, Store!DisableImport, Store!EraseFails
    <3>2. ~InTransaction(u)'
      BY <2>3, <2>4, <2>5, <3>1
    <3> QED
      BY <2>2, <3>2, <1>4, <2>1 DEF StoreInv, LockHeld, InTransaction
  <2> QED
    BY <2>6, <2>7
<1> QED
  BY <1>5, <1>6, <1>7, <1>8, <1>9, <1>10

(* Whoever looks at the stored credential finds the old one or the new one, *)
(* never none and never two, but for the delete of an erase: for any number *)
(* of processes, with failed statements and crashes anywhere.               *)
THEOREM CredentialReplacedWhole ==
  ASSUME StoreParameters
  PROVE  Store!Spec => [][Store!ReplacedWhole]_(Store!vars)
<1>1. Store!Init => StoreInv
  <2> SUFFICES ASSUME Store!Init PROVE StoreInv
    OBVIOUS
  <2>1. Store!Started \in User /\ 0 \in 0..MaxSaves
    BY DEF StoreParameters, Store!Started, User, Store!Phases, Store!Credentials
  <2>2. /\ user = [u \in Users |-> Store!Started] /\ rows = <<>> /\ draft = <<>>
        /\ writer = Store!NoOne /\ saves = 0
    BY DEF Store!Init
  <2>3. \A u \in Users : user[u].at = "version"
    BY <2>2 DEF Store!Started
  <2> QED
    BY <2>1, <2>2, <2>3 DEF StoreInv, Typed, LockHeld, InTransaction, DraftOf,
       StoreParameters
<1>2. StoreInv /\ [Store!Next]_(Store!vars) =>
        StoreInv' /\ [Store!ReplacedWhole]_(Store!vars)
  BY StoreStep
<1> QED
  BY <1>1, <1>2, PTL DEF Store!Spec
-----------------------------------------------------------------------------
(*                     THE SELECTION AND A RESTART                         *)

CONSTANTS Models, Efforts, FilesOfUser, EnvsOfUser, Profiles, MaxCommands

VARIABLES settings, environment, remembered, config, saving, told, left, entered

Start == INSTANCE Settings
  WITH file <- settings, env <- environment, store <- remembered, commands <- entered

(* What a user writes is typed, a model has a name that is no absence, and  *)
(* a profile is found under its own name.                                   *)
FileShape(f) ==
  /\ DOMAIN f = {"id", "model", "lines"}
  /\ f.id \in Start!Providers \cup {Start!None}
  /\ f.model \in Models \cup {Start!None}
EnvShape(e) == e.provider \in Start!Providers \cup {Start!None}

SettingsParameters ==
  /\ Start!None \notin Models
  /\ \A f \in FilesOfUser : FileShape(f)
  /\ \A e \in EnvsOfUser : EnvShape(e)
  /\ \A n \in DOMAIN Profiles :
       /\ n # Start!None /\ Profiles[n].name = n
       /\ Profiles[n].provider \in Start!Providers

-----------------------------------------------------------------------------
(* The fields a selection is made of, through the stages of a start.        *)
Fields == {"running", "provider", "model", "base_url", "api_key_env", "profile",
           "settings", "fromFile"}
LayerFields == {"value", "source"}
Shape(c) ==
  /\ DOMAIN c = Fields
  /\ DOMAIN c.provider = LayerFields /\ DOMAIN c.model = LayerFields

(* Two configurations with the same selection, from the same layers.        *)
Same(c, d) ==
  /\ Shape(c) /\ Shape(d)
  /\ c.provider.value = d.provider.value /\ c.provider.source = d.provider.source
  /\ c.model.value = d.model.value /\ c.model.source = d.model.source

(* Presets change no provider, and the value of a model but not its layer.  *)
LEMMA Presets ==
  ASSUME NEW c, Shape(c), NEW d, d = Start!ApplyProviderDefaults(c)
  PROVE  /\ Shape(d) /\ d.provider = c.provider /\ d.profile = c.profile
         /\ d.running = c.running
         /\ d.model.source = c.model.source
         /\ d.model.value =
              IF c.provider.value \in Start!WithPreset /\ ~Start!Explicit(c.model)
              THEN c.provider.value ELSE c.model.value
<1>1. CASE c.provider.value \notin Start!WithPreset
  <2>1. d = c
    BY <1>1 DEF Start!ApplyProviderDefaults
  <2> QED
    BY <1>1, <2>1
<1>2. CASE c.provider.value \in Start!WithPreset
  <2> DEFINE Filled(field) == IF Start!Explicit(field) THEN field
                              ELSE [field EXCEPT !.value = c.provider.value]
  <2>1. d = [c EXCEPT !.model = Filled(@), !.base_url = Filled(@), !.api_key_env = Filled(@)]
    BY <1>2 DEF Start!ApplyProviderDefaults
  <2>2. /\ DOMAIN Filled(c.model) = LayerFields
        /\ Filled(c.model).source = c.model.source
        /\ Filled(c.model).value =
             IF ~Start!Explicit(c.model) THEN c.provider.value ELSE c.model.value
    BY DEF Shape, LayerFields
  <2> HIDE DEF Filled
  <2>3. /\ DOMAIN d = Fields /\ d.model = Filled(c.model) /\ d.provider = c.provider
        /\ d.profile = c.profile /\ d.running = c.running
    BY <2>1 DEF Shape, Fields
  <2> QED
    BY <1>2, <2>2, <2>3 DEF Shape
<1> QED
  BY <1>1, <1>2

(* A value that is there replaces the layer below it.                       *)
LEMMA Overrides ==
  ASSUME NEW field, DOMAIN field = LayerFields, NEW value, NEW source,
         NEW o, o = Start!Override(field, value, source)
  PROVE  /\ DOMAIN o = LayerFields
         /\ o.value = IF value = Start!None THEN field.value ELSE value
         /\ o.source = IF value = Start!None THEN field.source ELSE source
BY DEF Start!Override, Start!Layer, LayerFields

(* The file names the provider or leaves the built-in one...                *)
LEMMA FromFile ==
  ASSUME NEW f, FileShape(f), NEW c, c = Start!LoadSettingsFromToml(f)
  PROVE  /\ Shape(c) /\ c.profile = Start!None /\ c.running
         /\ c.provider.value = IF f.id = Start!None THEN "openai-compatible" ELSE f.id
         /\ c.provider.source = IF f.id = Start!None THEN "default" ELSE "toml"
         /\ c.model.source = IF f.model = Start!None THEN "default" ELSE "toml"
         /\ c.model.value =
              IF f.model # Start!None THEN f.model
              ELSE IF f.id \in Start!WithPreset THEN f.id ELSE "openai"
<1> DEFINE b == [Start!BuiltIn EXCEPT
                   !.provider = Start!Override(@, f.id, "toml"),
                   !.model = Start!Override(@, f.model, "toml"),
                   !.settings = Start!LoadProviderModelSettings(f.lines),
                   !.fromFile = Start!Headers(f.lines) # {}]
           B == Start!BuiltIn
<1>1. /\ DOMAIN B = Fields /\ DOMAIN B.provider = LayerFields /\ DOMAIN B.model = LayerFields
      /\ B.provider.value = "openai-compatible" /\ B.provider.source = "default"
      /\ B.model.value = "openai" /\ B.model.source = "default"
      /\ B.profile = Start!None /\ B.running
  BY DEF Start!BuiltIn, Start!Layer, Fields, LayerFields
<1>2. c = IF f.id # Start!None THEN Start!ApplyProviderDefaults(b) ELSE b
  BY DEF Start!LoadSettingsFromToml
<1> HIDE DEF B
<1>3. /\ DOMAIN b = Fields /\ b.provider = Start!Override(B.provider, f.id, "toml")
      /\ b.model = Start!Override(B.model, f.model, "toml")
      /\ b.profile = Start!None /\ b.running
  BY <1>1 DEF Fields, B
<1> HIDE DEF b
<1>4. /\ DOMAIN b.provider = LayerFields /\ DOMAIN b.model = LayerFields
      /\ b.provider.value = IF f.id = Start!None THEN "openai-compatible" ELSE f.id
      /\ b.provider.source = IF f.id = Start!None THEN "default" ELSE "toml"
      /\ b.model.value = IF f.model = Start!None THEN "openai" ELSE f.model
      /\ b.model.source = IF f.model = Start!None THEN "default" ELSE "toml"
  BY <1>1, <1>3, Overrides
<1>5. Shape(b)
  BY <1>3, <1>4 DEF Shape
<1>6. CASE f.id = Start!None
  <2>1. c = b /\ f.id \notin Start!WithPreset
    BY <1>2, <1>6 DEF Start!WithPreset, Start!Providers, Start!None
  <2> QED
    BY <1>3, <1>4, <1>5, <1>6, <2>1
<1>7. CASE f.id # Start!None
  <2>1. c = Start!ApplyProviderDefaults(b)
    BY <1>2, <1>7
  <2>2. /\ Shape(c) /\ c.provider = b.provider /\ c.profile = b.profile /\ c.running = b.running
        /\ c.model.source = b.model.source
        /\ c.model.value = IF b.provider.value \in Start!WithPreset /\ ~Start!Explicit(b.model)
                           THEN b.provider.value ELSE b.model.value
    BY <1>5, <2>1, Presets
  <2>3. Start!Explicit(b.model) <=> f.model # Start!None
    BY <1>4 DEF Start!Explicit
  <2> QED
    BY <1>3, <1>4, <1>7, <2>2, <2>3
<1> QED
  BY <1>6, <1>7
(* ...the environment overrides it...                                       *)
LEMMA FromEnvironment ==
  ASSUME NEW c, Shape(c), NEW e, NEW d, d = Start!ApplyEnvOverrides(c, e)
  PROVE  /\ Shape(d) /\ d.profile = c.profile /\ d.running = c.running
         /\ d.provider.value = IF e.provider = Start!None THEN c.provider.value ELSE e.provider
         /\ d.provider.source = IF e.provider = Start!None THEN c.provider.source ELSE "env"
         /\ d.model.source = IF e.model = Start!None THEN c.model.source ELSE "env"
         /\ d.model.value =
              IF e.model # Start!None THEN e.model
              ELSE IF /\ e.provider # Start!None /\ e.provider \in Start!WithPreset
                      /\ ~Start!Explicit(c.model)
                   THEN e.provider ELSE c.model.value
<1> DEFINE named == [c EXCEPT !.provider = Start!Override(@, e.provider, "env")]
           filled == IF e.provider # Start!None THEN Start!ApplyProviderDefaults(named)
                     ELSE named
<1>1. /\ DOMAIN named = Fields /\ named.provider = Start!Override(c.provider, e.provider, "env")
      /\ named.model = c.model /\ named.profile = c.profile /\ named.running = c.running
  BY DEF Shape, Fields
<1>2. d = [filled EXCEPT !.model = Start!Override(@, e.model, "env")]
  BY DEF Start!ApplyEnvOverrides
<1> HIDE DEF named
<1>3. /\ Shape(named)
      /\ named.provider.value = IF e.provider = Start!None THEN c.provider.value ELSE e.provider
      /\ named.provider.source = IF e.provider = Start!None THEN c.provider.source ELSE "env"
  BY <1>1, Overrides DEF Shape
<1>4. /\ Shape(filled) /\ filled.provider = named.provider
      /\ filled.profile = c.profile /\ filled.running = c.running
      /\ filled.model.source = c.model.source
      /\ filled.model.value =
           IF /\ e.provider # Start!None /\ e.provider \in Start!WithPreset
              /\ ~Start!Explicit(c.model)
           THEN e.provider ELSE c.model.value
  <2>1. CASE e.provider = Start!None
    BY <1>1, <1>3, <2>1
  <2>2. CASE e.provider # Start!None
    <3> DEFINE g == Start!ApplyProviderDefaults(named)
    <3>1. filled = g
      BY <2>2
    <3>2. /\ Shape(g) /\ g.provider = named.provider /\ g.profile = named.profile
          /\ g.running = named.running /\ g.model.source = named.model.source
          /\ g.model.value =
               IF named.provider.value \in Start!WithPreset /\ ~Start!Explicit(named.model)
               THEN named.provider.value ELSE named.model.value
      <4> HIDE DEF g
      <4>1. g = Start!ApplyProviderDefaults(named)
        BY DEF g
      <4> QED
        BY <1>3, <4>1, Presets
    <3> HIDE DEF g, filled
    <3> QED
      BY <1>1, <1>3, <2>2, <3>1, <3>2
  <2> QED
    BY <2>1, <2>2
<1> HIDE DEF filled
<1>5. /\ DOMAIN d = Fields /\ d.provider = filled.provider /\ d.profile = filled.profile
      /\ d.running = filled.running
      /\ d.model = Start!Override(filled.model, e.model, "env")
  BY <1>2, <1>4 DEF Shape, Fields
<1>6. /\ DOMAIN d.model = LayerFields
      /\ d.model.value = IF e.model = Start!None THEN filled.model.value ELSE e.model
      /\ d.model.source = IF e.model = Start!None THEN filled.model.source ELSE "env"
  BY <1>4, <1>5, Overrides DEF Shape
<1> QED
  BY <1>3, <1>4, <1>5, <1>6 DEF Shape

(* ...and SQLite what is left at the built-in value.                        *)
Taken(c, s) == c.provider.source = "default" /\ Start!StateProvider(c, s) # Start!None

(* The provider of SQLite brings the model of its preset.                    *)
LEMMA FromState ==
  ASSUME NEW c, Shape(c), NEW s, NEW d, d = Start!WithStateProvider(c, s)
  PROVE  /\ Shape(d) /\ d.profile = c.profile /\ d.running = c.running
         /\ d.provider.value = IF Taken(c, s) THEN Start!StateProvider(c, s) ELSE c.provider.value
         /\ d.provider.source = IF Taken(c, s) THEN "store" ELSE c.provider.source
         /\ d.model.source = c.model.source
         /\ d.model.value =
              IF /\ Taken(c, s) /\ Start!StateProvider(c, s) \in Start!WithPreset
                 /\ ~Start!Explicit(c.model)
              THEN Start!StateProvider(c, s) ELSE c.model.value
<1> DEFINE p == Start!StateProvider(c, s)
           named == [c EXCEPT !.provider = Start!Layer(p, "store")]
<1>1. CASE ~Taken(c, s)
  <2>1. d = c
    BY <1>1 DEF Taken, Start!WithStateProvider, Start!IsBuiltInDefault
  <2> QED
    BY <1>1, <2>1
<1>2. CASE Taken(c, s)
  <2>1. d = Start!ApplyProviderDefaults(named)
    BY <1>2 DEF Taken, Start!WithStateProvider, Start!IsBuiltInDefault
  <2>2. Start!Layer(p, "store").value = p /\ Start!Layer(p, "store").source = "store"
        /\ DOMAIN Start!Layer(p, "store") = LayerFields
    BY DEF Start!Layer, LayerFields
  <2> HIDE DEF p
  <2>3. /\ DOMAIN named = Fields /\ named.provider = Start!Layer(p, "store")
        /\ named.model = c.model /\ named.profile = c.profile /\ named.running = c.running
    BY DEF Shape, Fields
  <2> HIDE DEF named
  <2>4. Shape(named)
    BY <2>2, <2>3 DEF Shape
  <2>5. /\ Shape(d) /\ d.provider = named.provider /\ d.profile = named.profile
        /\ d.running = named.running /\ d.model.source = named.model.source
        /\ d.model.value =
             IF named.provider.value \in Start!WithPreset /\ ~Start!Explicit(named.model)
             THEN named.provider.value ELSE named.model.value
    BY <2>1, <2>4, Presets
  <2>6. p = Start!StateProvider(c, s)
    BY DEF p
  <2> QED
    BY <1>2, <2>2, <2>3, <2>5, <2>6
<1> QED
  BY <1>1, <1>2

(* The profile of the provider gives the model that nothing else names.     *)
LEMMA FromProfile ==
  ASSUME NEW c, Shape(c), NEW s, NEW d, d = Start!WithProfile(c, s),
         NEW profile, profile = Start!ResolveStateProfile(c, s)
  PROVE  /\ Shape(d) /\ d.provider = c.provider /\ d.running = c.running
         /\ d.profile = IF Start!UsesProfile(c, s) THEN profile.name ELSE c.profile
         /\ d.model =
              IF Start!UsesProfile(c, s) /\ c.model.source = "default"
              THEN Start!Override(c.model, profile.model, "store") ELSE c.model
<1> DEFINE Stored(field, value) ==
             IF Start!IsBuiltInDefault(field) THEN Start!Override(field, value, "store")
             ELSE field
<1>1. CASE ~Start!UsesProfile(c, s)
  <2>1. d = c
    BY <1>1 DEF Start!WithProfile
  <2> QED
    BY <1>1, <2>1
<1>2. CASE Start!UsesProfile(c, s)
  <2>1. d = [c EXCEPT !.profile = profile.name,
                      !.base_url = Stored(@, profile.base_url),
                      !.model = Stored(@, profile.model)]
    BY <1>2 DEF Start!WithProfile
  <2>2. Stored(c.model, profile.model) =
          IF c.model.source = "default"
          THEN Start!Override(c.model, profile.model, "store") ELSE c.model
    BY DEF Start!IsBuiltInDefault
  <2>3. DOMAIN Stored(c.model, profile.model) = LayerFields
    BY <2>2, Overrides DEF Shape
  <2> HIDE DEF Stored
  <2>4. /\ DOMAIN d = Fields /\ d.model = Stored(c.model, profile.model)
        /\ d.provider = c.provider /\ d.profile = profile.name /\ d.running = c.running
    BY <2>1 DEF Shape, Fields
  <2> QED
    BY <1>2, <2>2, <2>3, <2>4 DEF Shape
<1> QED
  BY <1>1, <1>2

(* SQLite names a provider or a profile that is not there any more.         *)
Stale(c, s) ==
  /\ Start!IsBuiltInDefault(c.provider)
  /\ ~Start!UsesProfile(c, s)
  /\ s.profile # Start!None \/ s.provider # Start!None

(* Else the last model is taken, over that of the profile.                  *)
LEMMA FromLastModel ==
  ASSUME NEW c, Shape(c), NEW s, NEW d, d = Start!WithLastModel(c, s)
  PROVE  /\ Shape(d) /\ d.provider = c.provider /\ d.running = c.running
         /\ d.profile = c.profile
         /\ d.model = IF Start!MayBeLastModel(c.model) /\ ~Stale(c, s)
                      THEN Start!Override(c.model, s.model, "store") ELSE c.model
<1>1. CASE ~(Start!MayBeLastModel(c.model) /\ ~Stale(c, s))
  <2>1. d = c
    BY <1>1 DEF Start!WithLastModel, Stale
  <2> QED
    BY <1>1, <2>1
<1>2. CASE Start!MayBeLastModel(c.model) /\ ~Stale(c, s)
  <2>1. d = [c EXCEPT !.model = Start!Override(@, s.model, "store")]
    BY <1>2 DEF Start!WithLastModel, Stale
  <2>2. DOMAIN Start!Override(c.model, s.model, "store") = LayerFields
    BY Overrides DEF Shape
  <2>3. /\ DOMAIN d = Fields /\ d.model = Start!Override(c.model, s.model, "store")
        /\ d.provider = c.provider /\ d.profile = c.profile /\ d.running = c.running
    BY <2>1 DEF Shape, Fields
  <2> QED
    BY <1>2, <2>2, <2>3 DEF Shape
<1> QED
  BY <1>1, <1>2

(* The last effort is no part of the selection.                             *)
LEMMA FromLastEffort ==
  ASSUME NEW c, Shape(c), NEW s, NEW d, d = Start!WithLastEffort(c, s)
  PROVE  /\ Shape(d) /\ d.provider = c.provider /\ d.model = c.model
         /\ d.profile = c.profile /\ d.running = c.running
<1> DEFINE q == <<c.provider.value, c.model.value>>
           more == Append(c.settings, [provider |-> q[1], model |-> q[2],
                                       effort |-> s.efforts[q]])
<1>1. d = c \/ d = [c EXCEPT !.settings = more]
  BY DEF Start!WithLastEffort
<1> HIDE DEF more
<1>2. CASE d = c
  BY <1>2
<1>3. CASE d = [c EXCEPT !.settings = more]
  BY <1>3 DEF Shape, Fields
<1> QED
  BY <1>1, <1>2, <1>3
-----------------------------------------------------------------------------
(*                       WHAT A START SELECTS                              *)

(* A start with these files, environment and memory, and its selection.     *)
Configured(f, e) == Start!ApplyEnvOverrides(Start!LoadSettingsFromToml(f), e)
Begun(f, e, s) == Start!ApplyStateStoreOverrides(Configured(f, e), s)
Chosen(c) == <<c.provider.value, c.model.value>>

(* Before SQLite is read: the environment's provider, else the file's, else *)
(* the built-in one, which alone is open to what SQLite says.               *)
LEMMA ConfiguredProvider ==
  ASSUME NEW f, FileShape(f), NEW e, EnvShape(e), NEW c, c = Configured(f, e)
  PROVE  /\ Shape(c) /\ c.profile = Start!None /\ c.running
         /\ c.provider.value \in Start!Providers
         /\ e.provider # Start!None => c.provider.value = e.provider
         /\ e.provider = Start!None /\ f.id # Start!None => c.provider.value = f.id
         /\ c.provider.source = "default" <=> e.provider = Start!None /\ f.id = Start!None
         /\ f.model = Start!None /\ e.model = Start!None => c.model.source = "default"
<1> DEFINE b == Start!LoadSettingsFromToml(f)
<1>1. /\ Shape(b) /\ b.profile = Start!None /\ b.running
      /\ b.provider.value = IF f.id = Start!None THEN "openai-compatible" ELSE f.id
      /\ b.provider.source = IF f.id = Start!None THEN "default" ELSE "toml"
      /\ b.model.source = IF f.model = Start!None THEN "default" ELSE "toml"
  BY FromFile
<1>2. c = Start!ApplyEnvOverrides(b, e)
  BY DEF Configured
<1> HIDE DEF b
<1>3. /\ Shape(c) /\ c.profile = b.profile /\ c.running
      /\ c.provider.value = IF e.provider = Start!None THEN b.provider.value ELSE e.provider
      /\ c.provider.source = IF e.provider = Start!None THEN b.provider.source ELSE "env"
      /\ c.model.source = IF e.model = Start!None THEN b.model.source ELSE "env"
  BY <1>1, <1>2, FromEnvironment
<1>4. "openai-compatible" \in Start!Providers
  BY DEF Start!Providers
<1> QED
  BY <1>1, <1>3, <1>4 DEF FileShape, EnvShape

(* A profile that is found is an enabled one, under its own name.           *)
LEMMA ProfileFound ==
  ASSUME SettingsParameters, NEW c, NEW s, NEW p, p = Start!ResolveStateProfile(c, s)
  PROVE  \/ p = Start!NoProfile
         \/ /\ p.name \in DOMAIN Profiles /\ Profiles[p.name] = p /\ p.enabled
            /\ p.provider \in Start!Providers /\ p # Start!NoProfile
            /\ s.profile # Start!None => p.name = s.profile
<1> DEFINE name == IF s.profile # Start!None THEN s.profile ELSE c.provider.value
<1>1. CASE name \in DOMAIN Profiles /\ Profiles[name].enabled
  <2>1. p = Profiles[name]
    BY <1>1 DEF Start!ResolveStateProfile
  <2>2. p.name = name /\ p.provider \in Start!Providers /\ name # Start!None
    BY <1>1, <2>1 DEF SettingsParameters
  <2>3. Start!NoProfile.name = Start!None
    BY DEF Start!NoProfile
  <2> QED
    BY <1>1, <2>1, <2>2, <2>3
<1>2. CASE ~(name \in DOMAIN Profiles /\ Profiles[name].enabled)
  BY <1>2 DEF Start!ResolveStateProfile
<1> QED
  BY <1>1, <1>2

(* What SQLite may give as the provider is one.                             *)
LEMMA StateProviderType ==
  ASSUME SettingsParameters, NEW c, NEW s
  PROVE  Start!StateProvider(c, s) \in Start!Providers \cup {Start!None}
<1> DEFINE p == Start!ResolveStateProfile(c, s)
<1>1. p # Start!NoProfile => p.provider \in Start!Providers
  BY ProfileFound
<1> HIDE DEF p
<1>2. \/ p # Start!NoProfile /\ Start!StateProvider(c, s) = p.provider
      \/ Start!StateProvider(c, s) = s.provider /\ s.provider \in Start!Providers
      \/ Start!StateProvider(c, s) = Start!None
  BY DEF Start!StateProvider, p
<1> QED
  BY <1>1, <1>2

(* The selection fits: the provider is one, the one of the environment or   *)
(* the file if they name one, and the profile is an enabled one of it.      *)
Anchored(c, f, e) ==
  /\ c.provider.value \in Start!Providers
  /\ e.provider # Start!None => c.provider.value = e.provider
  /\ e.provider = Start!None /\ f.id # Start!None => c.provider.value = f.id

ProfileFits(c) ==
  c.profile # Start!None =>
    /\ c.profile \in DOMAIN Profiles /\ Profiles[c.profile].enabled
    /\ Profiles[c.profile].provider = c.provider.value

(* Each start begins with a selection that fits.                            *)
LEMMA StartFits ==
  ASSUME SettingsParameters, NEW f, FileShape(f), NEW e, EnvShape(e), NEW s,
         NEW c, c = Begun(f, e, s)
  PROVE  Shape(c) /\ c.running /\ Anchored(c, f, e) /\ ProfileFits(c)
<1> DEFINE c2 == Configured(f, e)
           c3 == Start!WithStateProvider(c2, s)
           c4 == Start!WithProfile(c3, s)
           c5 == Start!WithLastModel(c4, s)
           p == Start!ResolveStateProfile(c3, s)
<1>1. /\ Shape(c2) /\ c2.profile = Start!None /\ c2.running /\ Anchored(c2, f, e)
      /\ c2.provider.source = "default" => e.provider = Start!None /\ f.id = Start!None
  <2> HIDE DEF c2
  <2>1. c2 = Configured(f, e)
    BY DEF c2
  <2> QED
    BY <2>1, ConfiguredProvider DEF Anchored
<1>2. c = Start!WithLastEffort(c5, s)
  BY DEF Begun, Start!ApplyStateStoreOverrides
<1> HIDE DEF c2
<1>3. /\ Shape(c3) /\ c3.profile = Start!None /\ c3.running
      /\ c3.provider.value = IF Taken(c2, s) THEN Start!StateProvider(c2, s) ELSE c2.provider.value
  BY <1>1, FromState
<1>4. Anchored(c3, f, e)
  <2>1. CASE Taken(c2, s)
    <3>1. c3.provider.value \in Start!Providers
      BY <1>3, <2>1, StateProviderType DEF Taken
    <3> QED
      BY <1>1, <2>1, <3>1 DEF Taken, Anchored
  <2>2. CASE ~Taken(c2, s)
    BY <1>1, <1>3, <2>2 DEF Anchored
  <2> QED
    BY <2>1, <2>2
<1> HIDE DEF c3
<1>5. /\ Shape(c4) /\ c4.provider = c3.provider /\ c4.running
      /\ c4.profile = IF Start!UsesProfile(c3, s) THEN p.name ELSE Start!None
  BY <1>3, FromProfile
<1>6. ProfileFits(c4)
  <2>1. CASE ~Start!UsesProfile(c3, s)
    BY <1>5, <2>1 DEF ProfileFits
  <2>2. CASE Start!UsesProfile(c3, s)
    <3>1. p.provider = c3.provider.value /\ p.provider \in Start!Providers
      BY <1>4, <2>2 DEF Start!UsesProfile, Anchored
    <3>2. p # Start!NoProfile
      BY <3>1 DEF Start!NoProfile, Start!Providers, Start!None
    <3>3. p.name \in DOMAIN Profiles /\ Profiles[p.name] = p /\ p.enabled
      BY <3>2, ProfileFound
    <3> QED
      BY <1>5, <2>2, <3>1, <3>3 DEF ProfileFits
  <2> QED
    BY <2>1, <2>2
<1> HIDE DEF c4
<1>7. /\ Shape(c5) /\ c5.provider = c4.provider /\ c5.running /\ c5.profile = c4.profile
  BY <1>5, FromLastModel
<1> HIDE DEF c5
<1>8. /\ Shape(c) /\ c.provider = c5.provider /\ c.running /\ c.profile = c5.profile
  BY <1>2, <1>7, FromLastEffort
<1> QED
  BY <1>4, <1>5, <1>6, <1>7, <1>8 DEF Anchored, ProfileFits

(* The selection depends on the names in the file and in SQLite alone, not  *)
(* on the efforts in either.                                                *)
LEMMA SameNames ==
  ASSUME SettingsParameters, NEW f, NEW g, FileShape(f), FileShape(g),
         f.id = g.id, f.model = g.model, NEW e, NEW s, NEW t,
         s.provider = t.provider, s.profile = t.profile, s.model = t.model,
         NEW c, NEW d, c = Begun(f, e, s), d = Begun(g, e, t)
  PROVE  Chosen(c) = Chosen(d)
<1> DEFINE cf == Start!LoadSettingsFromToml(f)      df == Start!LoadSettingsFromToml(g)
           ce == Start!ApplyEnvOverrides(cf, e)     de == Start!ApplyEnvOverrides(df, e)
           cs == Start!WithStateProvider(ce, s)     ds == Start!WithStateProvider(de, t)
           cp == Start!WithProfile(cs, s)           dp == Start!WithProfile(ds, t)
           cm == Start!WithLastModel(cp, s)         dm == Start!WithLastModel(dp, t)
<1>1. c = Start!WithLastEffort(cm, s) /\ d = Start!WithLastEffort(dm, t)
  BY DEF Begun, Configured, Start!ApplyStateStoreOverrides
<1>2. Same(cf, df)
  <2> HIDE DEF cf, df
  <2>1. cf = Start!LoadSettingsFromToml(f) /\ df = Start!LoadSettingsFromToml(g)
    BY DEF cf, df
  <2>2. /\ Shape(cf)
        /\ cf.provider.value = IF f.id = Start!None THEN "openai-compatible" ELSE f.id
        /\ cf.provider.source = IF f.id = Start!None THEN "default" ELSE "toml"
        /\ cf.model.source = IF f.model = Start!None THEN "default" ELSE "toml"
        /\ cf.model.value =
              IF f.model # Start!None THEN f.model
              ELSE IF f.id \in Start!WithPreset THEN f.id ELSE "openai"
    BY <2>1, FromFile
  <2>3. /\ Shape(df)
        /\ df.provider.value = IF g.id = Start!None THEN "openai-compatible" ELSE g.id
        /\ df.provider.source = IF g.id = Start!None THEN "default" ELSE "toml"
        /\ df.model.source = IF g.model = Start!None THEN "default" ELSE "toml"
        /\ df.model.value =
              IF g.model # Start!None THEN g.model
              ELSE IF g.id \in Start!WithPreset THEN g.id ELSE "openai"
    BY <2>1, FromFile
  <2> QED
    BY <2>2, <2>3 DEF Same
<1> HIDE DEF cf, df
<1>3. Same(ce, de)
  <2>1. Shape(cf) /\ Shape(df)
    BY <1>2 DEF Same
  <2>2. Start!Explicit(cf.model) <=> Start!Explicit(df.model)
    BY <1>2 DEF Same, Start!Explicit
  <2>3. /\ Shape(ce)
        /\ ce.provider.value = IF e.provider = Start!None THEN cf.provider.value ELSE e.provider
        /\ ce.provider.source = IF e.provider = Start!None THEN cf.provider.source ELSE "env"
        /\ ce.model.source = IF e.model = Start!None THEN cf.model.source ELSE "env"
        /\ ce.model.value =
             IF e.model # Start!None THEN e.model
             ELSE IF /\ e.provider # Start!None /\ e.provider \in Start!WithPreset
                     /\ ~Start!Explicit(cf.model)
                  THEN e.provider ELSE cf.model.value
    BY <2>1, FromEnvironment
  <2>4. /\ Shape(de)
        /\ de.provider.value = IF e.provider = Start!None THEN df.provider.value ELSE e.provider
        /\ de.provider.source = IF e.provider = Start!None THEN df.provider.source ELSE "env"
        /\ de.model.source = IF e.model = Start!None THEN df.model.source ELSE "env"
        /\ de.model.value =
             IF e.model # Start!None THEN e.model
             ELSE IF /\ e.provider # Start!None /\ e.provider \in Start!WithPreset
                     /\ ~Start!Explicit(df.model)
                  THEN e.provider ELSE df.model.value
    BY <2>1, FromEnvironment
  <2> HIDE DEF ce, de
  <2> QED
    BY <1>2, <2>2, <2>3, <2>4 DEF Same
<1> HIDE DEF ce, de
<1>4. Shape(ce) /\ Shape(de)
  BY <1>3 DEF Same
<1>5. /\ Start!StateProvider(ce, s) = Start!StateProvider(de, t)
      /\ Taken(ce, s) <=> Taken(de, t)
  <2>1. Start!ResolveStateProfile(ce, s) = Start!ResolveStateProfile(de, t)
    BY <1>3 DEF Same, Start!ResolveStateProfile
  <2>2. Start!StateProvider(ce, s) = Start!StateProvider(de, t)
    BY <2>1 DEF Start!StateProvider
  <2> QED
    BY <1>3, <2>2 DEF Same, Taken
<1>6. Same(cs, ds)
  <2>1. Start!Explicit(ce.model) <=> Start!Explicit(de.model)
    BY <1>3 DEF Same, Start!Explicit
  <2> DEFINE p == Start!StateProvider(ce, s)
  <2>2. /\ Shape(cs)
        /\ cs.provider.value = IF Taken(ce, s) THEN p ELSE ce.provider.value
        /\ cs.provider.source = IF Taken(ce, s) THEN "store" ELSE ce.provider.source
        /\ cs.model.source = ce.model.source
        /\ cs.model.value =
             IF Taken(ce, s) /\ p \in Start!WithPreset /\ ~Start!Explicit(ce.model)
             THEN p ELSE ce.model.value
    BY <1>4, FromState
  <2>3. /\ Shape(ds)
        /\ ds.provider.value = IF Taken(de, t) THEN p ELSE de.provider.value
        /\ ds.provider.source = IF Taken(de, t) THEN "store" ELSE de.provider.source
        /\ ds.model.source = de.model.source
        /\ ds.model.value =
             IF Taken(de, t) /\ p \in Start!WithPreset /\ ~Start!Explicit(de.model)
             THEN p ELSE de.model.value
    BY <1>4, <1>5, FromState
  <2> HIDE DEF cs, ds, p
  <2> QED
    BY <1>3, <1>5, <2>1, <2>2, <2>3 DEF Same
<1> HIDE DEF cs, ds
<1>7. /\ Start!ResolveStateProfile(cs, s) = Start!ResolveStateProfile(ds, t)
      /\ Start!UsesProfile(cs, s) <=> Start!UsesProfile(ds, t)
      /\ Shape(cs) /\ Shape(ds)
  <2>1. Start!ResolveStateProfile(cs, s) = Start!ResolveStateProfile(ds, t)
    BY <1>6 DEF Same, Start!ResolveStateProfile
  <2> QED
    BY <1>6, <2>1 DEF Same, Start!UsesProfile
<1>8. Same(cp, dp)
  <2> DEFINE m == Start!ResolveStateProfile(cs, s).model
  <2>1. /\ Shape(cp) /\ cp.provider = cs.provider
        /\ cp.model = IF Start!UsesProfile(cs, s) /\ cs.model.source = "default"
                      THEN Start!Override(cs.model, m, "store") ELSE cs.model
    BY <1>7, FromProfile
  <2>2. /\ Shape(dp) /\ dp.provider = ds.provider
        /\ dp.model = IF Start!UsesProfile(ds, t) /\ ds.model.source = "default"
                      THEN Start!Override(ds.model, m, "store") ELSE ds.model
    BY <1>7, FromProfile
  <2> HIDE DEF cp, dp, m
  <2>3. /\ Start!Override(cs.model, m, "store").value = Start!Override(ds.model, m, "store").value
        /\ Start!Override(cs.model, m, "store").source = Start!Override(ds.model, m, "store").source
    BY <1>6 DEF Same, Start!Override, Start!Layer
  <2> QED
    BY <1>6, <1>7, <2>1, <2>2, <2>3 DEF Same
<1> HIDE DEF cp, dp
<1>9. Shape(cp) /\ Shape(dp)
  BY <1>8 DEF Same
<1>10. Same(cm, dm)
  <2>1. /\ Start!MayBeLastModel(cp.model) <=> Start!MayBeLastModel(dp.model)
        /\ Stale(cp, s) <=> Stale(dp, t)
    <3>1. Start!ResolveStateProfile(cp, s) = Start!ResolveStateProfile(dp, t)
      BY <1>8 DEF Same, Start!ResolveStateProfile
    <3>2. Start!UsesProfile(cp, s) <=> Start!UsesProfile(dp, t)
      BY <1>8, <3>1 DEF Same, Start!UsesProfile
    <3> QED
      BY <1>8, <3>2 DEF Same, Stale, Start!MayBeLastModel, Start!IsBuiltInDefault
  <2>2. /\ Shape(cm) /\ cm.provider = cp.provider
        /\ cm.model = IF Start!MayBeLastModel(cp.model) /\ ~Stale(cp, s)
                      THEN Start!Override(cp.model, s.model, "store") ELSE cp.model
    BY <1>9, FromLastModel
  <2>3. /\ Shape(dm) /\ dm.provider = dp.provider
        /\ dm.model = IF Start!MayBeLastModel(dp.model) /\ ~Stale(dp, t)
                      THEN Start!Override(dp.model, s.model, "store") ELSE dp.model
    BY <1>9, FromLastModel
  <2> HIDE DEF cm, dm
  <2>4. /\ Start!Override(cp.model, s.model, "store").value
             = Start!Override(dp.model, s.model, "store").value
        /\ Start!Override(cp.model, s.model, "store").source
             = Start!Override(dp.model, s.model, "store").source
    BY <1>8 DEF Same, Start!Override, Start!Layer
  <2> QED
    BY <1>8, <2>1, <2>2, <2>3, <2>4 DEF Same
<1> HIDE DEF cm, dm
<1>11. c.provider = cm.provider /\ c.model = cm.model
       /\ d.provider = dm.provider /\ d.model = dm.model
  <2>1. Shape(cm) /\ Shape(dm)
    BY <1>10 DEF Same
  <2> QED
    BY <1>1, <2>1, FromLastEffort
<1> QED
  BY <1>10, <1>11 DEF Same, Chosen

(* What a session saved is what the next start selects, if the file and the *)
(* environment name no model: the provider comes from whichever names it,   *)
(* else from SQLite, by the profile or by itself, and the model from SQLite, *)
(* whatever the profile and the presets say.                                *)
LEMMA SavedIsSelected ==
  ASSUME SettingsParameters, NEW f, FileShape(f), NEW e, EnvShape(e), NEW s,
         f.model = Start!None, e.model = Start!None, NEW c, c = Begun(f, e, s),
         NEW was, Anchored(was, f, e), ProfileFits(was), was.model.value \in Models,
         s.provider = was.provider.value, s.profile = was.profile,
         s.model = was.model.value
  PROVE  Chosen(c) = Chosen(was)
<1> DEFINE P == was.provider.value
           ce == Configured(f, e)
           cs == Start!WithStateProvider(ce, s)
           cp == Start!WithProfile(cs, s)
           cm == Start!WithLastModel(cp, s)
<1>1. c = Start!WithLastEffort(cm, s)
  BY DEF Begun, Start!ApplyStateStoreOverrides
<1>2. /\ Shape(ce)
      /\ e.provider # Start!None => ce.provider.value = e.provider
      /\ e.provider = Start!None /\ f.id # Start!None => ce.provider.value = f.id
      /\ ce.provider.source = "default" <=> e.provider = Start!None /\ f.id = Start!None
      /\ ce.model.source = "default"
  <2> HIDE DEF ce
  <2>1. ce = Configured(f, e)
    BY DEF ce
  <2> QED
    BY <2>1, ConfiguredProvider
<1>3. P \in Start!Providers /\ P # Start!None
  BY DEF Anchored, Start!Providers, Start!None
<1> HIDE DEF ce
<1>4. Start!StateProvider(ce, s) = P
  <2>1. CASE was.profile = Start!None
    BY <1>3, <2>1 DEF Start!StateProvider
  <2>2. CASE was.profile # Start!None
    <3> DEFINE p == Start!ResolveStateProfile(ce, s)
    <3>1. p = Profiles[was.profile] /\ p.enabled /\ p.provider = P
      BY <2>2 DEF ProfileFits, Start!ResolveStateProfile
    <3>2. p # Start!NoProfile
      BY <1>3, <3>1 DEF Start!NoProfile
    <3> QED
      BY <2>2, <3>1, <3>2 DEF Start!StateProvider
  <2> QED
    BY <2>1, <2>2
<1>5. /\ Shape(cs) /\ cs.provider.value = P /\ cs.provider.source # "default"
      /\ cs.model.source = "default"
  <2>1. /\ Shape(cs)
        /\ cs.provider.value = IF Taken(ce, s) THEN P ELSE ce.provider.value
        /\ cs.provider.source = IF Taken(ce, s) THEN "store" ELSE ce.provider.source
        /\ cs.model.source = ce.model.source
    BY <1>2, <1>4, FromState
  <2>2. Taken(ce, s) <=> ce.provider.source = "default"
    BY <1>3, <1>4 DEF Taken
  <2> HIDE DEF cs
  <2> QED
    BY <1>2, <2>1, <2>2 DEF Anchored
<1> HIDE DEF cs
<1>6. /\ Shape(cp) /\ cp.provider = cs.provider /\ cp.model.source \in {"default", "store"}
  <2> DEFINE m == Start!ResolveStateProfile(cs, s).model
  <2>1. /\ Shape(cp) /\ cp.provider = cs.provider
        /\ cp.model = IF Start!UsesProfile(cs, s) /\ cs.model.source = "default"
                      THEN Start!Override(cs.model, m, "store") ELSE cs.model
    BY <1>5, FromProfile
  <2>2. Start!Override(cs.model, m, "store").source \in {"default", "store"}
    BY <1>5 DEF Start!Override, Start!Layer
  <2> HIDE DEF cp, m
  <2> QED
    BY <1>5, <2>1, <2>2
<1> HIDE DEF cp
<1>7. ~Stale(cp, s) /\ Start!MayBeLastModel(cp.model)
  BY <1>5, <1>6 DEF Stale, Start!IsBuiltInDefault, Start!MayBeLastModel
<1>8. /\ Shape(cm) /\ cm.provider = cp.provider
      /\ cm.model = Start!Override(cp.model, s.model, "store")
  BY <1>6, <1>7, FromLastModel
<1>9. cm.model.value = was.model.value
  BY <1>8 DEF Start!Override, Start!Layer, SettingsParameters
<1> HIDE DEF cm
<1>10. c.provider = cm.provider /\ c.model = cm.model
  BY <1>1, <1>8, FromLastEffort
<1> QED
  BY <1>5, <1>6, <1>8, <1>9, <1>10 DEF Chosen
-----------------------------------------------------------------------------
(*                     A SELECTION THAT WAS SAVED RETURNS                  *)

(* The settings file, or what it is about to become.                        *)
Base ==
  IF saving # <<>> /\ Head(saving).what = "file" THEN Head(saving).value ELSE settings

(* The writes a running process has ahead: none, an effort's, or what is    *)
(* left of a selection's, of which the first ones are made if none failed.  *)
EffortWrites ==
  \/ saving = <<>>
  \/ \E e \in Efforts \cup {Start!None} :
       \/ saving = <<Start!Write("effort", e)>>
       \/ saving = <<Start!Write("file", Base), Start!Write("effort", e)>>

ProviderWrite == Start!Write("provider", config.provider.value)
ProfileWrite == Start!Write("profile", config.profile)
ModelWrite == Start!Write("model", config.model.value)

SelectionWrites ==
  /\ config.model.value \in Models
  /\ \/ saving = <<ProviderWrite, ProfileWrite, ModelWrite>>
     \/ /\ saving = <<ProfileWrite, ModelWrite>>
        /\ left # Start!Unsaved => remembered.provider = config.provider.value
     \/ /\ saving = <<ModelWrite>>
        /\ left # Start!Unsaved =>
             /\ remembered.provider = config.provider.value
             /\ remembered.profile = config.profile

(* A start would select what is in use, unless a write of it failed, is     *)
(* still to come, or is overruled by a model in the file or environment.    *)
Overruled == Base.model # Start!None \/ environment.model # Start!None

Returns(selection) ==
  ~Overruled => Chosen(Begun(Base, environment, remembered)) = selection

RunningInv ==
  /\ Shape(config) /\ Anchored(config, Base, environment) /\ ProfileFits(config)
  /\ \/ EffortWrites /\ (left # Start!Unsaved => Returns(Chosen(config)))
     \/ SelectionWrites

SelectionInv ==
  /\ FileShape(settings) /\ FileShape(Base) /\ EnvShape(environment)
  /\ DOMAIN remembered = {"provider", "profile", "model", "efforts"}
  /\ config.running \in BOOLEAN
  /\ ~config.running => saving = <<>> /\ (Len(left) = 2 => Returns(left))
  /\ config.running => RunningInv

(* The writes one by one.                                                   *)
LEMMA WritesInOrder ==
  ASSUME NEW s, NEW a, NEW b, NEW c
  PROVE  /\ s = <<a>> => s # <<>> /\ Head(s) = a /\ Tail(s) = <<>>
         /\ s = <<a, b>> => s # <<>> /\ Head(s) = a /\ Tail(s) = <<b>>
         /\ s = <<a, b, c>> => s # <<>> /\ Head(s) = a /\ Tail(s) = <<b, c>>
<1>1. Tail(<<a>>) = <<>> /\ Tail(<<a, b>>) = <<b>> /\ Tail(<<a, b, c>>) = <<b, c>>
  OBVIOUS
<1>2. Head(<<a>>) = a /\ Head(<<a, b>>) = a /\ Head(<<a, b, c>>) = a
  OBVIOUS
<1>3. <<a>> # <<>> /\ <<a, b>> # <<>> /\ <<a, b, c>> # <<>>
  OBVIOUS
<1>4. CASE s = <<a>>
  <2>1. s # <<>> /\ Head(s) = a /\ Tail(s) = <<>>
    BY <1>1, <1>2, <1>3, <1>4, Zenon
  <2> QED
    BY <1>4, <2>1
<1>5. CASE s = <<a, b>>
  <2>1. s # <<>> /\ Head(s) = a /\ Tail(s) = <<b>>
    BY <1>1, <1>2, <1>3, <1>5, Zenon
  <2> QED
    BY <1>5, <2>1
<1>6. CASE s = <<a, b, c>>
  <2>1. s # <<>> /\ Head(s) = a /\ Tail(s) = <<b, c>>
    BY <1>1, <1>2, <1>3, <1>6, Zenon
  <2> QED
    BY <1>6, <2>1
<1> QED
  BY <1>4, <1>5, <1>6

(* A name that was written down is read back, and the others stay.          *)
LEMMA StoredName ==
  ASSUME NEW value, NEW what \in {"provider", "profile", "model", "effort"},
         DOMAIN remembered = {"provider", "profile", "model", "efforts"},
         remembered' = Start!StoredAfter(Start!Write(what, value))
  PROVE  /\ DOMAIN remembered' = {"provider", "profile", "model", "efforts"}
         /\ remembered'.provider = IF what = "provider" THEN value ELSE remembered.provider
         /\ remembered'.profile = IF what = "profile" THEN value ELSE remembered.profile
         /\ remembered'.model = IF what = "model" THEN value ELSE remembered.model
<1> DEFINE w == Start!Write(what, value)
<1>1. w.what = what /\ w.value = value
  BY DEF Start!Write
<1> HIDE DEF w
<1>2. remembered' = Start!StoredAfter(w)
  BY DEF w
<1>3. CASE what = "effort"
  BY <1>1, <1>2, <1>3 DEF Start!StoredAfter
<1>4. CASE what # "effort"
  <2>1. remembered' = [remembered EXCEPT ![what] = value]
    BY <1>1, <1>2, <1>4 DEF Start!StoredAfter
  <2> QED
    BY <1>4, <2>1
<1> QED
  BY <1>3, <1>4

(* A start, and what the user changes between two of them.                  *)
LEMMA OutsideStep ==
  ASSUME SettingsParameters, SelectionInv,
         \/ Start!LoadChatConfig
         \/ \E f \in FilesOfUser : Start!EditFile(f)
         \/ \E e \in EnvsOfUser : Start!SetEnv(e)
  PROVE  SelectionInv'
<1>1. ~config.running /\ saving = <<>> /\ saving' = saving /\ remembered' = remembered
  BY DEF Start!LoadChatConfig, Start!EditFile, Start!SetEnv, SelectionInv
<1>2. Base = settings /\ Base' = settings'
  BY <1>1 DEF Base
<1>3. CASE Start!LoadChatConfig
  <2>1. /\ config' = Begun(settings, environment, remembered)
        /\ settings' = settings /\ environment' = environment
    BY <1>3 DEF Start!LoadChatConfig, Start!Loaded, Begun, Configured
  <2>2. /\ Shape(config') /\ config'.running /\ Anchored(config', settings, environment)
        /\ ProfileFits(config')
    BY <2>1, StartFits DEF SelectionInv
  <2>3. EffortWrites' /\ Returns(Chosen(config))'
    BY <1>1, <1>2, <2>1 DEF EffortWrites, Returns
  <2>4. RunningInv'
    BY <1>2, <2>1, <2>2, <2>3 DEF RunningInv
  <2> QED
    BY <1>1, <1>2, <2>1, <2>2, <2>4 DEF SelectionInv
<1>4. CASE (\E f \in FilesOfUser : Start!EditFile(f)) \/ (\E e \in EnvsOfUser : Start!SetEnv(e))
  <2>1. /\ config' = config /\ left' = <<>>
        /\ FileShape(settings') /\ EnvShape(environment')
    BY <1>4 DEF Start!EditFile, Start!SetEnv, Start!NoSelection, SettingsParameters, SelectionInv
  <2>2. Len(left') # 2
    BY <2>1
  <2> QED
    BY <1>1, <1>2, <2>1, <2>2 DEF SelectionInv
<1> QED
  BY <1>3, <1>4

(* The commands: neither changes what a start reads a selection from.       *)
LEMMA EnteredStep ==
  ASSUME SettingsParameters, SelectionInv,
         \/ \E m \in Models : Start!SetModel(m)
         \/ \E e \in Efforts \cup {Start!None} : Start!HandleEffortCommand(e)
  PROVE  SelectionInv'
<1>1. /\ config.running /\ saving = <<>>
      /\ environment' = environment /\ remembered' = remembered /\ left' = left
  BY DEF Start!SetModel, Start!HandleEffortCommand, Start!Ready
<1>2. Base = settings /\ RunningInv
  BY <1>1 DEF Base, SelectionInv
<1>3. ASSUME NEW m \in Models, Start!SetModel(m)
      PROVE  SelectionInv'
  <2>1. /\ config' = [config EXCEPT !.model.value = m] /\ settings' = settings
        /\ saving' = <<ProviderWrite, ProfileWrite, Start!Write("model", m)>>
    BY <1>3 DEF Start!SetModel, ProviderWrite, ProfileWrite
  <2>2. /\ Shape(config') /\ config'.provider = config.provider
        /\ config'.profile = config.profile /\ config'.model.value = m /\ config'.running
    BY <1>1, <1>2, <2>1 DEF RunningInv, Shape, Fields, LayerFields
  <2>3. saving' = <<ProviderWrite, ProfileWrite, ModelWrite>>'
    BY <2>1, <2>2 DEF ProviderWrite, ProfileWrite, ModelWrite
  <2>4. SelectionWrites'
    BY <2>2, <2>3 DEF SelectionWrites
  <2>5. Head(saving') = ProviderWrite
    BY <2>1
  <2>6. Base' = settings'
    BY <2>5 DEF Base, ProviderWrite, Start!Write
  <2>7. RunningInv'
    BY <1>1, <1>2, <2>1, <2>2, <2>4, <2>6 DEF RunningInv, Anchored, ProfileFits
  <2> QED
    BY <1>1, <1>2, <2>1, <2>2, <2>6, <2>7 DEF SelectionInv
<1>4. ASSUME NEW e \in Efforts \cup {Start!None}, Start!HandleEffortCommand(e)
      PROVE  SelectionInv'
  <2> DEFINE f == Start!Edited(e)
  <2>1. /\ config' = config /\ settings' \in {settings, Start!EmptyFile}
        /\ saving' = <<Start!Write("file", f), Start!Write("effort", e)>>
    BY <1>4 DEF Start!HandleEffortCommand
  <2>2. /\ FileShape(f) /\ f.id = settings.id /\ f.model = settings.model
    BY DEF Start!Edited, FileShape, SelectionInv
  <2>3. FileShape(settings')
    BY <2>1 DEF Start!EmptyFile, FileShape, SelectionInv
  <2> HIDE DEF f
  <2>4. Head(saving') = Start!Write("file", f) /\ saving' # <<>>
    BY <2>1
  <2>5. Base' = f
    BY <2>4 DEF Base, Start!Write
  <2>6. EffortWrites'
    BY <2>1, <2>5 DEF EffortWrites
  <2>7. Chosen(Begun(f, environment, remembered))
          = Chosen(Begun(settings, environment, remembered))
    BY <2>2, SameNames DEF SelectionInv
  <2>8. left # Start!Unsaved => Returns(Chosen(config))
    <3>1. ~SelectionWrites
      BY <1>1 DEF SelectionWrites
    <3> QED
      BY <1>2, <3>1 DEF RunningInv
  <2>9. left' # Start!Unsaved => Returns(Chosen(config))'
    BY <1>1, <1>2, <2>1, <2>2, <2>5, <2>7, <2>8 DEF Returns, Overruled
  <2>10. RunningInv'
    BY <1>1, <1>2, <2>1, <2>2, <2>5, <2>6, <2>9 DEF RunningInv, Anchored
  <2> QED
    BY <1>1, <2>1, <2>2, <2>3, <2>5, <2>10 DEF SelectionInv
<1>5. CASE \E m \in Models : Start!SetModel(m)
  BY <1>3, <1>5, Zenon
<1>6. CASE \E e \in Efforts \cup {Start!None} : Start!HandleEffortCommand(e)
  BY <1>4, <1>6, Zenon
<1> QED
  BY <1>5, <1>6

(* What heads the writes ahead, and what is left behind it.                 *)
LEMMA NextWrite ==
  ASSUME SelectionInv, config.running, saving # <<>>
  PROVE  \/ /\ EffortWrites
            /\ \E e \in Efforts \cup {Start!None} :
                 \/ saving = <<Start!Write("effort", e)>>
                 \/ saving = <<Start!Write("file", Base), Start!Write("effort", e)>>
            /\ left # Start!Unsaved => Returns(Chosen(config))
         \/ SelectionWrites /\ Head(saving).what \in {"provider", "profile", "model"}
<1>1. CASE EffortWrites /\ (left # Start!Unsaved => Returns(Chosen(config)))
  BY <1>1 DEF EffortWrites
<1>2. CASE SelectionWrites
  <2>1. Head(saving) \in {ProviderWrite, ProfileWrite, ModelWrite}
    BY <1>2, WritesInOrder DEF SelectionWrites
  <2> QED
    BY <1>2, <2>1 DEF ProviderWrite, ProfileWrite, ModelWrite, Start!Write
<1> QED
  BY <1>1, <1>2 DEF SelectionInv, RunningInv

(* A write of the effort, made or failed, ends its writes.                  *)
LEMMA EffortWriteStep ==
  ASSUME SettingsParameters, SelectionInv, config.running,
         NEW e \in Efforts \cup {Start!None}, saving = <<Start!Write("effort", e)>>,
         left # Start!Unsaved => Returns(Chosen(config)),
         Start!SaveRuntimeAppState \/ Start!SaveFails
  PROVE  SelectionInv'
<1>1. /\ saving' = <<>> /\ settings' = settings /\ environment' = environment
      /\ config' = config
  BY WritesInOrder DEF Start!SaveRuntimeAppState, Start!SaveFails
<1>2. Base = settings /\ Base' = settings
  BY <1>1, WritesInOrder DEF Base, Start!Write
<1>3. /\ DOMAIN remembered' = {"provider", "profile", "model", "efforts"}
      /\ remembered'.provider = remembered.provider
      /\ remembered'.profile = remembered.profile
      /\ remembered'.model = remembered.model
  <2>1. CASE Start!SaveFails
    BY <2>1 DEF Start!SaveFails, SelectionInv
  <2>2. CASE Start!SaveRuntimeAppState
    <3>1. remembered' = Start!StoredAfter(Start!Write("effort", e))
      BY <2>2, WritesInOrder DEF Start!SaveRuntimeAppState
    <3> QED
      BY <3>1, StoredName DEF SelectionInv
  <2> QED
    BY <2>1, <2>2
<1>4. Chosen(Begun(settings, environment, remembered'))
        = Chosen(Begun(settings, environment, remembered))
  BY <1>3, SameNames DEF SelectionInv
<1>5. left' = left \/ left' = Start!Unsaved
  BY DEF Start!SaveRuntimeAppState, Start!SaveFails
<1>6. left' # Start!Unsaved => Returns(Chosen(config))'
  BY <1>1, <1>2, <1>4, <1>5 DEF Returns, Overruled
<1>7. EffortWrites'
  BY <1>1 DEF EffortWrites
<1>8. RunningInv'
  BY <1>1, <1>2, <1>6, <1>7 DEF RunningInv, SelectionInv
<1> QED
  BY <1>1, <1>2, <1>3, <1>8 DEF SelectionInv

(* The text of the file is written: it is then what it was about to become. *)
LEMMA FileWriteStep ==
  ASSUME SettingsParameters, SelectionInv, config.running, Start!WriteTextFile
  PROVE  SelectionInv'
<1>1. saving # <<>> /\ Head(saving).what = "file"
  BY DEF Start!WriteTextFile
<1>2. PICK e \in Efforts \cup {Start!None} :
        saving = <<Start!Write("file", Base), Start!Write("effort", e)>>
  <2>1. \A x : Start!Write("effort", x).what = "effort"
    BY DEF Start!Write
  <2> QED
    BY <1>1, <2>1, NextWrite, WritesInOrder
<1>3. left # Start!Unsaved => Returns(Chosen(config))
  BY <1>1, NextWrite
<1>4. /\ settings' = Base /\ saving' = <<Start!Write("effort", e)>>
      /\ environment' = environment /\ remembered' = remembered /\ left' = left
  BY <1>1, <1>2, WritesInOrder DEF Start!WriteTextFile, Base
<1>5. Base' = Base
  BY <1>4, WritesInOrder DEF Base, Start!Write
<1>6. /\ Shape(config') /\ config'.running /\ config'.provider = config.provider
      /\ config'.profile = config.profile /\ config'.model = config.model
  <2>1. PICK x : config' = [config EXCEPT !.settings = x]
    BY DEF Start!WriteTextFile
  <2> QED
    BY <2>1 DEF SelectionInv, RunningInv, Shape, Fields
<1>7. Returns(Chosen(config))' <=> Returns(Chosen(config))
  BY <1>4, <1>5, <1>6 DEF Returns, Overruled, Chosen
<1>8. EffortWrites'
  BY <1>4 DEF EffortWrites
<1>9. RunningInv'
  BY <1>3, <1>4, <1>5, <1>6, <1>7, <1>8
     DEF RunningInv, SelectionInv, Anchored, ProfileFits
<1> QED
  BY <1>4, <1>5, <1>6, <1>9 DEF SelectionInv

(* A write of the selection, made or failed.  After the last one, if none   *)
(* failed, a start finds provider, profile and model as they are in use.    *)
LEMMA SelectionWriteStep ==
  ASSUME SettingsParameters, SelectionInv, config.running, SelectionWrites,
         Start!SaveRuntimeAppState \/ Start!SaveFails
  PROVE  SelectionInv'
<1>1. /\ saving' = Tail(saving) /\ settings' = settings /\ environment' = environment
      /\ config' = config /\ saving # <<>>
      /\ left' = left \/ left' = Start!Unsaved
      /\ \/ left' = Start!Unsaved /\ remembered' = remembered
         \/ left' = left /\ remembered' = Start!StoredAfter(Head(saving))
  BY DEF Start!SaveRuntimeAppState, Start!SaveFails
<1>2. /\ ProviderWrite' = ProviderWrite /\ ProfileWrite' = ProfileWrite
      /\ ModelWrite' = ModelWrite
  BY <1>1 DEF ProviderWrite, ProfileWrite, ModelWrite
<1>3. \A w \in {ProviderWrite, ProfileWrite, ModelWrite} : w.what # "file"
  BY DEF ProviderWrite, ProfileWrite, ModelWrite, Start!Write
<1>4. RunningInv /\ Base = settings
  <2>1. Head(saving) \in {ProviderWrite, ProfileWrite, ModelWrite}
    BY WritesInOrder DEF SelectionWrites
  <2> QED
    BY <1>3, <2>1 DEF SelectionInv, Base
<1>5. /\ \/ saving = <<ProviderWrite, ProfileWrite, ModelWrite>>
            /\ saving' = <<ProfileWrite, ModelWrite>> /\ Head(saving) = ProviderWrite
         \/ saving = <<ProfileWrite, ModelWrite>>
            /\ saving' = <<ModelWrite>> /\ Head(saving) = ProfileWrite
         \/ saving = <<ModelWrite>> /\ saving' = <<>> /\ Head(saving) = ModelWrite
      /\ config.model.value \in Models
  BY <1>1, WritesInOrder DEF SelectionWrites
<1>6. Base' = settings
  <2>1. saving' # <<>> => Head(saving') \in {ProfileWrite, ModelWrite}
    BY <1>5, WritesInOrder
  <2> QED
    BY <1>1, <1>3, <2>1 DEF Base
<1>7. DOMAIN remembered' = {"provider", "profile", "model", "efforts"}
  BY <1>1, <1>5, StoredName DEF SelectionInv, ProviderWrite, ProfileWrite, ModelWrite
<1>8. SelectionWrites' \/ (EffortWrites' /\ (left' # Start!Unsaved => Returns(Chosen(config))'))
  <2>1. CASE Head(saving) = ProviderWrite /\ saving' = <<ProfileWrite, ModelWrite>>
    <3>1. left' # Start!Unsaved => remembered'.provider = config.provider.value
      BY <1>1, <2>1, StoredName DEF SelectionInv, ProviderWrite
    <3> QED
      BY <1>1, <1>2, <1>5, <2>1, <3>1 DEF SelectionWrites
  <2>2. CASE /\ saving = <<ProfileWrite, ModelWrite>>
             /\ Head(saving) = ProfileWrite /\ saving' = <<ModelWrite>>
    <3>1. left # Start!Unsaved => remembered.provider = config.provider.value
      <4>1. saving # <<ProviderWrite, ProfileWrite, ModelWrite>> /\ saving # <<ModelWrite>>
        BY <2>2
      <4> QED
        BY <4>1 DEF SelectionWrites
    <3>2. left' # Start!Unsaved => /\ remembered'.provider = config.provider.value
                                   /\ remembered'.profile = config.profile
      BY <1>1, <2>2, <3>1, StoredName DEF SelectionInv, ProfileWrite
    <3> QED
      BY <1>1, <1>2, <1>5, <2>2, <3>2 DEF SelectionWrites
  <2>3. CASE /\ saving = <<ModelWrite>>
             /\ Head(saving) = ModelWrite /\ saving' = <<>>
    <3>1. left # Start!Unsaved => /\ remembered.provider = config.provider.value
                                  /\ remembered.profile = config.profile
      <4>1. saving # <<ProviderWrite, ProfileWrite, ModelWrite>>
              /\ saving # <<ProfileWrite, ModelWrite>>
        BY <2>3
      <4> QED
        BY <4>1 DEF SelectionWrites
    <3>2. left' # Start!Unsaved => /\ remembered'.provider = config.provider.value
                                   /\ remembered'.profile = config.profile
                                   /\ remembered'.model = config.model.value
      BY <1>1, <2>3, <3>1, StoredName DEF SelectionInv, ModelWrite
    <3>3. Anchored(config, settings, environment) /\ ProfileFits(config)
      BY <1>4 DEF RunningInv
    <3>4. left' # Start!Unsaved /\ settings.model = Start!None /\ environment.model = Start!None =>
            Chosen(Begun(settings, environment, remembered')) = Chosen(config)
      BY <1>5, <3>2, <3>3, SavedIsSelected DEF SelectionInv
    <3>5. left' # Start!Unsaved => Returns(Chosen(config))'
      BY <1>1, <1>6, <3>4 DEF Returns, Overruled
    <3>6. EffortWrites'
      BY <2>3 DEF EffortWrites
    <3> QED
      BY <3>5, <3>6
  <2> QED
    BY <1>5, <2>1, <2>2, <2>3
<1>9. RunningInv'
  BY <1>1, <1>4, <1>6, <1>8 DEF RunningInv
<1> QED
  BY <1>1, <1>4, <1>6, <1>7, <1>9 DEF SelectionInv

(* What a session ends with.                                                *)
LEMMA EndStep ==
  ASSUME SettingsParameters, SelectionInv, Start!Quit \/ Start!Crash
  PROVE  SelectionInv'
<1>1. /\ config.running /\ config' = Start!Off /\ environment' = environment
      /\ remembered' = remembered /\ settings' = settings /\ saving' = <<>>
  BY DEF Start!Quit, Start!Crash, Start!Ready
<1>2. ~config'.running /\ config'.running \in BOOLEAN
  BY <1>1 DEF Start!Off
<1>3. Base' = settings
  BY <1>1 DEF Base
<1>4. Len(left') = 2 => Returns(left)'
  <2>1. CASE Start!Crash \/ left = Start!Unsaved
    <3>1. left' = <<>>
      BY <2>1 DEF Start!Quit, Start!Crash, Start!NoSelection
    <3> QED
      BY <3>1
  <2>2. CASE Start!Quit /\ left # Start!Unsaved
    <3>1. saving = <<>> /\ left' = Chosen(config)
      BY <2>2 DEF Start!Quit, Start!Ready, Start!Selection, Chosen
    <3>2. Returns(Chosen(config)) /\ Base = settings
      BY <1>1, <2>2, <3>1 DEF SelectionInv, RunningInv, SelectionWrites, Base
    <3> QED
      BY <1>1, <1>3, <3>1, <3>2 DEF Returns, Overruled
  <2> QED
    BY <2>1, <2>2
<1> QED
  BY <1>1, <1>2, <1>3, <1>4 DEF SelectionInv

(* A session that saved its provider and model comes back with them, when   *)
(* neither file nor environment was changed since nor names a model: for    *)
(* any models, efforts and profiles, whatever presets and profiles say and  *)
(* whichever writes failed before (LoadChatConfigResultFrom and             *)
(* SaveRuntimeSelection).                                                   *)
THEOREM SelectionsReturn ==
  ASSUME SettingsParameters
  PROVE  Start!Spec => []Start!SelectionReturns
<1>1. Start!Init => SelectionInv
  <2> SUFFICES ASSUME Start!Init PROVE SelectionInv
    OBVIOUS
  <2>1. Base = settings /\ saving = <<>>
    BY DEF Start!Init, Base
  <2>2. FileShape(settings) /\ EnvShape(environment)
    BY DEF Start!Init, Start!EmptyFile, FileShape, EnvShape
  <2>3. Len(left) # 2
    BY DEF Start!Init, Start!NoSelection
  <2>4. DOMAIN remembered = {"provider", "profile", "model", "efforts"}
    BY DEF Start!Init, Start!NothingStored
  <2> QED
    BY <2>1, <2>2, <2>3, <2>4 DEF Start!Init, Start!Off, SelectionInv
<1>2. SelectionInv /\ [Start!Next]_(Start!vars) => SelectionInv'
  <2> SUFFICES ASSUME SelectionInv, [Start!Next]_(Start!vars) PROVE SelectionInv'
    OBVIOUS
  <2>1. CASE UNCHANGED Start!vars
    BY <2>1 DEF Start!vars, SelectionInv, Base, Returns, Overruled, RunningInv,
       EffortWrites, SelectionWrites, ProviderWrite, ProfileWrite, ModelWrite
  <2>2. CASE Start!WriteTextFile \/ Start!SaveRuntimeAppState \/ Start!SaveFails
    <3>1. saving # <<>> /\ config.running
      BY <2>2 DEF Start!WriteTextFile, Start!SaveRuntimeAppState, Start!SaveFails, SelectionInv
    <3>2. CASE Start!WriteTextFile
      BY <3>1, <3>2, FileWriteStep
    <3>3. CASE (Start!SaveRuntimeAppState \/ Start!SaveFails) /\ SelectionWrites
      BY <3>1, <3>3, SelectionWriteStep
    <3>4. CASE (Start!SaveRuntimeAppState \/ Start!SaveFails) /\ ~SelectionWrites
      <4>1. Head(saving).what # "file"
        BY <3>4 DEF Start!SaveRuntimeAppState, Start!SaveFails
      <4>2. \A x : Start!Write("file", x).what = "file"
        BY DEF Start!Write
      <4>3. \E e \in Efforts \cup {Start!None} : saving = <<Start!Write("effort", e)>>
        BY <3>1, <3>4, <4>1, <4>2, NextWrite, WritesInOrder
      <4>4. left # Start!Unsaved => Returns(Chosen(config))
        BY <3>1, <3>4, NextWrite
      <4> QED
        BY <3>1, <3>4, <4>3, <4>4, EffortWriteStep
    <3> QED
      BY <2>2, <3>2, <3>3, <3>4
  <2>3. CASE \/ Start!LoadChatConfig
             \/ \E f \in FilesOfUser : Start!EditFile(f)
             \/ \E e \in EnvsOfUser : Start!SetEnv(e)
    BY <2>3, OutsideStep
  <2>4. CASE \/ \E m \in Models : Start!SetModel(m)
             \/ \E e \in Efforts \cup {Start!None} : Start!HandleEffortCommand(e)
    BY <2>4, EnteredStep
  <2>5. CASE Start!Quit \/ Start!Crash
    BY <2>5, EndStep
  <2> QED
    BY <2>1, <2>2, <2>3, <2>4, <2>5, Zenon DEF Start!Next
<1>3. SelectionInv => Start!SelectionReturns
  <2>1. Start!Loaded = Begun(settings, environment, remembered)
    BY DEF Start!Loaded, Begun, Configured
  <2> QED
    BY <2>1 DEF SelectionInv, Start!SelectionReturns, Returns, Overruled, Chosen, Base
<1> QED
  BY <1>1, <1>2, <1>3, PTL DEF Start!Spec
=============================================================================
