------------------------------ MODULE OpenAiAuth ------------------------------
(***************************************************************************)
(* The OpenAI credential of one YAC process: the provider's requests, the  *)
(* refresh of the token they share, and the /auth commands.                *)
(*                                                                         *)
(* A credential is an OAuth token pair, by its number.  The token endpoint *)
(* rotates: a refresh spends the refresh token and issues the next pair.   *)
(* The provider and the /auth command own an OpenAiAuthStore each; a store *)
(* reads SQLite once and keeps what it read, and only its own writes renew *)
(* that memory.                                                            *)
(***************************************************************************)
EXTENDS Naturals

CONSTANTS
  Requests,   \* requests that may run at once: the chat and its sub-agents
  MaxTokens   \* bound: token pairs the endpoint issues

VARIABLES
  sqlite,   \* the credential in the state store, 0 when there is none
  legacy,   \* the keychain or file credential, and whether its import is off
  cache,    \* cached_auth_ of each store
  issued,   \* what the endpoint knows of each pair it has issued
  spent,    \* the refresh tokens that have been used
  request,  \* each request
  holder,   \* who holds refresh_mutex_
  login,    \* the thread of /auth openai login
  ui,       \* the thread that runs the commands
  ghost     \* what the properties remember

vars == <<sqlite, legacy, cache, issued, spent, request, holder, login, ui, ghost>>

Tokens == 1..MaxTokens
None == 0
Unread == MaxTokens + 1
Stores == {"provider", "command"}
NoRequest == "nobody"

TypeOK ==
  /\ sqlite \in Tokens \cup {None}
  /\ legacy \in [token : Tokens \cup {None}, disabled : BOOLEAN]
  /\ cache \in [Stores -> Tokens \cup {None, Unread}]
  /\ issued \in [Tokens -> {"no", "live", "expired", "revoked"}]
  /\ spent \subseteq Tokens
  /\ request \in [Requests ->
       [at : {"idle", "checking", "locking", "refreshing", "saving", "sending"},
        auth : Tokens \cup {None}, retried : BOOLEAN]]
  /\ holder \in Requests \cup {NoRequest}
  /\ login \in {"none", "waiting", "exchanging"}
  /\ ui \in {"free", "joining"}
  /\ ghost \in [refused : BOOLEAN, lost : BOOLEAN]

Idle == [at |-> "idle", auth |-> None, retried |-> FALSE]

(* A legacy credential of an earlier version of YAC, or none.              *)
Init ==
  /\ sqlite = None
  /\ legacy \in [token : {None, 1}, disabled : {FALSE}]
  /\ cache = [s \in Stores |-> Unread]
  /\ issued = [t \in Tokens |-> IF t = legacy.token THEN "live" ELSE "no"]
  /\ spent = {}
  /\ request = [r \in Requests |-> Idle]
  /\ holder = NoRequest
  /\ login = "none"
  /\ ui = "free"
  /\ ghost = [refused |-> FALSE, lost |-> FALSE]

-----------------------------------------------------------------------------
(* OpenAiAuthStore.                                                        *)

Importable == IF legacy.disabled THEN None ELSE legacy.token

(* What Load returns: the memory, else SQLite, else the legacy store.      *)
Loaded(store) ==
  IF cache[store] # Unread THEN cache[store]
  ELSE IF sqlite # None THEN sqlite ELSE Importable

(* What Load leaves: the memory holds what was read, an absence too, and a *)
(* legacy credential is copied to SQLite, or not when the write fails.     *)
Load(store) ==
  /\ cache' = [cache EXCEPT ![store] = Loaded(store)]
  /\ IF cache[store] = Unread /\ sqlite = None
     THEN sqlite' \in {None, Loaded(store)}
     ELSE UNCHANGED sqlite

Save(store, t) ==
  /\ sqlite' = t
  /\ cache' = [cache EXCEPT ![store] = t]
  /\ legacy' = [legacy EXCEPT !.disabled = FALSE]

Issue(t) ==
  /\ issued[t] = "no"
  /\ \A s \in 1..(t - 1) : issued[s] # "no" \/ (s = 1 /\ legacy.token = None)

-----------------------------------------------------------------------------
(* One request of OpenAiChatProvider.                                      *)

At(r, place) == request[r].at = place
Goes(r, place) == request' = [request EXCEPT ![r].at = place]
Ends(r) == request' = [request EXCEPT ![r] = Idle]

(* ResolveEffectiveAuth, when neither the environment nor the settings     *)
(* hold a key: the store of the flow, else SQLite itself.                  *)
Effective == IF Loaded("provider") # None THEN Loaded("provider") ELSE sqlite

CompleteStream(r) ==
  /\ At(r, "idle")
  /\ Load("provider")
  /\ IF Effective = None THEN UNCHANGED request
     ELSE request' = [request EXCEPT ![r].at = "checking", ![r].auth = Effective]
  /\ UNCHANGED <<legacy, issued, spent, holder, login, ui, ghost>>

NeedsRefresh(t) == issued[t] = "expired"

RefreshIfNeeded(r) ==
  /\ At(r, "checking")
  /\ Goes(r, IF NeedsRefresh(request[r].auth) THEN "locking" ELSE "sending")
  /\ UNCHANGED <<sqlite, legacy, cache, issued, spent, holder, login, ui, ghost>>

(* Under the mutex the stored credential replaces the caller's.            *)
Current(r) ==
  IF Loaded("provider") # None THEN Loaded("provider") ELSE request[r].auth
OwnCredential(r) == request[r].auth
Reloaded(r) == Current(r)

(* Another request may have refreshed meanwhile; a request that was told   *)
(* 401 refreshes all the same.                                             *)
RefreshLock(r) ==
  /\ At(r, "locking")
  /\ holder = NoRequest
  /\ Load("provider")
  /\ LET wanted == request[r].retried \/ NeedsRefresh(Reloaded(r))
     IN  /\ request' = [request EXCEPT ![r].auth = Reloaded(r),
                          ![r].at = IF wanted THEN "refreshing" ELSE "sending"]
         /\ holder' = IF wanted THEN r ELSE NoRequest
  /\ UNCHANGED <<legacy, issued, spent, login, ui, ghost>>

(* The endpoint answers with the next pair.                                *)
RefreshToken(r) ==
  /\ At(r, "refreshing")
  /\ request[r].auth \notin spent
  /\ \E t \in Tokens :
       /\ Issue(t)
       /\ issued' = [issued EXCEPT ![t] = "live"]
       /\ spent' = spent \cup {request[r].auth}
       /\ request' = [request EXCEPT ![r].at = "saving", ![r].auth = t]
  /\ UNCHANGED <<sqlite, legacy, cache, holder, login, ui, ghost>>

(* "The refresh token was rejected or revoked.  Sign in again."            *)
RefreshRefused(r) ==
  /\ At(r, "refreshing")
  /\ request[r].auth \in spent
  /\ Ends(r)
  /\ holder' = NoRequest
  /\ ghost' = [ghost EXCEPT !.refused = TRUE]
  /\ UNCHANGED <<sqlite, legacy, cache, issued, spent, login, ui>>

RefreshUnreachable(r) ==
  /\ At(r, "refreshing")
  /\ Ends(r)
  /\ holder' = NoRequest
  /\ UNCHANGED <<sqlite, legacy, cache, issued, spent, login, ui, ghost>>

PersistTokenResponse(r) ==
  /\ At(r, "saving")
  /\ Save("provider", request[r].auth)
  /\ Goes(r, "sending")
  /\ holder' = NoRequest
  /\ UNCHANGED <<issued, spent, login, ui, ghost>>

(* SQLite refuses the write: the pair is lost, and its predecessor spent.  *)
PersistFails(r) ==
  /\ At(r, "saving")
  /\ Ends(r)
  /\ holder' = NoRequest
  /\ ghost' = [ghost EXCEPT !.lost = TRUE]
  /\ UNCHANGED <<sqlite, legacy, cache, issued, spent, login, ui>>

Answered(r) ==
  /\ At(r, "sending")
  /\ issued[request[r].auth] = "live" \/ request[r].retried
  /\ Ends(r)
  /\ UNCHANGED <<sqlite, legacy, cache, issued, spent, holder, login, ui, ghost>>

Unauthorized(r) ==
  /\ At(r, "sending")
  /\ issued[request[r].auth] # "live"
  /\ ~request[r].retried
  /\ request' = [request EXCEPT ![r].at = "locking", ![r].retried = TRUE]
  /\ UNCHANGED <<sqlite, legacy, cache, issued, spent, holder, login, ui, ghost>>

-----------------------------------------------------------------------------
(* The endpoint's clock and mind.                                          *)

AccessEnds(t) ==
  /\ issued[t] = "live"
  /\ \E s \in {"expired", "revoked"} : issued' = [issued EXCEPT ![t] = s]
  /\ UNCHANGED <<sqlite, legacy, cache, spent, request, holder, login, ui, ghost>>

-----------------------------------------------------------------------------
(* The commands.                                                           *)

(* /auth openai login: the handler stores a new thread over the old one,   *)
(* and joins the old one first.  The new one finds port 1455 taken.        *)
Login ==
  /\ ui = "free"
  /\ IF login = "none" THEN login' = "waiting" /\ UNCHANGED ui
                       ELSE ui' = "joining" /\ UNCHANGED login
  /\ UNCHANGED <<sqlite, legacy, cache, issued, spent, request, holder, ghost>>

(* The browser's callback, or the device poll that carries a code.         *)
Callback ==
  /\ login = "waiting"
  /\ login' = "exchanging"
  /\ UNCHANGED <<sqlite, legacy, cache, issued, spent, request, holder, ui, ghost>>

LoggedIn ==
  /\ login = "exchanging"
  /\ \E t \in Tokens :
       /\ Issue(t)
       /\ issued' = [issued EXCEPT ![t] = "live"]
       /\ Save("command", t)
  /\ login' = "none"
  /\ ui' = "free"
  /\ UNCHANGED <<spent, request, holder, ghost>>

(* The state does not match, the user declines, the code is not taken.     *)
LoginFails ==
  /\ login # "none"
  /\ login' = "none"
  /\ ui' = "free"
  /\ UNCHANGED <<sqlite, legacy, cache, issued, spent, request, holder, ghost>>

Status ==
  /\ ui = "free"
  /\ Load("command")
  /\ UNCHANGED <<legacy, issued, spent, request, holder, login, ui, ghost>>

Logout ==
  /\ ui = "free"
  /\ sqlite' = None
  /\ legacy' = [legacy EXCEPT !.disabled = TRUE]
  /\ cache' = [cache EXCEPT !["command"] = None]
  /\ UNCHANGED <<issued, spent, request, holder, login, ui, ghost>>

(* The process ends at any moment and is started again.                    *)
Restart ==
  /\ cache' = [s \in Stores |-> Unread]
  /\ request' = [r \in Requests |-> Idle]
  /\ holder' = NoRequest
  /\ login' = "none"
  /\ ui' = "free"
  /\ ghost' = [ghost EXCEPT
       !.lost = @ \/ \E r \in Requests : At(r, "saving")]
  /\ UNCHANGED <<sqlite, legacy, issued, spent>>

-----------------------------------------------------------------------------
RequestSteps(r) ==
  \/ CompleteStream(r) \/ RefreshIfNeeded(r) \/ RefreshLock(r)
  \/ RefreshToken(r) \/ RefreshRefused(r) \/ RefreshUnreachable(r)
  \/ PersistTokenResponse(r) \/ PersistFails(r)
  \/ Answered(r) \/ Unauthorized(r)

CommandSteps ==
  Login \/ Callback \/ LoggedIn \/ LoginFails \/ Status \/ Logout

Next ==
  \/ \E r \in Requests : RequestSteps(r)
  \/ \E t \in Tokens : AccessEnds(t)
  \/ CommandSteps
  \/ Restart

Spec == Init /\ [][Next]_vars

-----------------------------------------------------------------------------
(* YAC never presents a refresh token that was spent, however many of its  *)
(* requests find the token expired or are told 401 at once, whatever the   *)
(* commands do meanwhile and across restarts: RefreshIfNeeded and Refresh  *)
(* read the store again under the mutex.  The one way to be refused is to  *)
(* have lost the pair a refresh had already fetched.                       *)
NoTokenSpentTwice == ghost.refused => ghost.lost
=============================================================================
