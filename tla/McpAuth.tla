------------------------------ MODULE McpAuth ------------------------------
(***************************************************************************)
(* OAuth logins to an MCP server: /mcp auth in the TUI, on a thread the    *)
(* slash handler keeps, and `yac mcp auth' in a process of its own, with a *)
(* browser or with the callback URL pasted; the token stores and logout.   *)
(*                                                                         *)
(* A login is known by its attempt: the state, the verifier and the code   *)
(* the authorization server grants are its own.  A callback is the code of *)
(* a login sent to a port of this host.  The server of the metadata and of *)
(* the tokens, the browser and the user are the environment.               *)
(***************************************************************************)
EXTENDS Naturals, FiniteSets

CONSTANTS
  MaxAttempts,   \* bound: logins started
  Ports          \* bound: ephemeral ports of this host

Attempts == 1..MaxAttempts

VARIABLES
  process,    \* the running YAC: none, the TUI or a command
  ui,         \* the UI thread: ready, or the login it joins
  thread,     \* auth_runner->thread: the login it runs, 0 for none
  phase,      \* how far each login has come
  redirect,   \* port of the login's own server, named in its requests
  awaited,    \* port RunOAuthInteraction listens on
  callbacks,  \* redirections open in the browser
  callback,   \* the login whose code a flow was called back with
  keychain,   \* IsKeychainAvailable, cached when the process starts
  tokens      \* per store: the login its tokens are of, 0 for none

vars == <<process, ui, thread, phase, redirect, awaited, callbacks, callback,
          keychain, tokens>>

Working == {"browser", "pasting", "called", "exchanging", "storing"}
Live == {a \in Attempts : phase[a] \in Working}

Init ==
  /\ process = "none"
  /\ ui = 0
  /\ thread = 0
  /\ phase = [a \in Attempts |-> "new"]
  /\ redirect = [a \in Attempts |-> 0]
  /\ awaited = [a \in Attempts |-> 0]
  /\ callbacks = {}
  /\ callback = [a \in Attempts |-> 0]
  /\ keychain = FALSE
  /\ tokens = [keychain |-> 0, file |-> 0]

Bound == {redirect[a] : a \in Live} \cup {awaited[a] : a \in Live}

Start(kind, available) ==
  /\ process = "none"
  /\ process' = kind
  /\ keychain' = available
  /\ UNCHANGED <<ui, thread, phase, redirect, awaited, callbacks, callback, tokens>>

(* Authenticate up to the wait: the login's server and its URL, and in     *)
(* browser mode a second server whose redirect_uri is added to that URL.   *)
Began(a, mode, own, other) ==
  /\ phase[a] = "new" /\ \A b \in Attempts : b < a => phase[b] # "new"
  /\ own \in Ports \ Bound
  /\ other \in (IF mode = "browser" THEN Ports \ (Bound \cup {own}) ELSE {0})
  /\ phase' = [phase EXCEPT ![a] = mode]
  /\ redirect' = [redirect EXCEPT ![a] = own]
  /\ awaited' = [awaited EXCEPT ![a] = other]
  /\ UNCHANGED <<process, callbacks, callback, keychain, tokens>>

(* The assignment to the jthread joins the login it ran before.            *)
SlashAuth(a) ==
  /\ process = "tui" /\ ui = 0
  /\ \E own, other \in Ports : Began(a, "browser", own, other)
  /\ thread' = a
  /\ ui' = IF thread # 0 THEN thread ELSE 0

CommandAuth(a, mode) ==
  /\ process = "cli" /\ \A b \in Attempts : phase[b] \notin Working
  /\ \E own \in Ports, other \in Ports \cup {0} : Began(a, mode, own, other)
  /\ thread' = a
  /\ ui' = a

Joined ==
  /\ ui # 0 /\ phase[ui] \notin Working
  /\ ui' = 0
  /\ UNCHANGED <<process, thread, phase, redirect, awaited, callbacks, callback,
                 keychain, tokens>>

(* The user agrees.  The URL names one redirect_uri or two: the server     *)
(* follows the first or the last of them.                                  *)
Granted(a) ==
  /\ phase[a] \in {"browser", "pasting"}
  /\ \A c \in callbacks : c.login # a
  /\ \E port \in {redirect[a], awaited[a]} \ {0} :
       callbacks' = callbacks \cup {[login |-> a, port |-> port]}
  /\ UNCHANGED <<process, ui, thread, phase, redirect, awaited, callback, keychain, tokens>>

CalledBack(a, b) ==
  /\ callback' = [callback EXCEPT ![a] = b]
  /\ phase' = [phase EXCEPT ![a] = "called"]
  /\ awaited' = [awaited EXCEPT ![a] = 0]
  /\ UNCHANGED <<process, ui, thread, redirect, callbacks, keychain, tokens>>

(* The first request ends the wait; a page loaded again is a request too.  *)
RunUntilCallback(a) ==
  /\ phase[a] = "browser"
  /\ \E c \in callbacks : c.port = awaited[a] /\ CalledBack(a, c.login)

ParseCallbackUrl(a) ==
  /\ phase[a] = "pasting"
  /\ \E c \in callbacks : CalledBack(a, c.login)

Failed(a) ==
  /\ phase' = [phase EXCEPT ![a] = "failed"]
  /\ UNCHANGED <<process, ui, thread, redirect, awaited, callbacks, callback, keychain, tokens>>

(* A request without code and state, or a pasted line without them.        *)
NoCallback(a) == phase[a] \in {"browser", "pasting"} /\ Failed(a)

StateUnchecked(a) == TRUE
ValidateState(a) == callback[a] = a

ExchangeCode(a) ==
  /\ phase[a] = "called"
  /\ ValidateState(a)
  /\ phase' = [phase EXCEPT ![a] = "exchanging"]
  /\ UNCHANGED <<process, ui, thread, redirect, awaited, callbacks, callback, keychain, tokens>>

StateMismatch(a) == phase[a] = "called" /\ ~ValidateState(a) /\ Failed(a)

(* The token endpoint answers: tokens, or an error, which it may choose    *)
(* when the code was sent to another redirect_uri than the exchange names. *)
PerformTokenRequest(a) ==
  /\ phase[a] = "exchanging"
  /\ phase' = [phase EXCEPT ![a] = "storing"]
  /\ UNCHANGED <<process, ui, thread, redirect, awaited, callbacks, callback, keychain, tokens>>

TokenRequestFails(a) == phase[a] = "exchanging" /\ Failed(a)

GetTokenStore == IF keychain THEN "keychain" ELSE "file"

(* A file is written beside the old one and renamed over it.               *)
Set(a) ==
  /\ phase[a] = "storing"
  /\ tokens' = [tokens EXCEPT ![GetTokenStore] = callback[a]]
  /\ phase' = [phase EXCEPT ![a] = "done"]
  /\ UNCHANGED <<process, ui, thread, redirect, awaited, callbacks, callback, keychain>>

SetFails(a) == phase[a] = "storing" /\ Failed(a)

Logout ==
  /\ process # "none" /\ ui = 0
  /\ tokens[GetTokenStore] # 0
  /\ tokens' = [tokens EXCEPT ![GetTokenStore] = 0]
  /\ UNCHANGED <<process, ui, thread, phase, redirect, awaited, callbacks, callback, keychain>>

(* Quitting destroys the slash handler, whose jthread joins its login.     *)
Quit ==
  /\ process # "none" /\ ui = 0
  /\ IF thread # 0 /\ phase[thread] \in Working
     THEN ui' = thread /\ UNCHANGED <<process, thread>>
     ELSE process' = "none" /\ thread' = 0 /\ UNCHANGED ui
  /\ UNCHANGED <<phase, redirect, awaited, callbacks, callback, keychain, tokens>>

Kill ==
  /\ process # "none"
  /\ process' = "none" /\ ui' = 0 /\ thread' = 0
  /\ phase' = [a \in Attempts |-> IF phase[a] \in Working THEN "failed" ELSE phase[a]]
  /\ UNCHANGED <<redirect, awaited, callbacks, callback, keychain, tokens>>

Flow(a) ==
  \/ RunUntilCallback(a) \/ ParseCallbackUrl(a)
  \/ ExchangeCode(a) \/ StateMismatch(a)
  \/ PerformTokenRequest(a) \/ TokenRequestFails(a)
  \/ Set(a) \/ SetFails(a)

Next ==
  \/ \E kind \in {"tui", "cli"}, available \in BOOLEAN : Start(kind, available)
  \/ Joined \/ Logout \/ Quit \/ Kill
  \/ \E a \in Attempts :
       \/ SlashAuth(a) \/ Granted(a) \/ NoCallback(a) \/ Flow(a)
       \/ \E mode \in {"browser", "pasting"} : CommandAuth(a, mode)

Spec == Init /\ [][Next]_vars

-----------------------------------------------------------------------------
TypeOK ==
  /\ process \in {"none", "tui", "cli"}
  /\ ui \in Attempts \cup {0} /\ thread \in Attempts \cup {0}
  /\ phase \in [Attempts -> Working \cup {"new", "failed", "done"}]
  /\ redirect \in [Attempts -> Ports \cup {0}]
  /\ awaited \in [Attempts -> Ports \cup {0}]
  /\ callbacks \subseteq [login : Attempts, port : Ports]
  /\ callback \in [Attempts -> Attempts \cup {0}]
  /\ tokens \in [{"keychain", "file"} -> Attempts \cup {0}]

(* A login stores only tokens of the authorization it asked for itself,    *)
(* also when the page of an earlier login calls its port back.             *)
TokensOfTheLogin ==
  \A a \in Attempts : Set(a) => tokens'[GetTokenStore] = a
=============================================================================
