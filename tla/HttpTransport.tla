---------------------------- MODULE HttpTransport ----------------------------
(***************************************************************************)
(* JSON-RPC over HTTP: StreamableHttpMcpTransport and a server that keeps  *)
(* sessions.  One request at a time holds request_mutex_, from its first   *)
(* attempt to its last; Stop takes only mutex_ and waits for nobody.       *)
(* A session is a number, 0 when there is none.                            *)
(***************************************************************************)
EXTENDS Naturals

CONSTANTS
  Callers,      \* threads that send requests and notifications
  MaxSessions   \* bound: sessions the server opens

VARIABLES
  status,   \* status_
  session,  \* session_id_
  call,     \* the request of each caller
  holder,   \* who holds request_mutex_
  server    \* the session the server knows, and how many it has opened

vars == <<status, session, call, holder, server>>

Sessions == 0..MaxSessions
Nobody == "nobody"
Idle == [at |-> "idle", sent |-> 0, code |-> "none", given |-> 0, ran |-> 0]

TypeOK ==
  /\ status \in {"Stopped", "Ready", "Reconnecting", "Failed"}
  /\ session \in Sessions
  /\ call \in [Callers ->
       [at : {"idle", "queued", "sending", "received", "resending", "done"},
        sent : Sessions, code : {"none", "200", "404", "500"},
        given : Sessions, ran : 0..3]]
  /\ holder \in Callers \cup {Nobody}
  /\ server \in [known : Sessions, opened : Sessions]

Init ==
  /\ status = "Stopped" /\ session = 0
  /\ call = [c \in Callers |-> Idle]
  /\ holder = Nobody
  /\ server = [known |-> 0, opened |-> 0]

At(c, place) == call[c].at = place

-----------------------------------------------------------------------------
(* No URL, or the variable of the bearer token is not set: Failed.         *)
Start ==
  /\ status # "Ready"
  /\ status' \in {"Ready", "Failed"}
  /\ UNCHANGED <<session, call, holder, server>>

Stop ==
  /\ status' = "Stopped"
  /\ session' = 0
  /\ UNCHANGED <<call, holder, server>>

Queues(c) ==
  /\ At(c, "idle")
  /\ call' = [call EXCEPT ![c].at = "queued"]
  /\ UNCHANGED <<status, session, holder, server>>

SendRequest(c) == status # "Failed" /\ Queues(c)

SendNotification(c) == Queues(c)

(* PerformHttpRequest reads session_id_ once, when it builds the headers.  *)
FirstAttempt(c) ==
  /\ At(c, "queued")
  /\ holder = Nobody
  /\ holder' = c
  /\ call' = [call EXCEPT ![c].at = "sending", ![c].sent = session]
  /\ UNCHANGED <<status, session, server>>

Receives(c, code, given, runs) ==
  call' = [call EXCEPT ![c].at = IF At(c, "sending") THEN "received" ELSE "done",
                       ![c].code = code, ![c].given = given, ![c].ran = @ + runs]

OnTheWire(c) == At(c, "sending") \/ At(c, "resending")

(* The server carries the call out under the session it knows, or opens    *)
(* one for a request that names none; it may fail half way.                *)
Served(c) ==
  /\ OnTheWire(c)
  /\ call[c].sent = server.known
  /\ \E code \in {"200", "500"} : Receives(c, code, 0, 1)
  /\ UNCHANGED <<status, session, holder, server>>

ServedInNewSession(c) ==
  /\ OnTheWire(c)
  /\ call[c].sent = 0
  /\ server.opened < MaxSessions
  /\ server' = [known |-> server.opened + 1, opened |-> server.opened + 1]
  /\ Receives(c, "200", server'.known, 1)
  /\ UNCHANGED <<status, session, holder>>

UnknownSession(c) ==
  /\ OnTheWire(c)
  /\ call[c].sent # server.known
  /\ \E code \in {"404", "500"} : Receives(c, code, 0, 0)
  /\ UNCHANGED <<status, session, holder, server>>

Unlocks(c) ==
  /\ holder' = Nobody
  /\ call' = [call EXCEPT ![c] = Idle]

(* The timeout, a stop request, a broken connection, an event stream       *)
(* without the answer: whether the server carried the call out is unknown. *)
Lost(c) ==
  /\ OnTheWire(c)
  /\ Unlocks(c)
  /\ UNCHANGED <<status, session, server>>

SessionEnded(code) == code = "404"
AnyFailure(code) == code \in {"404", "500"}
Resendable(code) == SessionEnded(code)

(* The session the answer refers to is looked up again: Stop may have      *)
(* dropped it since.                                                       *)
MayResend(c) == Resendable(call[c].code) /\ session # 0

Resend(c) ==
  /\ At(c, "received")
  /\ MayResend(c)
  /\ status' = "Reconnecting"
  /\ session' = 0
  /\ call' = [call EXCEPT ![c].at = "resending", ![c].sent = 0]
  /\ UNCHANGED <<holder, server>>

(* An answer that comes after Stop makes the transport Ready again.        *)
Finish(c) ==
  /\ At(c, "done") \/ (At(c, "received") /\ ~MayResend(c))
  /\ session' = IF call[c].given # 0 THEN call[c].given ELSE session
  /\ status' = IF call[c].code = "200" THEN "Ready" ELSE status
  /\ Unlocks(c)
  /\ UNCHANGED server

-----------------------------------------------------------------------------
ServerForgets ==
  /\ server.known # 0
  /\ server' = [server EXCEPT !.known = 0]
  /\ UNCHANGED <<status, session, call, holder>>

CallSteps(c) ==
  \/ SendRequest(c) \/ SendNotification(c) \/ FirstAttempt(c) \/ Served(c) \/ ServedInNewSession(c)
  \/ UnknownSession(c) \/ Lost(c) \/ Resend(c) \/ Finish(c)

Next == Start \/ Stop \/ ServerForgets \/ \E c \in Callers : CallSteps(c)

Spec == Init /\ [][Next]_vars

-----------------------------------------------------------------------------
(* A tool call is carried out at most once: a request is sent again only   *)
(* when the server has said that it knows nothing of the session.          *)
AtMostOnce == \A c \in Callers : call[c].ran <= 1
=============================================================================
