------------------------------- MODULE StdioRpc -------------------------------
(***************************************************************************)
(* Requests to a child process over its pipes: JsonRpcStdioBase, and the   *)
(* StdioMcpTransport that cancels the requests it has in flight.           *)
(*                                                                         *)
(* Several threads call: the session's Run thread, the chat worker and the *)
(* sub-agents.  Each frame is written in pieces and no lock keeps writers  *)
(* apart, so frames written at the same time may mix, and the child        *)
(* understands neither.  A reader thread files the answers by their id.    *)
(* A response and its error are told apart only in what the caller throws. *)
(***************************************************************************)
EXTENDS Naturals, FiniteSets

CONSTANTS
  Callers,   \* threads that send requests
  MaxIds,    \* bound: requests made
  MaxStops   \* bound: calls of Stop

VARIABLES
  child,      \* the child process and its reader: child_pid_, reader_alive_
  status,     \* status_ of the transport
  call,       \* the request of each caller
  nextId,     \* next_id_
  inflight,   \* inflight_request_ids_
  noticed,    \* cancelled_request_ids_
  notices,    \* how many cancellations of each request were written
  asked,      \* requests the child has understood and not answered
  responses,  \* responses_
  stop        \* the Stop that runs, and how many there were

vars == <<child, status, call, nextId, inflight, noticed, notices, asked,
          responses, stop>>

Ids == 1..MaxIds

(* The child is told at most once that a request is cancelled, though the  *)
(* token of the request and any number of Stops may say so at the same     *)
(* time: the set of cancelled ids is asked and marked under request_mutex_.*)
TypeOK ==
  /\ child \in [process : {"none", "up", "dead"}, reader : BOOLEAN]
  /\ status \in {"Stopped", "Ready", "Failed"}
  /\ call \in [Callers -> [at : {"idle", "writing", "waiting", "failing"},
                           id : 0..MaxIds, stopped : BOOLEAN]]
  /\ nextId \in 1..(MaxIds + 1)
  /\ inflight \subseteq Ids
  /\ noticed \subseteq Ids
  /\ notices \in [Ids -> 0..1]
  /\ asked \subseteq Ids
  /\ responses \subseteq Ids
  /\ stop \in [at : {"none", "notifying"}, todo : SUBSET Ids, count : 0..MaxStops]

Idle == [at |-> "idle", id |-> 0, stopped |-> FALSE]

Init ==
  /\ child = [process |-> "none", reader |-> FALSE]
  /\ status = "Stopped"
  /\ call = [c \in Callers |-> Idle]
  /\ nextId = 1
  /\ inflight = {} /\ noticed = {} /\ asked = {} /\ responses = {}
  /\ notices = [i \in Ids |-> 0]
  /\ stop = [at |-> "none", todo |-> {}, count |-> 0]

-----------------------------------------------------------------------------
(* A process that was started and not stopped is not started again, be it  *)
(* dead: the status is Ready all the same.                                 *)
Start ==
  /\ status # "Ready"
  /\ status' = "Ready"
  /\ IF child.process = "none"
     THEN child' = [process |-> "up", reader |-> TRUE] /\ responses' = {}
     ELSE UNCHANGED <<child, responses>>
  /\ UNCHANGED <<call, nextId, inflight, noticed, notices, asked, stop>>

StartFails ==
  /\ status # "Ready"
  /\ child.process = "none"
  /\ status' = "Failed"
  /\ UNCHANGED <<child, call, nextId, inflight, noticed, notices, asked,
                 responses, stop>>

SendRequest(c) ==
  /\ call[c].at = "idle"
  /\ nextId <= MaxIds
  /\ call' = [call EXCEPT ![c] = [at |-> "writing", id |-> nextId,
                                  stopped |-> FALSE]]
  /\ nextId' = nextId + 1
  /\ inflight' = inflight \cup {nextId}
  /\ UNCHANGED <<child, status, noticed, notices, asked, responses, stop>>

Writing == {c \in Callers : call[c].at = "writing"}

(* WriteFrame to a child that reads: alone, or mixed with another's frame. *)
Written(c) ==
  /\ c \in Writing
  /\ child.process = "up"
  /\ call' = [call EXCEPT ![c].at = "waiting"]
  /\ \/ asked' = asked \cup {call[c].id}
     \/ Writing # {c} /\ UNCHANGED asked
  /\ UNCHANGED <<child, status, nextId, inflight, noticed, notices, responses,
                 stop>>

(* write() fails: the pipe has no reader, or there is no pipe.             *)
WriteFails(c) ==
  /\ c \in Writing
  /\ child.process # "up"
  /\ call' = [call EXCEPT ![c].at = "failing"]
  /\ UNCHANGED <<child, status, nextId, inflight, noticed, notices, asked,
                 responses, stop>>

(* ProcessMessage files an answer, be its request still waited for or not. *)
ProcessMessage(i) ==
  /\ child.reader
  /\ i \in asked
  /\ asked' = asked \ {i}
  /\ responses' = responses \cup {i}
  /\ UNCHANGED <<child, status, call, nextId, inflight, noticed, notices, stop>>

ChildDies ==
  /\ child.process = "up"
  /\ child' = [child EXCEPT !.process = "dead"]
  /\ asked' = {}
  /\ UNCHANGED <<status, call, nextId, inflight, noticed, notices, responses,
                 stop>>

(* End of file, or a frame that is not one: FaultAllPending.               *)
ReaderEnds ==
  /\ child.reader
  /\ child' = [child EXCEPT !.reader = FALSE]
  /\ UNCHANGED <<status, call, nextId, inflight, noticed, notices, asked,
                 responses, stop>>

Forget(i) == inflight' = inflight \ {i} /\ noticed' = noticed \ {i}

Returns(c) ==
  /\ call[c].at = "waiting"
  /\ call[c].id \in responses
  /\ responses' = responses \ {call[c].id}
  /\ call' = [call EXCEPT ![c] = Idle]
  /\ Forget(call[c].id)
  /\ UNCHANGED <<child, status, nextId, notices, asked, stop>>

(* The wait has a deadline, and ends when the reader is gone.              *)
DeadlinePasses == TRUE
OnlyWhenAbandoned == FALSE
WaitEnds == DeadlinePasses

WaitFails(c) ==
  /\ call[c].at = "waiting"
  /\ call[c].id \notin responses
  /\ WaitEnds \/ ~child.reader
  /\ call' = [call EXCEPT ![c].at = "failing"]
  /\ UNCHANGED <<child, status, nextId, inflight, noticed, notices, asked,
                 responses, stop>>

Throws(c) ==
  /\ call[c].at = "failing"
  /\ status' = IF status = "Stopped" THEN status ELSE "Failed"
  /\ Forget(call[c].id)
  /\ call' = [call EXCEPT ![c] = Idle]
  /\ UNCHANGED <<child, nextId, notices, asked, responses, stop>>

-----------------------------------------------------------------------------
(* SendCancelledNotification is told by the request's stop token and by    *)
(* Stop; the first of them marks the request.                              *)
Marked(i) == noticed \cup {i}
Unmarked(i) == noticed
MarkedAs(i) == Marked(i)

SendCancelled(i) ==
  IF i \in inflight \ noticed
  THEN noticed' = MarkedAs(i) /\ notices' = [notices EXCEPT ![i] = @ + 1]
  ELSE UNCHANGED <<noticed, notices>>

StopRequested(c) ==
  /\ call[c].at # "idle"
  /\ ~call[c].stopped
  /\ call' = [call EXCEPT ![c].stopped = TRUE]
  /\ SendCancelled(call[c].id)
  /\ UNCHANGED <<child, status, nextId, inflight, asked, responses, stop>>

(* Stop of a session passes a token that is stopped, and no notice is due; *)
(* Stop of the destructor passes a fresh one.                              *)
Stop ==
  /\ stop.at = "none"
  /\ stop.count < MaxStops
  /\ \E due \in {{}, inflight} :
       stop' = [at |-> "notifying", todo |-> due, count |-> stop.count + 1]
  /\ UNCHANGED <<child, status, call, nextId, inflight, noticed, notices, asked,
                 responses>>

StopNotifies ==
  /\ stop.at = "notifying"
  /\ \E i \in stop.todo :
       /\ SendCancelled(i)
       /\ stop' = [stop EXCEPT !.todo = @ \ {i}]
  /\ UNCHANGED <<child, status, call, nextId, inflight, asked, responses>>

(* StopProcess: the child is killed and reaped, the reader joined.         *)
StopProcess ==
  /\ stop.at = "notifying"
  /\ stop.todo = {}
  /\ status' = "Stopped"
  /\ IF status = "Stopped" THEN UNCHANGED <<child, asked>>
     ELSE child' = [process |-> "none", reader |-> FALSE] /\ asked' = {}
  /\ stop' = [stop EXCEPT !.at = "none"]
  /\ UNCHANGED <<call, nextId, inflight, noticed, notices, responses>>

-----------------------------------------------------------------------------
CallSteps(c) ==
  Written(c) \/ WriteFails(c) \/ Returns(c) \/ WaitFails(c) \/ Throws(c)

Next ==
  \/ Start \/ StartFails \/ ChildDies \/ ReaderEnds
  \/ \E i \in Ids : ProcessMessage(i)
  \/ \E c \in Callers : SendRequest(c) \/ CallSteps(c) \/ StopRequested(c)
  \/ Stop \/ StopNotifies \/ StopProcess

(* The calling threads run and their deadlines pass; nothing is expected   *)
(* of the child.                                                           *)
Fairness == \A c \in Callers : WF_vars(CallSteps(c))

Spec == Init /\ [][Next]_vars
FairSpec == Spec /\ Fairness

-----------------------------------------------------------------------------
(* Every request comes back to its caller, with an answer or an exception: *)
(* when its frame was mixed with another's, when the child has died or has *)
(* been stopped, and when the answer never comes.                          *)
EveryCallEnds == \A c \in Callers : call[c].at # "idle" ~> call[c].at = "idle"
=============================================================================
