--------------------------- MODULE ProviderStream ---------------------------
(***************************************************************************)
(* A model's answer as it streams in: chat completions and responses as    *)
(* server-sent events, Bedrock as events of its SDK, and the round that    *)
(* collects the text and the tool calls of the answer.                     *)
(*                                                                         *)
(* A line of the stream arrives in pieces and several lines may come in    *)
(* one chunk: each line is two half lines here, and a chunk any number of  *)
(* half lines.  The arguments of a call are the number of their fragments. *)
(* A request for tool calls REPLACES the tools of the round.               *)
(***************************************************************************)
EXTENDS Naturals, Sequences, Ordered

CONSTANTS
  MaxCalls,     \* bound: calls of one answer
  MaxParts,     \* bound: fragments of a call's arguments
  MaxTexts      \* bound: text deltas of an answer

VARIABLES
  protocol,  \* how the provider speaks, "none" while there is no request
  server,    \* what the model has said, and the call it is saying
  wire,      \* half lines on their way
  buffer,    \* buffer of the StreamState
  state,     \* the rest of StreamState, and the outcome of the round
  attempt    \* the attempt of Bedrock

vars == <<protocol, server, wire, buffer, state, attempt>>

Protocols == {"completions", "responses", "bedrock"}
Calls == 1..MaxCalls
NoCall == [there |-> FALSE, args |-> 0]
Waiting(args) == [there |-> TRUE, args |-> args]
Silent == [texts |-> 0, args |-> <<>>, at |-> "between", ended |-> "no"]
Fresh == [pending |-> [i \in Calls |-> NoCall], tools |-> <<>>, texts |-> 0, stop |-> "no"]

Init ==
  /\ protocol = "none" /\ server = Silent /\ wire = <<>> /\ buffer = <<>>
  /\ state = Fresh /\ attempt = 1

CompleteStream(p) ==
  /\ protocol = "none"
  /\ protocol' = p
  /\ UNCHANGED <<server, wire, buffer, state, attempt>>

-----------------------------------------------------------------------------
(* The provider's side of the stream: an answer in the order the protocol  *)
(* prescribes.  It may break off between two calls.                        *)
Event(type, index, args) == [type |-> type, index |-> index, args |-> args]
Half(event) == [event |-> event, last |-> FALSE]
Rest(event) == [event |-> event, last |-> TRUE]
Line(event) == <<Half(event), Rest(event)>>

Speaking == protocol # "none" /\ server.ended = "no" /\ state.stop = "no"
Emits(lines) == wire' = wire \o lines

Current == Len(server.args)

ServerText ==
  /\ Speaking /\ server.at = "between"
  /\ server.texts < MaxTexts
  /\ server' = [server EXCEPT !.texts = @ + 1]
  /\ Emits(Line(Event("text", 0, 0)))
  /\ UNCHANGED <<protocol, buffer, state, attempt>>

ServerOpensCall ==
  /\ Speaking /\ server.at = "between"
  /\ Current < MaxCalls
  /\ server' = [server EXCEPT !.args = Append(@, 0), !.at = "arguments"]
  /\ Emits(Line(Event("call", Current + 1, 0)))
  /\ UNCHANGED <<protocol, buffer, state, attempt>>

ServerFragment ==
  /\ Speaking /\ server.at = "arguments"
  /\ server.args[Current] < MaxParts
  /\ server' = [server EXCEPT !.args[Current] = @ + 1]
  /\ Emits(Line(Event("fragment", Current, 0)))
  /\ UNCHANGED <<protocol, buffer, state, attempt>>

(* Chat completions say nothing when a call is complete; responses say it  *)
(* of its arguments, then of the item, each with the whole arguments.      *)
ServerClosesCall ==
  LET whole == server.args[Current] IN
  /\ Speaking /\ server.at = "arguments"
  /\ server' = [server EXCEPT !.at = "between"]
  /\ Emits(IF protocol = "responses"
           THEN Line(Event("arguments.done", Current, whole))
                  \o Line(Event("item.done", Current, whole))
           ELSE IF protocol = "bedrock" THEN Line(Event("block_stop", Current, 0)) ELSE <<>>)
  /\ UNCHANGED <<protocol, buffer, state, attempt>>

ServerFinishes ==
  /\ Speaking /\ server.at = "between"
  /\ server' = [server EXCEPT !.ended = "finished"]
  /\ Emits(Line(Event("finish", 0, 0)))
  /\ UNCHANGED <<protocol, buffer, state, attempt>>

ServerFails ==
  /\ Speaking
  /\ server' = [server EXCEPT !.ended = "failed"]
  /\ Emits(Line(Event("error", 0, 0)))
  /\ UNCHANGED <<protocol, buffer, state, attempt>>

(* The socket is closed without a finish_reason, as some servers do.       *)
ServerCloses ==
  /\ Speaking /\ server.at = "between"
  /\ protocol # "bedrock"
  /\ server' = [server EXCEPT !.ended = "closed"]
  /\ UNCHANGED <<protocol, wire, buffer, state, attempt>>

-----------------------------------------------------------------------------
(* The provider class and the sink of the round.                           *)
Requested(s, calls) == IF calls = <<>> THEN s ELSE [s EXCEPT !.tools = calls]

Call(s, i) == [index |-> i, args |-> s.pending[i].args]

FlushPendingToolCalls(s) ==
  LET ready == InOrder({i \in Calls : s.pending[i].there}) IN
  Requested([s EXCEPT !.pending = Fresh.pending],
            [k \in DOMAIN ready |-> Call(s, ready[k])])

FlushPendingToolCall(s, i) ==
  Requested([s EXCEPT !.pending[i] = NoCall], <<Call(s, i)>>)

Opened(s, e) ==
  [s EXCEPT !.pending[e.index] = Waiting(@.args)]

Accumulated(s, e) ==
  [s EXCEPT !.pending[e.index] = Waiting(@.args + 1)]

WithWhole(s, e) ==
  [s EXCEPT !.pending[e.index] = Waiting(e.args)]

ItemIgnored(s, e) == s
AccumulateOutputItem(s, e) == WithWhole(s, e)

Dispatch(s, e) ==
  CASE e.type = "text" -> [s EXCEPT !.texts = @ + 1]
    [] e.type = "call" -> Opened(s, e)
    [] e.type = "fragment" -> Accumulated(s, e)
    [] e.type = "arguments.done" -> FlushPendingToolCall(WithWhole(s, e), e.index)
    [] e.type = "item.done" -> AccumulateOutputItem(s, e)
    [] e.type = "block_stop" -> s
    [] e.type = "finish" -> FlushPendingToolCalls(s)
    [] e.type = "error" -> [s EXCEPT !.stop = "error"]

Receiving == protocol # "none" /\ state.stop \in {"no", "error"}

(* ConsumeSseChunk: the lines that are whole are dispatched, the rest of   *)
(* the chunk stays in the buffer.                                          *)
Dispatched(s, bytes) ==
  LET after[k \in 0..Len(bytes)] ==
        IF k = 0 THEN s
        ELSE IF bytes[k].last THEN Dispatch(after[k - 1], bytes[k].event)
        ELSE after[k - 1]
  IN after[Len(bytes)]

ConsumeSseChunk(n) ==
  LET bytes == buffer \o SubSeq(wire, 1, n)
      end == bytes[Len(bytes)]
  IN /\ Receiving
     /\ n \in 1..Len(wire)
     /\ state' = Dispatched(state, bytes)
     /\ buffer' = IF end.last THEN <<>> ELSE <<end>>
     /\ wire' = SubSeq(wire, n + 1, Len(wire))
     /\ UNCHANGED <<protocol, server, attempt>>

(* The transfer is over.  What no finish_reason flushed is flushed now.    *)
Ended(s) == IF s.stop = "error" THEN "failed" ELSE "done"

StreamEnds ==
  /\ Receiving /\ server.ended # "no" /\ wire = <<>>
  /\ LET s == IF protocol = "bedrock" THEN state ELSE FlushPendingToolCalls(state)
     IN state' = [s EXCEPT !.stop = Ended(s)]
  /\ UNCHANGED <<protocol, server, wire, buffer, attempt>>

(* A broken connection, a status of 400 or more, a missing key.            *)
RequestFails ==
  /\ Receiving
  /\ state' = [state EXCEPT !.stop = "failed"]
  /\ UNCHANGED <<protocol, server, wire, buffer, attempt>>

Cancelled ==
  /\ Receiving
  /\ state' = [state EXCEPT !.stop = "cancelled"]
  /\ UNCHANGED <<protocol, server, wire, buffer, attempt>>

(* Bedrock refreshes its credentials once, with a handler of its own for   *)
(* each attempt; a credential error comes before anything is streamed.     *)
CredentialError ==
  /\ Receiving /\ protocol = "bedrock"
  /\ server = Silent
  /\ IF attempt = 1
     THEN attempt' = 2 /\ UNCHANGED state
     ELSE state' = [state EXCEPT !.stop = "failed"] /\ UNCHANGED attempt
  /\ UNCHANGED <<protocol, server, wire, buffer>>

(* The round reads its outcome and the processor goes on to the next.      *)
RoundEnds ==
  /\ state.stop \notin {"no", "error"}
  /\ protocol' = "none" /\ server' = Silent /\ wire' = <<>> /\ buffer' = <<>>
  /\ state' = Fresh /\ attempt' = 1

Next ==
  \/ ServerText \/ ServerOpensCall \/ ServerFragment \/ ServerClosesCall
  \/ ServerFinishes \/ ServerFails \/ ServerCloses
  \/ StreamEnds \/ RequestFails \/ Cancelled \/ CredentialError \/ RoundEnds
  \/ \E p \in Protocols : CompleteStream(p)
  \/ \E n \in 1..Len(wire) : ConsumeSseChunk(n)

Spec == Init /\ [][Next]_vars

-----------------------------------------------------------------------------
TypeOK ==
  /\ protocol \in Protocols \cup {"none"}
  /\ server.texts \in 0..MaxTexts /\ Len(server.args) <= MaxCalls
  /\ \A k \in DOMAIN buffer : ~buffer[k].last
  /\ Len(buffer) <= 1
  /\ state.pending \in [Calls -> [there : BOOLEAN, args : 0..MaxParts]]
  /\ state.texts \in 0..MaxTexts
  /\ state.stop \in {"no", "error", "failed", "cancelled", "done"}
  /\ attempt \in 1..2

(* A round whose stream ended well has the text and every tool call of the *)
(* answer, in order and with all its arguments, wherever the network cut   *)
(* the stream and whether or not the server announced the end: the later   *)
(* of two requests never drops the calls of the earlier.                   *)
AnswerIsWhole ==
  state.stop = "done" =>
    /\ state.texts = server.texts
    /\ state.tools = [i \in DOMAIN server.args |-> [index |-> i, args |-> server.args[i]]]
=============================================================================
