-------------------------------- MODULE Web --------------------------------
(* The tools web_fetch and web_search: one call, from its request to the result
   the model reads. libcurl calls back with every status line, header and chunk
   on the tool's own thread; the call may be cancelled and time out meanwhile.

   A chunk of a fetched page counts one unit of kWebFetchMaxBodyBytes. A chunk
   of a search answer is one line of it. How the address is checked and how
   HTML becomes Markdown or plain text are left out. *)
EXTENDS Naturals, Sequences, SequencesExt

CONSTANTS
    MaxBody,        \* kWebFetchMaxBodyBytes, in chunks
    MaxChunks,      \* chunks a server sends before it completes or stalls
    MaxHeaders      \* status lines and headers of one exchange

None == "none"
Tools == {"fetch", "search"}
\* The data lines of a search answer: a whole result, a result on two lines, an
\* error object, text that is no JSON, the end mark. Then an empty line, a comment,
\* and the one line of an answer that is not a stream of events.
DataLines == {"r1", "half", "half2", "error", "bad", "[DONE]"}
SearchLines == DataLines \union {"", ":", "json"}
EventStream == "text/event-stream"
Types == {"text/html", "image/png", "application/json", EventStream}

VARIABLES
    tool,       \* the tool of the call, or none
    stop,       \* the stop token of the call
    perform,    \* curl_easy_perform: "running", or how it ended
    sent,       \* what the server has sent of its current response
    headers,    \* status lines and headers so far
    got,        \* content_type and body of the collector or the search state
    error,      \* callback_error
    result      \* what the tool returned
vars == <<tool, stop, perform, sent, headers, got, error, result>>

NoResponse == [status |-> 0, type |-> None, body |-> <<>>]
NoResult == [ok |-> FALSE, why |-> None, type |-> None, body |-> <<>>]
Failure(why) == [NoResult EXCEPT !.why = why]

Init ==
    /\ tool = None
    /\ stop = FALSE
    /\ perform = None
    /\ sent = NoResponse
    /\ headers = 0
    /\ got = [type |-> None, body |-> <<>>]
    /\ error = FALSE
    /\ result = NoResult

---------------------------------------------------------------------------
(* The request and its end. *)

\* A call that is cancelled before it begins sends nothing.
Begin ==
    /\ tool = None
    /\ tool' \in Tools
    /\ IF stop THEN result' = Failure("cancelled") /\ UNCHANGED perform
       ELSE perform' = "running" /\ UNCHANGED result
    /\ UNCHANGED <<stop, sent, headers, got, error>>

Cancel ==
    /\ ~stop
    /\ result = NoResult
    /\ stop' = TRUE
    /\ UNCHANGED <<tool, perform, sent, headers, got, error, result>>

Ends(how) ==
    /\ perform = "running"
    /\ perform' = how
    /\ UNCHANGED <<tool, stop, sent, headers, got, error, result>>

\* CurlProgressCallback gives the transfer up; the timeout and the connection
\* need no reason.
Progress == stop /\ Ends("aborted")
TimesOut == Ends("timeout")
Breaks == Ends("failed")
Complete == sent.status >= 200 /\ Ends("ok")

---------------------------------------------------------------------------
(* The callbacks. *)

\* A status line begins another response: an interim one is followed by the
\* final one, whose headers count.
StatusLine(s) ==
    /\ perform = "running" /\ headers < MaxHeaders
    /\ sent.status < 200
    /\ sent' = [NoResponse EXCEPT !.status = s]
    /\ headers' = headers + 1
    /\ got' = [got EXCEPT !.type = None]
    /\ UNCHANGED <<tool, stop, perform, error, result>>

ContentType(t) ==
    /\ perform = "running" /\ headers < MaxHeaders
    /\ sent.status # 0 /\ sent.type = None /\ sent.body = <<>>
    /\ sent' = [sent EXCEPT !.type = t]
    /\ headers' = headers + 1
    /\ got' = [got EXCEPT !.type = t]
    /\ UNCHANGED <<tool, stop, perform, error, result>>

\* A callback that throws leaves its message and makes libcurl give up.
Refuse == error' = TRUE /\ perform' = "aborted"

\* A declared length over the cap ends a fetch before its body.
ContentLengthOverCap ==
    /\ perform = "running" /\ tool = "fetch"
    /\ sent.status # 0 /\ sent.body = <<>>
    /\ Refuse
    /\ UNCHANGED <<tool, stop, sent, headers, got, result>>

\* OnBody: a fetch takes no chunk over the cap.
Chunk(c) ==
    /\ perform = "running"
    /\ sent.status >= 200 /\ Len(sent.body) < MaxChunks
    /\ sent' = [sent EXCEPT !.body = Append(@, c)]
    /\ IF tool = "fetch" /\ Len(got.body) >= MaxBody
       THEN Refuse /\ UNCHANGED got
       ELSE /\ got' = [got EXCEPT !.body = Append(@, c)]
            /\ UNCHANGED <<error, perform>>
    /\ UNCHANGED <<tool, stop, headers, result>>

---------------------------------------------------------------------------
(* What the answer of a search says. *)

Text(lines) == SelectSeq(lines, LAMBDA l : l # "")
IsSse == \/ got.type = EventStream
         \/ Text(got.body) # <<>> /\ Head(Text(got.body)) # "json"

\* ConsumeLine and Flush: an empty line ends an event of at least one data line.
ConsumeLine(parser, line) ==
    IF line = ""
    THEN IF parser.pending = <<>> THEN parser
         ELSE [events |-> Append(parser.events, parser.pending), pending |-> <<>>]
    ELSE IF line \in DataLines THEN [parser EXCEPT !.pending = Append(@, line)] ELSE parser

\* A parser that waits for the empty line.
FinishOpen(parser) == parser.events

\* Finish: the end of the body ends the last event.
Finish(parser) == ConsumeLine(parser, "").events

Events(lines) ==
    Finish(FoldLeft(ConsumeLine, [events |-> <<>>, pending |-> <<>>], lines))

\* AppendResultsFromPayload for one event: what it adds, or how it fails.
Payload(event) ==
    CASE event = <<"r1">> -> [adds |-> <<"r1">>, why |-> None]
      [] event = <<"half", "half2">> -> [adds |-> <<"r2">>, why |-> None]
      [] event = <<"[DONE]">> -> [adds |-> <<>>, why |-> None]
      [] event = <<"error">> -> [adds |-> <<>>, why |-> "provider"]
      [] OTHER -> [adds |-> <<>>, why |-> "invalid"]

\* ParseExaWebSearchResponse: the results of every event, or the first failure.
ParseExaWebSearchResponse ==
    LET events == Events(got.body)
        read == [i \in DOMAIN events |-> Payload(events[i])]
        failed == SelectSeq(read, LAMBDA r : r.why # None)
        Results(list) == [ok |-> TRUE, why |-> None, type |-> got.type, body |-> list]
    IN  IF ~IsSse
        THEN IF Text(got.body) = <<"json">> THEN Results(<<"r1">>)
             ELSE Failure("invalid")
        ELSE IF failed # <<>> THEN Failure(failed[1].why)
        ELSE Results(FlattenSeq([i \in DOMAIN read |-> read[i].adds]))

\* TransformWebFetchBody takes text only.
TransformWebFetchBody ==
    IF got.type \notin {"text/html", EventStream}
    THEN Failure("transform")
    ELSE [ok |-> TRUE, why |-> None, type |-> got.type, body |-> got.body]

---------------------------------------------------------------------------
\* After curl_easy_perform a cancelled call is cancelled however it ended, then
\* the callback's own error counts, then curl's, then the status.
Return ==
    /\ perform \notin {None, "running"}
    /\ result = NoResult
    /\ result' = IF stop THEN Failure("cancelled")
                 ELSE IF error THEN Failure("size")
                 ELSE IF perform # "ok" THEN Failure(perform)
                 ELSE IF sent.status \notin 200..299 THEN Failure("status")
                 ELSE IF tool = "fetch" THEN TransformWebFetchBody
                 ELSE ParseExaWebSearchResponse
    /\ UNCHANGED <<tool, stop, perform, sent, headers, got, error>>

Next ==
    \/ Begin \/ Cancel \/ Progress \/ TimesOut \/ Breaks \/ Complete
    \/ \E s \in {100, 200, 404} : StatusLine(s)
    \/ \E t \in Types : ContentType(t)
    \/ ContentLengthOverCap
    \/ \E c \in IF tool = "search" THEN SearchLines ELSE {"chunk"} : Chunk(c)
    \/ Return

Spec == Init /\ [][Next]_vars

---------------------------------------------------------------------------
TypeOK ==
    /\ tool \in Tools \union {None}
    /\ perform \in {None, "running", "ok", "aborted", "timeout", "failed"}
    /\ Len(got.body) <= MaxChunks
    /\ result.ok \in BOOLEAN

\* The results a search answer holds, read off its lines.
Held(response) ==
    LET results == SelectSeq(response.body, LAMBDA l : l \in {"r1", "half2"})
    IN  IF Text(response.body) = <<"json">> /\ response.type # EventStream
        THEN <<"r1">>
        ELSE [i \in DOMAIN results |-> IF results[i] = "r1" THEN "r1" ELSE "r2"]

\* A call that succeeds returns the final response: its type, all of its body
\* within the cap, and for a search every result of every event, the last one
\* included that no empty line ends (web_search.cpp SseEventDataParser). A
\* server that breaks off, is too long or too slow gives an error instead.
ResultIsTheResponse ==
    result.ok =>
      /\ perform = "ok" /\ sent.status = 200
      /\ result.type = sent.type
      /\ tool = "fetch" => result.body = sent.body /\ Len(result.body) <= MaxBody
      /\ tool = "search" => result.body = Held(sent)
=============================================================================
