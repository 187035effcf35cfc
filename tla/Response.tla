------------------------------ MODULE Response ------------------------------
(***************************************************************************)
(* From generated tokens to the client's reply.  The token callback of the *)
(* engine's worker decodes each token, keeps tool-call markup and stop     *)
(* sequences out of what is shown, counts the thinking section, and ends   *)
(* the turn early (src/src/server/engine.rs); its events are collected     *)
(* into one completion or relayed as a stream (src/src/server/http.rs).    *)
(*                                                                         *)
(* Which tokens come is the model's choice; what generating them does to   *)
(* the session is Session.tla's and InferenceEngine.tla's subject, waiting *)
(* for the slot and shutting down InferenceQueue.tla's.                    *)
(***************************************************************************)
EXTENDS TextScan

CONSTANTS
  Tokens,    \* [chunk, stop]: what the decoder answers for it (an empty chunk
             \* is its None) and whether it is a stop token
  Requests,  \* [stops, tools, thinking, stream, usage]
  MaxNew     \* max_new_tokens

ASSUME ResponseAssumption ==
  /\ MaxNew \in Nat \ {0}
  /\ Tokens \subseteq [chunk : Seq(STRING), stop : BOOLEAN]
  /\ Requests \subseteq [stops : SUBSET Seq(STRING), tools : BOOLEAN, thinking : BOOLEAN,
                          stream : BOOLEAN, usage : BOOLEAN]
  /\ \A r \in Requests : r.usage => r.stream

VARIABLES
  request,           \* the request being answered
  stage,             \* where the worker is: queued, generate, complete, halted, error, answered
  decoded,           \* the decoded chunks; their concatenation is the worker's raw text
  guard, calling,    \* the buffer that waits for a tool call, and whether one was opened
  stops,             \* the buffer that waits for a stop sequence
  reasoning,         \* the counter of thinking tokens
  completion_tokens, \* tokens the callback was given
  stopped,           \* whether the last of them was a stop token
  halted,            \* why the callback ended the turn
  events,            \* events sent and not read yet
  handler,           \* the task that reads them: starting (a stream's role is not out), reading, returned
  client,            \* connected or gone
  content,           \* text a collecting handler has gathered
  reply              \* what the client received

worker == <<stage, decoded, guard, calling, stops, reasoning, completion_tokens,
            stopped, halted>>
reading == <<handler, client, content, reply>>
vars == <<request, worker, events, reading>>

THINK_OPEN == <<"<think>", "\n">>
THINK_CLOSE == <<"<", "/think>">>

NewCounter(open) == [open |-> open, tokens |-> 0, scanned |-> 0]

raw == FlattenSeq(decoded)
ReceiverOpen == handler # "returned"

Delta(text) == [kind |-> "delta", text |-> text]
DeltaOf(text) == IF text = << >> THEN << >> ELSE <<Delta(text)>>

Init ==
  /\ request \in Requests
  /\ stage = "queued"
  /\ decoded = << >>
  /\ guard = NewBuffer({CALL_OPEN}) /\ calling = FALSE
  /\ stops = NewBuffer(request.stops)
  /\ reasoning = NewCounter(request.thinking)
  /\ completion_tokens = 0 /\ stopped = FALSE
  /\ halted = "no"
  /\ events = << >>
  /\ handler = IF request.stream THEN "starting" ELSE "reading"
  /\ client = "connected"
  /\ content = << >> /\ reply = << >>
-----------------------------------------------------------------------------
(***************************************************************************)
(* The worker.                                                             *)
(***************************************************************************)
\* A client that gave up while queued costs only a check.  A prompt that opened
\* the thinking section left its tag out of the output; it is sent first.
Begin ==
  /\ stage = "queued"
  /\ stage' = IF ReceiverOpen THEN "generate" ELSE "answered"
  /\ events' = IF ReceiverOpen /\ request.thinking
               THEN Append(events, Delta(THINK_OPEN)) ELSE events
  /\ UNCHANGED <<request, decoded, guard, calling, stops, reasoning,
                 completion_tokens, stopped, halted, reading>>

\* Mutant: the search resumes at the end of the text it has seen.
ObservedFromEnd(counter, text) ==
  IF ~counter.open
  THEN counter
  ELSE [open |-> ~Occurs(From(text, counter.scanned + 1), THINK_CLOSE),
        tokens |-> counter.tokens + 1,
        scanned |-> Len(text)]

\* Only a tail shorter than the marker can still complete it.
Observed(counter, text) ==
  IF ~counter.open
  THEN counter
  ELSE [open |-> ~Occurs(From(text, counter.scanned + 1), THINK_CLOSE),
        tokens |-> counter.tokens + 1,
        scanned |-> Max({0, Len(text) - (Len(THINK_CLOSE) - 1)})]

\* The last call the text opens is closed.
CallClosed(text) ==
  /\ Occurs(text, CALL_OPEN)
  /\ Occurs(From(text, FindLast(text, CALL_OPEN)), CALL_CLOSE)

\* Generation goes on after a token unless the callback halted it, the token
\* was a stop token or the budget is spent.
StageAfter(token, halt) ==
  IF halt # "no" THEN "halted"
  ELSE IF token.stop \/ completion_tokens + 1 = MaxNew THEN "complete" ELSE "generate"

\* A token whose text the decoder does not have yet, or has none.
Undecoded(token) ==
  /\ stage = "generate" /\ token.chunk = << >>
  /\ completion_tokens' = completion_tokens + 1
  /\ stopped' = token.stop
  /\ stage' = StageAfter(token, "no")
  /\ UNCHANGED <<request, decoded, guard, calling, stops, reasoning, halted, events, reading>>

Decoded(token) ==
  LET chunk == token.chunk
      guarded == Push(guard, chunk)
      guards == request.tools /\ ~calling
      visible == IF guards THEN guarded.emit ELSE IF request.tools THEN << >> ELSE chunk
      inCall == request.tools /\ (calling \/ guarded.matched)
      closed == inCall /\ CallClosed(raw \o chunk)
      step == Push(stops, visible)
      matches == ~closed /\ visible # << >>
      lost == matches /\ step.emit # << >> /\ ~ReceiverOpen
      halt == IF lost THEN "Disconnected"
              ELSE IF closed \/ (matches /\ step.matched) THEN "StopString" ELSE "no"
  IN /\ stage = "generate" /\ chunk # << >>
     /\ completion_tokens' = completion_tokens + 1
     /\ stopped' = token.stop
     /\ decoded' = Append(decoded, chunk)
     /\ reasoning' = Observed(reasoning, raw \o chunk)
     /\ guard' = IF guards THEN guarded.buffer ELSE guard
     /\ calling' = inCall
     /\ stops' = IF matches THEN step.buffer ELSE stops
     /\ events' = IF matches /\ ~lost /\ ReceiverOpen
                  THEN events \o DeltaOf(step.emit) ELSE events
     /\ halted' = halt
     /\ stage' = StageAfter(token, halt)
     /\ UNCHANGED <<request, reading>>

\* A pass fails.
FailPass ==
  /\ stage = "generate"
  /\ stage' = "error"
  /\ UNCHANGED <<request, decoded, guard, calling, stops, reasoning, completion_tokens,
                 stopped, halted, events, reading>>

Calls == IF request.tools THEN Parse(raw) ELSE << >>

Done(finish_reason) ==
  [kind |-> "done", finish_reason |-> finish_reason, tool_calls |-> Calls,
   completion_tokens |-> completion_tokens,
   reasoning_tokens |-> IF request.thinking THEN <<reasoning.tokens>> ELSE << >>]

\* What is still held when a turn ends by itself, the possible tool call first.
Released ==
  LET tail == IF request.tools /\ ~calling THEN Flush(guard) ELSE << >>
      step == Push(stops, tail)
  IN IF tail = << >>
     THEN DeltaOf(Flush(stops))
     ELSE DeltaOf(step.emit) \o DeltaOf(Flush(step.buffer))

CompletedReason ==
  IF Calls # << >> THEN "tool_calls"
  ELSE IF ~stopped /\ completion_tokens >= MaxNew THEN "length" ELSE "stop"

HaltedReason == IF Calls # << >> THEN "tool_calls" ELSE "stop"

\* What the worker sends last: nothing to a client that has gone.
Ending ==
  CASE stage = "complete" -> Append(Released, Done(CompletedReason))
    [] stage = "halted" /\ halted = "StopString" -> <<Done(HaltedReason)>>
    [] stage = "halted" /\ halted = "Disconnected" -> << >>
    [] stage = "error" -> <<[kind |-> "failed"]>>

Answer ==
  /\ stage \in {"complete", "halted", "error"}
  /\ events' = IF ReceiverOpen THEN events \o Ending ELSE events
  /\ stage' = "answered"
  /\ UNCHANGED <<request, decoded, guard, calling, stops, reasoning, completion_tokens,
                 stopped, halted, reading>>
-----------------------------------------------------------------------------
(***************************************************************************)
(* The task that reads the events, and the client.                         *)
(***************************************************************************)
Usage(event) ==
  [completion_tokens |-> event.completion_tokens, reasoning_tokens |-> event.reasoning_tokens]

Completion(event) ==
  [kind |-> "completion",
   content |-> IF event.tool_calls # << >> /\ Trim(content) = << >> THEN << >> ELSE content,
   tool_calls |-> event.tool_calls, finish_reason |-> event.finish_reason,
   usage |-> Usage(event)]

\* collect_response: one event.
Collect ==
  /\ ~request.stream /\ handler = "reading" /\ events # << >>
  /\ LET event == Head(events) IN
       \/ /\ event.kind = "delta"
          /\ content' = content \o event.text
          /\ events' = Tail(events)
          /\ UNCHANGED <<handler, reply>>
       \/ /\ event.kind = "done"
          /\ reply' = <<Completion(event)>>
          /\ handler' = "returned" /\ events' = << >>
          /\ UNCHANGED content
       \/ /\ event.kind = "failed"
          /\ reply' = <<[kind |-> "error"]>>
          /\ handler' = "returned" /\ events' = << >>
          /\ UNCHANGED content
  /\ UNCHANGED <<request, worker, client>>

\* Mutant: the finish chunk goes out before the calls it is about.
ChunksFinishFirst(event) ==
  LET calls == [kind |-> "calls", tool_calls |-> event.tool_calls]
      finish == [kind |-> "finish", finish_reason |-> event.finish_reason]
  IN CASE event.kind = "delta" -> <<[kind |-> "text", text |-> event.text]>>
       [] event.kind = "failed" -> <<[kind |-> "error"]>>
       [] event.kind = "done" ->
            <<finish>> \o (IF event.tool_calls = << >> THEN << >> ELSE <<calls>>)
            \o (IF request.usage THEN <<[kind |-> "usage", usage |-> Usage(event)]>> ELSE << >>)
            \o <<[kind |-> "[DONE]"]>>

\* The chunks an event is relayed as.
ChunksOf(event) ==
  LET calls == [kind |-> "calls", tool_calls |-> event.tool_calls]
      finish == [kind |-> "finish", finish_reason |-> event.finish_reason]
  IN CASE event.kind = "delta" -> <<[kind |-> "text", text |-> event.text]>>
       [] event.kind = "failed" -> <<[kind |-> "error"]>>
       [] event.kind = "done" ->
            (IF event.tool_calls = << >> THEN << >> ELSE <<calls>>) \o <<finish>>
            \o (IF request.usage THEN <<[kind |-> "usage", usage |-> Usage(event)]>> ELSE << >>)
            \o <<[kind |-> "[DONE]"]>>

\* stream_response: the role, then each event; a chunk nobody receives ends the
\* task, and its receiver with it.
StartStream ==
  /\ handler = "starting"
  /\ handler' = IF client = "gone" THEN "returned" ELSE "reading"
  /\ reply' = IF client = "gone" THEN reply ELSE <<[kind |-> "role"]>>
  /\ events' = IF client = "gone" THEN << >> ELSE events
  /\ UNCHANGED <<request, worker, client, content>>

Relay ==
  /\ request.stream /\ handler = "reading" /\ events # << >>
  /\ LET event == Head(events)
         ends == client = "gone" \/ event.kind # "delta"
     IN /\ reply' = IF client = "gone" THEN reply ELSE reply \o ChunksOf(event)
        /\ handler' = IF ends THEN "returned" ELSE "reading"
        /\ events' = IF ends THEN << >> ELSE Tail(events)
  /\ UNCHANGED <<request, worker, client, content>>

\* A client that disconnects takes a collecting handler with it at once, and a
\* stream's body: the forwarding task learns of it from its next chunk.
Disconnect ==
  /\ client = "connected" /\ handler # "returned"
  /\ client' = "gone"
  /\ handler' = IF request.stream THEN handler ELSE "returned"
  /\ events' = IF request.stream THEN events ELSE << >>
  /\ UNCHANGED <<request, worker, content, reply>>
-----------------------------------------------------------------------------
Next ==
  \/ Begin
  \/ \E token \in Tokens : Undecoded(token) \/ Decoded(token)
  \/ FailPass
  \/ Answer
  \/ Collect
  \/ StartStream
  \/ Relay
  \/ Disconnect

Spec == Init /\ [][Next]_vars
=============================================================================
