--------------------------- MODULE ResponseProps ---------------------------
(***************************************************************************)
(* What a reply has to be, said of the whole generated text rather than of *)
(* the chunks it came in.                                                  *)
(***************************************************************************)
EXTENDS Response

\* A chunk that ends a tool call's opening marker does not hold the end of the
\* closing one: text is handed out as soon as it is complete, and no token's
\* text has both.
ASSUME MarkersAssumption ==
  \A t \in Tokens : \A i, j \in DOMAIN t.chunk :
    t.chunk[i] = Last(CALL_OPEN) => t.chunk[j] # Last(CALL_CLOSE)

\* What may be shown of a text: up to a tool call, and up to a stop sequence.  A
\* last symbol that may begin a call is not searched for one unless it has to be.
Visible == IF request.tools /\ Occurs(raw, CALL_OPEN)
           THEN Before(raw, Find(raw, CALL_OPEN)) ELSE raw
Settled == IF request.tools /\ Visible = raw /\ raw # << >> /\ Last(raw) = Head(CALL_OPEN)
           THEN Front(raw) ELSE Visible
StopsIn(text) == UNION {Occurrences(text, stop) : stop \in request.stops \ {<< >>}}
StopsAt == IF StopsIn(Settled) # {} THEN StopsIn(Settled) ELSE StopsIn(Visible)
Shown == IF StopsAt = {} THEN Visible ELSE Before(Visible, Min(StopsAt))

Opening == IF request.thinking THEN THINK_OPEN ELSE << >>

\* The text that the parts of a reply, or the events on their way, carry.
TextOf(part) == IF part.kind \in {"text", "delta"} THEN part.text ELSE << >>
Texts(parts) == FlattenSeq([i \in DOMAIN parts |-> TextOf(parts[i])])
Received == IF request.stream THEN Texts(reply) ELSE content

At(kind) == {i \in DOMAIN reply : reply[i].kind = kind}
Answered == At("finish") \cup At("completion") # {}

\* The call that ends a turn is closed, or the turn ended some other way.
EndedByCall == halted = "StopString" /\ StopsAt = {}
HeldByStops == UNION {{SubSeq(stop, 1, n) : n \in 1..(Len(stop) - 1)} : stop \in request.stops}

\* All of what may be shown; a closed call leaves out what was held as the
\* beginning of a stop sequence, which HeldTextIsReleased is about.
IsWhole(text) ==
  \/ text = Opening \o Shown
  \/ EndedByCall /\ \E held \in HeldByStops : text \o held = Opening \o Shown

Reason == CASE Calls # << >> -> "tool_calls"
            [] Calls = << >> /\ (stopped \/ halted = "StopString") -> "stop"
            [] OTHER -> "length"

\* The reply is what the text says, however it was cut into chunks: all of the
\* text before a tool call or a stop sequence, nothing of either, the calls it
\* holds, streamed or collected, and why it ended
\* (stop.rs:50, stop.rs:88, engine.rs:961, engine.rs:1049, http.rs:388, 439).
ReplyIsTheOutput ==
  /\ IsPrefix(Received, Opening \o Shown)
  /\ Answered =>
       /\ IsWhole(Received)
       /\ Calls # << >> => At("calls") \cup At("completion") # {}
       /\ \A i \in At("calls") \cup At("completion") : reply[i].tool_calls = Calls
       /\ \A i \in At("finish") \cup At("completion") : reply[i].finish_reason = Reason
       /\ Reason = "length" => completion_tokens = MaxNew

\* The reasoning tokens reported are the chunks up to the one that completes the
\* first closing marker of the text, wherever the marker was split
\* (engine.rs:64), or all of them if it never closed.
ReasoningIsCounted ==
  LET text(n) == FlattenSeq(SubSeq(decoded, 1, n))
      closing == {n \in DOMAIN decoded : Occurs(text(n), THINK_CLOSE)}
  IN  reasoning.tokens =
        IF ~request.thinking THEN 0
        ELSE IF closing = {} THEN Len(decoded) ELSE Min(closing)

\* A stream opens with the role, and closes with exactly one of an error and a
\* finish chunk that follows the turn's calls and comes before the usage asked
\* for and the end marker; a collected reply is one message; and a reply that
\* reports usage reports what the worker counted (http.rs:388, 439).
RepliesAreWellFormed ==
  LET ends == At("finish") \cup At("error") \cup At("completion")
  IN  /\ request.stream /\ reply # << >> => At("role") = {1}
      /\ ~request.stream => Len(reply) <= 1
      /\ \A i, j \in ends : i = j
      /\ \A i \in At("error") \cup At("[DONE]") : i = Len(reply)
      /\ (At("finish") # {}) = (At("[DONE]") # {})
      /\ \A i \in At("finish"), j \in At("calls") \cup At("text") : j < i
      /\ (At("usage") # {}) = (request.usage /\ At("finish") # {})
      /\ \A i \in At("finish"), j \in At("usage") : i < j
      /\ \A i, j \in At("usage") : i = j
      /\ \A i \in At("usage") \cup At("completion") :
           reply[i].usage = [completion_tokens |-> completion_tokens,
                             reasoning_tokens |-> IF request.thinking THEN <<reasoning.tokens>>
                                                  ELSE << >>]

\* stop.rs:73 says what is held is released "once generation ends without a
\* match, since held text is then just output": a finished reply without a match
\* has all of the text before the call.
HeldTextIsReleased ==
  Answered /\ StopsAt = {} => Received = Opening \o Visible
=============================================================================
