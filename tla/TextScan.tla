------------------------------ MODULE TextScan ------------------------------
(***************************************************************************)
(* Generated text: searching it as the standard library's string methods   *)
(* do, holding stop sequences back from it, and reading the tool calls it  *)
(* holds.  Text is a sequence of symbols; a symbol is a character, or a    *)
(* run of characters that no marker begins or ends inside; a marker is two *)
(* symbols where a token boundary can fall inside it while text is         *)
(* streamed.                                                               *)
(***************************************************************************)
EXTENDS Naturals, Sequences, SequencesExt, FiniteSetsExt

\* The positions at which a pattern starts in a text.
Occurrences(text, pattern) ==
  {i \in 1..(Len(text) - Len(pattern) + 1) :
     SubSeq(text, i, i + Len(pattern) - 1) = pattern}

Occurs(text, pattern) == Occurrences(text, pattern) # {}

\* str::find, and str::rfind: 0 where they answer None.
Find(text, pattern) ==
  IF Occurs(text, pattern) THEN Min(Occurrences(text, pattern)) ELSE 0
FindLast(text, pattern) ==
  IF Occurs(text, pattern) THEN Max(Occurrences(text, pattern)) ELSE 0

\* The text from a position on, and the text after a pattern found there.
From(text, i) == SubSeq(text, i, Len(text))
Before(text, i) == SubSeq(text, 1, i - 1)
Past(text, i, pattern) == From(text, i + Len(pattern))

\* str::trim_start, trim_end and trim: the symbols of Space are white.
Space == {" ", "\n"}
Inked(text) == {i \in DOMAIN text : text[i] \notin Space}
TrimStart(text) ==
  IF Inked(text) = {} THEN << >> ELSE From(text, Min(Inked(text)))
TrimEnd(text) ==
  IF Inked(text) = {} THEN << >> ELSE SubSeq(text, 1, Max(Inked(text)))
Trim(text) == TrimEnd(TrimStart(text))
-----------------------------------------------------------------------------
(***************************************************************************)
(* The matcher that keeps a stop sequence, or the marker of a tool call,   *)
(* out of streamed text (src/src/server/stop.rs).                          *)
(***************************************************************************)
NewBuffer(stops) == [stops |-> {stop \in stops : stop # << >>}, held |-> << >>]

\* Every suffix of the held text that is a proper prefix of a stop, and the
\* length of the longest.
PartialSuffixes(buffer) ==
  {n \in 1..Len(buffer.held) :
     \E stop \in buffer.stops :
       n < Len(stop) /\ SubSeq(stop, 1, n) = From(buffer.held, Len(buffer.held) - n + 1)}
LongestPartialSuffix(buffer) == Max({0} \cup PartialSuffixes(buffer))

Matches(buffer) == UNION {Occurrences(buffer.held, stop) : stop \in buffer.stops}

\* Mutant: only whether a stop could begin with the last symbol is considered.
PushHoldingOne(buffer, chunk) ==
  LET grown == [buffer EXCEPT !.held = @ \o chunk]
      hold == Min({1, LongestPartialSuffix(grown)})
      split == Len(grown.held) - hold
  IN IF Matches(grown) # {}
     THEN [emit |-> Before(grown.held, Min(Matches(grown))), matched |-> TRUE,
           buffer |-> [grown EXCEPT !.held = << >>]]
     ELSE [emit |-> SubSeq(grown.held, 1, split), matched |-> FALSE,
           buffer |-> [grown EXCEPT !.held = From(@, split + 1)]]

Push(buffer, chunk) ==
  LET grown == [buffer EXCEPT !.held = @ \o chunk]
      split == Len(grown.held) - LongestPartialSuffix(grown)
  IN IF Matches(grown) # {}
     THEN [emit |-> Before(grown.held, Min(Matches(grown))), matched |-> TRUE,
           buffer |-> [grown EXCEPT !.held = << >>]]
     ELSE [emit |-> SubSeq(grown.held, 1, split), matched |-> FALSE,
           buffer |-> [grown EXCEPT !.held = From(@, split + 1)]]

\* What is still held, released once a turn ends without a match.
Flush(buffer) == buffer.held
-----------------------------------------------------------------------------
(***************************************************************************)
(* Tool-call markup: reading the calls of a generated turn                 *)
(* (src/src/tool_calls.rs).                                                *)
(***************************************************************************)
CALL_OPEN == <<"<", "tool_call>">>
CALL_CLOSE == <<"<", "/tool_call>">>
FUNCTION_OPEN == <<"<function=">>
FUNCTION_CLOSE == <<"</function>">>
PARAMETER_OPEN == <<"<parameter=">>
PARAMETER_CLOSE == <<"</parameter>">>
TAG_END == <<">">>

NoCall == [name |-> << >>, parameters |-> << >>]

\* A value is framed by one newline on each side, which is not part of it.
Unframed(value) ==
  LET opened == IF value # << >> /\ Head(value) = "\n" THEN Tail(value) ELSE value
  IN IF opened # << >> /\ Last(opened) = "\n" THEN Front(opened) ELSE opened

\* The parameters of a function's body, up to the first that is incomplete.
ParametersOf(inner) ==
  LET parameters[at \in 1..(Len(inner) + 1)] ==
        LET cursor == From(inner, at)
            after == Past(cursor, Find(cursor, PARAMETER_OPEN), PARAMETER_OPEN)
            keyEnd == Find(after, TAG_END)
            valueText == From(after, keyEnd + 1)
            valueEnd == Find(valueText, PARAMETER_CLOSE)
            rest == Past(valueText, valueEnd, PARAMETER_CLOSE)
        IN IF ~Occurs(cursor, PARAMETER_OPEN) \/ keyEnd = 0 \/ valueEnd = 0
           THEN << >>
           ELSE <<[key |-> Trim(Before(after, keyEnd)),
                   value |-> Unframed(Before(valueText, valueEnd))]>>
                \o parameters[Len(inner) - Len(rest) + 1]
  IN parameters[1]

ParseCall(body) ==
  LET after == Past(body, Find(body, FUNCTION_OPEN), FUNCTION_OPEN)
      nameEnd == Find(after, TAG_END)
      name == Trim(Before(after, nameEnd))
      inner == From(after, nameEnd + 1)
      close == Find(inner, FUNCTION_CLOSE)
  IN IF ~Occurs(body, FUNCTION_OPEN) \/ nameEnd = 0 \/ name = << >> \/ close = 0
     THEN NoCall
     ELSE [name |-> name, parameters |-> ParametersOf(Before(inner, close))]

\* The calls of the blocks of a text: a block ends at its own close tag or, if
\* it was cut short, with the text, and one that parses to nothing is skipped.
Parse(text) ==
  LET calls[at \in 1..(Len(text) + 1)] ==
        LET rest == From(text, at)
            body == Past(rest, Find(rest, CALL_OPEN), CALL_OPEN)
            end == Find(body, CALL_CLOSE)
            block == IF end = 0 THEN body ELSE Before(body, end)
            after == IF end = 0 THEN << >> ELSE Past(body, end, CALL_CLOSE)
            call == ParseCall(block)
        IN IF ~Occurs(rest, CALL_OPEN)
           THEN << >>
           ELSE (IF call = NoCall THEN << >> ELSE <<call>>)
                \o calls[Len(text) - Len(after) + 1]
  IN calls[1]
=============================================================================
