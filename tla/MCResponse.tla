----------------------------- MODULE MCResponse -----------------------------
EXTENDS ResponseProps

Plain(chunk) == [chunk |-> chunk, stop |-> FALSE]
MCTokens ==
  {Plain(<<"a">>), Plain(<<"b">>), Plain(<<"c", "a">>), Plain(<<"c", "a", "<">>), Plain(<<"<">>),
   Plain(<<"tool_call>">>), Plain(<<"<", "/tool_call>">>), Plain(<<"/think>">>),
   Plain(<<"<function=", "f", ">", "</function>">>),
   Plain(<< >>), [chunk |-> << >>, stop |-> TRUE], [chunk |-> <<"b">>, stop |-> TRUE]}

\* A stop sequence alone, one whose beginning repeats, one that begins like a
\* marker; streamed and collected.
MCRequests ==
  {[stops |-> {<<"a", "b">>}, tools |-> TRUE, thinking |-> FALSE, stream |-> TRUE, usage |-> TRUE],
   [stops |-> {<<"a", "a", "b">>}, tools |-> FALSE, thinking |-> FALSE, stream |-> TRUE, usage |-> FALSE],
   [stops |-> {<<"<", "a">>, <<"b", "b">>}, tools |-> TRUE, thinking |-> TRUE, stream |-> FALSE, usage |-> FALSE],
   [stops |-> {<<"c", "a", "<">>, <<"a">>}, tools |-> TRUE, thinking |-> FALSE, stream |-> FALSE, usage |-> FALSE],
   [stops |-> {}, tools |-> FALSE, thinking |-> TRUE, stream |-> TRUE, usage |-> TRUE]}
=============================================================================
