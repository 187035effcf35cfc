--------------------------- MODULE MCConversation ---------------------------
EXTENDS ConversationProps

Word(w) == [kind |-> "word", text |-> <<w>>]
Str(t) == [kind |-> "string", text |-> t]
Field(key, value) == [key |-> key, value |-> value]
Plain == {Word("4"), Word("true"), Str(<<"h">>), Str(<<"a", ",", " ", "]">>), Str(<<QUOTE, "}">>)}
Inner == [kind |-> "array", items |-> <<Word("4")>>]
Array == [kind |-> "array", items |-> <<Word("4"), Str(<<"a", ",", " ", "]">>)>>]
Object == [kind |-> "object", members |->
             <<Field(<<"a">>, Inner), Field(<<"b">>, Str(<<QUOTE, "}">>))>>]
MCValues == Plain \cup {Inner, Array, Object}

Tool(name, types) == [name |-> name, types |-> types]
NoTypes == [key \in {} |-> "undeclared"]
MCTool == Tool(<<"f">>, [key \in {<<"s">>, <<"n">>} |-> IF key = <<"s">> THEN "string" ELSE "array"])
MCTools == {MCTool}

Call(parameters) == [name |-> <<"f">>, parameters |-> parameters]
Parameter(key, value) == [key |-> <<key>>, value |-> value]
T(reasoning, visible, calls) == [reasoning |-> reasoning, visible |-> visible, calls |-> calls]
MCTurns ==
  {T(<<"r">>, <<"v">>, << >>),
   T(<< >>, <<"v", "\n">>, << >>),
   \* a declared string that looks like a value, a value, and text that is none
   T(<<"r">>, << >>, <<Call(<<Parameter("s", <<"4">>), Parameter("n", PythonJson(Array)),
                              Parameter("w", <<"h", "\n", "h">>)>>)>>),
   \* undeclared text that is a JSON string, and one with quotes and escapes
   T(<< >>, <<"v">>, <<Call(<<Parameter("u", JsonString(<<"h">>)), Parameter("o", PythonJson(Object)),
                              Parameter("s", <<ESCAPE, QUOTE, "}">>)>>)>>),
   \* layouts the template does not use
   T(<<"r">>, <<"v">>, <<Call(<<Parameter("n", Write(Array, Compact)), Parameter("k", <<" ", "4", " ">>)>>)>>)}

Set(f) == [[messages |-> << >>, tools |-> << >>, tool_choice |-> << >>, unsupported |-> {}, max_tokens |-> << >>,
            max_completion_tokens |-> << >>, temperature |-> << >>, top_p |-> << >>, top_k |-> << >>,
            min_p |-> << >>, stop |-> {}, reasoning_effort |-> << >>, enable_thinking |-> << >>,
            kwargs_enable_thinking |-> << >>, thinking_budget |-> << >>]
           EXCEPT !.tools = f.tools, !.enable_thinking = f.think, !.reasoning_effort = f.effort,
                  !.thinking_budget = f.budget, !.temperature = f.temperature]
Plainly == [tools |-> <<MCTool>>, think |-> << >>, effort |-> << >>, budget |-> << >>, temperature |-> << >>]
MCSettings ==
  {Set(Plainly), Set([Plainly EXCEPT !.tools = << >>, !.temperature = <<70>>]),
   Set([Plainly EXCEPT !.think = <<FALSE>>, !.budget = <<3>>]),
   Set([Plainly EXCEPT !.effort = <<"high">>]),
   Set([Plainly EXCEPT !.effort = <<"none">>, !.think = <<TRUE>>]),
   [Set([Plainly EXCEPT !.budget = <<0>>]) EXCEPT !.max_tokens = <<9>>, !.top_p = <<100>>,
      !.stop = {<< >>, <<"v">>}, !.kwargs_enable_thinking = <<TRUE>>],
   [Set(Plainly) EXCEPT !.tool_choice = <<"none">>, !.min_p = <<0>>],
   [Set(Plainly) EXCEPT !.tool_choice = <<"required">>],
   [Set(Plainly) EXCEPT !.max_completion_tokens = <<0>>]}

MCDefaults(mode) ==
  [max_new_tokens |-> 6, temperature |-> 0, top_p |-> << >>, top_k |-> << >>, min_p |-> << >>,
   thinking_budget |-> << >>, speculative_mode |-> mode, speculative_mtp_draft_tokens |-> 4,
   speculative_ngram_draft_tokens |-> 8]
MCPolicy(default, max) ==
  [default_budget |-> default, max_budget |-> max, enabled_by_default |-> TRUE,
   effort_budgets |-> [e \in {"low", "high"} |-> IF e = "low" THEN 2 ELSE 7]]
MCServers ==
  {[supports |-> TRUE, policy |-> MCPolicy(<< >>, <<5>>), defaults |-> MCDefaults("off")],
   [supports |-> FALSE, policy |-> MCPolicy(<<2>>, << >>), defaults |-> MCDefaults("auto")]}

MCQuestions == {<<"q">>}
MCResults == {<<"t">>}
System == Message("system", <<"y">>)
MCCall(arguments) == [name |-> <<"f">>, arguments |-> arguments]
MCOpenings ==
  {<<System, Message("user", <<"q">>)>>,
   <<Message("user", <<"q">>),
     [Message("assistant", THINK \o <<"\n", "p", "\n">> \o END_THINK \o <<"\n", "\n", "w">>)
        EXCEPT !.tool_calls = <<MCCall(<< >>), MCCall(<< << "{", QUOTE, "s", QUOTE, ":", QUOTE, "4", QUOTE, "}">> >>)>>],
     Message("tool", <<"t">>)>>,
   <<Message("user", <<"q">>), Message("assistant", <<"w">>), Message("user", <<"q">>), System>>,
   <<Message("user", <<"q">>), [Message("assistant", <<"w">>) EXCEPT !.tool_calls = <<MCCall(<< <<"{">> >>)>>],
     Message("user", <<"q">>)>>}
=============================================================================
