------------------------- MODULE ConversationProps -------------------------
(***************************************************************************)
(* What a conversation has to keep from one request to the next.           *)
(***************************************************************************)
EXTENDS Conversation

Answering == last # NoExchange /\ job.status = "submitted"

\* The request repeats the one before with what was added to it: its tools and
\* the question being answered are the same.
SameQuery ==
  /\ ToolDefinitions(sent) = ToolDefinitions(last.request)
  /\ LastQueryIndex(ChatMessages(sent)) = LastQueryIndex(ChatMessages(last.request))

\* The turn is written the way the template writes one.
Neat(text) == Trim(text) = text /\ ~Occurs(text, THINK) /\ ~Occurs(text, END_THINK)
AsTrained(t) ==
  /\ Neat(t.reasoning) /\ Neat(t.visible)
  /\ t.calls # << >> =>
       LET types == ToolTypes(last.request, t.calls[1].name)
           structured(parameter) ==
             /\ parameter.key \in DOMAIN types => types[parameter.key] # "string"
             /\ FromStr(parameter.value).kind \notin {"none", "string"}
       IN \A i \in DOMAIN t.calls[1].parameters :
            LET parameter == t.calls[1].parameters[i] IN
            structured(parameter) => parameter.value = PythonJson(FromStr(parameter.value))

\* tool_calls.rs:18 says why the round trip has to preserve bytes: within a
\* query, the next prompt continues the text the live session represents, from
\* a client that echoes the turn, parses and writes its arguments again or keeps
\* the thinking apart from the answer (tokenizer.rs:357, tool_calls.rs:91, 217).
LiveTextIsContinued ==
  (/\ Answering /\ SameQuery /\ server.supports
   /\ last.echo \in {"verbatim", "rewritten", "apart"} /\ AsTrained(last.turn))
  => IsPrefix(last.job.prompt \o last.raw, job.prompt)

\* The boundary a prompt is cached at is a prefix of it, and of the prompt of
\* the next request within the query, whatever the client made of the turn
\* (tokenizer.rs:190).
StablePrefixRepeats ==
  /\ job.status = "submitted" => IsPrefix(job.stable_prefix, job.prompt)
  /\ Answering /\ SameQuery => IsPrefix(last.job.stable_prefix, job.prompt)

\* The parameters read from the markup, against those the model wrote.
Kept(before, after) ==
  \/ after = before
  \/ FromStr(before) # NoValue /\ after = PythonJson(FromStr(before))
SameCall(call, again) ==
  /\ again.name = call.name
  /\ Len(again.parameters) = Len(call.parameters)
  /\ \A k \in DOMAIN call.parameters :
       /\ again.parameters[k].key = call.parameters[k].key
       /\ Kept(call.parameters[k].value, again.parameters[k].value)
Settles(call, rendered, again) ==
  /\ Len(again) = 1 /\ SameCall(call, again[1])
  /\ Render(call.name, ReplyCall(again[1]).arguments[1]) = rendered

\* A call survives the round trip: whether the client echoes its arguments or
\* writes them again the same markup is rendered, which reads as a call to the
\* same function with the same parameters, each the text the model wrote or that
\* text in the template's layout, and which renders as itself from then on
\* (tool_calls.rs:18).
CallsSettle ==
  turn # NoTurn =>
    \A i \in DOMAIN received.calls :
      \A call \in {Parse(received.raw)[i]} :
        \A rendered \in {Render(call.name, received.calls[i].arguments[1])} :
          /\ Render(call.name, Compacted(received.calls[i].arguments[1])) = rendered
          /\ Settles(call, rendered, Parse(rendered))

\* Where a prompt lists the tools, and a client that wrote such a list itself.
ToolsHeading == IM_START \o <<"system", "\n", "# Tools", "<tools>">>
OwnHeading(message) ==
  message.content # << >> /\ IsPrefix(<<"# Tools", "<tools>">>, Trim(message.content[1]))

\* A job is one the engine can serve: the prompt leaves a thinking block open
\* exactly where the job says so, only such a job has a thinking budget, within
\* the operator's ceiling and never zero; a sampled request speculates in no way
\* the engine resolves the options to; the output is bounded; no stop sequence is
\* empty; and the markup of tools is looked for exactly if the prompt lists them,
\* but for a list that the client's own system message begins with (request.rs:20,
\* thinking.rs:123, engine.rs:1114).
JobsAreServable ==
  job.status = "submitted" =>
    LET options == job.options
        ceiling == server.policy.max_budget
    IN  /\ job.thinking_open <=> IsSuffix(THINK \o <<"\n">>, job.prompt)
        /\ options.thinking_budget # << >> =>
             /\ job.thinking_open /\ options.thinking_budget[1] >= 1
             /\ ceiling # << >> => options.thinking_budget[1] <= ceiling[1]
        /\ job.thinking_open /\ ceiling # << >> => options.thinking_budget # << >>
        /\ options.temperature > 0 => EffectiveSpeculativeMode(options) = "off"
        /\ options.max_new_tokens \in 1..MAX_OUTPUT_TOKENS
        /\ << >> \notin job.stop_strings
        /\ job.tools_enabled => IsPrefix(ToolsHeading, job.prompt)
        /\ IsPrefix(ToolsHeading, job.prompt) => job.tools_enabled \/ OwnHeading(sent.messages[1])
=============================================================================
