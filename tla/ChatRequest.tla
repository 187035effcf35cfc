---------------------------- MODULE ChatRequest ----------------------------
(***************************************************************************)
(* From a request's body to a job: what is refused, how the request is     *)
(* merged over the server's defaults, and how much it may think            *)
(* (src/src/server/{api,thinking,request,http}.rs).                        *)
(*                                                                         *)
(* An optional field is << >> or <<its value>>.  A request has             *)
(*   messages, tools, tool_choice (auto, none or another choice),          *)
(*   unsupported (fields set to what cannot be honoured), max_tokens,      *)
(*   max_completion_tokens, temperature, top_p, top_k, min_p, stop,        *)
(*   reasoning_effort, enable_thinking, kwargs_enable_thinking and         *)
(*   thinking_budget; probabilities are in hundredths.                     *)
(* A server has supports (its template can open a thinking block),         *)
(* policy [default_budget, max_budget, effort_budgets, enabled_by_default] *)
(* and defaults (GenerationOptions).                                       *)
(***************************************************************************)
EXTENDS ChatTemplate

CONSTANT MAX_OUTPUT_TOKENS

Or(first, second) == IF first # << >> THEN first ELSE second
OrElse(option, default) == IF option # << >> THEN option[1] ELSE default

Efforts == {"none", "minimal", "low", "medium", "high", "xhigh"}

(***************************************************************************)
(* What the fields mean.                                                   *)
(***************************************************************************)
MaxNewTokens(request) == Or(request.max_completion_tokens, request.max_tokens)

StopStrings(request) == {stop \in request.stop : stop # << >>}

\* A level this build does not know is ignored.
ReasoningEffort(request) ==
  IF request.reasoning_effort # << >> /\ request.reasoning_effort[1] \in Efforts
  THEN request.reasoning_effort ELSE << >>

EnableThinking(request) ==
  IF ReasoningEffort(request) = <<"none">> THEN <<FALSE>>
  ELSE Or(request.enable_thinking, request.kwargs_enable_thinking)

ToolDefinitions(request) ==
  IF request.tool_choice = <<"none">> THEN << >> ELSE request.tools

ToolTypes(request, name) ==
  LET named == {i \in DOMAIN ToolDefinitions(request) : ToolDefinitions(request)[i].name = name}
  IN IF named = {} THEN [key \in {} |-> "undeclared"]
     ELSE ToolDefinitions(request)[Min(named)].types

Honourable(request) ==
  /\ request.messages # << >>
  /\ request.unsupported = {}
  /\ request.tool_choice \in {<< >>, <<"auto">>, <<"none">>}

\* A message's role, and its call's arguments where it sent none.
Roles == [role \in {"system", "developer", "user", "assistant", "tool", "function"} |->
            CASE role = "developer" -> "system" [] role = "function" -> "tool" [] OTHER -> role]
ChatCall(call) ==
  [name |-> call.name,
   arguments |-> IF call.arguments \in {<< >>, << << >> >>} THEN <<"{", "}">> ELSE call.arguments[1]]

Readable(message) ==
  /\ message.role \in DOMAIN Roles
  /\ message.kind = "text"
  /\ \A i \in DOMAIN message.tool_calls :
       message.tool_calls[i].name # << >> /\ IsJson(ChatCall(message.tool_calls[i]).arguments)

ChatMessages(request) ==
  [i \in DOMAIN request.messages |->
     LET message == request.messages[i] IN
     [role |-> Roles[message.role], content |-> OrElse(message.content, << >>),
      reasoning |-> message.reasoning_content,
      tool_calls |-> [k \in DOMAIN message.tool_calls |-> ChatCall(message.tool_calls[k])]]]
-----------------------------------------------------------------------------
(***************************************************************************)
(* The thinking plan and the options.                                      *)
(***************************************************************************)
\* The most specific budget, under the ceiling, at least one token; none for a
\* turn that does not think.
Plan(request, server) ==
  LET policy == server.policy
      open == server.supports /\ OrElse(EnableThinking(request), policy.enabled_by_default)
      effort == ReasoningEffort(request)
      level == IF effort # << >> /\ effort[1] \in DOMAIN policy.effort_budgets
               THEN <<policy.effort_budgets[effort[1]]>> ELSE << >>
      budget == Or(request.thinking_budget, Or(level, policy.default_budget))
      bounded == IF budget # << >> /\ policy.max_budget # << >>
                 THEN <<Min({budget[1], policy.max_budget[1]})>>
                 ELSE Or(budget, policy.max_budget)
  IN [open |-> open,
      budget |-> IF open /\ bounded # << >> THEN <<Max({1, bounded[1]})>> ELSE << >>]

EffectiveSpeculativeMode(options) ==
  CASE options.speculative_mode = "off" /\ options.speculative_mtp_draft_tokens > 0 -> "mtp"
    [] options.speculative_mode = "off" /\ options.speculative_mtp_draft_tokens = 0
       /\ options.speculative_ngram_draft_tokens > 0 -> "ngram"
    [] OTHER -> options.speculative_mode

\* Mutant: only a mode that was named is turned off.
DisableNamedMode(options) ==
  IF options.temperature > 0 /\ options.speculative_mode # "off"
  THEN [options EXCEPT !.speculative_mode = "off",
                       !.speculative_mtp_draft_tokens = 0,
                       !.speculative_ngram_draft_tokens = 0]
  ELSE options

\* Speculation verifies against the argmax, so it is for greedy decoding alone.
DisableSpeculationForSampling(options) ==
  IF options.temperature > 0 /\ EffectiveSpeculativeMode(options) # "off"
  THEN [options EXCEPT !.speculative_mode = "off",
                       !.speculative_mtp_draft_tokens = 0,
                       !.speculative_ngram_draft_tokens = 0]
  ELSE options

\* A filter that lets everything through is none.
AtLeast(option, low) == option = << >> \/ option[1] >= low
Resolvable(request) ==
  /\ AtLeast(MaxNewTokens(request), 1)
  /\ AtLeast(request.temperature, 0)  \* negative stands for one that is not finite too
  /\ AtLeast(request.top_p, 1) /\ (request.top_p = << >> \/ request.top_p[1] <= 100)
  /\ AtLeast(request.top_k, 1)
  /\ AtLeast(request.min_p, 0) /\ (request.min_p = << >> \/ request.min_p[1] <= 100)

ResolveOptions(defaults, request, plan) ==
  LET filter(field, none) ==
        IF request[field] = << >> THEN defaults[field]
        ELSE IF request[field][1] = none THEN << >> ELSE request[field]
  IN DisableSpeculationForSampling(
       [defaults EXCEPT
          !.max_new_tokens = Min({OrElse(MaxNewTokens(request), @), MAX_OUTPUT_TOKENS}),
          !.temperature = OrElse(request.temperature, @),
          !.top_p = filter("top_p", 100),
          !.top_k = Or(request.top_k, @),
          !.min_p = filter("min_p", 0),
          !.thinking_budget = IF plan.open THEN plan.budget ELSE << >>])
-----------------------------------------------------------------------------
\* chat_completions: the checks in their order, and the job.
Refused == [status |-> "bad_request"]

Job(request, server) ==
  LET messages == ChatMessages(request)
      tools == ToolDefinitions(request)
      plan == Plan(request, server)
      acceptable == /\ Honourable(request)
                    /\ \A i \in DOMAIN request.messages : Readable(request.messages[i])
                    /\ Renderable(messages)
                    /\ Resolvable(request)
  IN IF ~acceptable THEN Refused
     ELSE [status |-> "submitted",
           prompt |-> ChatPrompt(messages, tools, server.supports, plan.open),
           stable_prefix |-> HistoryPrefix(messages, tools),
           options |-> ResolveOptions(server.defaults, request, plan),
           stop_strings |-> StopStrings(request),
           tools_enabled |-> tools # << >>,
           thinking_open |-> plan.open]
=============================================================================
