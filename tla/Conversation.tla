---------------------------- MODULE Conversation ----------------------------
(***************************************************************************)
(* An agent's conversation with the server: each request carries the whole *)
(* history, is rendered into a prompt, answered, and echoed back with the  *)
(* next message appended.  The server keeps nothing of it but the text its *)
(* live session represents, which the next prompt should continue.         *)
(*                                                                         *)
(* How a turn's text becomes the reply is Response.tla's subject: here the *)
(* reply is what that module's ReplyIsTheOutput says it is.                *)
(***************************************************************************)
EXTENDS ChatRequest

CONSTANTS
  Servers,    \* the servers considered
  Settings,   \* a request's fields, with no messages yet
  Openings,   \* the histories a client begins with
  Tools,      \* the tools a request may declare
  Turns,      \* what the model may write: [reasoning, visible, calls], a call's
              \* parameters being [key, value], its text
  Questions, Results,  \* what a client may add: a user's words, a tool's result
  MaxTurns    \* bound: the turns of a conversation

\* What a request deserializes into, an argument string being any JSON text or
\* none; what the operator may configure (bin/serve.rs:328,
\* ThinkingPolicy::validate); what the model writes and the client asks.
Optional(S) == {option \in Seq(S) : Len(option) <= 1}
RequestMessages ==
  [role : STRING, kind : STRING, content : Optional(Seq(STRING)),
   tool_calls : Seq([name : Seq(STRING), arguments : Optional(Seq(STRING))]),
   reasoning_content : Optional(Seq(STRING))]
RequestSettings ==
  [messages : {<< >>}, tools : Seq(Tools), tool_choice : Optional(STRING),
   unsupported : SUBSET STRING, max_tokens : Optional(Nat), max_completion_tokens : Optional(Nat),
   temperature : Optional(Int), top_p : Optional(Nat), top_k : Optional(Nat),
   min_p : Optional(Nat), stop : SUBSET Seq(STRING), reasoning_effort : Optional(STRING),
   enable_thinking : Optional(BOOLEAN), kwargs_enable_thinking : Optional(BOOLEAN),
   thinking_budget : Optional(Nat)]
IsPolicy(policy) ==
  /\ policy.default_budget \in Optional(Nat \ {0}) /\ policy.max_budget \in Optional(Nat \ {0})
  /\ policy.enabled_by_default \in BOOLEAN
  /\ \A level \in DOMAIN policy.effort_budgets : policy.effort_budgets[level] \in Nat \ {0}
Options ==
  [max_new_tokens : Nat \ {0}, temperature : Int, top_p : Optional(Nat), top_k : Optional(Nat),
   min_p : Optional(Nat), thinking_budget : Optional(Nat), speculative_mode : STRING,
   speculative_mtp_draft_tokens : Nat, speculative_ngram_draft_tokens : Nat]

ASSUME ConversationAssumption ==
  /\ MAX_OUTPUT_TOKENS \in Nat \ {0} /\ MaxTurns \in Nat
  /\ \A s \in Servers : s.supports \in BOOLEAN /\ IsPolicy(s.policy) /\ s.defaults \in Options
  /\ Settings \subseteq RequestSettings
  /\ Openings \subseteq Seq(RequestMessages)
  /\ \A tool \in Tools : tool.name \in Seq(STRING)
  /\ Turns \subseteq [reasoning : Seq(STRING), visible : Seq(STRING),
                      calls : Seq([name : Seq(STRING),
                                   parameters : Seq([key : Seq(STRING), value : Seq(STRING)])])]
  /\ Questions \subseteq Seq(STRING) /\ Results \subseteq Seq(STRING)

VARIABLES
  server,    \* the server the client talks to
  sent,      \* the request it sends
  job,       \* what the server made of it; NoJob before
  turn,      \* the turn the model wrote for it; NoTurn before
  received,  \* what it received: [raw, content, calls], raw being the text it came from; NoReply before
  last,      \* the exchange before: its request, job and turn, and how it was echoed
  turns      \* how many turns have been answered

conversationVars == <<server, sent, job, turn, received, last, turns>>

NoJob == [status |-> "none"]
NoTurn == [visible |-> <<"none">>]
NoReply == [content |-> <<"none">>]
NoExchange == [echo |-> "none"]

\* A turn's text: it follows a thinking block's tag, which the prompt opened or
\* closed, and its markup is the template's.
Markup(call) ==
  CALL_OPEN \o <<"\n">> \o FUNCTION_OPEN \o call.name \o TAG_END \o <<"\n">>
  \o FlattenSeq([i \in DOMAIN call.parameters |->
                   PARAMETER_OPEN \o call.parameters[i].key \o TAG_END \o <<"\n">>
                   \o call.parameters[i].value \o <<"\n">> \o PARAMETER_CLOSE \o <<"\n">>])
  \o FUNCTION_CLOSE \o <<"\n">> \o CALL_CLOSE

Written(t, open) ==
  (IF open THEN t.reasoning \o <<"\n">> \o END_THINK \o <<"\n", "\n">> ELSE << >>)
  \o t.visible
  \o (IF t.calls = << >> THEN << >>
      ELSE (IF t.visible = << >> THEN << >> ELSE <<"\n", "\n">>) \o Markup(t.calls[1]))

\* What the client receives of a turn's text.
ReplyContent(raw) ==
  (IF job.thinking_open THEN THINK \o <<"\n">> ELSE << >>)
  \o IF job.tools_enabled /\ Occurs(raw, CALL_OPEN) THEN Before(raw, Find(raw, CALL_OPEN)) ELSE raw
ReplyCall(call) ==
  [name |-> call.name, arguments |-> <<ArgumentsJson(call, ToolTypes(sent, call.name))>>]
Reply(raw) ==
  [raw |-> raw, content |-> ReplyContent(raw),
   calls |-> IF job.tools_enabled
             THEN LET calls == Parse(raw) IN [i \in DOMAIN calls |-> ReplyCall(calls[i])]
             ELSE << >>]

(***************************************************************************)
(* Clients.  One sends back what it received; one parses the arguments and *)
(* writes them again; one keeps the thinking apart from the answer; one    *)
(* drops it.                                                               *)
(***************************************************************************)
Echoes == {"verbatim", "rewritten", "apart", "dropped"}

Assistant(content, reasoning, calls) ==
  [role |-> "assistant", kind |-> "text", content |-> <<content>>, tool_calls |-> calls,
   reasoning_content |-> reasoning]

Echoed(echo) ==
  LET content == received.content
      closed == Occurs(content, END_THINK)
      answer == IF closed THEN Past(content, FindLast(content, END_THINK), END_THINK) ELSE content
      thought == IF closed THEN SubSeq(content, 2, Find(content, END_THINK) - 1) ELSE << >>
      rewritten == [i \in DOMAIN received.calls |->
                      [received.calls[i] EXCEPT !.arguments = <<Compacted(@[1])>>]]
  IN CASE echo = "verbatim" -> Assistant(content, << >>, received.calls)
       [] echo = "rewritten" -> Assistant(content, << >>, rewritten)
       [] echo = "apart" -> Assistant(answer, IF closed THEN <<thought>> ELSE << >>, rewritten)
       [] echo = "dropped" -> Assistant(answer, << >>, received.calls)

Message(role, content) ==
  [role |-> role, kind |-> "text", content |-> <<content>>, tool_calls |-> << >>,
   reasoning_content |-> << >>]

\* What may follow a turn: a tool's result, as a message of its own or wrapped
\* in a user's, several of them, or another question.
Wrapped(result) == TOOL_RESPONSE \o <<"\n">> \o result \o <<"\n">> \o END_TOOL_RESPONSE
Follows == {<<Message("user", q)>> : q \in Questions}
           \cup UNION {{<<Message("tool", r)>>, <<Message("user", Wrapped(r))>>,
                        <<Message("tool", r), Message("function", r)>>} : r \in Results}
-----------------------------------------------------------------------------
With(settings, messages) == [settings EXCEPT !.messages = messages]

ConversationInit ==
  /\ server \in Servers
  /\ \E settings \in Settings, opening \in Openings : sent = With(settings, opening)
  /\ job = NoJob /\ turn = NoTurn /\ received = NoReply /\ last = NoExchange /\ turns = 0

\* chat_completions, up to the submitted job.
Chat ==
  /\ job = NoJob
  /\ job' = Job(sent, server)
  /\ UNCHANGED <<server, sent, turn, received, last, turns>>

\* The worker answers the job.
Generate ==
  /\ job.status = "submitted" /\ turn = NoTurn /\ turns < MaxTurns
  /\ turn' \in Turns
  /\ received' = Reply(Written(turn', job.thinking_open))
  /\ turns' = turns + 1
  /\ UNCHANGED <<server, sent, job, last>>

\* The client's next request.
Follow ==
  /\ turn # NoTurn
  /\ \E echo \in Echoes, settings \in Settings, added \in Follows :
       /\ sent' = With(settings, Append(sent.messages, Echoed(echo)) \o added)
       /\ last' = [echo |-> echo, request |-> sent, job |-> job, turn |-> turn, raw |-> received.raw]
  /\ job' = NoJob /\ turn' = NoTurn /\ received' = NoReply
  /\ UNCHANGED <<server, turns>>

ConversationNext == Chat \/ Generate \/ Follow

ConversationSpec == ConversationInit /\ [][ConversationNext]_conversationVars
=============================================================================
