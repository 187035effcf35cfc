---------------------------- MODULE ChatTemplate ----------------------------
(***************************************************************************)
(* The model's chat format: rendering a conversation into a prompt         *)
(* (src/src/tokenizer.rs).  A message is [role, content, tool_calls,       *)
(* reasoning]; reasoning is << >> or <<the text the client kept apart>>.   *)
(* A tool is [name, types].                                                *)
(***************************************************************************)
EXTENDS ToolArguments

IM_START == <<"<|im_start|>">>
IM_END == <<"<|im_end|>", "\n">>
THINK == <<"<think>">>
END_THINK == <<"<", "/think>">>
TOOL_RESPONSE == <<"<tool_response>">>
END_TOOL_RESPONSE == <<"</tool_response>">>

Turn(role, body) == IM_START \o <<role, "\n">> \o body \o IM_END

TrimNewlinesStart(text) ==
  LET kept == {i \in DOMAIN text : text[i] # "\n"}
  IN IF kept = {} THEN << >> ELSE From(text, Min(kept))
TrimNewlinesEnd(text) == Reverse(TrimNewlinesStart(Reverse(text)))

\* The last real user turn: one that only carries a tool's result is not.
IsToolResponse(text) == IsPrefix(TOOL_RESPONSE, text) /\ IsSuffix(END_TOOL_RESPONSE, text)
LastQueryIndex(messages) ==
  Max({i \in DOMAIN messages :
         messages[i].role = "user" /\ ~IsToolResponse(Trim(messages[i].content))} \cup {0})

SystemBlock(messages, tools) ==
  LET system == IF messages # << >> /\ messages[1].role = "system"
                THEN Trim(messages[1].content) ELSE << >>
      list == FlattenSeq([i \in DOMAIN tools |-> <<"\n">> \o tools[i].name])
      instructions == <<"# Tools", "<tools>">> \o list \o <<"\n", "</tools>", "<IMPORTANT>">>
  IN IF tools = << >>
     THEN IF system = << >> THEN << >> ELSE Turn("system", system)
     ELSE Turn("system", instructions
                         \o IF system = << >> THEN << >> ELSE <<"\n", "\n">> \o system)

\* The reasoning ends at the first closing tag, the answer begins after the
\* last: text between two of them belongs to neither.
SplitReasoning(message) ==
  LET content == Trim(message.content)
      head == TrimNewlinesEnd(Before(content, Find(content, END_THINK)))
      inside == IF Occurs(head, THINK) THEN Past(head, FindLast(head, THINK), THINK) ELSE head
  IN CASE message.reasoning # << >> -> [reasoning |-> message.reasoning[1], visible |-> content]
       [] message.reasoning = << >> /\ ~Occurs(content, END_THINK) ->
            [reasoning |-> << >>, visible |-> content]
       [] OTHER ->
            [reasoning |-> TrimNewlinesStart(inside),
             visible |-> TrimNewlinesStart(
                           Past(content, FindLast(content, END_THINK), END_THINK))]

\* A turn keeps its reasoning only within the current query.
AssistantTurn(message, current) ==
  LET split == SplitReasoning(message)
      calls == message.tool_calls
      call(i) ==
        (CASE i = 1 /\ split.visible # << >> -> <<"\n", "\n">>
           [] i = 1 /\ split.visible = << >> -> << >>
           [] OTHER -> <<"\n">>)
        \o Render(calls[i].name, calls[i].arguments)
  IN Turn("assistant",
          (IF current
           THEN THINK \o <<"\n">> \o Trim(split.reasoning) \o <<"\n">> \o END_THINK \o <<"\n", "\n">>
           ELSE << >>)
          \o split.visible \o FlattenSeq([i \in DOMAIN calls |-> call(i)]))

\* A run of tool results is folded into one user turn.
ToolTurn(messages, i) ==
  LET isTool(k) == k \in DOMAIN messages /\ messages[k].role = "tool"
  IN (IF isTool(i - 1) THEN << >> ELSE IM_START \o <<"user">>)
     \o <<"\n">> \o TOOL_RESPONSE \o <<"\n">> \o Trim(messages[i].content)
     \o <<"\n">> \o END_TOOL_RESPONSE
     \o (IF isTool(i + 1) THEN << >> ELSE IM_END)

Rendered(messages, i) ==
  LET message == messages[i]
  IN CASE message.role = "system" -> << >>
       [] message.role = "user" -> Turn("user", Trim(message.content))
       [] message.role = "assistant" -> AssistantTurn(message, LastQueryIndex(messages) \in 1..(i - 1))
       [] message.role = "tool" -> ToolTurn(messages, i)

\* The first n messages of a conversation, as the whole of it renders them.
RenderedUpTo(messages, tools, n) ==
  SystemBlock(messages, tools) \o FlattenSeq([i \in 1..n |-> Rendered(messages, i)])

GenerationPrompt(supports, open) ==
  IM_START \o <<"assistant", "\n">>
  \o CASE ~supports -> << >>
       [] supports /\ open -> THINK \o <<"\n">>
       [] supports /\ ~open -> THINK \o <<"\n", "\n">> \o END_THINK \o <<"\n", "\n">>

ChatPrompt(messages, tools, supports, open) ==
  RenderedUpTo(messages, tools, Len(messages)) \o GenerationPrompt(supports, open)

\* The conversations that can be rendered.
Renderable(messages) ==
  /\ messages # << >> /\ Last(messages).role # "assistant"
  /\ \A i \in 2..Len(messages) : messages[i].role # "system"
  /\ \E i \in DOMAIN messages : messages[i].role = "user"

\* Mutant: the history is rendered as a conversation of its own.
PrefixRenderedAlone(messages, tools) ==
  IF Len(messages) < 2 THEN << >>
  ELSE RenderedUpTo(Front(messages), tools, Len(messages) - 1)

\* Everything before the final message; << >> where the code answers None.
HistoryPrefix(messages, tools) ==
  IF Len(messages) < 2 THEN << >> ELSE RenderedUpTo(messages, tools, Len(messages) - 1)
=============================================================================
