--------------------------- MODULE ToolArguments ---------------------------
(***************************************************************************)
(* A call's arguments: from the parameter text the model wrote to the JSON *)
(* object a client is sent, and from the object a client sends back to the *)
(* markup of the next prompt (src/src/tool_calls.rs).  The arguments are   *)
(* kept as the text they arrived in: an object's members are scanned out   *)
(* of it without parsing, and a value is parsed only to be written again   *)
(* with Python's separators.  A symbol of JSON text is a punctuation mark, *)
(* a quote, an escape, a white space, or a run of any other characters.    *)
(***************************************************************************)
EXTENDS TextScan

CONSTANT Values  \* the JSON values in play: [kind, text], [kind, items] or [kind, members]

\* A value is a finite tree: its parts are values, and none is a part of its own.
IsTree(value) ==
  \/ value.kind \in {"word", "string"} /\ value.text \in Seq(STRING)
  \/ value.kind = "array" /\ value.items \in Seq(Values)
  \/ value.kind = "object" /\ value.members \in Seq([key : Seq(STRING), value : Values])
PartsOf(value) ==
  CASE value.kind = "array" -> Range(value.items)
    [] value.kind = "object" -> {member.value : member \in Range(value.members)}
    [] OTHER -> {}

ASSUME ValuesAssumption ==
  /\ \A v \in Values : IsTree(v)
  /\ \A S \in SUBSET Values : S # {} => \E v \in S : PartsOf(v) \cap S = {}

QUOTE == "\""
ESCAPE == "\\"
OpenBrackets == {"{", "["}
CloseBrackets == {"}", "]"}
Closing == [open \in OpenBrackets |-> IF open = "{" THEN "}" ELSE "]"]

(***************************************************************************)
(* Writing.                                                                *)
(***************************************************************************)
Escaped(symbol) ==
  CASE symbol \in {QUOTE, ESCAPE} -> <<ESCAPE, symbol>>
    [] symbol = "\n" -> <<ESCAPE, "n">>
    [] OTHER -> <<symbol>>
JsonString(text) ==
  <<QUOTE>> \o FlattenSeq([i \in DOMAIN text |-> Escaped(text[i])]) \o <<QUOTE>>

Joined(parts, separator) ==
  FlattenSeq([i \in DOMAIN parts |-> IF i = 1 THEN parts[i] ELSE separator \o parts[i]])

\* What follows a colon or a comma.
Python == <<" ">>
Compact == << >>

Write(value, gap) ==
  LET write[v \in Values] ==
        CASE v.kind = "word" -> v.text
          [] v.kind = "string" -> JsonString(v.text)
          [] v.kind = "array" ->
               <<"[">> \o Joined([i \in DOMAIN v.items |-> write[v.items[i]]], <<",">> \o gap)
               \o <<"]">>
          [] OTHER ->
               <<"{">> \o Joined([i \in DOMAIN v.members |->
                                    JsonString(v.members[i].key) \o <<":">> \o gap
                                    \o write[v.members[i].value]],
                                 <<",">> \o gap) \o <<"}">>
  IN write[value]

PythonJson(value) == Write(value, Python)
-----------------------------------------------------------------------------
(***************************************************************************)
(* Scanning.  A scan answers one past what starts at a position, 0 where   *)
(* the code answers None.                                                  *)
(***************************************************************************)
Symbol(text, at) == IF at \in DOMAIN text THEN text[at] ELSE "end"

SkipWhitespace(text, at) ==
  Min({i \in at..(Len(text) + 1) : Symbol(text, i) \notin Space})

ScanString(text, at) ==
  LET end[i \in 1..(Len(text) + 2)] ==
        CASE Symbol(text, i) = "end" -> 0
          [] Symbol(text, i) = ESCAPE -> end[i + 2]
          [] Symbol(text, i) = QUOTE -> i + 1
          [] OTHER -> end[i + 1]
  IN end[at + 1]

\* Strings are skipped whole: brackets inside one do not nest.  end[i] is the
\* answer from i on, by the brackets that are still to be closed.
ScanContainer(text, at) ==
  LET end[i \in 1..(Len(text) + 1)] ==
        [expected \in Seq(CloseBrackets) |->
           LET symbol == Symbol(text, i)
               closes == expected # << >> /\ symbol = Head(expected)
           IN CASE symbol = "end" -> 0
                [] symbol = QUOTE -> IF ScanString(text, i) = 0 THEN 0
                                     ELSE end[ScanString(text, i)][expected]
                [] symbol \in OpenBrackets -> end[i + 1][<<Closing[symbol]>> \o expected]
                [] symbol \in CloseBrackets /\ ~closes -> 0
                [] closes /\ Len(expected) = 1 -> i + 1
                [] closes /\ Len(expected) > 1 -> end[i + 1][Tail(expected)]
                [] OTHER -> end[i + 1][expected]]
  IN end[at][<< >>]

ScanValue(text, at) ==
  LET ends == {i \in at..(Len(text) + 1) : Symbol(text, i) \in {",", "}", "]", "end"} \cup Space}
  IN CASE Symbol(text, at) = QUOTE -> ScanString(text, at)
       [] Symbol(text, at) \in OpenBrackets -> ScanContainer(text, at)
       [] OTHER -> IF ends = {} \/ Min(ends) = at THEN 0 ELSE Min(ends)

\* The text a string stands for.
Contents(literal) ==
  LET read[i \in 2..(Len(literal) + 1)] ==
        CASE i >= Len(literal) -> << >>
          [] i < Len(literal) /\ literal[i] = ESCAPE ->
               <<IF literal[i + 1] = "n" THEN "\n" ELSE literal[i + 1]>> \o read[i + 2]
          [] OTHER -> <<literal[i]>> \o read[i + 1]
  IN read[2]

\* The members of the object a text is, in the order they were written, each
\* value as the text it was written with; NotAnObject if it is none.
NotAnObject == <<[key |-> << >>, value |-> <<"not an object">>]>>

MembersFrom(text, first) ==
  LET members[at \in 1..(Len(text) + 1)] ==
        LET keyEnd == ScanString(text, at)
            colon == SkipWhitespace(text, keyEnd)
            value == SkipWhitespace(text, colon + 1)
            valueEnd == ScanValue(text, value)
            next == SkipWhitespace(text, valueEnd)
            member == [key |-> Contents(SubSeq(text, at, keyEnd - 1)),
                       value |-> SubSeq(text, value, valueEnd - 1)]
            rest == CASE Symbol(text, next) = "," -> members[SkipWhitespace(text, next + 1)]
                      [] Symbol(text, next) = "}"
                         /\ SkipWhitespace(text, next + 1) > Len(text) -> << >>
                      [] OTHER -> NotAnObject
        IN IF \/ Symbol(text, at) # QUOTE \/ keyEnd = 0
              \/ Symbol(text, colon) # ":" \/ valueEnd = 0
              \/ rest = NotAnObject
           THEN NotAnObject ELSE <<member>> \o rest
  IN members[first]

ObjectMembers(text) ==
  LET start == SkipWhitespace(text, 1)
      first == SkipWhitespace(text, start + 1)
  IN IF Symbol(text, start) # "{" THEN NotAnObject
     ELSE IF Symbol(text, first) # "}" THEN MembersFrom(text, first)
     ELSE IF SkipWhitespace(text, first + 1) > Len(text) THEN << >> ELSE NotAnObject
-----------------------------------------------------------------------------
(***************************************************************************)
(* Parsing: what serde_json and a client's JSON library agree on.          *)
(***************************************************************************)
\* A text as JSON.stringify writes it again: no white space outside a string.
Quotes(text, i) ==
  Cardinality({j \in 1..(i - 1) : text[j] = QUOTE /\ (j = 1 \/ text[j - 1] # ESCAPE)})
Compacted(text) ==
  FlattenSeq([i \in DOMAIN text |->
                IF text[i] \in Space /\ Quotes(text, i) % 2 = 0 THEN << >> ELSE <<text[i]>>])

NoValue == [kind |-> "none"]
FromStr(text) ==
  LET values == {v \in Values : Write(v, Compact) = Compacted(text)}
  IN IF values = {} THEN NoValue ELSE CHOOSE v \in values : TRUE

\* The arguments a client sends are one value, or an object of values.
IsValue(text) == Symbol(text, 1) = QUOTE \/ FromStr(text) # NoValue
IsJson(text) ==
  LET members == ObjectMembers(text)
  IN \/ IsValue(text)
     \/ members # NotAnObject /\ \A i \in DOMAIN members : IsValue(members[i].value)

(***************************************************************************)
(* Arguments.                                                              *)
(***************************************************************************)
\* Mutant: text that is a JSON string is copied in like any other value.
EncodeCopyingStrings(raw, declared) ==
  IF declared # "string" /\ FromStr(raw).kind # "none"
  THEN Trim(raw) ELSE JsonString(raw)

\* Only a declared type other than a string, or none, lets text be a value.
Encode(raw, declared) ==
  IF declared # "string" /\ FromStr(raw).kind \notin {"none", "string"}
  THEN Trim(raw) ELSE JsonString(raw)

\* types is the schema's declared type of each parameter that has one.
ArgumentsJson(call, types) ==
  LET declared(key) == IF key \in DOMAIN types THEN types[key] ELSE "undeclared"
  IN <<"{">>
     \o Joined([i \in DOMAIN call.parameters |->
                  JsonString(call.parameters[i].key) \o <<":">>
                  \o Encode(call.parameters[i].value, declared(call.parameters[i].key))],
               <<",">>)
     \o <<"}">>

\* Mutant: a structured value keeps the layout it came back in.
ParameterTextAsSent(value) ==
  IF Symbol(value, 1) = QUOTE THEN Contents(value) ELSE value

ParameterText(value) ==
  CASE Symbol(value, 1) = QUOTE -> Contents(value)
    [] Symbol(value, 1) \in OpenBrackets /\ FromStr(value) # NoValue -> PythonJson(FromStr(value))
    [] OTHER -> value

Render(name, arguments) ==
  LET members == IF ObjectMembers(arguments) = NotAnObject THEN << >> ELSE ObjectMembers(arguments)
      parameter(member) ==
        PARAMETER_OPEN \o member.key \o TAG_END \o <<"\n">> \o ParameterText(member.value)
        \o <<"\n">> \o PARAMETER_CLOSE \o <<"\n">>
  IN CALL_OPEN \o <<"\n">> \o FUNCTION_OPEN \o name \o TAG_END \o <<"\n">>
     \o FlattenSeq([i \in DOMAIN members |-> parameter(members[i])])
     \o FUNCTION_CLOSE \o <<"\n">> \o CALL_CLOSE
=============================================================================
