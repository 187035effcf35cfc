---------------------------- MODULE TargetDecode ----------------------------
(***************************************************************************)
(* What decoding promises, whichever way it is done: every generated token *)
(* is the target model's own choice for exactly the text that precedes it, *)
(* one token at a time, until a stop token, the turn's token limit, or a   *)
(* callback that halts it; a thinking block that reaches its budget is     *)
(* closed by a fixed token sequence.  There are no drafts, no hidden rows  *)
(* and no rollback here.  Session.tla is shown to implement this module.   *)
(***************************************************************************)
EXTENDS Integers, Sequences, SequencesExt

CONSTANTS
  Token,          \* the vocabulary
  StopTokens,     \* tokens that end an assistant turn
  ThinkClose,     \* "</think>" as tokens
  ForcedClose,    \* "</think>\n\n" as tokens
  Choice(_),      \* the target's greedy token for a context
  TurnOptions,    \* option records a turn may be started with
  Prompts,        \* token sequences a caller may supply
  NoTurn          \* the options while no turn runs

VARIABLES
  text,       \* everything the caller supplied and received, in order
  generated,  \* tokens this turn emitted
  thinking,   \* whether the turn's thinking budget still applies
  closure,    \* forced-closure tokens still to emit
  opts,       \* the running turn's options, or NoTurn
  saved       \* texts a session image was taken of

vars == <<text, generated, thinking, closure, opts, saved>>

\* The model writes "</think>" by itself: it stops the budget.
ClosesNaturally(out) == IsSuffix(ThinkClose, out)

\* A committed token spends the last of the budget and is not a stop token.
SpendsBudget(out, token) ==
  Len(out) >= opts.budget /\ token \notin StopTokens

NoLocals ==
  /\ generated' = << >> /\ thinking' = FALSE
  /\ closure' = << >> /\ opts' = NoTurn

Running == opts # NoTurn

Init ==
  /\ text = << >>
  /\ generated = << >>
  /\ thinking = FALSE
  /\ closure = << >>
  /\ opts = NoTurn
  /\ saved = {}

\* A turn starts with a prompt; a zero budget closes the block at once.
Begin(prompt, o) ==
  /\ ~Running
  /\ text' = text \o prompt
  /\ opts' = o
  /\ thinking' = (o.budget > 0)
  /\ closure' = IF o.budget = 0 THEN ForcedClose ELSE << >>
  /\ UNCHANGED <<generated, saved>>

\* Emit one token: the target's choice, or any token when sampling.
Emit(token, halt) ==
  /\ Running /\ closure = << >> /\ Len(generated) < opts.maxNew
  /\ opts.sampled \/ token = Choice(text)
  /\ text' = Append(text, token)
  /\ LET out     == Append(generated, token)
         natural == thinking /\ ClosesNaturally(out)
         forced  == thinking /\ ~natural /\ SpendsBudget(out, token)
         over    == token \in StopTokens \/ Len(out) >= opts.maxNew
     IN IF halt \/ (~forced /\ over)
        THEN NoLocals
        ELSE /\ generated' = out
             /\ thinking' = (thinking /\ ~natural /\ ~forced)
             /\ closure' = IF forced THEN ForcedClose ELSE << >>
             /\ UNCHANGED opts
  /\ UNCHANGED saved

\* Emit one token of a forced closure.
EmitClosure(halt) ==
  /\ Running /\ closure # << >>
  /\ text' = Append(text, Head(closure))
  /\ IF halt
     THEN NoLocals
     ELSE /\ generated' = Append(generated, Head(closure))
          /\ closure' = Tail(closure)
          /\ UNCHANGED <<thinking, opts>>
  /\ UNCHANGED saved

\* The turn's limit was used up by a forced closure.
EndSpent ==
  /\ Running /\ closure = << >> /\ Len(generated) >= opts.maxNew
  /\ NoLocals
  /\ UNCHANGED <<text, saved>>

\* A pass failed: the turn is over and the text stands as it was emitted.
Abort ==
  /\ Running
  /\ NoLocals
  /\ UNCHANGED <<text, saved>>

\* Prompt tokens are taken in without sampling.
Extend(prompt) ==
  /\ ~Running
  /\ text' = text \o prompt
  /\ UNCHANGED <<generated, thinking, closure, opts, saved>>

Save ==
  /\ ~Running
  /\ saved' = saved \cup {text}
  /\ UNCHANGED <<text, generated, thinking, closure, opts>>

\* Start again from nothing, or from a text that was saved.
Restart(base) ==
  /\ ~Running
  /\ text' = base
  /\ UNCHANGED <<generated, thinking, closure, opts, saved>>

Next ==
  \/ \E prompt \in Prompts, o \in TurnOptions : Begin(prompt, o)
  \/ \E token \in Token, halt \in BOOLEAN : Emit(token, halt)
  \/ \E halt \in BOOLEAN : EmitClosure(halt)
  \/ EndSpent
  \/ Abort
  \/ \E prompt \in Prompts : Extend(prompt)
  \/ Save
  \/ \E base \in saved \cup {<< >>} : Restart(base)

Spec == Init /\ [][Next]_vars
=============================================================================
