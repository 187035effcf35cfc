-------------------------- MODULE StatelessDecode --------------------------
(***************************************************************************)
(* What the engine promises a client: its reply continues its own prompt,  *)
(* token by token, as a target that starts every request from nothing      *)
(* would.  Nothing an earlier request left behind shows.                   *)
(***************************************************************************)
EXTENDS Naturals, Sequences

CONSTANTS
  Token,       \* tokens
  StopTokens,  \* tokens that end a turn
  Choice(_),   \* the target's greedy token after a context
  Requests,    \* requests: [prompt, mode, sampled, maxNew, stable]
  NoRequest

VARIABLES
  request,     \* the request being served
  reply        \* the tokens generated for it

vars == <<request, reply>>

Init == request = NoRequest /\ reply = << >>

Ask(asked) ==
  /\ request = NoRequest
  /\ request' = asked /\ reply' = << >>

Stopped == reply # << >> /\ reply[Len(reply)] \in StopTokens

\* A sampled token is any token.
Allowed(asked, context) == {token \in Token : asked.sampled \/ token = Choice(context)}

Extend ==
  /\ request # NoRequest
  /\ Len(reply) < request.maxNew /\ ~Stopped
  /\ \E token \in Allowed(request, request.prompt \o reply) : reply' = Append(reply, token)
  /\ UNCHANGED request

\* Done, halted, failed, cancelled or lost with the process.
End ==
  /\ request # NoRequest
  /\ request' = NoRequest /\ reply' = << >>

Next == (\E asked \in Requests : Ask(asked)) \/ Extend \/ End

Spec == Init /\ [][Next]_vars
=============================================================================
