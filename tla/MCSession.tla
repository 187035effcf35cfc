------------------------------ MODULE MCSession ------------------------------
(* Small instances of Session.tla. *)
EXTENDS SessionProps

\* Token 3 ends a turn, token 2 is "</think>", token 0 is a newline.
MCToken == 0..3
MCStop == {3}
MCThinkClose == <<2>>
MCForcedClose == <<2, 0>>

\* A target that repeats itself, so that drafts are accepted to varying depth,
\* closes the thinking block now and then and stops now and then.
MCChoice(context) ==
  LET n == Len(context)
      last == IF n = 0 THEN 0 ELSE context[n]
  IN CASE n = 6 -> 3
       [] n % 4 = 3 /\ last = 0 -> 2
       [] OTHER -> (n + last) % 2

MCPrompts == {<<0>>, <<1>>}

Opt(mode, maxNew, budget, sampled, eager) ==
  [mode |-> mode, maxNew |-> maxNew, budget |-> budget, sampled |-> sampled,
   eager |-> eager]

\* Every mode, the thinking budgets 0 to 3, a sampled turn, and eager
\* resynchronisation with turns that do not keep up with it between.
MCTurns ==
  {Opt("Off", 2, 1, TRUE, FALSE), Opt("Off", 3, 0, FALSE, FALSE),
   Opt("Off", 2, NoBudget, FALSE, FALSE),
   Opt("Ngram", 4, NoBudget, FALSE, FALSE), Opt("Mtp", 4, NoBudget, FALSE, FALSE),
   Opt("Auto", 4, 2, FALSE, FALSE), Opt("Auto", 1, 0, FALSE, FALSE),
   Opt("Mtp", 4, 3, FALSE, TRUE), Opt("Auto", 4, NoBudget, FALSE, TRUE)}

\* Short turns, for the runs that also take and restore images.
MCShortTurns ==
  {Opt("Off", 1, NoBudget, FALSE, FALSE), Opt("Auto", 3, NoBudget, FALSE, FALSE)}
=============================================================================
