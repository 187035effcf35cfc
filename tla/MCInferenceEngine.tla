------------------------- MODULE MCInferenceEngine -------------------------
(* Small instances of InferenceEngine.tla: two-token blocks, conversations
   that continue each other's prompts and replies, and ones that diverge. *)
EXTENDS InferenceEngineProps

MCToken == 1..3
MCStop == {3}

\* A target that alternates and stops after eight tokens.
MCChoice(context) ==
  IF Len(context) >= 7 THEN 3 ELSE IF context # << >> /\ Last(context) = 1 THEN 2 ELSE 1

Ask(prompt, mode, sampled, maxNew, stable) ==
  [prompt |-> prompt, mode |-> mode, sampled |-> sampled, maxNew |-> maxNew, stable |-> stable]

\* A first turn greedy and sampled, its continuation with the reply as the
\* target gives it in two modes, an edited history, and a prompt whose stable
\* prefix ends before its boundary.
MCRequests ==
  {Ask(<<1, 1, 2>>, "Auto", FALSE, 2, 3), Ask(<<1, 1, 2>>, "Off", TRUE, 2, 3),
   Ask(<<1, 1, 2, 1, 2, 1>>, "Mtp", FALSE, 2, 6), Ask(<<1, 1, 2, 1, 2, 1>>, "Ngram", FALSE, 2, 4),
   Ask(<<1, 1, 2, 2, 1>>, "Auto", FALSE, 1, 5), Ask(<<2, 1, 2>>, "Mtp", FALSE, 1, 1)}
=============================================================================
