--------------------------- MODULE MCPromptCache ---------------------------
(* Small instances of PromptCache.tla: one-token blocks, so that every proper
   prefix of a prompt is a boundary. *)
EXTENDS PromptCacheProps

\* One prompt with two boundaries, and two with one boundary more.
MCOnePrompt == {<<1, 1, 1>>}
MCTwoPrompts == {<<1, 1, 1>>, <<2, 1>>}

Setting(budget, others, faults) ==
  [budget |-> budget, foreign |-> others, faults |-> faults]

\* A budget that one entry exceeds together with another and where everything may
\* fail, one that holds every entry once the foreign files are gone, and one that
\* nothing fits.
MCSettings ==
  {Setting(2, 1, {"write", "evict", "read"}), Setting(2, 1, {"write"}), Setting(3, 2, {"write"}),
   Setting(0, 0, {"read"})}
MCTightSetting == {Setting(2, 0, {})}

\* A hash without collisions.
MCExactHash(tokens) == tokens
=============================================================================
