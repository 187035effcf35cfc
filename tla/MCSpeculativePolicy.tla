------------------------- MODULE MCSpeculativePolicy ------------------------
EXTENDS SpeculativePolicyProps

\* Keys of a length collide when they hold the same tokens in another order.
MCHash(key) == FoldLeft(LAMBDA sum, token : sum + token * token, 0, key)
MCMatchLengths == <<3, 2>>
MCPrompts == {<<1>>, <<2, 1>>}

\* Both arms; the index alone, with neither mechanism and no spans, asked for by
\* its draft length; the predictor alone, from a depth above its cap.
MCBoth ==
  [mode |-> "auto", ngramDraft |-> 3, mtpDraft |-> 2, ngramFloor |-> 1, mtpFloor |-> 1,
   mtpStart |-> 2, ngramBar |-> 40, mtpBar |-> 60, adaptive |-> TRUE, backoff |-> TRUE,
   span |-> TRUE]
MCTurnOptions ==
  {MCBoth,
   [MCBoth EXCEPT !.mode = "off", !.mtpDraft = 0, !.adaptive = FALSE, !.backoff = FALSE,
                  !.span = FALSE],
   [MCBoth EXCEPT !.mode = "mtp", !.mtpFloor = 0, !.mtpStart = 4]}
=============================================================================
