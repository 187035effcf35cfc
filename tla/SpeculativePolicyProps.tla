----------------------- MODULE SpeculativePolicyProps -----------------------
(***************************************************************************)
(* What the policy loop, the index and the controllers have to get right.  *)
(***************************************************************************)
EXTENDS SpeculativePolicy

CONSTANTS
  TrialLength,    \* proposals rejected outright that an arm is allowed at first
  RecoveryLength  \* proposals accepted in full that bring its draft to the cap

Iterated(step, start, n) ==
  LET value[k \in 0..n] == IF k = 0 THEN start ELSE step[value[k - 1]]
  IN value[n]

\* An average of a full share after n proposals rejected outright, and the first
\* suspension doubled n times.
Fade == [average \in 0..Whole |-> ((AlphaParts - 1) * average) \div AlphaParts]
Double == [wait \in Nat |-> 2 * wait]
Faded(n) == Iterated(Fade, Whole, n)
Doubled(n) == Iterated(Double, BackoffTokens, n)

\* A bar is a share above none; the trial brings the average below it, and the
\* recovery brings the shortest draft to the cap.
Paced(arms) ==
  /\ arms.bar \in 1..Whole /\ Faded(TrialLength) < arms.bar
  /\ arms.enabled /\ arms.adaptive => Lowest(arms) + arms.grow * RecoveryLength >= arms.cap

ASSUME PaceAssumption ==
  /\ TrialLength \in Nat \ {0} /\ RecoveryLength \in Nat \ {0}
  /\ \A configs \in ArmConfigs : Paced(configs.ngram) /\ Paced(configs.mtp)

\* Where the suffix that ends the text ended before, and where a key whose hash
\* is the same did.
Occurrences(length) ==
  {p \in length..(Len(index.tokens) - 1) :
     Suffix(index.tokens, p, length) = Suffix(index.tokens, Len(index.tokens), length)}
Collisions(length) ==
  {p \in length..(Len(index.tokens) - 1) :
     Hash(Suffix(index.tokens, p, length)) = Hash(Suffix(index.tokens, Len(index.tokens), length))}

\* A lookup finds the newest earlier occurrence of the suffix and never anything
\* else; only a newer key of the same hash hides it (ngram.rs:136).
LookupsAreExact ==
  \A slot \in DOMAIN MatchLengths :
    LET length == MatchLengths[slot]
        found == MostRecentMatch(index, slot)
        short == Len(index.tokens) < length
    IN  IF short \/ Occurrences(length) = {} THEN found = 0
        ELSE found \in {Max(Occurrences(length))}
                       \union (IF Max(Occurrences(length)) = Max(Collisions(length))
                               THEN {} ELSE {0})

\* While a span is copied, the tokens before its cursor are the tokens the text
\* ends in, for a key's length and two tokens more, so what it proposes continues
\* what was said before (runtime.rs:1843).
SpanFollowsText ==
  LET tail == span.match + 2
      end == Len(index.tokens)
  IN  span # NoSpan /\ ~BeforeTurn =>
        /\ tail < span.next /\ span.next <= end
        /\ Suffix(index.tokens, span.next - 1, tail) = Suffix(index.tokens, end, tail)

\* A draft of the index or of a span continues an earlier occurrence of the text's end.
DraftsContinueText == LookupsAreExact /\ SpanFollowsText

\* An arm keeps its draft within its floor and cap; one that is rejected outright
\* as often as the trial allows is suspended or about to be probed; one that is
\* accepted in full is not suspended and gets to its cap; and the suspension after
\* n failed probes in a row is the first one doubled n times, up to the cap.
ArmIsEarned(arm, arms, past) ==
  /\ arm.length \in Lowest(arms)..arms.cap
  /\ arms.backoff /\ past.rejected >= TrialLength => Suspended(arm) \/ arm.probing
  /\ past.accepted >= RecoveryLength =>
       ~Suspended(arm) /\ (arms.adaptive => arm.length = arms.cap)
  /\ past.failedProbes > 0 =>
       arm.window = Min({Doubled(past.failedProbes), BackoffCap})
  /\ Suspended(arm) => arm.until <= generated + arm.window \/ BeforeTurn

\* Both arms earn the drafts they are given (speculative.rs:353).
ArmsAreEarned ==
  /\ ArmIsEarned(ngram, config.ngram, history.ngram)
  /\ ArmIsEarned(mtp, config.mtp, history.mtp)
=============================================================================
