---------------------------- MODULE DraftSources ----------------------------
(***************************************************************************)
(* The incremental index of src/src/ngram.rs: for each key length, a map   *)
(* from the hash of a key to the newest position at which one with that    *)
(* hash ended, and the position the map held for the suffix just pushed.   *)
(* Positions count from 1; 0 stands for none.                              *)
(***************************************************************************)
EXTENDS Integers, Sequences, SequencesExt, FiniteSetsExt

CONSTANTS
  MatchLengths,   \* indexed key lengths, the longest first
  Hash(_),        \* the hash of a key
  Stops           \* tokens that end a generation

ASSUME IndexAssumption == MatchLengths \in Seq(Nat \ {0})

NoDraft == [tokens |-> <<>>, match |-> 0, source |-> 0]

NewIndex ==
  [tokens |-> <<>>,
   maps |-> [slot \in DOMAIN MatchLengths |-> [h \in {} |-> 0]],
   last |-> [slot \in DOMAIN MatchLengths |-> 0]]

Suffix(tokens, end, length) == SubSeq(tokens, end - length + 1, end)

\* What the map held before: the newest earlier end of a key with this hash.
EndBefore(map, hash) == IF hash \in DOMAIN map THEN map[hash] ELSE 0
Inserted(map, hash, end) ==
  [h \in DOMAIN map \cup {hash} |-> IF h = hash THEN end ELSE map[h]]

Push(index, token) ==
  LET tokens == Append(index.tokens, token)
      end == Len(tokens)
      long(slot) == end >= MatchLengths[slot]
      hash(slot) == Hash(Suffix(tokens, end, MatchLengths[slot]))
  IN  [tokens |-> tokens,
       maps |-> [slot \in DOMAIN MatchLengths |->
                   IF long(slot) THEN Inserted(index.maps[slot], hash(slot), end)
                   ELSE index.maps[slot]],
       last |-> [slot \in DOMAIN MatchLengths |->
                   IF long(slot) THEN EndBefore(index.maps[slot], hash(slot))
                   ELSE 0]]

Extend(index, tokens) ==
  LET pushed[n \in 0..Len(tokens)] ==
        IF n = 0 THEN index ELSE Push(pushed[n - 1], tokens[n])
  IN pushed[Len(tokens)]

\* The remembered position, if the tokens there are the suffix indeed.
MostRecentMatch(index, slot) ==
  LET length == MatchLengths[slot]
      candidate == index.last[slot]
      end == Len(index.tokens)
  IN  IF candidate >= length
         /\ Suffix(index.tokens, candidate, length) = Suffix(index.tokens, end, length)
      THEN candidate ELSE 0

\* Tokens up to the first stop.
BeforeStop(tokens) ==
  LET stops == {i \in DOMAIN tokens : tokens[i] \in Stops}
  IN  IF stops = {} THEN tokens ELSE SubSeq(tokens, 1, Min(stops) - 1)

\* What followed `source', up to `length' tokens of it.
Continuation(index, source, length, match) ==
  LET tokens == BeforeStop(SubSeq(index.tokens, source + 1,
                                  Min({source + length, Len(index.tokens)})))
  IN  IF tokens = <<>> THEN NoDraft
      ELSE [tokens |-> tokens, match |-> match, source |-> source]

\* The longest key that matches decides, also when a stop follows it at once.
Draft(index, length, minMatch) ==
  LET matching == {slot \in DOMAIN MatchLengths :
                     MatchLengths[slot] >= minMatch /\ MostRecentMatch(index, slot) # 0}
  IN  IF length = 0 \/ matching = {} THEN NoDraft
      ELSE LET slot == Min(matching)
           IN  Continuation(index, MostRecentMatch(index, slot), length, MatchLengths[slot])

\* The span goes on from `next' without a key.
ContinueFrom(index, next, length, match) ==
  IF length = 0 \/ next <= 1 \/ next > Len(index.tokens) THEN NoDraft
  ELSE Continuation(index, next - 1, length, match)
-----------------------------------------------------------------------------
(***************************************************************************)
(* The decision state of one draft source (src/src/speculative.rs): how    *)
(* long its next draft may be, its acceptance average and its suspension.  *)
(* The average is kept in hundredths, rounded down.                        *)
(***************************************************************************)
CONSTANTS
  AlphaParts,      \* the average moves by one part in so many
  BackoffTokens,   \* committed tokens the first suspension lasts
  BackoffCap       \* the longest a suspension gets

ASSUME ArmAssumption ==
  AlphaParts \in Nat \ {0} /\ BackoffTokens \in Nat \ {0} /\ BackoffCap \in Nat \ {0}

Whole == 100

Lowest(config) == Min({config.floor, config.cap})
Clamped(length, config) == Min({Max({length, Lowest(config)}), config.cap})

NewArm(config) ==
  [length |-> Clamped(config.start, config), average |-> Whole,
   until |-> 0,                  \* 0: not suspended
   window |-> BackoffTokens, probing |-> FALSE]

Suspended(arm) == arm.until # 0

\* Whether the arm may draft, and the arm with an expired suspension lifted.
Available(arm, config, committed) == config.enabled /\ committed >= arm.until
Polled(arm, config, committed) ==
  IF ~Available(arm, config, committed) \/ ~Suspended(arm) THEN arm
  ELSE [arm EXCEPT !.until = 0, !.probing = TRUE,
                   !.length = IF config.probe = 0 THEN @ ELSE Clamped(config.probe, config)]

Averaged(arm, fraction) ==
  IF arm.probing THEN fraction
  ELSE (fraction + (AlphaParts - 1) * arm.average) \div AlphaParts

Adapted(length, config, proposed, accepted) ==
  CASE config.adaptive /\ accepted = proposed -> Min({length + config.grow, config.cap})
    [] config.adaptive /\ accepted * 2 < proposed -> Max({length \div 2, Lowest(config)})
    [] OTHER -> length

\* Mutant: a probe that fails is taken for an ordinary proposal.
SuspendedForForgetting(arm, config, fraction, average) ==
  IF config.backoff /\ average < config.bar THEN BackoffTokens ELSE 0

\* How many tokens the arm is to sit out after a proposal, none if it may go on.
SuspendedFor(arm, config, fraction, average) ==
  CASE ~config.backoff -> 0
    [] config.backoff /\ arm.probing /\ fraction < config.bar -> Min({2 * arm.window, BackoffCap})
    [] config.backoff /\ ~arm.probing /\ average < config.bar -> BackoffTokens
    [] OTHER -> 0

Observed(arm, config, proposed, accepted, committed) ==
  LET fraction == (Whole * accepted) \div proposed
      average == Averaged(arm, fraction)
      wait == SuspendedFor(arm, config, fraction, average)
  IN  [length |-> Adapted(arm.length, config, proposed, accepted),
       average |-> average,
       until |-> IF wait = 0 THEN 0 ELSE committed + wait,
       window |-> CASE wait # 0 -> wait
                    [] wait = 0 /\ arm.probing -> BackoffTokens
                    [] OTHER -> arm.window,
       probing |-> FALSE]
=============================================================================
