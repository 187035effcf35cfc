-------------------------- MODULE SpeculativePolicy -------------------------
(***************************************************************************)
(* The policy loop of QuantizedRuntime::generate_speculative_policy        *)
(* (src/src/runtime.rs): which source drafts each step, out of the n-gram  *)
(* index, the span an accepted draft came from, and the predictor, each    *)
(* under its controller.  What the target model accepts and chooses is     *)
(* left open; Session has the state it does so on.                         *)
(***************************************************************************)
EXTENDS DraftSources

CONSTANTS
  Tokens,         \* tokens, the stops among them
  MinMatch,       \* shortest key a draft may rest on
  TurnOptions,    \* options a turn may be run with: [mode, ngramDraft, mtpDraft] and
                  \* the tuning of the two arms
  Prompts,        \* what a turn adds to the text before it generates
  MaxNew,         \* tokens a turn may generate
  MaxText         \* bound: tokens the index holds

\* A share of a proposal is in hundredths.
TurnOption ==
  [mode : {"off", "auto", "ngram", "mtp"}, ngramDraft : Nat, mtpDraft : Nat,
   ngramFloor : Nat, mtpFloor : Nat, mtpStart : Nat, ngramBar : Nat, mtpBar : Nat,
   adaptive : BOOLEAN, backoff : BOOLEAN, span : BOOLEAN]

ASSUME PolicyAssumption ==
  /\ TurnOptions \subseteq TurnOption /\ Prompts \subseteq Seq(Tokens)
  /\ MaxNew \in Nat \ {0} /\ MaxText \in Nat

(***************************************************************************)
(* The arms of a turn.  Its averages' weight and its suspensions are       *)
(* AlphaParts, BackoffTokens and BackoffCap for both arms.                 *)
(***************************************************************************)
DEFAULT_NGRAM_DRAFT_CAP == 7
DEFAULT_MTP_DEPTH_CAP == 7

\* A draft length given without a mode asks for that arm alone.
EffectiveMode(options) ==
  CASE options.mode # "off" -> options.mode
    [] options.mode = "off" /\ options.mtpDraft > 0 -> "mtp"
    [] options.mode = "off" /\ options.mtpDraft = 0 /\ options.ngramDraft > 0 -> "ngram"
    [] OTHER -> "off"

CapOf(draftTokens, default) == IF draftTokens = 0 THEN default ELSE draftTokens

NgramArm(options) ==
  LET cap == CapOf(options.ngramDraft, DEFAULT_NGRAM_DRAFT_CAP) IN
  [enabled |-> EffectiveMode(options) \in {"auto", "ngram"},
   floor |-> Min({Max({options.ngramFloor, 1}), cap}), cap |-> cap, start |-> cap, grow |-> 2,
   bar |-> options.ngramBar, probe |-> 0,     \* 0: at the length it has
   adaptive |-> options.adaptive, backoff |-> options.backoff]

\* usable: the model has the predictor and it is aligned with the session.
MtpArm(options, usable) ==
  LET cap == CapOf(options.mtpDraft, DEFAULT_MTP_DEPTH_CAP)
      floor == Min({Max({options.mtpFloor, 1}), cap})
  IN
  [enabled |-> EffectiveMode(options) \in {"auto", "mtp"} /\ usable,
   floor |-> floor, cap |-> cap, start |-> options.mtpStart, grow |-> 1,
   bar |-> options.mtpBar, probe |-> floor,
   adaptive |-> options.adaptive, backoff |-> options.backoff]

ArmsOf(options, usable) ==
  [ngram |-> NgramArm(options), mtp |-> MtpArm(options, usable), span |-> options.span]

\* A turn that is to draft with the predictor alone is refused where it cannot.
ArmConfigs ==
  {ArmsOf(o, TRUE) : o \in {t \in TurnOptions : EffectiveMode(t) # "off"}}
  \union {ArmsOf(o, FALSE) : o \in {t \in TurnOptions : EffectiveMode(t) \in {"auto", "ngram"}}}

Texts(n, tokens) == UNION {[1..m -> tokens] : m \in 0..n}

VARIABLES
  index,     \* the session's n-gram index
  config,    \* the turn's two arms, and whether it copies spans: [ngram, mtp, span]
  ngram,     \* the n-gram arm's controller
  mtp,       \* the predictor arm's controller
  span,      \* the cursor of the span being copied, or NoSpan
  generated, \* tokens the turn has generated; 0 between turns
  history    \* of each arm, for the properties: how its latest proposals fared

policyVars == <<index, config, ngram, mtp, span, generated, history>>

NoSpan == [next |-> 0, match |-> 0, links |-> 0]

\* Proposals in a row accepted in full, rejected at their first token, and
\* probes in a row that failed.
NoHistory == [accepted |-> 0, rejected |-> 0, failedProbes |-> 0]

Recorded(past, arm, arms, proposed, accepted) ==
  [accepted |-> IF accepted = proposed THEN past.accepted + 1 ELSE 0,
   rejected |-> IF accepted = 0 THEN past.rejected + 1 ELSE 0,
   failedProbes |-> IF arm.probing /\ (Whole * accepted) \div proposed < arms.bar
                    THEN past.failedProbes + 1 ELSE 0]

BeforeTurn == generated = 0

PolicyInit ==
  /\ index = NewIndex
  /\ config \in ArmConfigs
  /\ ngram = NewArm(config.ngram) /\ mtp = NewArm(config.mtp)
  /\ span = NoSpan /\ generated = 0
  /\ history = [ngram |-> NoHistory, mtp |-> NoHistory]

\* A turn indexes its prompt and its first token, and starts both arms afresh; an
\* index that does not mirror the context is seeded again.
StartTurn ==
  /\ BeforeTurn
  /\ \E seeded \in {index, NewIndex}, prompt \in Prompts, first \in Tokens :
       /\ Len(seeded.tokens) + Len(prompt) < MaxText
       /\ index' = Push(Extend(seeded, prompt), first)
       /\ generated' = IF first \in Stops \/ MaxNew = 1 THEN 0 ELSE 1
  /\ config' \in ArmConfigs
  /\ ngram' = NewArm(config'.ngram) /\ mtp' = NewArm(config'.mtp)
  /\ span' = NoSpan
  /\ history' = [ngram |-> NoHistory, mtp |-> NoHistory]

(***************************************************************************)
(* A step.                                                                 *)
(***************************************************************************)

\* What the turn, and a thinking budget, can still absorb past the seed's successor.
Budgets == 0..(MaxNew - generated - 1)

NgramAvailable == Available(ngram, config.ngram, generated)
MtpAvailable == Available(mtp, config.mtp, generated)
NgramPolled == Polled(ngram, config.ngram, generated)
MtpPolled == Polled(mtp, config.mtp, generated)

SpanDraft(budget) ==
  IF span = NoSpan \/ ~config.span THEN NoDraft
  ELSE ContinueFrom(index, span.next, Min({NgramPolled.length, budget}), span.match)
KeyDraft(budget) ==
  Draft(index, Max({Min({NgramPolled.length, budget}), 1}), MinMatch)

\* The span goes before a key, and either before the predictor.
NgramDraft(budget) ==
  CASE ~NgramAvailable \/ budget = 0 -> NoDraft
    [] NgramAvailable /\ budget > 0 /\ SpanDraft(budget) # NoDraft -> SpanDraft(budget)
    [] OTHER -> KeyDraft(budget)

\* Mutant: the span goes on from the token the target has just chosen.
AfterWithoutAuthoritative(draft) == draft.source + Len(draft.tokens) + 1

\* The index position after the draft and the token chosen to follow it.
After(draft) == draft.source + Len(draft.tokens) + 2

ChainSpan(draft, accepted, authoritative) ==
  LET follow == draft.source + Len(draft.tokens) + 1 IN
  IF config.span /\ accepted = Len(draft.tokens) /\ follow <= Len(index.tokens)
     /\ index.tokens[follow] = authoritative
  THEN [next |-> After(draft), match |-> draft.match, links |-> span.links + 1]
  ELSE NoSpan

\* The target accepts a prefix of the drafts and chooses another token after it.
Outputs(drafts) ==
  {Append(SubSeq(drafts, 1, accepted), authoritative) :
     accepted \in 0..Len(drafts), authoritative \in Tokens}
  \ {SubSeq(drafts, 1, n) : n \in 1..Len(drafts)}

\* What is accepted of a predictor's drafts may be anything but a stop.
MtpOutputs(proposed) ==
  {Append(accepted, authoritative) :
     accepted \in Texts(proposed, Tokens \ Stops), authoritative \in Tokens}

\* A stop, or the turn's last token, ends it.
GeneratedAfter(outputs) ==
  IF outputs[Len(outputs)] \in Stops \/ generated + Len(outputs) = MaxNew
  THEN 0 ELSE generated + Len(outputs)

\* Outputs reach the caller one by one, and end the turn when one is a stop, when
\* the turn is full, or when the caller halts on one.
Emit(outputs, nextSpan) ==
  \/ /\ Len(index.tokens) + Len(outputs) <= MaxText
     /\ index' = Extend(index, outputs)
     /\ generated' = GeneratedAfter(outputs)
     /\ span' = nextSpan
  \/ \E emitted \in 1..Len(outputs) :
       /\ Len(index.tokens) + emitted <= MaxText
       /\ index' = Extend(index, SubSeq(outputs, 1, emitted))
       /\ generated' = 0
       /\ span' = nextSpan

\* A thinking block that the budget ends within the outputs is closed by force, on
\* the last accepted draft or the token after: what is left of the outputs is
\* dropped, the closing tokens and a fresh choice are indexed, and the span is given up.
ForceClosure(outputs, budget) ==
  /\ budget \in 1..Len(outputs)
  /\ \E closing \in Tokens \ Stops, next \in Tokens :
       LET text == SubSeq(outputs, 1, budget) \o <<closing, next>> IN
       /\ generated + Len(text) <= MaxNew /\ Len(index.tokens) + Len(text) <= MaxText
       /\ index' = Extend(index, text)
       /\ generated' = GeneratedAfter(text)
  /\ span' = NoSpan

NgramStep ==
  /\ ~BeforeTurn
  /\ \E budget \in Budgets :
       LET draft == NgramDraft(budget)
           proposed == Len(draft.tokens)
       IN
       /\ draft # NoDraft
       /\ \E outputs \in Outputs(draft.tokens) :
            LET accepted == Len(outputs) - 1 IN
            /\ ngram' = Observed(NgramPolled, config.ngram, proposed, accepted,
                                 generated + Len(outputs))
            /\ history' = [history EXCEPT !.ngram =
                             Recorded(@, NgramPolled, config.ngram, proposed, accepted)]
            /\ \/ Emit(outputs, ChainSpan(draft, accepted, outputs[accepted + 1]))
               \/ ForceClosure(outputs, budget)
  /\ mtp' = MtpPolled
  /\ UNCHANGED config

\* The predictor drafts what it likes, stopping short when it is unsure.
MtpStep ==
  /\ ~BeforeTurn
  /\ \E budget \in Budgets :
       /\ NgramDraft(budget) = NoDraft /\ MtpAvailable
       /\ \E proposed \in 1..Min({MtpPolled.length, budget}) :
          \E outputs \in MtpOutputs(proposed) :
            /\ mtp' = Observed(MtpPolled, config.mtp, proposed, Len(outputs) - 1,
                               generated + Len(outputs))
            /\ history' = [history EXCEPT !.mtp =
                             Recorded(@, MtpPolled, config.mtp, proposed, Len(outputs) - 1)]
            /\ Emit(outputs, NoSpan) \/ ForceClosure(outputs, budget)
  /\ ngram' = NgramPolled
  /\ UNCHANGED config

\* No source drafts, or the predictor not one token it was sure of.
PlainStep ==
  /\ ~BeforeTurn
  /\ \E budget \in Budgets :
       /\ NgramDraft(budget) = NoDraft
       /\ \E authoritative \in Tokens :
            Emit(<<authoritative>>, NoSpan) \/ ForceClosure(<<authoritative>>, budget)
  /\ ngram' = NgramPolled /\ mtp' = MtpPolled
  /\ UNCHANGED <<config, history>>

PolicyNext == StartTurn \/ NgramStep \/ MtpStep \/ PlainStep

PolicySpec == PolicyInit /\ [][PolicyNext]_policyVars
=============================================================================
