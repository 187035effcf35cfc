------------------------------ MODULE Session ------------------------------
(***************************************************************************)
(* One live sequence of the quantized runtime (src/src/runtime.rs): the    *)
(* target's evaluated tokens, the emitted token that is not evaluated yet, *)
(* the MTP predictor that trails the target, the n-gram index, and the     *)
(* turns that plain and speculative decoding run on them.                  *)
(*                                                                         *)
(* A hidden row of the target is named by the tokens it was computed from, *)
(* so two rows are equal exactly when they describe the same prefix; the   *)
(* zero row the predictor reads at position zero is the row of no tokens.  *)
(***************************************************************************)
EXTENDS Integers, Sequences, FiniteSets, SequencesExt

CONSTANTS
  Token,          \* the vocabulary
  StopTokens,     \* eos and the caller's stop tokens
  ThinkClose,     \* tokenizer's "</think>"
  ForcedClose,    \* tokenizer's "</think>\n\n"
  Choice(_),      \* the target's greedy token for a context
  HasMtp,         \* whether the model has the predictor block
  NgramCap,       \* longest n-gram draft
  MtpCap,         \* deepest MTP draft
  TurnOptions,    \* option records a turn may be started with
  Prompts,        \* token sequences a caller may supply
  MaxPosition,    \* bound: the longest sequence a caller builds
  MaxImages,      \* bound: session images kept at a time
  NoToken,        \* "None" for a token
  NoRow,          \* "None" for a hidden row
  NoTurn          \* the options while no turn runs

NoBudget == -1

ASSUME ConstantsAssumption ==
  /\ StopTokens \subseteq Token /\ NoToken \notin Token
  /\ NoRow \notin Seq(Token) /\ NoTurn \notin TurnOptions
  /\ ThinkClose \in Seq(Token) /\ ThinkClose # << >>
  /\ ForcedClose \in Seq(Token) /\ ForcedClose # << >>
  /\ Prompts \subseteq Seq(Token) \ {<< >>}
  /\ HasMtp \in BOOLEAN
  /\ NgramCap \in Nat /\ MtpCap \in Nat
  /\ MaxPosition \in Nat /\ MaxImages \in Nat

\* A turn speculates only when it samples greedily.
ASSUME OptionsAssumption ==
  \A o \in TurnOptions :
    /\ o.mode \in {"Off", "Ngram", "Mtp", "Auto"}
    /\ o.maxNew \in Nat \ {0}
    /\ o.budget \in Nat \cup {NoBudget}
    /\ o.sampled \in BOOLEAN /\ o.eager \in BOOLEAN
    /\ o.sampled => o.mode = "Off"

VARIABLES
  evaluated,  \* tokens the target state holds
  pending,    \* emitted, not evaluated: prepended to the next turn
  lastHidden, \* target row of the last evaluated token
  mtp,        \* the predictor and the gap that separates it from the target
  index,      \* tokens the n-gram index holds
  pc,         \* where the turn is
  opts,       \* the turn's options
  tracking,   \* track_mtp: the turn retains hidden rows for the predictor
  generated,  \* tokens emitted by this turn
  thinking,   \* the turn's thinking budget is active
  closure,    \* forced-closure tokens still to emit
  seed,       \* the turn's own pending token
  outputs,    \* committed tokens of the last pass still to emit
  text,       \* what the caller supplied and received since the last restart
  images      \* session images taken

sequence == <<evaluated, pending, lastHidden, mtp, index>>
turn == <<opts, tracking, generated, thinking, closure, seed, outputs>>
vars == <<evaluated, pending, lastHidden, mtp, index, pc, opts, tracking,
          generated, thinking, closure, seed, outputs, text, images>>

(***************************************************************************)
(* The predictor: its cached rows, the position they are authoritative to, *)
(* and the retained gap of tokens and target rows above that position.     *)
(***************************************************************************)
NewMtp == [rows |-> << >>, synced |-> 0, gap |-> << >>, hidden |-> << >>,
           prior |-> NoRow, valid |-> TRUE]

\* A row the predictor computed from its own guess.
DraftRow == [token |-> NoToken, input |-> NoRow]

\* Target rows of a pass over tokens that continues from.
TargetRows(from, tokens) == [i \in 1..Len(tokens) |-> from \o SubSeq(tokens, 1, i)]

\* Mutant: the tokens are cleared, their hidden rows are not.
ClearGapKeepingRows(m) == [m EXCEPT !.gap = << >>, !.prior = NoRow]

ClearGap(m) == [m EXCEPT !.gap = << >>, !.hidden = << >>, !.prior = NoRow]

\* Mutant: the row before the gap is taken anew at every append.
RetainNewestPrior(m, tokens, rows, prior) ==
  [m EXCEPT !.prior = prior, !.gap = @ \o tokens, !.hidden = @ \o rows]

Retain(m, tokens, rows, prior) ==
  IF tokens = << >> THEN m
  ELSE [m EXCEPT !.prior  = IF m.gap = << >> THEN prior ELSE @,
                 !.gap    = @ \o tokens,
                 !.hidden = @ \o rows]

\* Each position pairs its token with the target row before it.
ShiftedInputs(m) ==
  [i \in 1..Len(m.gap) |->
     [token |-> m.gap[i],
      input |-> IF i > 1 THEN m.hidden[i - 1]
                ELSE IF m.prior = NoRow THEN << >> ELSE m.prior]]

\* The ensures of catch_up_mtp and synchronize_mtp.
CanCatchUp(m) ==
  m.gap = << >> \/ /\ Len(m.hidden) = Len(m.gap)
                   /\ m.prior # NoRow \/ m.synced = 0
                   /\ Len(m.rows) >= m.synced

\* Mutant: the rows are evaluated, the position stays where it was.
CatchUpWithoutPosition(m) ==
  IF m.gap = << >> THEN m
  ELSE ClearGap([m EXCEPT !.rows = SubSeq(@, 1, m.synced) \o ShiftedInputs(m)])

CatchUp(m) ==
  IF m.gap = << >> THEN m
  ELSE ClearGap([m EXCEPT !.rows   = SubSeq(@, 1, m.synced) \o ShiftedInputs(m),
                          !.synced = @ + Len(m.gap)])

\* Mutant: a predictor ahead of the rollback keeps its position.
TruncateGapBehindOnly(m, position) ==
  LET retained == position - m.synced
  IN CASE retained < 0 -> ClearGap(m)
       [] retained \in 0..Len(m.gap) ->
            [m EXCEPT !.gap    = SubSeq(@, 1, retained),
                      !.hidden = SubSeq(@, 1, retained),
                      !.prior  = IF retained = 0 THEN NoRow ELSE @]
       [] OTHER -> ClearGap([m EXCEPT !.valid = FALSE])

\* What a rollback of the target to position leaves of the gap.
TruncateGap(m, position) ==
  LET retained == position - m.synced
  IN CASE retained < 0 ->
            ClearGap([m EXCEPT !.rows = SubSeq(@, 1, position), !.synced = position])
       [] retained \in 0..Len(m.gap) ->
            [m EXCEPT !.gap    = SubSeq(@, 1, retained),
                      !.hidden = SubSeq(@, 1, retained),
                      !.prior  = IF retained = 0 THEN NoRow ELSE @]
       [] OTHER -> ClearGap([m EXCEPT !.valid = FALSE])

\* mtp_arm_ready: the gap still reaches from the predictor to the target.
MtpArmReady ==
  /\ mtp.valid
  /\ mtp.synced + Len(mtp.gap) = Len(evaluated)
  /\ evaluated = << >> \/ lastHidden # NoRow

\* Mutant: the predictor is imaged although it trails the target.
ImagesMtpStateAnywhere == HasMtp

ImagesMtpState == HasMtp /\ mtp.synced = Len(evaluated)
-----------------------------------------------------------------------------
(***************************************************************************)
(* Operations between turns.                                               *)
(***************************************************************************)
AsSeq(token) == IF token = NoToken THEN << >> ELSE <<token>>

\* A pending token is evaluated before the tokens that follow it.
ContinuationInput(prompt) == AsSeq(pending) \o prompt

\* The index is extended while its length says it mirrors the context, and
\* reseeded with what this call evaluates otherwise.
IndexAfter(prompt) ==
  IF Len(index) = Len(evaluated) + Len(AsSeq(pending))
  THEN index \o prompt
  ELSE ContinuationInput(prompt)

Quiet == pc \in {"idle", "failed"}

Init ==
  /\ evaluated = << >> /\ pending = NoToken /\ lastHidden = NoRow
  /\ mtp = NewMtp /\ index = << >>
  /\ pc = "idle" /\ opts = NoTurn /\ tracking = FALSE
  /\ generated = << >> /\ thinking = FALSE /\ closure = << >>
  /\ seed = NoToken /\ outputs = << >>
  /\ text = << >> /\ images = {}

Reset ==
  /\ Quiet
  /\ evaluated' = << >> /\ pending' = NoToken /\ lastHidden' = NoRow
  /\ mtp' = NewMtp /\ index' = << >>
  /\ pc' = "idle" /\ text' = << >>
  /\ UNCHANGED <<turn, images>>

PrefillTokens(prompt, trackMtp) ==
  /\ pc = "idle"
  /\ Len(text) + Len(prompt) <= MaxPosition
  /\ LET input == ContinuationInput(prompt)
         valid == trackMtp /\ mtp.valid
         kept  == IF valid
                  THEN Retain(mtp, input, TargetRows(evaluated, input), lastHidden)
                  ELSE ClearGap([mtp EXCEPT !.valid = FALSE])
     IN /\ valid /\ HasMtp => CanCatchUp(kept)
        /\ evaluated' = evaluated \o input
        /\ lastHidden' = evaluated'
        /\ mtp' = IF valid /\ HasMtp THEN CatchUp(kept) ELSE kept
  /\ index' = IndexAfter(prompt)
  /\ pending' = NoToken
  /\ text' = text \o prompt
  /\ UNCHANGED <<pc, turn, images>>

\* A copy of the sequence, tagged with the tokens its caller says it holds.
SessionImage ==
  [tokens     |-> text,
   state      |-> evaluated,
   mtp        |-> IF ImagesMtpState THEN mtp.rows ELSE NoRow,
   lastHidden |-> lastHidden]

TakeImage ==
  /\ pc = "idle"
  /\ pending = NoToken /\ Len(text) = Len(evaluated)
  /\ Cardinality(images \cup {SessionImage}) <= MaxImages
  /\ images' = images \cup {SessionImage}
  /\ UNCHANGED <<sequence, pc, turn, text>>

\* Mutant: the index survives the restore.
AdoptKeepingIndex(image) ==
  /\ evaluated' = image.state /\ text' = image.tokens
  /\ lastHidden' = image.lastHidden
  /\ pending' = NoToken /\ index' = index

Adopt(image) ==
  /\ evaluated' = image.state /\ text' = image.tokens
  /\ lastHidden' = image.lastHidden
  /\ pending' = NoToken /\ index' = image.tokens

RestoreSession(image) ==
  /\ Quiet
  /\ LET restored == HasMtp /\ image.mtp # NoRow
     IN /\ Len(image.tokens) = Len(image.state)
        /\ restored => Len(image.mtp) = Len(image.state)
        /\ mtp' = [NewMtp EXCEPT !.rows   = IF restored THEN image.mtp ELSE @,
                                 !.synced = IF restored THEN Len(image.state) ELSE 0,
                                 !.valid  = restored /\ image.lastHidden # NoRow]
  /\ Adopt(image)
  /\ pc' = "idle"
  /\ UNCHANGED <<turn, images>>
-----------------------------------------------------------------------------
(***************************************************************************)
(* A turn: prefill, then sample, verify drafts, emit, until it ends.  Its  *)
(* locals exist only while it runs.                                        *)
(***************************************************************************)
NoTurnLocals ==
  /\ opts' = NoTurn /\ tracking' = FALSE
  /\ generated' = << >> /\ thinking' = FALSE /\ closure' = << >>
  /\ seed' = NoToken /\ outputs' = << >>

\* Every way a turn ends hands the session the token it left unevaluated.
EndTurn(token) ==
  /\ pc' = "idle" /\ pending' = token
  /\ NoTurnLocals

\* A turn is refused before anything is consumed, or it prefills its prompt.
BeginTurn(prompt, o) ==
  /\ pc = "idle"
  /\ Len(text) + Len(prompt) + o.maxNew + Len(ForcedClose) <= MaxPosition
  /\ o.mode = "Mtp" => HasMtp /\ MtpArmReady
  /\ LET input  == ContinuationInput(prompt)
         usable == o.mode \in {"Mtp", "Auto"} /\ MtpCap > 0 /\ HasMtp /\ MtpArmReady
         opened == [mtp EXCEPT !.valid = usable]
     IN /\ evaluated' = evaluated \o input
        /\ tracking' = usable
        /\ IF o.mode = "Off"
           THEN UNCHANGED <<lastHidden, mtp, index>>
           ELSE /\ lastHidden' = evaluated'
                /\ mtp' = IF usable
                          THEN Retain(opened, input, TargetRows(evaluated, input), lastHidden)
                          ELSE opened
                /\ index' = IndexAfter(prompt)
  /\ pending' = NoToken
  /\ opts' = o
  /\ thinking' = (o.budget > 0)
  /\ closure' = IF o.budget = 0 THEN ForcedClose ELSE << >>
  /\ pc' = IF o.budget = 0 THEN "closing" ELSE "sample"
  /\ text' = text \o prompt
  /\ UNCHANGED <<generated, seed, outputs, images>>

\* One more token reaches the transcript, the index and the caller.
Commit(token) ==
  /\ text' = Append(text, token)
  /\ index' = IF opts.mode = "Off" THEN index ELSE Append(index, token)

\* ThinkingBudget::observe_committed, out being what the turn has generated:
\* while the budget is active it has counted and seen exactly those tokens.
NaturalClosure(out) == thinking /\ IsSuffix(ThinkClose, out)

\* Mutant: the budget may be overrun by one token.
ForceClosureLate(out) ==
  /\ thinking /\ ~NaturalClosure(out)
  /\ Len(out) > opts.budget /\ Last(out) \notin StopTokens

ForceClosure(out) ==
  /\ thinking /\ ~NaturalClosure(out)
  /\ Len(out) >= opts.budget /\ Last(out) \notin StopTokens

\* Mutant: a turn emits one token more than its limit.
TurnIsOverLate(out) == Last(out) \in StopTokens \/ Len(out) > opts.maxNew

\* The turn's limit or a stop token ends it.
TurnIsOver(out) == Last(out) \in StopTokens \/ Len(out) >= opts.maxNew

\* Evaluate tokens authoritatively, one pass each.
Evaluate(tokens) ==
  /\ evaluated' = evaluated \o tokens
  /\ IF opts.mode = "Off"
     THEN UNCHANGED <<lastHidden, mtp>>
     ELSE /\ lastHidden' = IF tokens = << >> THEN lastHidden ELSE evaluated'
          /\ mtp' = IF tracking
                    THEN Retain(mtp, tokens, TargetRows(evaluated, tokens), lastHidden)
                    ELSE mtp

\* The budget is spent: an emitted token that is not evaluated yet goes first.
StartClosure(unevaluated, out) ==
  /\ Evaluate(unevaluated)
  /\ pc' = "closing" /\ closure' = ForcedClose
  /\ generated' = out /\ thinking' = FALSE
  /\ seed' = NoToken /\ outputs' = << >>
  /\ UNCHANGED <<pending, opts, tracking>>

\* Sampling finds the limit used up by a forced closure.
SampleSpent ==
  /\ pc = "sample" /\ Len(generated) >= opts.maxNew
  /\ EndTurn(NoToken)
  /\ UNCHANGED <<evaluated, lastHidden, mtp, index, text, images>>

\* Sample from the last row and emit; halt says that the callback refused.
Sample(token, halt) ==
  /\ pc = "sample" /\ Len(generated) < opts.maxNew
  /\ opts.sampled \/ token = Choice(evaluated)
  /\ Commit(token)
  /\ LET out == Append(generated, token)
     IN \/ /\ halt \/ (~ForceClosure(out) /\ TurnIsOver(out))
           /\ EndTurn(token)
           /\ UNCHANGED <<evaluated, lastHidden, mtp>>
        \/ /\ ~halt /\ ForceClosure(out)
           /\ StartClosure(<<token>>, out)
        \/ /\ ~halt /\ ~ForceClosure(out) /\ ~TurnIsOver(out)
           /\ pc' = "decode" /\ seed' = token /\ generated' = out
           /\ thinking' = (thinking /\ ~NaturalClosure(out))
           /\ UNCHANGED <<evaluated, lastHidden, mtp, pending, opts, tracking,
                          closure, outputs>>
  /\ UNCHANGED images

EmitClosure(halt) ==
  /\ pc = "closing"
  /\ Commit(Head(closure))
  /\ IF halt
     THEN EndTurn(Head(closure)) /\ UNCHANGED <<evaluated, lastHidden, mtp>>
     ELSE /\ Evaluate(<<Head(closure)>>)
          /\ generated' = Append(generated, Head(closure))
          /\ closure' = Tail(closure)
          /\ pc' = IF closure' = << >> THEN "sample" ELSE "closing"
          /\ UNCHANGED <<pending, opts, tracking, thinking, seed, outputs>>
  /\ UNCHANGED images

\* Plain decoding evaluates the token it emitted and samples the next row.
PlainStep ==
  /\ pc = "decode" /\ opts.mode = "Off"
  /\ Evaluate(<<seed>>)
  /\ seed' = NoToken /\ pc' = "sample"
  /\ UNCHANGED <<pending, index, opts, tracking, generated, thinking, closure,
                 outputs, text, images>>
-----------------------------------------------------------------------------
(***************************************************************************)
(* A speculative step: one pass over the seed and its drafts.              *)
(***************************************************************************)
DraftBudget ==
  LET remaining == opts.maxNew - Len(generated) - 1
      inside    == opts.budget - Len(generated)
  IN IF thinking /\ inside < remaining THEN inside ELSE remaining

\* Drafts of at most n tokens; both drafters stop before a stop token.
Drafts(n) == BoundedSeq(Token \ StopTokens, n)

\* The target's choice at row r of a pass over the seed and drafts.
RowChoice(drafts, r) == Choice(evaluated \o <<seed>> \o SubSeq(drafts, 1, r))

\* n drafts equal the target's choice at their row, and no more than those.
AcceptedDraftPrefix(drafts, n) ==
  /\ \A i \in 1..n : drafts[i] = RowChoice(drafts, i - 1)
  /\ n < Len(drafts) => drafts[n + 1] # RowChoice(drafts, n)

\* The pass keeps the rows of the seed and the accepted drafts (a rejection
\* rolls the rest back) and commits one authoritative token after them.
Verify(drafts, m) ==
  \E accepted \in 0..Len(drafts), authoritative \in Token :
    /\ AcceptedDraftPrefix(drafts, accepted)
    /\ authoritative = RowChoice(drafts, accepted)
    /\ LET committed == <<seed>> \o SubSeq(drafts, 1, accepted)
           retained  == Retain(m, committed, TargetRows(evaluated, committed), lastHidden)
       IN /\ evaluated' = evaluated \o committed
          /\ lastHidden' = evaluated'
          /\ tracking /\ opts.eager => CanCatchUp(retained)
          /\ mtp' = CASE ~tracking -> m
                      [] tracking /\ opts.eager -> CatchUp(retained)
                      [] OTHER -> retained
    /\ outputs' = Append(SubSeq(drafts, 1, accepted), authoritative)
    /\ seed' = NoToken /\ pc' = "emit"
    /\ UNCHANGED <<pending, index, opts, tracking, generated, thinking, closure,
                   text, images>>

\* Neither arm proposed anything: the ordinary one-row pass.
UndraftedStep ==
  /\ pc = "decode" /\ opts.mode # "Off"
  /\ Verify(<< >>, mtp)

NgramStep(drafts) ==
  /\ pc = "decode" /\ opts.mode \in {"Ngram", "Auto"}
  /\ DraftBudget > 0 /\ drafts # << >> /\ Len(drafts) <= DraftBudget
  /\ Verify(drafts, mtp)

\* The predictor catches up, then drafts from the target's last row; extra
\* counts guesses that were computed and then declined.
MtpStep(drafts, extra) ==
  /\ pc = "decode" /\ tracking
  /\ DraftBudget > 0
  /\ Len(drafts) + extra >= 1 /\ Len(drafts) + extra <= DraftBudget
  /\ Len(drafts) + extra <= MtpCap
  /\ CanCatchUp(mtp)
  /\ LET caught == CatchUp(mtp)
         first  == [token |-> seed, input |-> lastHidden]
         guesses == <<first>> \o [i \in 1..(Len(drafts) + extra - 1) |-> DraftRow]
     IN /\ Len(caught.rows) = Len(evaluated) /\ lastHidden # NoRow
        /\ Verify(drafts, [caught EXCEPT !.rows = @ \o guesses])

\* Mutant: nothing is rolled back.
HaltWithoutRollback == UNCHANGED <<evaluated, lastHidden, mtp>>

\* A halt on an accepted draft unwinds the rows from that draft on.
HaltInsidePass ==
  LET unwound == Len(outputs) - 1
      kept    == Len(evaluated) - unwound
  IN IF unwound = 0
     THEN UNCHANGED <<evaluated, lastHidden, mtp>>
     ELSE /\ evaluated' = SubSeq(evaluated, 1, kept)
          /\ lastHidden' = evaluated'
          /\ mtp' = IF mtp.valid THEN TruncateGap(mtp, kept) ELSE mtp

\* Emit the next token of the pass: an accepted draft, which is evaluated
\* already, or last the authoritative one, which is not.
EmitOutput(halt) ==
  /\ pc = "emit"
  /\ Commit(Head(outputs))
  /\ LET token       == Head(outputs)
         draft       == Len(outputs) > 1
         out         == Append(generated, token)
     IN \/ /\ halt
           /\ HaltInsidePass
           /\ EndTurn(token)
        \/ /\ ~halt /\ ForceClosure(out)
           /\ StartClosure(IF draft THEN << >> ELSE <<token>>, out)
        \/ /\ ~halt /\ ~ForceClosure(out) /\ TurnIsOver(out)
           /\ EndTurn(IF draft THEN NoToken ELSE token)
           /\ UNCHANGED <<evaluated, lastHidden, mtp>>
        \/ /\ ~halt /\ ~ForceClosure(out) /\ ~TurnIsOver(out)
           /\ outputs' = Tail(outputs)
           /\ IF draft
              THEN UNCHANGED <<pc, seed>>
              ELSE pc' = "decode" /\ seed' = token
           /\ generated' = out
           /\ thinking' = (thinking /\ ~NaturalClosure(out))
           /\ UNCHANGED <<evaluated, lastHidden, mtp, pending, opts, tracking, closure>>
  /\ UNCHANGED images

\* A target pass fails.  A verification pass is rolled back to its start; the
\* seed is lost, so the session is fit only for a reset or a restore.
PassFails ==
  /\ pc \in {"closing", "decode"}
  /\ pc' = "failed"
  /\ NoTurnLocals
  /\ UNCHANGED <<sequence, text, images>>

PrefillFails ==
  /\ pc = "idle"
  /\ pc' = "failed" /\ pending' = NoToken
  /\ UNCHANGED <<evaluated, lastHidden, mtp, index, turn, text, images>>

\* The steps of a turn that has started.
TurnStep ==
  \/ SampleSpent
  \/ \E token \in Token, halt \in BOOLEAN : Sample(token, halt)
  \/ \E halt \in BOOLEAN : EmitClosure(halt)
  \/ PlainStep
  \/ UndraftedStep
  \/ \E drafts \in Drafts(NgramCap) : NgramStep(drafts)
  \/ \E drafts \in Drafts(MtpCap), extra \in 0..MtpCap : MtpStep(drafts, extra)
  \/ \E halt \in BOOLEAN : EmitOutput(halt)

Next ==
  \/ Reset
  \/ \E prompt \in Prompts, trackMtp \in BOOLEAN : PrefillTokens(prompt, trackMtp)
  \/ TakeImage
  \/ \E image \in images : RestoreSession(image)
  \/ \E prompt \in Prompts, o \in TurnOptions : BeginTurn(prompt, o)
  \/ PrefillFails
  \/ TurnStep
  \/ PassFails

Spec == Init /\ [][Next]_vars
=============================================================================
