---------------------------- MODULE SessionProps ----------------------------
(***************************************************************************)
(* What a session must keep true, whichever arms draft and wherever a turn *)
(* is halted, and the decoder it implements.                               *)
(***************************************************************************)
EXTENDS Session

HiddenRow == Seq(Token) \cup {NoRow}
PredictorRow == [token : Token \cup {NoToken}, input : HiddenRow]
Predictor == [rows : Seq(PredictorRow), synced : Nat, gap : Seq(Token),
              hidden : Seq(HiddenRow), prior : HiddenRow, valid : BOOLEAN]
Image == [tokens : Seq(Token), state : Seq(Token),
          mtp : Seq(PredictorRow) \cup {NoRow}, lastHidden : HiddenRow]

\* The retained rows are one per gap token, above a position the predictor
\* has rows for.
IsPredictor(m) ==
  m \in Predictor /\ m.synced <= Len(m.rows) /\ Len(m.hidden) = Len(m.gap)

\* Every variable has its type, and a turn's locals are set exactly where the
\* turn reads them.
TypeOK ==
  /\ evaluated \in Seq(Token) /\ text \in Seq(Token) /\ index \in Seq(Token)
  /\ generated \in Seq(Token) /\ closure \in Seq(Token) /\ outputs \in Seq(Token)
  /\ pending \in Token \cup {NoToken} /\ seed \in Token \cup {NoToken}
  /\ lastHidden \in HiddenRow
  /\ IsPredictor(mtp)
  /\ tracking \in BOOLEAN /\ thinking \in BOOLEAN
  /\ pc \in {"idle", "sample", "closing", "decode", "emit", "failed"}
  /\ opts \in IF Quiet THEN {NoTurn} ELSE TurnOptions
  /\ pc # "idle" => pending = NoToken
  /\ seed # NoToken <=> pc = "decode"
  /\ outputs # << >> <=> pc = "emit"
  /\ closure # << >> <=> pc = "closing"
  /\ Quiet => ~tracking /\ ~thinking /\ generated = << >>
  /\ images \subseteq Image

\* The state and the pending token are together exactly the text the caller
\* supplied and received; inside a pass the state runs ahead of the text by
\* the accepted drafts that are still to be emitted (engine.rs: "the prompt
\* plus what was emitted is what the state now represents").
RepresentsText ==
  /\ pc = "idle" => evaluated \o AsSeq(pending) = text
  /\ pc \in {"sample", "closing"} => evaluated = text
  /\ pc = "decode" => seed \in Token /\ Append(evaluated, seed) = text
  /\ pc = "emit" => outputs # << >> /\ evaluated = text \o Front(outputs)

\* Everything a pass committed is the target's own choice for the text before
\* it, whatever the drafts were.
CommittedIsChosen ==
  pc = "emit" =>
    \A i \in 1..Len(outputs) : outputs[i] = Choice(text \o SubSeq(outputs, 1, i - 1))

\* A pass never commits past the token limit, the thinking budget or a stop
\* token, so no boundary leaves evaluated tokens that were never emitted.
PassFitsTheTurn ==
  pc = "emit" =>
    /\ Len(generated) + Len(outputs) <= opts.maxNew
    /\ thinking => Len(generated) + Len(outputs) - 1 <= opts.budget
    /\ \A i \in 1..(Len(outputs) - 1) : outputs[i] \notin StopTokens

\* Rows the predictor should hold for the first n tokens of tokens.
ExactRows(tokens, n) ==
  [i \in 1..n |-> [token |-> tokens[i], input |-> SubSeq(tokens, 1, i - 1)]]

\* While the MTP arm may draft, closing the gap makes the predictor hold
\* exactly the rows of the evaluated tokens, and the carried hidden row is the
\* row of the last one; a stale row would only ever show as lost acceptance.
PredictorExact ==
  (pc # "failed" /\ MtpArmReady /\ HasMtp) =>
    /\ CanCatchUp(mtp)
    /\ SubSeq(CatchUp(mtp).rows, 1, Len(evaluated)) = ExactRows(evaluated, Len(evaluated))
    /\ evaluated # << >> => lastHidden = evaluated

\* A turn that retains hidden rows can draft at every step: the gap reaches
\* from the predictor to the target, so none of the ensures before drafting
\* fires and no draft starts from a stale position.
DraftsFromFreshState ==
  (tracking /\ pc \in {"sample", "closing", "decode", "emit"}) =>
    /\ MtpArmReady
    /\ Len(CatchUp(mtp).rows) = Len(evaluated) \/ pc # "decode"

\* An image describes the tokens it is tagged with, its predictor rows
\* included, so that a restored session decodes against the right context.
ImagesFaithful ==
  \A image \in images :
    /\ image.state = image.tokens
    /\ image.mtp # NoRow => image.mtp = ExactRows(image.tokens, Len(image.tokens))

\* An index as long as the context is the context: its length is all the
\* runtime compares before it extends the index instead of reseeding it.
IndexMirrorsContext ==
  (pc = "idle" /\ Len(index) = Len(text)) => index = text

\* The thinking budget is exact: a block that is still open has not used it up.
ThinkingWithinBudget ==
  (thinking /\ pc \in {"sample", "decode", "emit"}) => Len(generated) < opts.budget

Halts == pc \in {"sample", "closing", "emit"} /\ pc' = "idle"

\* A callback that halts a turn does not cost the session its MTP arm.
HaltKeepsArm ==
  [][(Halts /\ tracking) => MtpArmReady']_vars

Decoder == INSTANCE TargetDecode WITH
  saved <- {image.tokens : image \in images}

\* Every session, speculating or not, is a session of the target decoding one
\* token at a time.
ImplementsTargetDecode == Decoder!Spec
=============================================================================
