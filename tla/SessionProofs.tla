--------------------------- MODULE SessionProofs ---------------------------
(***************************************************************************)
(* Theorems about Session.tla for every vocabulary, target, set of turn    *)
(* options and bound.                                                      *)
(***************************************************************************)
EXTENDS SessionProps, SeqLemmas, TLAPS

(***************************************************************************)
(* The operators on the predictor keep its type.                           *)
(***************************************************************************)
LEMMA TargetRowsType ==
  ASSUME NEW from \in Seq(Token), NEW tokens \in Seq(Token)
  PROVE  /\ TargetRows(from, tokens) \in Seq(HiddenRow)
         /\ Len(TargetRows(from, tokens)) = Len(tokens)
<1>1. ASSUME NEW i \in 1..Len(tokens)
      PROVE  from \o SubSeq(tokens, 1, i) \in HiddenRow
  <2>1. SubSeq(tokens, 1, i) \in Seq(Token)
    BY PrefixType
  <2>2. QED
    BY <2>1, ConcatType DEF HiddenRow
<1>2. QED
  BY <1>1 DEF TargetRows

LEMMA ClearGapType ==
  ASSUME NEW m \in Predictor, m.synced <= Len(m.rows)
  PROVE  IsPredictor(ClearGap(m))
<1>1. << >> \in Seq(Token) /\ << >> \in Seq(HiddenRow) /\ Len(<< >>) = 0
  OBVIOUS
<1>2. NoRow \in HiddenRow
  BY DEF HiddenRow
<1>3. ClearGap(m) \in Predictor
  BY <1>1, <1>2 DEF ClearGap, Predictor
<1>4. ClearGap(m).rows = m.rows /\ ClearGap(m).synced = m.synced
  BY DEF ClearGap, Predictor
<1>5. ClearGap(m).gap = << >> /\ ClearGap(m).hidden = << >>
  BY DEF ClearGap, Predictor
<1>6. QED
  BY <1>1, <1>3, <1>4, <1>5 DEF IsPredictor

LEMMA RetainType ==
  ASSUME NEW m, IsPredictor(m), NEW from \in Seq(Token), NEW tokens \in Seq(Token),
         NEW prior \in HiddenRow
  PROVE  IsPredictor(Retain(m, tokens, TargetRows(from, tokens), prior))
<1> DEFINE rows == TargetRows(from, tokens)
<1>1. rows \in Seq(HiddenRow) /\ Len(rows) = Len(tokens)
  BY TargetRowsType
<1> HIDE DEF rows
<1>2. m.gap \o tokens \in Seq(Token) /\ Len(m.gap \o tokens) = Len(m.gap) + Len(tokens)
  BY ConcatType DEF IsPredictor, Predictor
<1>3. m.hidden \o rows \in Seq(HiddenRow) /\ Len(m.hidden \o rows) = Len(m.hidden) + Len(rows)
  BY <1>1, ConcatType DEF IsPredictor, Predictor
<1>4. IsPredictor(Retain(m, tokens, rows, prior))
  BY <1>1, <1>2, <1>3 DEF Retain, IsPredictor, Predictor
<1>5. QED
  BY <1>4 DEF rows

LEMMA ShiftedInputsType ==
  ASSUME NEW m, IsPredictor(m)
  PROVE  /\ ShiftedInputs(m) \in Seq(PredictorRow)
         /\ Len(ShiftedInputs(m)) = Len(m.gap)
<1> DEFINE input(i) == IF i > 1 THEN m.hidden[i - 1]
                       ELSE IF m.prior = NoRow THEN << >> ELSE m.prior
<1>1. ASSUME NEW i \in 1..Len(m.gap)
      PROVE  [token |-> m.gap[i], input |-> input(i)] \in PredictorRow
  <2>1. m.gap[i] \in Token
    BY DEF IsPredictor, Predictor
  <2>2. input(i) \in HiddenRow
    <3>1. CASE i > 1
      BY <3>1 DEF IsPredictor, Predictor
    <3>2. CASE i = 1
      BY <3>2 DEF IsPredictor, Predictor, HiddenRow
    <3>3. QED
      BY <3>1, <3>2
  <2>3. QED
    BY <2>1, <2>2 DEF PredictorRow
<1>2. Len(m.gap) \in Nat
  BY DEF IsPredictor, Predictor
<1>3. QED
  BY <1>1, <1>2 DEF ShiftedInputs

LEMMA CatchUpType ==
  ASSUME NEW m, IsPredictor(m)
  PROVE  IsPredictor(CatchUp(m))
<1>1. CASE m.gap = << >>
  BY <1>1 DEF CatchUp
<1>2. CASE m.gap # << >>
  <2> DEFINE rows == SubSeq(m.rows, 1, m.synced) \o ShiftedInputs(m)
             c == [m EXCEPT !.rows = rows, !.synced = @ + Len(m.gap)]
  <2>1. SubSeq(m.rows, 1, m.synced) \in Seq(PredictorRow)
        /\ Len(SubSeq(m.rows, 1, m.synced)) = m.synced
    BY PrefixType DEF IsPredictor, Predictor
  <2>2. rows \in Seq(PredictorRow) /\ Len(rows) = m.synced + Len(m.gap)
    BY <2>1, ShiftedInputsType, ConcatType
  <2> HIDE DEF rows
  <2>3. m.synced \in Nat /\ m.synced + Len(m.gap) \in Nat
    BY DEF IsPredictor, Predictor
  <2>4. c \in Predictor
    BY <2>2, <2>3 DEF IsPredictor, Predictor
  <2>5. c.rows = rows /\ c.synced = m.synced + Len(m.gap)
    BY DEF IsPredictor, Predictor
  <2>6. CatchUp(m) = ClearGap(c)
    BY <1>2 DEF CatchUp, rows
  <2> HIDE DEF c
  <2>7. QED
    BY <2>2, <2>3, <2>4, <2>5, <2>6, ClearGapType
<1>3. QED
  BY <1>1, <1>2

LEMMA TruncateGapType ==
  ASSUME NEW m, IsPredictor(m), NEW position \in Nat
  PROVE  IsPredictor(TruncateGap(m, position))
<1> DEFINE retained == position - m.synced
<1>0. m.synced \in Nat /\ Len(m.rows) \in Nat /\ Len(m.gap) \in Nat
  BY DEF IsPredictor, Predictor
<1>1. CASE retained < 0
  <2> DEFINE c == [m EXCEPT !.rows = SubSeq(@, 1, position), !.synced = position]
  <2>1. SubSeq(m.rows, 1, position) \in Seq(PredictorRow)
        /\ Len(SubSeq(m.rows, 1, position)) = position
    BY <1>0, <1>1, PrefixType DEF IsPredictor, Predictor
  <2>2. c \in Predictor
    BY <2>1 DEF IsPredictor, Predictor
  <2>3. c.rows = SubSeq(m.rows, 1, position) /\ c.synced = position
    BY DEF IsPredictor, Predictor
  <2>4. TruncateGap(m, position) = ClearGap(c)
    BY <1>0, <1>1 DEF TruncateGap
  <2> HIDE DEF c
  <2>5. QED
    BY <2>1, <2>2, <2>3, <2>4, ClearGapType
<1>2. CASE retained \in 0..Len(m.gap)
  <2> DEFINE c == [m EXCEPT !.gap = SubSeq(@, 1, retained), !.hidden = SubSeq(@, 1, retained),
                            !.prior = IF retained = 0 THEN NoRow ELSE @]
  <2>1. SubSeq(m.gap, 1, retained) \in Seq(Token)
        /\ Len(SubSeq(m.gap, 1, retained)) = retained
    BY <1>2, PrefixType DEF IsPredictor, Predictor
  <2>2. SubSeq(m.hidden, 1, retained) \in Seq(HiddenRow)
        /\ Len(SubSeq(m.hidden, 1, retained)) = retained
    BY <1>2, PrefixType DEF IsPredictor, Predictor
  <2>3. IsPredictor(c)
    BY <2>1, <2>2 DEF IsPredictor, Predictor, HiddenRow
  <2>4. TruncateGap(m, position) = c
    BY <1>0, <1>2 DEF TruncateGap
  <2>5. QED
    BY <2>3, <2>4
<1>3. CASE retained > Len(m.gap)
  <2> DEFINE c == [m EXCEPT !.valid = FALSE]
  <2>1. c \in Predictor
    BY DEF IsPredictor, Predictor
  <2>2. c.rows = m.rows /\ c.synced = m.synced
    BY DEF IsPredictor, Predictor
  <2>3. TruncateGap(m, position) = ClearGap(c)
    BY <1>0, <1>3 DEF TruncateGap
  <2> HIDE DEF c
  <2>4. QED
    BY <2>1, <2>2, <2>3, ClearGapType DEF IsPredictor
<1>4. QED
  BY <1>0, <1>1, <1>2, <1>3
-----------------------------------------------------------------------------
(***************************************************************************)
(* The inductive invariant.  RepresentsText alone is not inductive: at a   *)
(* boundary inside a pass it holds only because no pass commits past the   *)
(* turn (PassFitsTheTurn), which in turn rests on the room a turn that     *)
(* decodes still has.                                                      *)
(***************************************************************************)
TurnHasRoom ==
  /\ pc = "decode" => Len(generated) < opts.maxNew
  /\ pc = "closing" => ~thinking
  /\ \A image \in images : image.state = image.tokens

Inv == TypeOK /\ RepresentsText /\ PassFitsTheTurn /\ ThinkingWithinBudget /\ TurnHasRoom

LEMMA ConstantTypes ==
  /\ NoToken \notin Token /\ NoTurn \notin TurnOptions
  /\ ForcedClose \in Seq(Token) /\ ForcedClose # << >>
  /\ \A prompt \in Prompts : prompt \in Seq(Token) /\ prompt # << >>
  /\ \A o \in TurnOptions : o.maxNew \in Nat /\ o.maxNew > 0 /\ o.budget \in Int
BY ConstantsAssumption, OptionsAssumption DEF NoBudget

\* A caller's tokens after the pending one.
LEMMA ContinuationType ==
  ASSUME TypeOK, NEW prompt \in Seq(Token)
  PROVE  /\ ContinuationInput(prompt) \in Seq(Token)
         /\ evaluated \o ContinuationInput(prompt) = (evaluated \o AsSeq(pending)) \o prompt
         /\ AsSeq(pending) \in Seq(Token)
         /\ IndexAfter(prompt) \in Seq(Token)
<1>1. AsSeq(pending) \in Seq(Token)
  BY DEF TypeOK, AsSeq
<1>2. AsSeq(pending) \o prompt \in Seq(Token) /\ index \o prompt \in Seq(Token)
  BY <1>1, ConcatType DEF TypeOK
<1>3. evaluated \in Seq(Token)
  BY DEF TypeOK
<1>4. evaluated \o (AsSeq(pending) \o prompt) = (evaluated \o AsSeq(pending)) \o prompt
  BY <1>1, <1>3, ConcatAssoc
<1>5. QED
  BY <1>1, <1>2, <1>4 DEF ContinuationInput, IndexAfter

LEMMA NewMtpType == IsPredictor(NewMtp)
<1>1. NewMtp \in Predictor
  BY DEF NewMtp, Predictor, HiddenRow
<1>2. NewMtp.synced = 0 /\ NewMtp.rows = << >> /\ NewMtp.hidden = << >> /\ NewMtp.gap = << >>
  BY DEF NewMtp
<1>3. QED
  BY <1>1, <1>2 DEF IsPredictor

LEMMA InitInv == Init => Inv
<1> SUFFICES ASSUME Init PROVE Inv
  OBVIOUS
<1>1. IsPredictor(mtp)
  BY NewMtpType DEF Init
<1>2. << >> \in Seq(Token) /\ opts \in IF Quiet THEN {NoTurn} ELSE TurnOptions
  BY DEF Init, Quiet
<1>3. images \subseteq Image
  BY DEF Init
<1>4. TypeOK
  BY <1>1, <1>2, <1>3 DEF Init, TypeOK, HiddenRow
<1>5. RepresentsText
  BY DEF Init, RepresentsText, AsSeq
<1>6. QED
  BY <1>4, <1>5 DEF Init, Inv, PassFitsTheTurn, ThinkingWithinBudget, TurnHasRoom

LEMMA ResetInv == Inv /\ Reset => Inv'
<1> SUFFICES ASSUME Inv, Reset PROVE Inv'
  OBVIOUS
<1>1. IsPredictor(mtp')
  BY NewMtpType DEF Reset
<1>2. TypeOK'
  BY <1>1 DEF Inv, TypeOK, Reset, turn, Quiet, HiddenRow
<1>3. RepresentsText'
  BY DEF Reset, RepresentsText, AsSeq
<1>4. QED
  BY <1>2, <1>3 DEF Reset, turn, Quiet, Inv, PassFitsTheTurn, ThinkingWithinBudget, TurnHasRoom,
     TypeOK

LEMMA PrefillTokensInv ==
  ASSUME Inv, NEW prompt \in Prompts, NEW trackMtp \in BOOLEAN, PrefillTokens(prompt, trackMtp)
  PROVE  Inv'
<1> DEFINE input == ContinuationInput(prompt)
           kept  == Retain(mtp, input, TargetRows(evaluated, input), lastHidden)
           lost  == [mtp EXCEPT !.valid = FALSE]
<1>1. prompt \in Seq(Token)
  BY ConstantTypes
<1>2. input \in Seq(Token) /\ evaluated \o input \in Seq(Token)
  BY <1>1, ContinuationType, ConcatType DEF Inv, TypeOK
<1>3. IsPredictor(mtp')
  <2>1. IsPredictor(kept) /\ IsPredictor(CatchUp(kept))
    BY <1>2, RetainType, CatchUpType DEF Inv, TypeOK
  <2>2. lost \in Predictor /\ lost.rows = mtp.rows /\ lost.synced = mtp.synced
    BY DEF Inv, TypeOK, IsPredictor, Predictor
  <2>3. mtp.synced <= Len(mtp.rows)
    BY DEF Inv, TypeOK, IsPredictor
  <2> HIDE DEF lost
  <2>4. IsPredictor(ClearGap(lost))
    BY <2>2, <2>3, ClearGapType
  <2> HIDE DEF kept
  <2>5. mtp' \in {kept, CatchUp(kept), ClearGap(lost)}
    BY DEF PrefillTokens, kept, lost
  <2>6. QED
    BY <2>1, <2>4, <2>5
<1>4. evaluated' = text \o prompt /\ text' = text \o prompt
  BY <1>1, ContinuationType DEF PrefillTokens, Inv, RepresentsText
<1>5. text' \in Seq(Token) /\ index' \in Seq(Token)
  BY <1>1, ContinuationType, ConcatType DEF PrefillTokens, Inv, TypeOK
<1>6. TypeOK'
  BY <1>3, <1>4, <1>5 DEF Inv, TypeOK, PrefillTokens, turn, Quiet, HiddenRow
<1>7. RepresentsText'
  BY <1>4, <1>5, ConcatEmpty DEF PrefillTokens, RepresentsText, AsSeq
<1>8. QED
  BY <1>6, <1>7 DEF PrefillTokens, turn, Inv, PassFitsTheTurn, ThinkingWithinBudget, TurnHasRoom

LEMMA TakeImageInv == Inv /\ TakeImage => Inv'
<1> SUFFICES ASSUME Inv, TakeImage PROVE Inv'
  OBVIOUS
<1>1. SessionImage \in Image
  BY DEF SessionImage, Image, Inv, TypeOK, IsPredictor, Predictor
<1>2. evaluated = text
  BY ConcatEmpty DEF TakeImage, AsSeq, Inv, TypeOK, RepresentsText
<1>3. SessionImage.state = SessionImage.tokens
  BY <1>2 DEF SessionImage
<1>4. TypeOK'
  BY <1>1 DEF Inv, TypeOK, TakeImage, sequence, turn, Quiet
<1>5. QED
  BY <1>3, <1>4 DEF TakeImage, sequence, turn, Inv, RepresentsText, PassFitsTheTurn,
     ThinkingWithinBudget, TurnHasRoom

LEMMA RestoreSessionInv ==
  ASSUME Inv, NEW image \in images, RestoreSession(image)
  PROVE  Inv'
<1>1. image \in Image /\ image.state = image.tokens
  BY DEF Inv, TypeOK, TurnHasRoom
<1>2. IsPredictor(mtp')
  <2> DEFINE restored == HasMtp /\ image.mtp # NoRow
  <2>1. restored \in BOOLEAN /\ restored => Len(image.mtp) = Len(image.state)
    BY DEF RestoreSession
  <2>2. Len(image.state) \in Nat /\ (restored => image.mtp \in Seq(PredictorRow))
    BY <1>1 DEF Image
  <2>3. mtp' = [rows   |-> IF restored THEN image.mtp ELSE << >>,
                synced |-> IF restored THEN Len(image.state) ELSE 0,
                gap    |-> << >>, hidden |-> << >>, prior |-> NoRow,
                valid  |-> restored /\ image.lastHidden # NoRow]
    BY DEF RestoreSession, NewMtp
  <2> HIDE DEF restored
  <2>4. mtp' \in Predictor
    BY <2>1, <2>2, <2>3 DEF Predictor, HiddenRow
  <2>5. /\ mtp'.gap = << >> /\ mtp'.hidden = << >>
        /\ mtp'.rows = IF restored THEN image.mtp ELSE << >>
        /\ mtp'.synced = IF restored THEN Len(image.state) ELSE 0
    BY <2>3
  <2>6. CASE restored
    BY <2>1, <2>2, <2>4, <2>5, <2>6 DEF IsPredictor
  <2>7. CASE ~restored
    BY <2>4, <2>5, <2>7 DEF IsPredictor
  <2>8. QED
    BY <2>6, <2>7
<1>3. TypeOK'
  BY <1>1, <1>2 DEF Inv, TypeOK, RestoreSession, Adopt, turn, Quiet, Image
<1>4. RepresentsText'
  BY <1>1, ConcatEmpty DEF RestoreSession, Adopt, RepresentsText, AsSeq, Image
<1>5. QED
  BY <1>3, <1>4 DEF RestoreSession, Adopt, turn, Quiet, Inv, PassFitsTheTurn, ThinkingWithinBudget,
     TurnHasRoom, TypeOK
-----------------------------------------------------------------------------
(***************************************************************************)
(* The steps of a turn.                                                    *)
(***************************************************************************)
LEMMA CommitType ==
  ASSUME TypeOK, NEW token \in Token, Commit(token)
  PROVE  text' \in Seq(Token) /\ index' \in Seq(Token)
BY AppendType DEF TypeOK, Commit

LEMMA EvaluateType ==
  ASSUME TypeOK, NEW tokens \in Seq(Token), Evaluate(tokens)
  PROVE  /\ evaluated' \in Seq(Token) /\ evaluated' = evaluated \o tokens
         /\ lastHidden' \in HiddenRow
         /\ IsPredictor(mtp')
<1>1. evaluated \o tokens \in Seq(Token) /\ lastHidden \in HiddenRow /\ IsPredictor(mtp)
  BY ConcatType DEF TypeOK
<1>2. IsPredictor(Retain(mtp, tokens, TargetRows(evaluated, tokens), lastHidden))
  BY <1>1, RetainType DEF TypeOK
<1>3. QED
  BY <1>1, <1>2 DEF Evaluate, HiddenRow

LEMMA BeginTurnInv ==
  ASSUME Inv, NEW prompt \in Prompts, NEW o \in TurnOptions, BeginTurn(prompt, o)
  PROVE  Inv'
<1> DEFINE input  == ContinuationInput(prompt)
           usable == o.mode \in {"Mtp", "Auto"} /\ MtpCap > 0 /\ HasMtp /\ MtpArmReady
           opened == [mtp EXCEPT !.valid = usable]
<1>1. prompt \in Seq(Token)
  BY ConstantTypes
<1>2. input \in Seq(Token) /\ evaluated \o input \in Seq(Token)
  BY <1>1, ContinuationType, ConcatType DEF Inv, TypeOK
<1>3. IsPredictor(mtp')
  <2>1. usable \in BOOLEAN
    BY ConstantsAssumption DEF MtpArmReady, Inv, TypeOK, IsPredictor, Predictor
  <2>2. mtp \in Predictor /\ mtp.synced <= Len(mtp.rows) /\ Len(mtp.hidden) = Len(mtp.gap)
    BY DEF Inv, TypeOK, IsPredictor
  <2>3. /\ opened \in Predictor
        /\ opened.rows = mtp.rows /\ opened.synced = mtp.synced
        /\ opened.gap = mtp.gap /\ opened.hidden = mtp.hidden
    BY <2>1, <2>2 DEF Predictor
  <2>4. mtp' \in {mtp, opened, Retain(opened, input, TargetRows(evaluated, input), lastHidden)}
    BY DEF BeginTurn
  <2> HIDE DEF opened
  <2>5. IsPredictor(opened) /\ IsPredictor(mtp)
    BY <2>2, <2>3 DEF IsPredictor
  <2>6. IsPredictor(Retain(opened, input, TargetRows(evaluated, input), lastHidden))
    BY <1>2, <2>5, RetainType DEF Inv, TypeOK
  <2>7. QED
    BY <2>4, <2>5, <2>6
<1>4. tracking' \in BOOLEAN
  BY ConstantsAssumption DEF BeginTurn, MtpArmReady, Inv, TypeOK, IsPredictor, Predictor
<1>5. evaluated' = text \o prompt /\ text' = text \o prompt
  BY <1>1, ContinuationType DEF BeginTurn, Inv, RepresentsText
<1>6. text' \in Seq(Token) /\ index' \in Seq(Token) /\ lastHidden' \in HiddenRow
  <2>1. text' \in Seq(Token)
    BY <1>1, <1>5, ConcatType DEF Inv, TypeOK
  <2>2. index' \in {index, IndexAfter(prompt)} /\ index \in Seq(Token)
    BY DEF BeginTurn, Inv, TypeOK
  <2>3. IndexAfter(prompt) \in Seq(Token)
    BY <1>1, ContinuationType DEF Inv
  <2>4. lastHidden' \in {lastHidden, evaluated'} /\ lastHidden \in HiddenRow
    BY DEF BeginTurn, Inv, TypeOK
  <2>5. QED
    BY <1>5, <2>1, <2>2, <2>3, <2>4 DEF HiddenRow
<1>7. /\ pc' = IF o.budget = 0 THEN "closing" ELSE "sample"
      /\ closure' = IF o.budget = 0 THEN ForcedClose ELSE << >>
      /\ closure' \in Seq(Token)
      /\ thinking' = (o.budget > 0) /\ thinking' \in BOOLEAN
      /\ o.budget \in Int
  BY ConstantTypes DEF BeginTurn
<1>8. TypeOK'
  BY <1>3, <1>4, <1>5, <1>6, <1>7, ConstantTypes DEF Inv, TypeOK, BeginTurn, Quiet
<1>9. RepresentsText' /\ PassFitsTheTurn'
  BY <1>5, <1>7 DEF RepresentsText, PassFitsTheTurn
<1>10. generated' = << >> /\ opts' = o /\ images' = images
  BY DEF BeginTurn, Inv, TypeOK, Quiet
<1>11. ThinkingWithinBudget'
  BY <1>7, <1>10 DEF ThinkingWithinBudget
<1>12. TurnHasRoom'
  <2>1. pc' = "closing" => ~thinking'
    <3>1. pc' = "closing" => o.budget = 0
      BY <1>7
    <3>2. o.budget = 0 => ~(o.budget > 0)
      OBVIOUS
    <3>3. QED
      BY <1>7, <3>1, <3>2
  <2>2. QED
    BY <1>7, <1>10, <2>1 DEF TurnHasRoom, Inv
<1>13. QED
  BY <1>8, <1>9, <1>11, <1>12 DEF Inv

\* A turn that ends with the state and the token it leaves spelling the text.
LEMMA EndTurnInv ==
  ASSUME Inv, NEW token \in Token \cup {NoToken}, EndTurn(token),
         evaluated' \in Seq(Token), lastHidden' \in HiddenRow, IsPredictor(mtp'),
         index' \in Seq(Token), text' \in Seq(Token),
         evaluated' \o AsSeq(token) = text', UNCHANGED images
  PROVE  Inv'
<1>1. TypeOK'
  BY DEF Inv, TypeOK, EndTurn, NoTurnLocals, Quiet
<1>2. AsSeq(pending)' = AsSeq(token)
  BY DEF EndTurn, AsSeq
<1>3. RepresentsText'
  BY <1>2 DEF EndTurn, RepresentsText
<1>4. QED
  BY <1>1, <1>3 DEF EndTurn, NoTurnLocals, Inv, PassFitsTheTurn, ThinkingWithinBudget,
     TurnHasRoom

LEMMA SampleSpentInv == Inv /\ SampleSpent => Inv'
<1> SUFFICES ASSUME Inv, SampleSpent PROVE Inv'
  OBVIOUS
<1>1. evaluated' \o AsSeq(NoToken) = text'
  BY ConcatEmpty DEF SampleSpent, AsSeq, Inv, TypeOK, RepresentsText
<1>2. QED
  BY <1>1, EndTurnInv DEF SampleSpent, Inv, TypeOK

\* The budget is spent: the forced closure starts from a state that spells the text.
LEMMA StartClosureInv ==
  ASSUME Inv, ~Quiet, NEW unevaluated \in Seq(Token), NEW out \in Seq(Token),
         StartClosure(unevaluated, out),
         index' \in Seq(Token), text' \in Seq(Token),
         evaluated \o unevaluated = text', UNCHANGED images
  PROVE  Inv'
<1>1. /\ evaluated' \in Seq(Token) /\ evaluated' = text'
      /\ lastHidden' \in HiddenRow /\ IsPredictor(mtp')
  BY EvaluateType DEF StartClosure, Inv
<1>2. TypeOK'
  BY <1>1, ConstantTypes DEF Inv, TypeOK, StartClosure, Quiet
<1>3. QED
  BY <1>1, <1>2 DEF StartClosure, Inv, RepresentsText, PassFitsTheTurn, ThinkingWithinBudget,
     TurnHasRoom

LEMMA SampleInv ==
  ASSUME Inv, NEW token \in Token, NEW halt \in BOOLEAN, Sample(token, halt)
  PROVE  Inv'
<1> DEFINE out == Append(generated, token)
<1>1. /\ evaluated \in Seq(Token) /\ generated \in Seq(Token) /\ out \in Seq(Token)
      /\ lastHidden \in HiddenRow /\ IsPredictor(mtp)
  BY AppendType DEF Inv, TypeOK
<1>2. pc = "sample" /\ evaluated = text /\ text' = Append(text, token) /\ images' = images
  BY DEF Sample, Commit, Inv, RepresentsText
<1>3. text' \in Seq(Token) /\ index' \in Seq(Token)
  BY CommitType DEF Sample, Inv
<1>4. text' = evaluated \o <<token>> /\ <<token>> \in Seq(Token)
  BY <1>1, <1>2, AppendAsConcat
<1>5. ASSUME EndTurn(token), UNCHANGED <<evaluated, lastHidden, mtp>>
      PROVE  Inv'
  <2>1. AsSeq(token) = <<token>>
    BY ConstantTypes DEF AsSeq
  <2>2. QED
    BY <1>1, <1>2, <1>3, <1>4, <1>5, <2>1, EndTurnInv
<1>6. ASSUME StartClosure(<<token>>, out)
      PROVE  Inv'
  BY <1>1, <1>2, <1>3, <1>4, <1>6, StartClosureInv DEF Quiet
<1>7. ASSUME ~ForceClosure(out), ~TurnIsOver(out),
             pc' = "decode", seed' = token, generated' = out,
             thinking' = (thinking /\ ~NaturalClosure(out)),
             UNCHANGED <<evaluated, lastHidden, mtp, pending, opts, tracking, closure, outputs>>
      PROVE  Inv'
  <2>1. TypeOK'
    BY <1>1, <1>2, <1>3, <1>7, ConstantTypes DEF Inv, TypeOK, Quiet
  <2>2. RepresentsText' /\ PassFitsTheTurn'
    BY <1>2, <1>7 DEF RepresentsText, PassFitsTheTurn
  <2>3. opts \in TurnOptions /\ opts.maxNew \in Nat /\ opts.budget \in Int /\ Len(out) \in Nat
    BY <1>1, <1>2, ConstantTypes DEF Inv, TypeOK, Quiet
  <2>4. Len(out) < opts.maxNew
    BY <1>7, <2>3 DEF TurnIsOver
  <2>5. thinking' => Len(out) < opts.budget
    <3>1. thinking' => thinking /\ ~NaturalClosure(out)
      BY <1>7
    <3>2. thinking' => ~(Len(out) >= opts.budget)
      BY <1>7, <3>1 DEF ForceClosure, TurnIsOver
    <3>3. QED
      BY <2>3, <3>2
  <2>6. QED
    BY <1>2, <1>7, <2>1, <2>2, <2>4, <2>5 DEF Inv, ThinkingWithinBudget, TurnHasRoom
<1>8. QED
  BY <1>5, <1>6, <1>7 DEF Sample

LEMMA EmitClosureInv ==
  ASSUME Inv, NEW halt \in BOOLEAN, EmitClosure(halt)
  PROVE  Inv'
<1> DEFINE token == Head(closure)
<1>1. /\ evaluated \in Seq(Token) /\ generated \in Seq(Token)
      /\ lastHidden \in HiddenRow /\ IsPredictor(mtp)
      /\ closure \in Seq(Token) /\ closure # << >>
  BY DEF EmitClosure, Inv, TypeOK
<1>2. token \in Token /\ Tail(closure) \in Seq(Token)
  BY <1>1, TailType
<1>3. /\ pc = "closing" /\ ~thinking
      /\ evaluated = text /\ text' = Append(text, token) /\ images' = images
  BY DEF EmitClosure, Commit, Inv, RepresentsText, TurnHasRoom
<1>4. text' \in Seq(Token) /\ index' \in Seq(Token)
  BY <1>2, CommitType DEF EmitClosure, Inv
<1>5. text' = evaluated \o <<token>> /\ <<token>> \in Seq(Token)
  BY <1>1, <1>2, <1>3, AppendAsConcat
<1> HIDE DEF token
<1>6. CASE halt
  <2>1. EndTurn(token) /\ UNCHANGED <<evaluated, lastHidden, mtp>>
    BY <1>6 DEF EmitClosure, token
  <2>2. AsSeq(token) = <<token>>
    BY <1>2, ConstantTypes DEF AsSeq
  <2>3. QED
    BY <1>1, <1>2, <1>3, <1>4, <1>5, <2>1, <2>2, EndTurnInv
<1>7. CASE ~halt
  <2>1. /\ Evaluate(<<token>>)
        /\ generated' = Append(generated, token)
        /\ closure' = Tail(closure)
        /\ pc' = IF closure' = << >> THEN "sample" ELSE "closing"
        /\ UNCHANGED <<pending, opts, tracking, thinking, seed, outputs>>
    BY <1>7 DEF EmitClosure, token
  <2>2. /\ evaluated' = text' /\ lastHidden' \in HiddenRow /\ IsPredictor(mtp')
    BY <1>5, <2>1, EvaluateType DEF Inv
  <2>3. generated' \in Seq(Token)
    BY <1>1, <1>2, <2>1, AppendType
  <2>4. TypeOK'
    BY <1>2, <1>3, <1>4, <2>1, <2>2, <2>3, ConstantTypes DEF Inv, TypeOK, Quiet
  <2>5. QED
    BY <1>3, <2>1, <2>2, <2>4 DEF Inv, RepresentsText, PassFitsTheTurn, ThinkingWithinBudget,
       TurnHasRoom
<1>8. QED
  BY <1>6, <1>7

LEMMA PlainStepInv == Inv /\ PlainStep => Inv'
<1> SUFFICES ASSUME Inv, PlainStep PROVE Inv'
  OBVIOUS
<1>1. seed \in Token /\ <<seed>> \in Seq(Token) /\ text = evaluated \o <<seed>>
  BY AppendAsConcat DEF PlainStep, Inv, TypeOK, RepresentsText
<1>2. evaluated' = text /\ lastHidden' \in HiddenRow /\ IsPredictor(mtp')
  BY <1>1, EvaluateType DEF PlainStep, Inv
<1>3. TypeOK'
  BY <1>2 DEF PlainStep, Inv, TypeOK, Quiet
<1>4. QED
  BY <1>2, <1>3 DEF PlainStep, Inv, RepresentsText, PassFitsTheTurn, ThinkingWithinBudget,
     TurnHasRoom

LEMMA FailureInv == Inv /\ (PassFails \/ PrefillFails) => Inv'
<1> SUFFICES ASSUME Inv, PassFails \/ PrefillFails PROVE Inv'
  OBVIOUS
<1>1. << >> \in Seq(Token) /\ pc' = "failed" /\ pending' = NoToken
  BY DEF PassFails, PrefillFails, sequence, Inv, TypeOK
<1>2. ASSUME PassFails PROVE TypeOK'
  BY <1>1, <1>2 DEF PassFails, NoTurnLocals, sequence, Inv, TypeOK, Quiet
<1>3. ASSUME PrefillFails PROVE TypeOK'
  BY <1>1, <1>3 DEF PrefillFails, turn, Inv, TypeOK, Quiet
<1>4. TypeOK'
  BY <1>2, <1>3
<1>5. QED
  BY <1>1, <1>4 DEF PassFails, PrefillFails, NoTurnLocals, sequence, turn, Inv, RepresentsText,
     PassFitsTheTurn, ThinkingWithinBudget, TurnHasRoom
-----------------------------------------------------------------------------
(***************************************************************************)
(* A pass, and the emission of what it committed.                          *)
(***************************************************************************)
\* A drafted step commits within the turn because DraftBudget leaves room for
\* the authoritative token.
LEMMA VerifyInv ==
  ASSUME Inv, pc = "decode", NEW drafts \in Seq(Token \ StopTokens),
         drafts = << >> \/ Len(drafts) <= DraftBudget,
         NEW m, IsPredictor(m), Verify(drafts, m)
  PROVE  Inv'
<1>1. /\ evaluated \in Seq(Token) /\ generated \in Seq(Token) /\ seed \in Token
      /\ lastHidden \in HiddenRow /\ drafts \in Seq(Token) /\ Len(drafts) \in Nat
  BY DEF Inv, TypeOK, RepresentsText
<1>2. PICK accepted \in 0..Len(drafts), authoritative \in Token :
        LET committed == <<seed>> \o SubSeq(drafts, 1, accepted)
            retained  == Retain(m, committed, TargetRows(evaluated, committed), lastHidden)
        IN /\ evaluated' = evaluated \o committed
           /\ lastHidden' = evaluated'
           /\ mtp' \in {m, retained, CatchUp(retained)}
           /\ outputs' = Append(SubSeq(drafts, 1, accepted), authoritative)
           /\ seed' = NoToken /\ pc' = "emit"
           /\ UNCHANGED <<pending, index, opts, tracking, generated, thinking, closure,
                          text, images>>
  BY DEF Verify
<1> DEFINE taken     == SubSeq(drafts, 1, accepted)
           committed == <<seed>> \o taken
           retained  == Retain(m, committed, TargetRows(evaluated, committed), lastHidden)
<1>3. /\ taken \in Seq(Token) /\ Len(taken) = accepted
      /\ \A i \in 1..accepted : taken[i] = drafts[i] /\ taken[i] \notin StopTokens
  BY <1>1, PrefixType
<1>4. evaluated' = evaluated \o committed /\ outputs' = Append(taken, authoritative)
  BY <1>2
<1> HIDE DEF taken
<1>5. committed \in Seq(Token) /\ evaluated' = text \o taken
  <2>1. text = evaluated \o <<seed>> /\ <<seed>> \in Seq(Token)
    BY <1>1, AppendAsConcat DEF Inv, RepresentsText
  <2>2. committed \in Seq(Token)
    BY <1>3, <2>1, ConcatType
  <2>3. evaluated \o committed = (evaluated \o <<seed>>) \o taken
    <3> DEFINE one == <<seed>>
    <3>1. one \in Seq(Token)
      BY <2>1
    <3> HIDE DEF one
    <3>2. (evaluated \o one) \o taken = evaluated \o (one \o taken)
      BY <1>1, <1>3, <3>1, ConcatAssoc
    <3>3. QED
      BY <3>2 DEF one
  <2> HIDE DEF committed
  <2>4. QED
    BY <1>4, <2>1, <2>2, <2>3
<1>6. /\ outputs' \in Seq(Token) /\ outputs' # << >> /\ Len(outputs') = accepted + 1
      /\ Front(outputs') = taken
  BY <1>3, <1>4, AppendType, FrontOfAppend
<1>7. IsPredictor(mtp')
  <2>1. IsPredictor(retained)
    BY <1>1, <1>5, RetainType
  <2> HIDE DEF retained
  <2>2. mtp' \in {m, retained, CatchUp(retained)}
    BY <1>2 DEF retained, taken
  <2>3. QED
    BY <2>1, <2>2, CatchUpType
<1>8. evaluated' \in Seq(Token)
  BY <1>3, <1>5, ConcatType DEF Inv, TypeOK
<1> HIDE DEF committed, retained
<1>9. TypeOK'
  BY <1>2, <1>6, <1>7, <1>8 DEF Inv, TypeOK, Quiet, HiddenRow
<1>10. RepresentsText'
  BY <1>2, <1>5, <1>6 DEF RepresentsText
<1>11. PassFitsTheTurn'
  <2>1. /\ opts.maxNew \in Nat /\ opts.budget \in Int /\ Len(generated) \in Nat
        /\ Len(generated) < opts.maxNew /\ (thinking => Len(generated) < opts.budget)
    BY <1>1, ConstantTypes DEF Inv, TypeOK, Quiet, TurnHasRoom, ThinkingWithinBudget
  <2>2. CASE drafts = << >>
    <3>1. accepted = 0
      BY <2>2
    <3>2. QED
      BY <1>2, <1>6, <2>1, <3>1 DEF PassFitsTheTurn
  <2>3. CASE Len(drafts) <= DraftBudget
    <3>1. accepted <= DraftBudget /\ accepted \in Nat
      BY <1>1, <2>1, <2>3 DEF DraftBudget
    <3>2. accepted <= opts.maxNew - Len(generated) - 1
      BY <2>1, <3>1 DEF DraftBudget
    <3>3. thinking => accepted <= opts.budget - Len(generated)
      BY <2>1, <3>1 DEF DraftBudget
    <3>4. \A i \in 1..accepted : outputs'[i] \notin StopTokens
      BY <1>3, <1>4
    <3>5. QED
      BY <1>2, <1>6, <2>1, <3>1, <3>2, <3>3, <3>4 DEF PassFitsTheTurn
  <2>4. QED
    BY <2>2, <2>3
<1>12. QED
  BY <1>2, <1>9, <1>10, <1>11 DEF Inv, ThinkingWithinBudget, TurnHasRoom

LEMMA DraftsType ==
  ASSUME NEW n \in Nat, NEW drafts \in Drafts(n)
  PROVE  drafts \in Seq(Token \ StopTokens)
BY DEF Drafts, BoundedSeq, SeqOf

LEMMA UndraftedStepInv == Inv /\ UndraftedStep => Inv'
<1>1. << >> \in Seq(Token \ StopTokens)
  OBVIOUS
<1>2. QED
  BY <1>1, VerifyInv DEF UndraftedStep, Inv, TypeOK

LEMMA NgramStepInv ==
  ASSUME Inv, NEW drafts \in Drafts(NgramCap), NgramStep(drafts)
  PROVE  Inv'
BY ConstantsAssumption, DraftsType, VerifyInv DEF NgramStep, Inv, TypeOK

LEMMA MtpStepInv ==
  ASSUME Inv, NEW drafts \in Drafts(MtpCap), NEW extra \in 0..MtpCap, MtpStep(drafts, extra)
  PROVE  Inv'
<1> DEFINE caught  == CatchUp(mtp)
           first   == [token |-> seed, input |-> lastHidden]
           guesses == <<first>> \o [i \in 1..(Len(drafts) + extra - 1) |-> DraftRow]
           drafted == [caught EXCEPT !.rows = @ \o guesses]
<1>1. drafts \in Seq(Token \ StopTokens) /\ Len(drafts) \in Nat /\ extra \in Nat
  BY ConstantsAssumption, DraftsType
<1>2. guesses \in Seq(PredictorRow)
  <2>1. first \in PredictorRow /\ DraftRow \in PredictorRow
    BY DEF Inv, TypeOK, PredictorRow, DraftRow, HiddenRow
  <2>2. Len(drafts) + extra - 1 \in Nat
    BY <1>1 DEF MtpStep
  <2> HIDE DEF first
  <2>3. [i \in 1..(Len(drafts) + extra - 1) |-> DraftRow] \in Seq(PredictorRow)
    BY <2>1, <2>2
  <2>4. QED
    BY <2>1, <2>3, AppendAsConcat, ConcatType
<1>3. IsPredictor(caught)
  BY CatchUpType DEF Inv, TypeOK
<1> HIDE DEF caught, guesses
<1>4. IsPredictor(drafted)
  <2>1. /\ caught.rows \o guesses \in Seq(PredictorRow)
        /\ Len(caught.rows \o guesses) = Len(caught.rows) + Len(guesses)
        /\ Len(caught.rows) \in Nat /\ Len(guesses) \in Nat
    BY <1>2, <1>3, ConcatType DEF IsPredictor, Predictor
  <2>2. drafted \in Predictor
    BY <1>3, <2>1 DEF IsPredictor, Predictor
  <2>3. /\ drafted.rows = caught.rows \o guesses /\ drafted.synced = caught.synced
        /\ drafted.hidden = caught.hidden /\ drafted.gap = caught.gap
    BY <1>3 DEF IsPredictor, Predictor
  <2>4. caught.synced \in Nat /\ caught.synced <= Len(caught.rows)
        /\ Len(caught.hidden) = Len(caught.gap)
    BY <1>3 DEF IsPredictor, Predictor
  <2> HIDE DEF drafted
  <2>5. QED
    BY <2>1, <2>2, <2>3, <2>4 DEF IsPredictor
<1>5. Verify(drafts, drafted) /\ pc = "decode"
  BY DEF MtpStep, caught, guesses
<1>6. Len(drafts) <= DraftBudget
  <2>1. DraftBudget \in Int
    BY ConstantTypes DEF MtpStep, DraftBudget, Inv, TypeOK, Quiet
  <2>2. QED
    BY <1>1, <2>1 DEF MtpStep
<1> HIDE DEF drafted
<1>7. QED
  BY <1>1, <1>4, <1>5, <1>6, VerifyInv

\* What a pass committed, seen from the token to be emitted next.
LEMMA EmitFacts ==
  ASSUME Inv, pc = "emit"
  PROVE  /\ evaluated \in Seq(Token) /\ text \in Seq(Token) /\ generated \in Seq(Token)
         /\ outputs \in Seq(Token) /\ outputs # << >> /\ Len(outputs) \in Nat /\ Len(outputs) > 0
         /\ Head(outputs) \in Token /\ Head(outputs) = outputs[1]
         /\ Front(outputs) \in Seq(Token) /\ evaluated = text \o Front(outputs)
         /\ Len(outputs) = 1 => evaluated = text
         /\ Len(outputs) = 2 => evaluated = text \o <<Head(outputs)>>
         /\ Len(outputs) > 1 =>
              /\ Front(Tail(outputs)) \in Seq(Token)
              /\ evaluated = (text \o <<Head(outputs)>>) \o Front(Tail(outputs))
         /\ Len(evaluated) - (Len(outputs) - 1) = Len(text)
         /\ SubSeq(evaluated, 1, Len(text)) = text
<1>1. /\ evaluated \in Seq(Token) /\ text \in Seq(Token) /\ generated \in Seq(Token)
      /\ outputs \in Seq(Token) /\ outputs # << >> /\ evaluated = text \o Front(outputs)
  BY DEF Inv, TypeOK, RepresentsText
<1>2. /\ Len(outputs) \in Nat /\ Len(outputs) > 0
      /\ Head(outputs) \in Token /\ Head(outputs) = outputs[1]
      /\ Tail(outputs) \in Seq(Token) /\ Len(Tail(outputs)) = Len(outputs) - 1
  BY <1>1, TailType
<1>3. Front(outputs) \in Seq(Token) /\ Len(Front(outputs)) = Len(outputs) - 1
  BY <1>1, <1>2, PrefixType DEF Front
<1>4. Len(outputs) = 1 => evaluated = text
  BY <1>1, FrontOfSingle, ConcatEmpty
<1>5. Len(outputs) > 1 =>
        /\ Front(Tail(outputs)) \in Seq(Token)
        /\ evaluated = (text \o <<Head(outputs)>>) \o Front(Tail(outputs))
  <2> SUFFICES ASSUME Len(outputs) > 1
               PROVE  /\ Front(Tail(outputs)) \in Seq(Token)
                      /\ evaluated = (text \o <<Head(outputs)>>) \o Front(Tail(outputs))
    OBVIOUS
  <2> DEFINE one == <<Head(outputs)>>
             rest == Front(Tail(outputs))
  <2>1. rest \in Seq(Token) /\ Front(outputs) = one \o rest
    BY <1>1, FrontOfTail, Zenon
  <2>2. one \in Seq(Token)
    BY <1>2
  <2> HIDE DEF one, rest
  <2>3. (text \o one) \o rest = text \o (one \o rest)
    BY <1>1, <2>1, <2>2, ConcatAssoc
  <2>4. QED
    BY <1>1, <2>1, <2>3 DEF one, rest
<1>6. Len(outputs) = 2 => evaluated = text \o <<Head(outputs)>>
  <2> SUFFICES ASSUME Len(outputs) = 2
               PROVE  evaluated = text \o <<Head(outputs)>>
    OBVIOUS
  <2>1. Front(Tail(outputs)) = << >>
    <3>1. Len(Tail(outputs)) = 1
      BY <1>2
    <3>2. QED
      BY <1>2, <3>1, FrontOfSingle, Zenon
  <2>2. text \o <<Head(outputs)>> \in Seq(Token)
    BY <1>1, <1>2, ConcatType
  <2>3. QED
    BY <1>5, <2>1, <2>2, ConcatEmpty
<1>7. Len(evaluated) - (Len(outputs) - 1) = Len(text)
  <2>1. Len(evaluated) = Len(text) + Len(Front(outputs))
    BY <1>1, <1>3, ConcatType, Zenon
  <2>2. Len(text) \in Nat
    BY <1>1
  <2>3. QED
    BY <1>2, <1>3, <2>1, <2>2
<1>8. SubSeq(evaluated, 1, Len(text)) = text
  BY <1>1, <1>3, PrefixOfConcat
<1>9. QED
  BY <1>1, <1>2, <1>3, <1>4, <1>5, <1>6, <1>7, <1>8

\* The rollback of a halt stops exactly where the emitted text ends.
LEMMA HaltInsidePassType ==
  ASSUME Inv, pc = "emit", HaltInsidePass
  PROVE  evaluated' = text /\ lastHidden' \in HiddenRow /\ IsPredictor(mtp')
<1>1. Len(text) \in Nat /\ lastHidden \in HiddenRow /\ IsPredictor(mtp) /\ text \in HiddenRow
  BY DEF Inv, TypeOK, HiddenRow
<1>2. IsPredictor(TruncateGap(mtp, Len(text)))
  BY <1>1, TruncateGapType
<1>3. Len(evaluated) - (Len(outputs) - 1) = Len(text) /\ Len(outputs) \in Nat
  BY EmitFacts
<1>4. CASE Len(outputs) - 1 = 0
  BY <1>1, <1>3, <1>4, EmitFacts DEF HaltInsidePass
<1>5. CASE Len(outputs) - 1 # 0
  <2>1. /\ evaluated' = SubSeq(evaluated, 1, Len(text)) /\ lastHidden' = evaluated'
        /\ mtp' = IF mtp.valid THEN TruncateGap(mtp, Len(text)) ELSE mtp
    BY <1>3, <1>5 DEF HaltInsidePass
  <2>2. evaluated' = text
    BY <2>1, EmitFacts
  <2>3. QED
    BY <1>1, <1>2, <2>1, <2>2
<1>6. QED
  BY <1>4, <1>5

LEMMA EmitOutputInv ==
  ASSUME Inv, NEW halt \in BOOLEAN, EmitOutput(halt)
  PROVE  Inv'
<1> DEFINE token == Head(outputs)
           draft == Len(outputs) > 1
           out   == Append(generated, token)
<1>0. /\ Len(outputs) \in Nat /\ Len(outputs) > 0
      /\ ~draft => Len(outputs) = 1
      /\ draft /\ Len(outputs) <= 2 => Len(outputs) = 2
  <2>1. Len(outputs) \in Nat /\ Len(outputs) > 0
    BY EmitFacts DEF EmitOutput
  <2>2. \A n \in Nat : n > 0 => (~(n > 1) => n = 1) /\ (n > 1 /\ n <= 2 => n = 2)
    OBVIOUS
  <2>3. QED
    BY <2>1, <2>2, Zenon
<1>1. pc = "emit" /\ text' = Append(text, token) /\ images' = images
  BY DEF EmitOutput, Commit
<1>2. /\ token \in Token /\ text \in Seq(Token) /\ evaluated \in Seq(Token)
      /\ text' = text \o <<token>> /\ <<token>> \in Seq(Token)
      /\ out \in Seq(Token) /\ Len(out) = Len(generated) + 1 /\ Len(generated) \in Nat
      /\ Len(outputs) \in Nat /\ Len(outputs) > 0 /\ Last(out) = token
  BY <1>1, EmitFacts, AppendAsConcat, AppendType, FrontOfAppend
<1>3. text' \in Seq(Token) /\ index' \in Seq(Token)
  BY <1>2, CommitType DEF EmitOutput, Inv
<1>4. lastHidden \in HiddenRow /\ IsPredictor(mtp)
  BY DEF Inv, TypeOK
<1>5. /\ opts \in TurnOptions /\ opts.maxNew \in Nat /\ opts.budget \in Int
      /\ Len(generated) + Len(outputs) <= opts.maxNew
      /\ thinking => Len(generated) + Len(outputs) - 1 <= opts.budget
      /\ draft => token \notin StopTokens
  BY <1>1, EmitFacts, ConstantTypes DEF Inv, TypeOK, Quiet, PassFitsTheTurn
<1>6. ASSUME HaltInsidePass, EndTurn(token)
      PROVE  Inv'
  <2>1. evaluated' = text /\ lastHidden' \in HiddenRow /\ IsPredictor(mtp')
    BY <1>1, <1>6, HaltInsidePassType
  <2>2. AsSeq(token) = <<token>>
    BY <1>2, ConstantTypes DEF AsSeq
  <2> HIDE DEF token
  <2>3. QED
    BY <1>1, <1>2, <1>3, <1>6, <2>1, <2>2, EndTurnInv
<1>7. ASSUME ForceClosure(out), StartClosure(IF draft THEN << >> ELSE <<token>>, out)
      PROVE  Inv'
  \* The budget is reached on the last draft of the pass, or after it.
  <2>1. Len(outputs) <= 2
    <3>1. thinking /\ Len(out) >= opts.budget
      BY <1>7 DEF ForceClosure
    <3>2. QED
      BY <1>2, <1>5, <3>1
  <2>2. CASE draft
    <3>0. Len(outputs) = 2
      BY <1>0, <2>1, <2>2, Zenon
    <3>1. evaluated = text'
      BY <1>1, <1>2, <3>0, EmitFacts, Zenon
    <3>2. evaluated \o << >> = text' /\ << >> \in Seq(Token)
      BY <1>2, <3>1, ConcatEmpty
    <3>3. StartClosure(<< >>, out)
      BY <1>7, <2>2
    <3> HIDE DEF token, out
    <3>4. QED
      BY <1>1, <1>2, <1>3, <3>2, <3>3, StartClosureInv DEF Quiet
  <2>3. CASE ~draft
    <3>0. Len(outputs) = 1
      BY <1>0, <2>3, Zenon
    <3>1. evaluated \o <<token>> = text'
      BY <1>1, <1>2, <3>0, EmitFacts, Zenon
    <3>2. StartClosure(<<token>>, out)
      BY <1>7, <2>3
    <3> HIDE DEF token, out
    <3>3. QED
      BY <1>1, <1>2, <1>3, <3>1, <3>2, StartClosureInv DEF Quiet
  <2>4. QED
    BY <2>2, <2>3
<1>8. ASSUME TurnIsOver(out), EndTurn(IF draft THEN NoToken ELSE token),
             UNCHANGED <<evaluated, lastHidden, mtp>>
      PROVE  Inv'
  \* A draft is neither a stop token nor the turn's last token.
  <2>1. ~draft
    BY <1>2, <1>5, <1>8 DEF TurnIsOver
  <2>2. evaluated' = text /\ EndTurn(token)
    BY <1>1, <1>2, <1>8, <2>1, EmitFacts
  <2>3. AsSeq(token) = <<token>>
    BY <1>2, ConstantTypes DEF AsSeq
  <2> HIDE DEF token
  <2>4. QED
    BY <1>1, <1>2, <1>3, <1>4, <1>8, <2>2, <2>3, EndTurnInv
<1>9. ASSUME ~ForceClosure(out), ~TurnIsOver(out), outputs' = Tail(outputs),
             IF draft THEN UNCHANGED <<pc, seed>> ELSE pc' = "decode" /\ seed' = token,
             generated' = out, thinking' = (thinking /\ ~NaturalClosure(out)),
             UNCHANGED <<evaluated, lastHidden, mtp, pending, opts, tracking, closure>>
      PROVE  Inv'
  <2>1. Len(out) < opts.maxNew
    BY <1>2, <1>5, <1>9 DEF TurnIsOver
  <2>2. thinking' => thinking /\ ~NaturalClosure(out)
    BY <1>9
  <2>3. thinking' => Len(out) < opts.budget
    <3>1. thinking' => ~(Len(out) >= opts.budget)
      BY <1>9, <2>2 DEF ForceClosure, TurnIsOver
    <3>2. QED
      BY <1>2, <1>5, <3>1
  <2>4. /\ outputs' \in Seq(Token) /\ Len(outputs') = Len(outputs) - 1
        /\ \A i \in 1..Len(outputs') : outputs'[i] = outputs[i + 1]
    BY <1>1, <1>9, EmitFacts, TailType
  <2>5. pc' = IF draft THEN "emit" ELSE "decode"
    BY <1>1, <1>9
  <2>6. TypeOK'
    <3>1. outputs' # << >> <=> pc' = "emit"
      BY <1>2, <2>4, <2>5
    <3>2. seed' \in Token \cup {NoToken} /\ (seed' # NoToken <=> pc' = "decode")
      BY <1>1, <1>2, <1>9, <2>5, ConstantTypes DEF Inv, TypeOK
    <3> HIDE DEF token, out, draft
    <3>3. QED
      BY <1>1, <1>2, <1>3, <1>9, <2>4, <2>5, <3>1, <3>2 DEF Inv, TypeOK, Quiet
  <2>7. RepresentsText'
    <3>1. CASE draft
      <4>1. evaluated = text' \o Front(Tail(outputs))
        BY <1>1, <1>2, <3>1, EmitFacts, Zenon
      <4>2. pc' = "emit" /\ outputs' = Tail(outputs) /\ evaluated' = evaluated
        BY <1>9, <2>5, <3>1
      <4>3. outputs' # << >>
        BY <1>2, <2>4, <3>1
      <4> HIDE DEF token
      <4>4. QED
        BY <4>1, <4>2, <4>3 DEF RepresentsText
    <3>2. CASE ~draft
      <4>1. Len(outputs) = 1
        BY <1>0, <3>2, Zenon
      <4>2. evaluated' = text /\ pc' = "decode" /\ seed' = token
        BY <1>1, <1>9, <2>5, <3>2, <4>1, EmitFacts
      <4> HIDE DEF token
      <4>3. QED
        BY <1>1, <1>2, <4>2 DEF RepresentsText
    <3>3. QED
      BY <3>1, <3>2
  <2>8. PassFitsTheTurn'
    <3>1. ASSUME NEW i \in 1..(Len(outputs') - 1)
          PROVE  outputs'[i] \notin StopTokens
      <4>1. i + 1 \in 1..(Len(outputs) - 1) /\ i \in 1..Len(outputs')
        BY <1>2, <2>4
      <4>2. outputs[i + 1] \notin StopTokens
        BY <1>1, <4>1 DEF Inv, PassFitsTheTurn
      <4>3. QED
        BY <2>4, <4>1, <4>2
    <3>2. Len(out) + Len(outputs') <= opts.maxNew
      BY <1>2, <1>5, <2>4
    <3>3. thinking' => Len(out) + Len(outputs') - 1 <= opts.budget
      BY <1>2, <1>5, <2>2, <2>4
    <3> HIDE DEF token, out
    <3>4. QED
      BY <1>9, <3>1, <3>2, <3>3 DEF PassFitsTheTurn
  <2>9. QED
    BY <1>1, <1>9, <2>1, <2>3, <2>5, <2>6, <2>7, <2>8 DEF Inv, ThinkingWithinBudget, TurnHasRoom
<1>10. QED
  BY <1>6, <1>7, <1>8, <1>9 DEF EmitOutput
-----------------------------------------------------------------------------
LEMMA StutterInv == Inv /\ UNCHANGED vars => Inv'
BY DEF vars, Inv, TypeOK, Quiet, RepresentsText, PassFitsTheTurn, ThinkingWithinBudget,
   TurnHasRoom, AsSeq

LEMMA NextInv == Inv /\ [Next]_vars => Inv'
<1> SUFFICES ASSUME Inv, [Next]_vars PROVE Inv'
  OBVIOUS
<1>1. CASE Reset
  BY <1>1, ResetInv
<1>2. CASE \E prompt \in Prompts, trackMtp \in BOOLEAN : PrefillTokens(prompt, trackMtp)
  BY <1>2, PrefillTokensInv
<1>3. CASE TakeImage
  BY <1>3, TakeImageInv
<1>4. CASE \E image \in images : RestoreSession(image)
  BY <1>4, RestoreSessionInv
<1>5. CASE \E prompt \in Prompts, o \in TurnOptions : BeginTurn(prompt, o)
  BY <1>5, BeginTurnInv
<1>6. CASE PassFails \/ PrefillFails
  BY <1>6, FailureInv
<1>7. CASE TurnStep
  <2>1. CASE SampleSpent
    BY <2>1, SampleSpentInv
  <2>2. CASE \E token \in Token, halt \in BOOLEAN : Sample(token, halt)
    BY <2>2, SampleInv
  <2>3. CASE \E halt \in BOOLEAN : EmitClosure(halt)
    BY <2>3, EmitClosureInv
  <2>4. CASE PlainStep
    BY <2>4, PlainStepInv
  <2>5. CASE UndraftedStep
    BY <2>5, UndraftedStepInv
  <2>6. CASE \E drafts \in Drafts(NgramCap) : NgramStep(drafts)
    BY <2>6, NgramStepInv
  <2>7. CASE \E drafts \in Drafts(MtpCap), extra \in 0..MtpCap : MtpStep(drafts, extra)
    BY <2>7, MtpStepInv
  <2>8. CASE \E halt \in BOOLEAN : EmitOutput(halt)
    BY <2>8, EmitOutputInv
  <2>9. QED
    BY <1>7, <2>1, <2>2, <2>3, <2>4, <2>5, <2>6, <2>7, <2>8 DEF TurnStep
<1>8. CASE UNCHANGED vars
  BY <1>8, StutterInv
<1>9. QED
  BY <1>1, <1>2, <1>3, <1>4, <1>5, <1>6, <1>7, <1>8 DEF Next

\* The inductive invariant holds in every reachable state.
THEOREM InvHolds == Spec => []Inv
BY InitInv, NextInv, PTL DEF Spec

\* Type correctness, for every vocabulary, target, option set and bound.
THEOREM TypeCorrect == Spec => []TypeOK
<1>1. Inv => TypeOK
  BY DEF Inv
<1>2. QED
  BY <1>1, InvHolds, PTL

\* The state and the pending token spell the text, wherever a turn is halted.
THEOREM StateRepresentsText == Spec => []RepresentsText
<1>1. Inv => RepresentsText
  BY DEF Inv
<1>2. QED
  BY <1>1, InvHolds, PTL

\* No pass commits past the token limit, the thinking budget or a stop token.
THEOREM PassesFit == Spec => []PassFitsTheTurn
<1>1. Inv => PassFitsTheTurn
  BY DEF Inv
<1>2. QED
  BY <1>1, InvHolds, PTL

\* An open thinking block never outlives its budget.
THEOREM BudgetHolds == Spec => []ThinkingWithinBudget
<1>1. Inv => ThinkingWithinBudget
  BY DEF Inv
<1>2. QED
  BY <1>1, InvHolds, PTL
-----------------------------------------------------------------------------
(***************************************************************************)
(* Speculation changes nothing: a session, whichever arms draft, is the    *)
(* target decoding one token at a time.                                    *)
(***************************************************************************)
(***************************************************************************)
(* What a pass committed is what the target would have chosen.             *)
(***************************************************************************)
LEMMA VerifyChosen ==
  ASSUME Inv, pc = "decode", NEW drafts \in Seq(Token), NEW m, Verify(drafts, m)
  PROVE  CommittedIsChosen'
<1>1. evaluated \in Seq(Token) /\ seed \in Token /\ text = evaluated \o <<seed>>
  BY AppendAsConcat DEF Inv, TypeOK, RepresentsText
<1>2. PICK accepted \in 0..Len(drafts), authoritative \in Token :
        /\ \A i \in 1..accepted : drafts[i] = RowChoice(drafts, i - 1)
        /\ authoritative = RowChoice(drafts, accepted)
        /\ outputs' = Append(SubSeq(drafts, 1, accepted), authoritative)
        /\ text' = text
  BY DEF Verify, AcceptedDraftPrefix
<1> DEFINE taken == SubSeq(drafts, 1, accepted)
<1>3. accepted \in Nat /\ taken \in Seq(Token) /\ Len(taken) = accepted
      /\ \A i \in 1..accepted : taken[i] = drafts[i]
  BY PrefixType
<1>4. outputs' = Append(taken, authoritative)
  BY <1>2
<1>5. ASSUME NEW i \in 1..(accepted + 1)
      PROVE  outputs'[i] = Choice(text' \o SubSeq(outputs', 1, i - 1))
  <2>1. i - 1 \in 0..accepted
    BY <1>3
  <2>2. SubSeq(outputs', 1, i - 1) = SubSeq(drafts, 1, i - 1)
    BY <1>2, <2>1, PrefixOfPrefix
  <2>3. RowChoice(drafts, i - 1) = Choice(text' \o SubSeq(outputs', 1, i - 1))
    BY <1>1, <1>2, <2>2 DEF RowChoice
  <2> HIDE DEF taken
  <2>4. CASE i <= accepted
    <3>1. i \in 1..accepted
      BY <1>3, <2>4
    <3>2. outputs'[i] = drafts[i]
      BY <1>3, <1>4, <3>1
    <3>3. QED
      BY <1>2, <2>3, <3>1, <3>2
  <2>5. CASE i = accepted + 1
    <3>1. outputs'[i] = authoritative /\ i - 1 = accepted
      BY <1>3, <1>4, <2>5
    <3>2. QED
      BY <1>2, <2>3, <3>1
  <2>6. QED
    BY <1>3, <2>4, <2>5
<1> HIDE DEF taken
<1>6. Len(outputs') = accepted + 1
  BY <1>3, <1>4
<1>7. QED
  BY <1>5, <1>6 DEF CommittedIsChosen

LEMMA EmitOutputChosen ==
  ASSUME Inv, CommittedIsChosen, NEW halt \in BOOLEAN, EmitOutput(halt)
  PROVE  CommittedIsChosen'
<1> SUFFICES ASSUME pc' = "emit", NEW i \in 1..Len(outputs')
             PROVE  outputs'[i] = Choice(text' \o SubSeq(outputs', 1, i - 1))
  BY DEF CommittedIsChosen
<1>1. pc = "emit" /\ outputs' = Tail(outputs) /\ text' = Append(text, Head(outputs))
  BY DEF EmitOutput, Commit, EndTurn, StartClosure
<1>2. /\ text \in Seq(Token) /\ outputs \in Seq(Token) /\ outputs # << >>
      /\ Len(outputs) \in Nat /\ Head(outputs) \in Token
  BY <1>1, EmitFacts
<1>3. /\ outputs' \in Seq(Token) /\ Len(outputs') = Len(outputs) - 1
      /\ outputs'[i] = outputs[i + 1]
  BY <1>1, <1>2, TailType
<1>4. i \in Nat /\ i + 1 \in 1..Len(outputs) /\ i \in 1..Len(outputs) /\ i - 1 \in 0..Len(outputs')
  BY <1>2, <1>3
<1>5. outputs[i + 1] = Choice(text \o SubSeq(outputs, 1, i))
  <2>1. (i + 1) - 1 = i
    BY <1>4
  <2>2. QED
    BY <1>1, <1>4, <2>1 DEF CommittedIsChosen
<1>6. text \o SubSeq(outputs, 1, i) = text' \o SubSeq(outputs', 1, i - 1)
  <2> DEFINE one  == <<Head(outputs)>>
             rest == SubSeq(outputs', 1, i - 1)
  <2>1. SubSeq(outputs, 1, i) = one \o rest
    BY <1>1, <1>2, <1>4, PrefixByHead, Zenon
  <2>2. one \in Seq(Token) /\ text' = text \o one
    BY <1>1, <1>2, AppendAsConcat
  <2>3. rest \in Seq(Token)
    BY <1>3, <1>4, PrefixType
  <2> HIDE DEF one, rest
  <2>4. (text \o one) \o rest = text \o (one \o rest)
    <3>1. text \in Seq(Token)
      BY <1>2
    <3>2. one \in Seq(Token)
      BY <2>2
    <3>3. \A r, s, t \in Seq(Token) : (r \o s) \o t = r \o (s \o t)
      BY ConcatAssoc
    <3>4. QED
      BY <2>3, <3>1, <3>2, <3>3, Zenon
  <2>5. QED
    BY <2>1, <2>2, <2>4 DEF rest
<1>7. QED
  BY <1>3, <1>5, <1>6

LEMMA NextChosen == Inv /\ CommittedIsChosen /\ [Next]_vars => CommittedIsChosen'
<1> SUFFICES ASSUME Inv, CommittedIsChosen, [Next]_vars, pc' = "emit"
             PROVE  CommittedIsChosen'
  BY DEF CommittedIsChosen
<1>1. CASE UndraftedStep
  <2>1. << >> \in Seq(Token)
    OBVIOUS
  <2>2. QED
    BY <1>1, <2>1, VerifyChosen DEF UndraftedStep
<1>2. CASE \E drafts \in Drafts(NgramCap) : NgramStep(drafts)
  <2>1. PICK drafts \in Drafts(NgramCap) : NgramStep(drafts)
    BY <1>2
  <2>2. drafts \in Seq(Token)
    BY ConstantsAssumption, DraftsType
  <2>3. QED
    BY <2>1, <2>2, VerifyChosen DEF NgramStep
<1>3. CASE \E drafts \in Drafts(MtpCap), extra \in 0..MtpCap : MtpStep(drafts, extra)
  <2>1. PICK drafts \in Drafts(MtpCap), extra \in 0..MtpCap : MtpStep(drafts, extra)
    BY <1>3
  <2>2. drafts \in Seq(Token)
    BY ConstantsAssumption, DraftsType
  <2>3. QED
    BY <2>1, <2>2, VerifyChosen DEF MtpStep
<1>4. CASE \E halt \in BOOLEAN : EmitOutput(halt)
  BY <1>4, EmitOutputChosen
<1>5. CASE UNCHANGED vars
  BY <1>5 DEF vars, CommittedIsChosen
\* No other step enters the emission of a pass.
<1>6. pc = "emit" \/ UndraftedStep
      \/ (\E drafts \in Drafts(NgramCap) : NgramStep(drafts))
      \/ (\E drafts \in Drafts(MtpCap), extra \in 0..MtpCap : MtpStep(drafts, extra))
      \/ (\E halt \in BOOLEAN : EmitOutput(halt))
      \/ UNCHANGED vars
  BY DEF Next, TurnStep, Reset, PrefillTokens, TakeImage, RestoreSession, BeginTurn,
     PrefillFails, PassFails, SampleSpent, Sample, EmitClosure, PlainStep, EndTurn, StartClosure
<1>7. pc = "emit" => (\E halt \in BOOLEAN : EmitOutput(halt)) \/ UNCHANGED vars
  BY DEF Next, TurnStep, Reset, PrefillTokens, TakeImage, RestoreSession, BeginTurn,
     PrefillFails, PassFails, SampleSpent, Sample, EmitClosure, PlainStep, UndraftedStep,
     NgramStep, MtpStep, Quiet
<1>8. QED
  BY <1>1, <1>2, <1>3, <1>4, <1>5, <1>6, <1>7

\* Every token a pass commits is the target's choice for the text before it.
THEOREM CommitsChoices == Spec => []CommittedIsChosen
<1>1. Init => CommittedIsChosen
  BY DEF Init, CommittedIsChosen
<1>2. QED
  BY <1>1, InvHolds, NextChosen, PTL DEF Spec
-----------------------------------------------------------------------------
(***************************************************************************)
(* The refinement: a pass stutters, and the emission of one token is one   *)
(* step of the decoder, whether it was drafted or not.                     *)
(***************************************************************************)
LEMMA RunningMeans == TypeOK => (Decoder!Running <=> ~Quiet)
BY ConstantsAssumption DEF TypeOK, Decoder!Running

LEMMA RefineNoLocals ==
  ASSUME NEW token, EndTurn(token)
  PROVE  Decoder!NoLocals
BY DEF EndTurn, NoTurnLocals, Decoder!NoLocals

LEMMA RefineInit == Init => Decoder!Init
BY DEF Init, Decoder!Init

LEMMA RefineReset == Inv /\ Reset => Decoder!Next
<1> SUFFICES ASSUME Inv, Reset PROVE Decoder!Next
  OBVIOUS
<1>1. ~Decoder!Running
  BY RunningMeans DEF Inv, Reset
<1>2. Decoder!Restart(<< >>)
  BY <1>1 DEF Reset, turn, Decoder!Restart
<1>3. QED
  BY <1>2 DEF Decoder!Next

LEMMA RefinePrefillTokens ==
  ASSUME Inv, NEW prompt \in Prompts, NEW trackMtp \in BOOLEAN, PrefillTokens(prompt, trackMtp)
  PROVE  Decoder!Next
<1>1. ~Decoder!Running
  BY RunningMeans DEF Inv, PrefillTokens, Quiet
<1>2. Decoder!Extend(prompt)
  BY <1>1 DEF PrefillTokens, turn, Decoder!Extend
<1>3. QED
  BY <1>2 DEF Decoder!Next

LEMMA RefineTakeImage == Inv /\ TakeImage => Decoder!Next
<1> SUFFICES ASSUME Inv, TakeImage PROVE Decoder!Next
  OBVIOUS
<1>1. ~Decoder!Running
  BY RunningMeans DEF Inv, TakeImage, Quiet
<1>2. images' = images \cup {SessionImage} /\ SessionImage.tokens = text
  BY DEF TakeImage, SessionImage
<1>3. {image.tokens : image \in images'} = {image.tokens : image \in images} \cup {text}
  BY <1>2
<1>4. Decoder!Save
  BY <1>1, <1>3 DEF TakeImage, turn, Decoder!Save
<1>5. QED
  BY <1>4 DEF Decoder!Next

LEMMA RefineRestoreSession ==
  ASSUME Inv, NEW image \in images, RestoreSession(image)
  PROVE  Decoder!Next
<1>1. ~Decoder!Running
  BY RunningMeans DEF Inv, RestoreSession
<1>2. Decoder!Restart(image.tokens)
  BY <1>1 DEF RestoreSession, Adopt, turn, Decoder!Restart
<1>3. QED
  BY <1>2 DEF Decoder!Next

LEMMA RefineBeginTurn ==
  ASSUME Inv, NEW prompt \in Prompts, NEW o \in TurnOptions, BeginTurn(prompt, o)
  PROVE  Decoder!Next
<1>1. ~Decoder!Running
  BY RunningMeans DEF Inv, BeginTurn, Quiet
<1>2. Decoder!Begin(prompt, o)
  BY <1>1 DEF BeginTurn, Decoder!Begin
<1>3. QED
  BY <1>2 DEF Decoder!Next

\* Emitting one token, from the last row or from a pass, is one step.
LEMMA RefineEmit ==
  ASSUME Inv, ~Quiet, closure = << >>, NEW token \in Token, NEW halt \in BOOLEAN,
         Len(generated) < opts.maxNew, opts.sampled \/ token = Choice(text),
         text' = Append(text, token), UNCHANGED images,
         LET out == Append(generated, token)
         IN \/ /\ halt \/ (~ForceClosure(out) /\ TurnIsOver(out))
               /\ Decoder!NoLocals
            \/ /\ ~halt /\ ForceClosure(out)
               /\ generated' = out /\ thinking' = FALSE
               /\ closure' = ForcedClose /\ UNCHANGED opts
            \/ /\ ~halt /\ ~ForceClosure(out) /\ ~TurnIsOver(out)
               /\ generated' = out /\ thinking' = (thinking /\ ~NaturalClosure(out))
               /\ UNCHANGED <<closure, opts>>
  PROVE  Decoder!Next
<1> DEFINE out     == Append(generated, token)
           natural == thinking /\ Decoder!ClosesNaturally(out)
           forced  == thinking /\ ~natural /\ Decoder!SpendsBudget(out, token)
           over    == token \in StopTokens \/ Len(out) >= opts.maxNew
<1>1. Last(out) = token
  BY FrontOfAppend DEF Inv, TypeOK
<1>2. natural <=> NaturalClosure(out)
  BY DEF NaturalClosure, Decoder!ClosesNaturally, IsSuffix, IsPrefix, Reverse,
     Decoder!IsSuffix, Decoder!IsPrefix, Decoder!Reverse
<1>3. forced <=> ForceClosure(out)
  BY <1>1, <1>2 DEF ForceClosure, Decoder!SpendsBudget
<1>4. over <=> TurnIsOver(out)
  BY <1>1 DEF TurnIsOver
<1>5. Decoder!Running
  BY RunningMeans DEF Inv
<1>6. thinking \in BOOLEAN
  BY DEF Inv, TypeOK
<1> DEFINE step == IF halt \/ (~forced /\ over)
                   THEN Decoder!NoLocals
                   ELSE /\ generated' = out
                        /\ thinking' = (thinking /\ ~natural /\ ~forced)
                        /\ closure' = IF forced THEN ForcedClose ELSE << >>
                        /\ UNCHANGED opts
<1> HIDE DEF natural, forced, over, out
<1>7. step
  <2>1. CASE halt \/ (~ForceClosure(out) /\ TurnIsOver(out))
    BY <1>3, <1>4, <2>1 DEF out
  <2>2. CASE ~halt /\ ForceClosure(out)
    BY <1>3, <2>2 DEF out
  <2>3. CASE ~halt /\ ~ForceClosure(out) /\ ~TurnIsOver(out)
    BY <1>2, <1>3, <1>4, <2>3 DEF out
  <2>4. QED
    BY <2>1, <2>2, <2>3
<1>8. {image.tokens : image \in images'} = {image.tokens : image \in images}
  OBVIOUS
<1>9. Decoder!Emit(token, halt)
  BY <1>5, <1>7, <1>8 DEF Decoder!Emit, natural, forced, over, out
<1>10. QED
  BY <1>9 DEF Decoder!Next

LEMMA RefineSampleSpent == Inv /\ SampleSpent => Decoder!Next
<1> SUFFICES ASSUME Inv, SampleSpent PROVE Decoder!Next
  OBVIOUS
<1>1. Decoder!Running /\ closure = << >>
  BY RunningMeans DEF Inv, TypeOK, SampleSpent, Quiet
<1>2. Decoder!EndSpent
  BY <1>1, RefineNoLocals DEF SampleSpent, Decoder!EndSpent
<1>3. QED
  BY <1>2 DEF Decoder!Next

LEMMA RefineSample ==
  ASSUME Inv, NEW token \in Token, NEW halt \in BOOLEAN, Sample(token, halt)
  PROVE  Decoder!Next
<1>1. ~Quiet /\ closure = << >> /\ evaluated = text
  BY DEF Sample, Inv, TypeOK, RepresentsText, Quiet
<1>2. text' = Append(text, token) /\ UNCHANGED images
      /\ Len(generated) < opts.maxNew /\ (opts.sampled \/ token = Choice(text))
  BY <1>1 DEF Sample, Commit
<1>3. QED
  BY <1>1, <1>2, RefineEmit, RefineNoLocals DEF Sample, StartClosure

LEMMA RefineEmitClosure ==
  ASSUME Inv, NEW halt \in BOOLEAN, EmitClosure(halt)
  PROVE  Decoder!Next
<1>1. Decoder!Running /\ closure # << >>
  BY RunningMeans DEF Inv, TypeOK, EmitClosure, Quiet
<1>2. Decoder!EmitClosure(halt)
  BY <1>1, RefineNoLocals DEF EmitClosure, Commit, Decoder!EmitClosure
<1>3. QED
  BY <1>2 DEF Decoder!Next

LEMMA RefineEmitOutput ==
  ASSUME Inv, CommittedIsChosen, NEW halt \in BOOLEAN, EmitOutput(halt)
  PROVE  Decoder!Next
<1> DEFINE token == Head(outputs)
<1>1. pc = "emit" /\ ~Quiet /\ closure = << >> /\ token \in Token
  BY EmitFacts DEF EmitOutput, Inv, TypeOK, Quiet
<1>2. token = Choice(text)
  <2>1. 1 \in 1..Len(outputs) /\ token = outputs[1]
    BY <1>1, EmitFacts
  <2>2. SubSeq(outputs, 1, 0) = << >>
    <3>1. 0 \in 0..Len(outputs)
      BY <1>1, EmitFacts
    <3>2. SubSeq(outputs, 1, 0) \in Seq(Token) /\ Len(SubSeq(outputs, 1, 0)) = 0
      BY <1>1, <3>1, EmitFacts, PrefixType
    <3>3. QED
      BY <3>2
  <2>3. outputs[1] = Choice(text \o SubSeq(outputs, 1, 1 - 1))
    BY <1>1, <2>1 DEF CommittedIsChosen
  <2>4. 1 - 1 = 0
    OBVIOUS
  <2>5. text \o << >> = text
    BY <1>1, EmitFacts, ConcatEmpty
  <2>6. QED
    BY <2>1, <2>2, <2>3, <2>4, <2>5
<1>3. Len(generated) < opts.maxNew
  <2>1. Len(generated) \in Nat /\ Len(outputs) \in Nat /\ Len(outputs) > 0
    BY <1>1, EmitFacts
  <2>2. opts.maxNew \in Nat
    BY <1>1, ConstantTypes DEF Inv, TypeOK
  <2>3. Len(generated) + Len(outputs) <= opts.maxNew
    BY <1>1 DEF Inv, PassFitsTheTurn
  <2>4. QED
    BY <2>1, <2>2, <2>3
<1>4. text' = Append(text, token) /\ UNCHANGED images
  BY DEF EmitOutput, Commit
<1> HIDE DEF token
<1>5. QED
  BY <1>1, <1>2, <1>3, <1>4, RefineEmit, RefineNoLocals DEF EmitOutput, StartClosure, token

\* A pass, evaluating what was emitted, and a failed prefill are invisible.
LEMMA RefinePasses ==
  ASSUME \/ PlainStep \/ UndraftedStep \/ PrefillFails
         \/ \E drafts \in Drafts(NgramCap) : NgramStep(drafts)
         \/ \E drafts \in Drafts(MtpCap), extra \in 0..MtpCap : MtpStep(drafts, extra)
         \/ UNCHANGED vars
  PROVE  UNCHANGED Decoder!vars
<1>1. UNCHANGED <<text, generated, thinking, closure, opts, images>>
  BY DEF PlainStep, UndraftedStep, PrefillFails, NgramStep, MtpStep, Verify, vars, turn
<1>2. {image.tokens : image \in images'} = {image.tokens : image \in images}
  BY <1>1
<1>3. QED
  BY <1>1, <1>2 DEF Decoder!vars

LEMMA RefinePassFails == Inv /\ PassFails => Decoder!Next
<1> SUFFICES ASSUME Inv, PassFails PROVE Decoder!Next
  OBVIOUS
<1>1. Decoder!Running
  BY RunningMeans DEF Inv, PassFails, Quiet
<1>2. Decoder!NoLocals
  BY DEF PassFails, NoTurnLocals, Decoder!NoLocals
<1>3. Decoder!Abort
  BY <1>1, <1>2 DEF PassFails, Decoder!Abort
<1>4. QED
  BY <1>3 DEF Decoder!Next

LEMMA RefineNext == Inv /\ CommittedIsChosen /\ [Next]_vars => [Decoder!Next]_(Decoder!vars)
<1> SUFFICES ASSUME Inv, CommittedIsChosen, [Next]_vars
             PROVE  Decoder!Next \/ UNCHANGED Decoder!vars
  OBVIOUS
<1>1. CASE Reset
  BY <1>1, RefineReset
<1>2. CASE \E prompt \in Prompts, trackMtp \in BOOLEAN : PrefillTokens(prompt, trackMtp)
  BY <1>2, RefinePrefillTokens
<1>3. CASE TakeImage
  BY <1>3, RefineTakeImage
<1>4. CASE \E image \in images : RestoreSession(image)
  BY <1>4, RefineRestoreSession
<1>5. CASE \E prompt \in Prompts, o \in TurnOptions : BeginTurn(prompt, o)
  BY <1>5, RefineBeginTurn
<1>6. CASE SampleSpent
  BY <1>6, RefineSampleSpent
<1>7. CASE \E token \in Token, halt \in BOOLEAN : Sample(token, halt)
  BY <1>7, RefineSample
<1>8. CASE \E halt \in BOOLEAN : EmitClosure(halt)
  BY <1>8, RefineEmitClosure
<1>9. CASE \E halt \in BOOLEAN : EmitOutput(halt)
  BY <1>9, RefineEmitOutput
<1>10. CASE PassFails
  BY <1>10, RefinePassFails
<1>11. CASE \/ PlainStep \/ UndraftedStep \/ PrefillFails
            \/ \E drafts \in Drafts(NgramCap) : NgramStep(drafts)
            \/ \E drafts \in Drafts(MtpCap), extra \in 0..MtpCap : MtpStep(drafts, extra)
            \/ UNCHANGED vars
  BY <1>11, RefinePasses
<1>12. QED
  BY <1>1, <1>2, <1>3, <1>4, <1>5, <1>6, <1>7, <1>8, <1>9, <1>10, <1>11 DEF Next, TurnStep

\* Every session is a session of the target decoding one token at a time,
\* whatever is drafted, accepted, rejected or halted on the way.
THEOREM Refinement == Spec => ImplementsTargetDecode
<1>1. Spec => Decoder!Spec
  BY InvHolds, CommitsChoices, RefineInit, RefineNext, PTL DEF Spec, Decoder!Spec
<1>2. QED
  BY <1>1 DEF ImplementsTargetDecode

-----------------------------------------------------------------------------
(***************************************************************************)
(* The MTP predictor never drafts from rows of other tokens, wherever a    *)
(* turn is halted and whatever passes, prefills and images came before.    *)
(***************************************************************************)

Row(tokens, i) == [token |-> tokens[i], input |-> SubSeq(tokens, 1, i - 1)]

\* The predictor's authoritative rows are those of the first tokens, its gap the
\* rest of them, each with the target's row of the tokens up to it.
Covers(m, tokens) ==
  /\ m.synced + Len(m.gap) = Len(tokens)
  /\ \A i \in 1..m.synced : m.rows[i] = Row(tokens, i)
  /\ \A i \in 1..Len(m.gap) : /\ m.gap[i] = tokens[m.synced + i]
                              /\ m.hidden[i] = SubSeq(tokens, 1, m.synced + i)
  /\ m.gap # << >> => \/ m.prior = SubSeq(tokens, 1, m.synced)
                      \/ m.synced = 0 /\ m.prior = NoRow

\* And no guess is left above the rows once nothing is to be caught up with.
Trails(m, tokens) == Covers(m, tokens) /\ (m.gap = << >> => Len(m.rows) = m.synced)

\* row is the target's row of the last of tokens.
LastRow(tokens, row) == IF tokens = << >> THEN row \in {NoRow, << >>} ELSE row = tokens

Reach(m) == m.synced + Len(m.gap)

\* A predictor that reaches the target trails it, with the target's last row;
\* one that fell behind is not trusted with anything.
Carried(m, tokens, row) ==
  /\ Reach(m) <= Len(tokens)
  /\ Reach(m) = Len(tokens) => Trails(m, tokens) /\ LastRow(tokens, row)
  /\ tokens = << >> => LastRow(tokens, row)

\* What a halt leaves evaluated.
Kept == IF pc = "emit" THEN Len(evaluated) - (Len(outputs) - 1) ELSE Len(evaluated)

\* A turn that tracks has a predictor that reaches the target, and its drafts
\* lie within the gap until it is closed; in one that does not, the predictor
\* stays behind whatever is unwound, so that no rollback meets it again.
TurnCarries ==
  /\ tracking => mtp.valid /\ Reach(mtp) = Len(evaluated) /\ opts.mode # "Off"
  /\ ~Quiet /\ ~tracking => Reach(mtp) < Kept /\ (opts.mode # "Off" => ~mtp.valid)
  /\ pc = "emit" => opts.mode # "Off"
  /\ pc = "emit" /\ tracking /\ mtp.gap # << >> => Len(outputs) <= Len(mtp.gap)

ImageCarries(image) ==
  /\ image.state = image.tokens
  /\ image.tokens = << >> => LastRow(image.tokens, image.lastHidden)
  /\ image.mtp # NoRow =>
       /\ image.mtp = ExactRows(image.tokens, Len(image.tokens))
       /\ LastRow(image.tokens, image.lastHidden)

PInv ==
  /\ Carried(mtp, evaluated, lastHidden)
  /\ TurnCarries
  /\ \A image \in images : ImageCarries(image)
-----------------------------------------------------------------------------
(***************************************************************************)
(* What the operators on the predictor do to what it covers.               *)
(***************************************************************************)
LEMMA PrefixOfLonger ==
  ASSUME NEW S, NEW s \in Seq(S), NEW t \in Seq(S), NEW n \in 0..Len(s)
  PROVE  SubSeq(s \o t, 1, n) = SubSeq(s, 1, n)
OBVIOUS

LEMMA PrefixPastFirst ==
  ASSUME NEW S, NEW s \in Seq(S), NEW t \in Seq(S), NEW n \in 0..Len(t)
  PROVE  SubSeq(s \o t, 1, Len(s) + n) = s \o SubSeq(t, 1, n)
OBVIOUS

LEMMA IndexOfConcat ==
  ASSUME NEW S, NEW s \in Seq(S), NEW t \in Seq(S)
  PROVE  /\ \A i \in 1..Len(s) : (s \o t)[i] = s[i]
         /\ \A i \in 1..Len(t) : (s \o t)[Len(s) + i] = t[i]
OBVIOUS

LEMMA PrefixTwice ==
  ASSUME NEW S, NEW s \in Seq(S), NEW n \in 0..Len(s), NEW k \in 0..n
  PROVE  SubSeq(SubSeq(s, 1, n), 1, k) = SubSeq(s, 1, k)
OBVIOUS

LEMMA WholeSequence ==
  ASSUME NEW S, NEW s \in Seq(S)
  PROVE  SubSeq(s, 1, Len(s)) = s /\ SubSeq(s, 1, 0) = << >>
OBVIOUS

LEMMA PredictorParts ==
  ASSUME NEW m, IsPredictor(m)
  PROVE  /\ m.rows \in Seq(PredictorRow) /\ m.gap \in Seq(Token) /\ m.hidden \in Seq(HiddenRow)
         /\ m.synced \in Nat /\ m.synced <= Len(m.rows) /\ m.valid \in BOOLEAN
         /\ m.prior \in HiddenRow
         /\ Len(m.rows) \in Nat /\ Len(m.gap) \in Nat /\ Len(m.hidden) = Len(m.gap)
         /\ Reach(m) \in Nat
         /\ (m.gap = << >> <=> Len(m.gap) = 0)
BY DEF IsPredictor, Predictor, Reach

LEMMA RowOfLonger ==
  ASSUME NEW s \in Seq(Token), NEW t \in Seq(Token), NEW i \in 1..Len(s)
  PROVE  Row(s \o t, i) = Row(s, i)
<1>1. i - 1 \in 0..Len(s) /\ (s \o t)[i] = s[i]
  OBVIOUS
<1>2. SubSeq(s \o t, 1, i - 1) = SubSeq(s, 1, i - 1)
  BY <1>1, PrefixOfLonger
<1> QED
  BY <1>1, <1>2 DEF Row

LEMMA RowOfShorter ==
  ASSUME NEW s \in Seq(Token), NEW n \in 0..Len(s), NEW i \in 1..n
  PROVE  Row(SubSeq(s, 1, n), i) = Row(s, i)
<1>1. i - 1 \in 0..n /\ SubSeq(s, 1, n)[i] = s[i]
  BY PrefixType
<1>2. SubSeq(SubSeq(s, 1, n), 1, i - 1) = SubSeq(s, 1, i - 1)
  BY <1>1, PrefixTwice
<1> QED
  BY <1>1, <1>2 DEF Row

\* The fields of a predictor that retains what a pass evaluated.
LEMMA RetainFields ==
  ASSUME NEW m, IsPredictor(m), NEW from \in Seq(Token), NEW more \in Seq(Token), more # << >>,
         NEW row \in HiddenRow, NEW r, r = Retain(m, more, TargetRows(from, more), row)
  PROVE  /\ r.rows = m.rows /\ r.synced = m.synced /\ r.valid = m.valid
         /\ r.gap = m.gap \o more /\ r.hidden = m.hidden \o TargetRows(from, more)
         /\ r.prior = IF m.gap = << >> THEN row ELSE m.prior
         /\ Len(r.gap) = Len(m.gap) + Len(more) /\ r.gap # << >>
         /\ Reach(r) = Reach(m) + Len(more)
<1>1. m \in Predictor
  BY DEF IsPredictor
<1>2. /\ r.rows = m.rows /\ r.synced = m.synced /\ r.valid = m.valid
      /\ r.gap = m.gap \o more /\ r.hidden = m.hidden \o TargetRows(from, more)
      /\ r.prior = IF m.gap = << >> THEN row ELSE m.prior
  BY <1>1 DEF Retain, Predictor
<1>3. m.gap \in Seq(Token) /\ m.synced \in Nat
  BY PredictorParts
<1>4. Len(m.gap \o more) = Len(m.gap) + Len(more) /\ m.gap \o more # << >>
  BY <1>3
<1> QED
  BY <1>2, <1>3, <1>4 DEF Reach

LEMMA SumsShift ==
  ASSUME NEW a \in Nat, NEW b \in Nat, NEW c \in Nat
  PROVE  a + (b + c) = (a + b) + c
OBVIOUS

LEMMA RetainCovers ==
  ASSUME NEW m, NEW tokens \in Seq(Token), NEW more \in Seq(Token),
         NEW row, NEW r
  PROVE  /\ row \in HiddenRow /\ IsPredictor(m) /\ more # << >> /\ Covers(m, tokens) /\ LastRow(tokens, row)
         /\ r = Retain(m, more, TargetRows(tokens, more), row)
         => Trails(r, tokens \o more)
<1>0. SUFFICES ASSUME row \in HiddenRow, IsPredictor(m), more # << >>, Covers(m, tokens), LastRow(tokens, row),
                      r = Retain(m, more, TargetRows(tokens, more), row)
               PROVE  Trails(r, tokens \o more)
  OBVIOUS
<1>1. /\ r.rows = m.rows /\ r.synced = m.synced
      /\ r.gap = m.gap \o more /\ r.hidden = m.hidden \o TargetRows(tokens, more)
      /\ r.prior = IF m.gap = << >> THEN row ELSE m.prior
      /\ Len(r.gap) = Len(m.gap) + Len(more) /\ r.gap # << >>
  BY <1>0, RetainFields, SMTT(40)
<1>2. /\ m.gap \in Seq(Token) /\ m.hidden \in Seq(HiddenRow) /\ m.synced \in Nat
      /\ Len(m.gap) \in Nat /\ Len(m.hidden) = Len(m.gap) /\ (m.gap = << >> <=> Len(m.gap) = 0)
  BY <1>0, PredictorParts
<1>3. m.synced + Len(m.gap) = Len(tokens) /\ m.synced \in 0..Len(tokens)
      /\ Len(tokens) \in Nat /\ Len(more) \in Nat /\ m.synced \in Nat /\ Len(m.gap) \in Nat
  BY <1>0, <1>2 DEF Covers
<1>4. PICK all \in Seq(Token) : all = tokens \o more /\ Len(all) = Len(tokens) + Len(more)
  BY ConcatType
<1>5. ASSUME NEW i \in 1..m.synced PROVE r.rows[i] = Row(all, i)
  <2>1. i \in 1..Len(tokens)
    BY <1>2, <1>3
  <2> QED
    BY <1>0, <1>1, <1>4, <2>1, RowOfLonger DEF Covers
<1>6. ASSUME NEW i \in 1..(Len(m.gap) + Len(more))
      PROVE  r.gap[i] = all[m.synced + i] /\ r.hidden[i] = SubSeq(all, 1, m.synced + i)
  <2>1. PICK rows \in Seq(HiddenRow) : rows = TargetRows(tokens, more) /\ Len(rows) = Len(more)
    BY TargetRowsType
  <2>2. CASE i <= Len(m.gap)
    <3>1. i \in 1..Len(m.gap) /\ m.synced + i \in 1..Len(tokens) /\ m.synced + i \in 0..Len(tokens)
      BY <1>3, <2>2
    <3>2. (m.gap \o more)[i] = m.gap[i] /\ (m.hidden \o rows)[i] = m.hidden[i]
      BY <1>2, <2>1, <3>1, IndexOfConcat
    <3>3. all[m.synced + i] = tokens[m.synced + i]
      BY <1>4, <3>1, IndexOfConcat
    <3>4. SubSeq(all, 1, m.synced + i) = SubSeq(tokens, 1, m.synced + i)
      BY <1>4, <3>1, PrefixOfLonger
    <3>5. m.gap[i] = tokens[m.synced + i] /\ m.hidden[i] = SubSeq(tokens, 1, m.synced + i)
      BY <1>0, <3>1 DEF Covers
    <3>6. r.gap = m.gap \o more /\ r.hidden = m.hidden \o rows
      BY <1>1, <2>1
    <3> QED
      BY <3>2, <3>3, <3>4, <3>5, <3>6
  <2>3. CASE i > Len(m.gap)
    <3>1. PICK k \in 1..Len(more) : i = Len(m.gap) + k
      <4>1. i - Len(m.gap) \in 1..Len(more) /\ i = Len(m.gap) + (i - Len(m.gap))
        BY <1>3, <2>3
      <4> QED
        BY <4>1
    <3>2. m.synced + i = Len(tokens) + k /\ k \in 0..Len(more)
      <4>1. k \in Nat /\ k \in 0..Len(more)
        BY <1>3
      <4>2. m.synced + (Len(m.gap) + k) = (m.synced + Len(m.gap)) + k
        BY <1>3, <4>1, SumsShift
      <4> QED
        BY <1>3, <3>1, <4>1, <4>2
    <3>3. (m.gap \o more)[Len(m.gap) + k] = more[k]
      BY <1>2, IndexOfConcat
    <3>4. (m.hidden \o rows)[Len(m.hidden) + k] = rows[k]
      <4>1. k \in 1..Len(rows)
        BY <2>1
      <4>2. PICK carried \in Seq(HiddenRow) : carried = m.hidden
        BY <1>2
      <4>3. (carried \o rows)[Len(carried) + k] = rows[k]
        BY <4>1, IndexOfConcat
      <4> QED
        BY <4>2, <4>3
    <3>5. rows[k] = tokens \o SubSeq(more, 1, k)
      BY <2>1 DEF TargetRows
    <3>6. all[Len(tokens) + k] = more[k]
      BY <1>4, IndexOfConcat
    <3>7. SubSeq(all, 1, Len(tokens) + k) = tokens \o SubSeq(more, 1, k)
      BY <1>4, <3>2, PrefixPastFirst
    <3>8. r.gap = m.gap \o more /\ r.hidden = m.hidden \o rows /\ Len(m.hidden) = Len(m.gap)
      BY <1>1, <1>2, <2>1
    <3> QED
      BY <3>1, <3>2, <3>3, <3>4, <3>5, <3>6, <3>7, <3>8
  <2>4. i <= Len(m.gap) \/ i > Len(m.gap)
    BY <1>3
  <2> QED
    BY <2>2, <2>3, <2>4
<1>7. r.prior = SubSeq(all, 1, m.synced) \/ (m.synced = 0 /\ r.prior = NoRow)
  <2>1. SubSeq(all, 1, m.synced) = SubSeq(tokens, 1, m.synced)
    BY <1>3, <1>4, PrefixOfLonger
  <2>2. CASE m.gap = << >>
    <3>1. r.prior = row /\ m.synced = Len(tokens) /\ SubSeq(tokens, 1, Len(tokens)) = tokens
      BY <1>1, <1>2, <1>3, <2>2, WholeSequence
    <3>2. tokens = << >> => m.synced = 0
      BY <3>1
    <3> QED
      BY <1>0, <2>1, <3>1, <3>2 DEF LastRow
  <2>3. CASE m.gap # << >>
    BY <1>0, <1>1, <2>1, <2>3 DEF Covers
  <2> QED
    BY <2>2, <2>3
<1>8. r.synced + Len(r.gap) = Len(all)
  <2>1. r.synced = m.synced /\ Len(r.gap) = Len(m.gap) + Len(more)
    BY <1>1
  <2>2. Len(all) = (m.synced + Len(m.gap)) + Len(more)
    BY <1>3, <1>4
  <2>3. m.synced + (Len(m.gap) + Len(more)) = (m.synced + Len(m.gap)) + Len(more)
    BY <1>3, SumsShift
  <2> QED
    BY <2>1, <2>2, <2>3
<1>9. Trails(r, all)
  BY <1>1, <1>5, <1>6, <1>7, <1>8 DEF Trails, Covers
<1> QED
  BY <1>4, <1>9

\* Each token of the gap is paired with the target's row before it.
LEMMA GapRows ==
  ASSUME NEW m, IsPredictor(m), NEW tokens \in Seq(Token), Covers(m, tokens),
         NEW k \in 1..Len(m.gap)
  PROVE  ShiftedInputs(m)[k] = Row(tokens, m.synced + k)
<1>1. m.synced \in Nat /\ Len(m.gap) \in Nat /\ k \in Int /\ m.synced + Len(m.gap) = Len(tokens)
      /\ (m.gap = << >> <=> Len(m.gap) = 0)
  BY PredictorParts DEF Covers
<1>2. ShiftedInputs(m)[k] =
        [token |-> m.gap[k],
         input |-> IF k > 1 THEN m.hidden[k - 1] ELSE IF m.prior = NoRow THEN << >> ELSE m.prior]
  BY DEF ShiftedInputs
<1>3. m.gap[k] = tokens[m.synced + k]
  BY DEF Covers
<1>4. CASE k > 1
  <2>1. k - 1 \in 1..Len(m.gap) /\ m.synced + (k - 1) = (m.synced + k) - 1
    BY <1>1, <1>4
  <2>2. m.hidden[k - 1] = SubSeq(tokens, 1, m.synced + (k - 1))
    BY <2>1 DEF Covers
  <2> QED
    BY <1>1, <1>2, <1>3, <1>4, <2>1, <2>2 DEF Row
<1>5. CASE k = 1
  <2>1. (m.synced + k) - 1 = m.synced /\ m.gap # << >> /\ m.synced \in 0..Len(tokens)
    BY <1>1, <1>5
  <2>2. SubSeq(tokens, 1, m.synced) # NoRow
    BY <2>1, PrefixType, ConstantsAssumption
  <2>3. m.synced = 0 => SubSeq(tokens, 1, m.synced) = << >>
    BY WholeSequence
  <2>4. (IF m.prior = NoRow THEN << >> ELSE m.prior) = SubSeq(tokens, 1, m.synced)
    BY <2>1, <2>2, <2>3 DEF Covers
  <2>5. ShiftedInputs(m)[k] = [token |-> tokens[m.synced + k], input |-> SubSeq(tokens, 1, m.synced)]
    <3>1. ~(k > 1)
      BY <1>5
    <3> QED
      BY <1>2, <1>3, <2>4, <3>1, Zenon
  <2>6. Row(tokens, m.synced + k) =
          [token |-> tokens[m.synced + k], input |-> SubSeq(tokens, 1, m.synced)]
    BY <2>1 DEF Row
  <2> QED
    BY <2>5, <2>6
<1> QED
  BY <1>1, <1>4, <1>5

LEMMA JoinRows ==
  ASSUME NEW tokens \in Seq(Token), NEW before \in Seq(PredictorRow), NEW after \in Seq(PredictorRow),
         \A i \in 1..Len(before) : before[i] = Row(tokens, i),
         \A i \in 1..Len(after) : after[i] = Row(tokens, Len(before) + i)
  PROVE  \A i \in 1..(Len(before) + Len(after)) : (before \o after)[i] = Row(tokens, i)
<1> SUFFICES ASSUME NEW i \in 1..(Len(before) + Len(after))
             PROVE  (before \o after)[i] = Row(tokens, i)
  OBVIOUS
<1>1. CASE i <= Len(before)
  <2>1. i \in 1..Len(before)
    BY <1>1
  <2> QED
    BY <2>1, IndexOfConcat
<1>2. CASE i > Len(before)
  <2>1. i - Len(before) \in 1..Len(after) /\ i = Len(before) + (i - Len(before))
    BY <1>2
  <2>2. (before \o after)[Len(before) + (i - Len(before))] = after[i - Len(before)]
    BY <2>1, IndexOfConcat
  <2>3. after[i - Len(before)] = Row(tokens, Len(before) + (i - Len(before)))
    BY <2>1
  <2> QED
    BY <2>1, <2>2, <2>3
<1> QED
  BY <1>1, <1>2

\* Closing the gap: every row is the target's, and none is left over.
LEMMA CatchUpTrails ==
  ASSUME NEW m, IsPredictor(m), NEW tokens \in Seq(Token), Trails(m, tokens),
         NEW c, c = CatchUp(m)
  PROVE  /\ Trails(c, tokens) /\ c.gap = << >> /\ c.synced = Len(tokens)
         /\ Len(c.rows) = Len(tokens) /\ c.valid = m.valid
         /\ CanCatchUp(m)
<1>1. /\ m \in Predictor
      /\ m.rows \in Seq(PredictorRow) /\ m.gap \in Seq(Token) /\ m.hidden \in Seq(HiddenRow)
      /\ m.synced \in Nat /\ m.synced <= Len(m.rows) /\ Len(m.rows) \in Nat
      /\ Len(m.gap) \in Nat /\ Len(m.hidden) = Len(m.gap) /\ (m.gap = << >> <=> Len(m.gap) = 0)
  BY PredictorParts DEF IsPredictor
<1>2. m.synced + Len(m.gap) = Len(tokens) /\ Covers(m, tokens)
  BY DEF Trails, Covers
<1>3. CanCatchUp(m)
  <2>1. NoRow \notin Seq(Token) /\ SubSeq(tokens, 1, m.synced) \in Seq(Token)
    BY <1>1, <1>2, ConstantsAssumption, PrefixType
  <2> QED
    BY <1>1, <2>1 DEF CanCatchUp, Trails, Covers
<1>4. CASE m.gap = << >>
  BY <1>1, <1>2, <1>3, <1>4 DEF CatchUp, Trails
<1>5. CASE m.gap # << >>
  <2>1. /\ c.rows = SubSeq(m.rows, 1, m.synced) \o ShiftedInputs(m)
        /\ c.synced = m.synced + Len(m.gap) /\ c.valid = m.valid
        /\ c.gap = << >> /\ c.hidden = << >>
    BY <1>1, <1>5 DEF CatchUp, ClearGap, Predictor
  <2>2. PICK after \in Seq(PredictorRow) : /\ after = ShiftedInputs(m) /\ Len(after) = Len(m.gap)
    BY ShiftedInputsType
  <2>3. PICK before \in Seq(PredictorRow) :
          /\ before = SubSeq(m.rows, 1, m.synced) /\ Len(before) = m.synced
          /\ \A i \in 1..m.synced : before[i] = m.rows[i]
    <3>1. /\ SubSeq(m.rows, 1, m.synced) \in Seq(PredictorRow)
          /\ Len(SubSeq(m.rows, 1, m.synced)) = m.synced
          /\ \A i \in 1..m.synced : SubSeq(m.rows, 1, m.synced)[i] = m.rows[i]
      BY <1>1, PrefixType
    <3> QED
      BY <3>1
  <2>4. \A i \in 1..Len(before) : before[i] = Row(tokens, i)
    BY <1>2, <2>3 DEF Covers
  <2>5. \A i \in 1..Len(after) : after[i] = Row(tokens, Len(before) + i)
    BY <1>2, <2>2, <2>3, GapRows
  <2>6. \A i \in 1..(Len(before) + Len(after)) : (before \o after)[i] = Row(tokens, i)
    BY <2>4, <2>5, JoinRows
  <2>7. Len(before \o after) = Len(tokens) /\ Len(before) + Len(after) = Len(tokens)
    BY <1>1, <1>2, <2>2, <2>3, ConcatType
  <2>8. c.rows = before \o after /\ c.synced = Len(tokens) /\ Len(tokens) \in Nat
    BY <1>2, <2>1, <2>2, <2>3
  <2>9. Trails(c, tokens)
    <3>1. /\ c.synced = Len(tokens) /\ Len(c.rows) = Len(tokens) /\ Len(tokens) \in Nat
          /\ c.gap = << >> /\ \A i \in 1..c.synced : c.rows[i] = Row(tokens, i)
      BY <2>1, <2>6, <2>7, <2>8
    <3>2. Len(c.gap) = 0
      BY <3>1
    <3> QED
      BY <3>1, <3>2 DEF Trails, Covers
  <2> QED
    BY <1>3, <2>1, <2>7, <2>8, <2>9
<1> QED
  BY <1>4, <1>5

\* A rollback into the gap, or below it.
LEMMA TruncateTrails ==
  ASSUME NEW m, IsPredictor(m), NEW tokens \in Seq(Token), Trails(m, tokens),
         NEW n \in 0..Len(tokens), n < Len(tokens), m.gap # << >> => n > m.synced,
         NEW c, c = TruncateGap(m, n)
  PROVE  /\ Trails(c, SubSeq(tokens, 1, n)) /\ Reach(c) = n /\ c.valid = m.valid
<1> DEFINE less == SubSeq(tokens, 1, n)
<1>1. /\ m \in Predictor
      /\ m.rows \in Seq(PredictorRow) /\ m.gap \in Seq(Token) /\ m.hidden \in Seq(HiddenRow)
      /\ m.synced \in Nat /\ m.synced <= Len(m.rows) /\ Len(m.rows) \in Nat
      /\ Len(m.gap) \in Nat /\ Len(m.hidden) = Len(m.gap) /\ (m.gap = << >> <=> Len(m.gap) = 0)
  BY PredictorParts DEF IsPredictor
<1>2. m.synced + Len(m.gap) = Len(tokens) /\ Len(tokens) \in Nat /\ n \in Nat
  BY DEF Trails, Covers
<1>3. less \in Seq(Token) /\ Len(less) = n
  BY PrefixType
<1>4. CASE m.gap = << >>
  <2>1. n - m.synced < 0 /\ m.synced = Len(tokens) /\ n \in 0..Len(m.rows)
    BY <1>1, <1>2, <1>4
  <2>2. /\ c.rows = SubSeq(m.rows, 1, n) /\ c.synced = n /\ c.gap = << >> /\ c.valid = m.valid
    <3> DEFINE d == [m EXCEPT !.rows = SubSeq(@, 1, n), !.synced = n]
    <3>1. c = ClearGap(d)
      BY <2>1 DEF TruncateGap
    <3>2. d.rows = SubSeq(m.rows, 1, n) /\ d.synced = n /\ d.valid = m.valid
      BY <1>1 DEF Predictor
    <3>3. /\ ClearGap(d).rows = d.rows /\ ClearGap(d).synced = d.synced
          /\ ClearGap(d).gap = << >> /\ ClearGap(d).valid = d.valid
      BY <1>1 DEF ClearGap, Predictor
    <3> HIDE DEF d
    <3> QED
      BY <3>1, <3>2, <3>3
  <2>3. Len(c.rows) = n /\ \A i \in 1..n : c.rows[i] = m.rows[i]
    BY <1>1, <2>1, <2>2, PrefixType
  <2>4. ASSUME NEW i \in 1..n PROVE c.rows[i] = Row(less, i)
    <3>1. i \in 1..m.synced
      BY <1>2, <2>1
    <3> QED
      BY <2>3, <3>1, RowOfShorter DEF Trails, Covers
  <2>5. Len(c.gap) = 0
    BY <2>2
  <2> HIDE DEF less
  <2>6. Trails(c, less)
    BY <1>2, <1>3, <2>2, <2>3, <2>4, <2>5 DEF Trails, Covers
  <2> QED
    BY <1>2, <2>2, <2>5, <2>6 DEF Reach, less
<1>5. CASE m.gap # << >>
  <2> DEFINE k == n - m.synced
  <2>1. k \in 1..Len(m.gap) /\ k \in 0..Len(m.gap) /\ ~(k < 0) /\ k # 0 /\ m.synced + k = n
    BY <1>1, <1>2, <1>5
  <2>2. /\ c.rows = m.rows /\ c.synced = m.synced /\ c.valid = m.valid /\ c.prior = m.prior
        /\ c.gap = SubSeq(m.gap, 1, k) /\ c.hidden = SubSeq(m.hidden, 1, k)
    BY <1>1, <2>1 DEF TruncateGap, Predictor
  <2> HIDE DEF k
  <2>3. /\ Len(c.gap) = k /\ \A i \in 1..k : c.gap[i] = m.gap[i]
        /\ \A i \in 1..k : c.hidden[i] = m.hidden[i]
    BY <1>1, <2>1, <2>2, PrefixType
  <2>4. c.gap # << >>
    BY <2>1, <2>3
  <2>5. ASSUME NEW i \in 1..m.synced PROVE c.rows[i] = Row(less, i)
    <3>1. i \in 1..n
      BY <1>1, <1>2, <2>1
    <3> QED
      BY <2>2, <3>1, RowOfShorter DEF Trails, Covers
  <2>6. ASSUME NEW i \in 1..k
        PROVE  c.gap[i] = less[m.synced + i] /\ c.hidden[i] = SubSeq(less, 1, m.synced + i)
    <3>1. i \in 1..Len(m.gap) /\ m.synced + i \in 1..n /\ m.synced + i \in 0..n
      BY <1>1, <2>1
    <3>2. less[m.synced + i] = tokens[m.synced + i]
      BY <3>1, PrefixType
    <3>3. SubSeq(less, 1, m.synced + i) = SubSeq(tokens, 1, m.synced + i)
      BY <3>1, PrefixTwice
    <3> QED
      BY <2>3, <3>1, <3>2, <3>3 DEF Trails, Covers
  <2>7. SubSeq(less, 1, m.synced) = SubSeq(tokens, 1, m.synced)
    <3>1. m.synced \in 0..n
      BY <1>1, <2>1
    <3> QED
      BY <3>1, PrefixTwice
  <2> HIDE DEF less
  <2>8. Trails(c, less)
    BY <1>3, <1>5, <2>1, <2>2, <2>3, <2>4, <2>5, <2>6, <2>7 DEF Trails, Covers
  <2> QED
    BY <2>1, <2>2, <2>3, <2>8 DEF Reach, less
<1> QED
  BY <1>4, <1>5
-----------------------------------------------------------------------------
(***************************************************************************)
(* What is carried from step to step.                                      *)
(***************************************************************************)
LEMMA BehindIsCarried ==
  ASSUME NEW m, NEW tokens \in Seq(Token), NEW row, Reach(m) \in Nat, Reach(m) < Len(tokens)
  PROVE  Carried(m, tokens, row)
<1>1. tokens # << >>
  BY DEF Reach
<1> QED
  BY <1>1 DEF Carried

LEMMA TrailingIsCarried ==
  ASSUME NEW m, NEW tokens \in Seq(Token), NEW row, Trails(m, tokens), LastRow(tokens, row)
  PROVE  Carried(m, tokens, row) /\ Reach(m) = Len(tokens)
<1>1. Reach(m) = Len(tokens)
  BY DEF Trails, Covers, Reach
<1> QED
  BY <1>1 DEF Carried

LEMMA OwnRow ==
  ASSUME NEW tokens \in Seq(Token)
  PROVE  LastRow(tokens, tokens)
BY DEF LastRow

\* A predictor that can draft has the rows to do it.
LEMMA ReadyTrails ==
  ASSUME Inv, PInv, Reach(mtp) = Len(evaluated)
  PROVE  /\ Trails(mtp, evaluated) /\ Covers(mtp, evaluated) /\ LastRow(evaluated, lastHidden)
         /\ mtp.valid => MtpArmReady
<1>1. Trails(mtp, evaluated) /\ LastRow(evaluated, lastHidden)
  BY DEF PInv, Carried
<1>2. evaluated \in Seq(Token) /\ NoRow \notin Seq(Token)
  BY ConstantsAssumption DEF Inv, TypeOK
<1> QED
  BY <1>1, <1>2 DEF Trails, LastRow, MtpArmReady, Reach

LEMMA KeptIsEvaluated ==
  ASSUME Inv
  PROVE  /\ Kept \in Int /\ Kept <= Len(evaluated) /\ Len(evaluated) \in Nat
         /\ pc # "emit" => Kept = Len(evaluated)
         /\ pc = "emit" => Kept = Len(text) /\ Kept = Len(evaluated) - (Len(outputs) - 1)
<1>1. Len(evaluated) \in Nat
  BY DEF Inv, TypeOK
<1>2. CASE pc = "emit"
  BY <1>1, <1>2, EmitFacts DEF Kept
<1>3. CASE pc # "emit"
  BY <1>1, <1>3 DEF Kept
<1> QED
  BY <1>1, <1>2, <1>3

LEMMA RetainCarries ==
  ASSUME NEW m, NEW tokens \in Seq(Token), NEW more \in Seq(Token), NEW row \in HiddenRow, NEW r
  PROVE  /\ IsPredictor(m) /\ more # << >> /\ Carried(m, tokens, row)
         /\ r = Retain(m, more, TargetRows(tokens, more), row)
         => /\ Carried(r, tokens \o more, tokens \o more)
            /\ Reach(m) = Len(tokens) => Trails(r, tokens \o more)
            /\ Reach(r) = Reach(m) + Len(more) /\ r.valid = m.valid
            /\ Len(r.gap) >= Len(more)
<1>0. SUFFICES ASSUME IsPredictor(m), more # << >>, Carried(m, tokens, row),
                      r = Retain(m, more, TargetRows(tokens, more), row)
               PROVE  /\ Carried(r, tokens \o more, tokens \o more)
                      /\ Reach(m) = Len(tokens) => Trails(r, tokens \o more)
                      /\ Reach(r) = Reach(m) + Len(more) /\ r.valid = m.valid
                      /\ Len(r.gap) >= Len(more)
  OBVIOUS
<1>1. /\ Reach(r) = Reach(m) + Len(more) /\ r.valid = m.valid
      /\ Len(r.gap) = Len(m.gap) + Len(more)
  BY <1>0, RetainFields, SMTT(40)
<1>2. Reach(m) \in Nat /\ Len(m.gap) \in Nat
  BY <1>0, PredictorParts
<1>3. PICK all \in Seq(Token) : all = tokens \o more /\ Len(all) = Len(tokens) + Len(more)
  BY ConcatType
<1>4. Len(tokens) \in Nat /\ Len(more) \in Nat
  OBVIOUS
<1>5. Len(r.gap) >= Len(more)
  BY <1>1, <1>2, <1>4
<1>6. Reach(m) <= Len(tokens)
  BY <1>0 DEF Carried
<1>7. CASE Reach(m) = Len(tokens)
  <2>1. Covers(m, tokens) /\ LastRow(tokens, row)
    BY <1>0, <1>7 DEF Carried, Trails
  <2>2. Trails(r, all)
    BY <1>0, <1>3, <2>1, RetainCovers, SMTT(40)
  <2>3. Carried(r, all, all)
    BY <2>2, OwnRow, TrailingIsCarried
  <2> QED
    BY <1>1, <1>3, <1>5, <2>2, <2>3
<1>8. CASE Reach(m) < Len(tokens)
  <2>1. Reach(r) \in Nat /\ Reach(r) < Len(all)
    BY <1>1, <1>2, <1>3, <1>4, <1>8
  <2>2. Carried(r, all, all)
    BY <2>1, BehindIsCarried
  <2> QED
    BY <1>1, <1>2, <1>3, <1>4, <1>5, <1>8, <2>2
<1> QED
  BY <1>2, <1>4, <1>6, <1>7, <1>8

\* Tokens evaluated in a turn: the predictor that tracks retains them, the one
\* that does not falls behind.
LEMMA EvaluateCarries ==
  ASSUME Inv, PInv, ~Quiet, NEW tokens \in Seq(Token), Evaluate(tokens)
  PROVE  /\ Carried(mtp', evaluated', lastHidden')
         /\ tracking => mtp'.valid /\ Reach(mtp') = Len(evaluated')
         /\ ~tracking => mtp' = mtp /\ Reach(mtp') < Len(evaluated')
         /\ Len(evaluated') = Len(evaluated) + Len(tokens)
<1>1. /\ evaluated \in Seq(Token) /\ lastHidden \in HiddenRow /\ IsPredictor(mtp)
      /\ tracking \in BOOLEAN
  BY DEF Inv, TypeOK
<1>2. evaluated' = evaluated \o tokens /\ evaluated' \in Seq(Token)
      /\ Len(evaluated') = Len(evaluated) + Len(tokens)
      /\ Len(evaluated) \in Nat /\ Len(tokens) \in Nat
  BY <1>1, ConcatType DEF Evaluate
<1>3. Reach(mtp) \in Nat
  BY <1>1, PredictorParts
<1>4. ~tracking => Reach(mtp) < Len(evaluated)
  BY <1>3, KeptIsEvaluated DEF PInv, TurnCarries
<1>5. tracking => mtp.valid /\ Reach(mtp) = Len(evaluated) /\ opts.mode # "Off"
  BY DEF PInv, TurnCarries
<1>6. CASE ~tracking
  <2>1. mtp' = mtp
    BY <1>6 DEF Evaluate
  <2>2. Reach(mtp') \in Nat /\ Reach(mtp') < Len(evaluated')
    BY <1>2, <1>3, <1>4, <1>6, <2>1
  <2> QED
    BY <1>2, <1>6, <2>1, <2>2, BehindIsCarried
<1>7. CASE tracking /\ tokens = << >>
  <2>1. evaluated' = evaluated
    BY <1>1, <1>2, <1>7, ConcatEmpty
  <2>2. mtp' = mtp /\ lastHidden' = lastHidden
    BY <1>7 DEF Evaluate, Retain
  <2> QED
    BY <1>2, <1>5, <1>7, <2>1, <2>2 DEF PInv
<1>8. CASE tracking /\ tokens # << >>
  <2>1. /\ mtp' = Retain(mtp, tokens, TargetRows(evaluated, tokens), lastHidden)
        /\ lastHidden' = evaluated'
    BY <1>5, <1>8 DEF Evaluate
  <2>2. Carried(mtp, evaluated, lastHidden)
    BY DEF PInv
  <2>3. /\ Carried(mtp', evaluated \o tokens, evaluated \o tokens)
        /\ Reach(mtp') = Reach(mtp) + Len(tokens) /\ mtp'.valid = mtp.valid
    BY <1>1, <1>8, <2>1, <2>2, RetainCarries, SMTT(40)
  <2> QED
    BY <1>2, <1>5, <1>8, <2>1, <2>3
<1> QED
  BY <1>1, <1>6, <1>7, <1>8
-----------------------------------------------------------------------------
(***************************************************************************)
(* One lemma per action.                                                   *)
(***************************************************************************)
LEMMA NewMtpTrails == Trails(NewMtp, << >>) /\ Reach(NewMtp) = 0
<1>1. /\ NewMtp.synced = 0 /\ NewMtp.rows = << >> /\ NewMtp.gap = << >>
      /\ Len(NewMtp.gap) = 0 /\ Len(NewMtp.rows) = 0
  BY DEF NewMtp
<1> QED
  BY <1>1 DEF Trails, Covers, Reach

LEMMA FreshCarries ==
  ASSUME mtp' = NewMtp, evaluated' = << >>, lastHidden' = NoRow
  PROVE  Carried(mtp', evaluated', lastHidden')
<1>1. << >> \in Seq(Token) /\ LastRow(<< >>, NoRow)
  BY DEF LastRow
<1>2. Carried(NewMtp, << >>, NoRow)
  BY <1>1, NewMtpTrails, TrailingIsCarried
<1> QED
  BY <1>2

LEMMA InitPInv == Init => PInv
<1> SUFFICES ASSUME Init PROVE PInv
  OBVIOUS
<1>1. << >> \in Seq(Token) /\ LastRow(<< >>, NoRow)
  BY DEF LastRow
<1>2. Carried(NewMtp, << >>, NoRow)
  BY <1>1, NewMtpTrails, TrailingIsCarried
<1> QED
  BY <1>2 DEF Init, PInv, TurnCarries, Quiet

LEMMA ResetPInv == Inv /\ PInv /\ Reset => PInv'
<1> SUFFICES ASSUME Inv, PInv, Reset PROVE PInv'
  OBVIOUS
<1>1. Carried(mtp', evaluated', lastHidden')
  BY FreshCarries DEF Reset
<1>2. TurnCarries'
  BY DEF Reset, TurnCarries, Quiet, turn, Inv, TypeOK
<1> QED
  BY <1>1, <1>2 DEF Reset, PInv

LEMMA CatchUpReach ==
  ASSUME NEW m, IsPredictor(m)
  PROVE  Reach(CatchUp(m)) = Reach(m) /\ CatchUp(m).valid = m.valid
<1>1. /\ m \in Predictor /\ m.synced \in Nat /\ Len(m.gap) \in Nat
  BY PredictorParts DEF IsPredictor
<1>2. CASE m.gap = << >>
  BY <1>2 DEF CatchUp
<1>3. CASE m.gap # << >>
  <2>1. /\ CatchUp(m).synced = m.synced + Len(m.gap) /\ CatchUp(m).gap = << >>
        /\ CatchUp(m).valid = m.valid
    BY <1>1, <1>3 DEF CatchUp, ClearGap, Predictor
  <2>2. Len(CatchUp(m).gap) = 0
    BY <2>1
  <2> QED
    BY <1>1, <2>1, <2>2 DEF Reach
<1> QED
  BY <1>2, <1>3

\* The rows of a predictor that trails and has no gap are all it should hold.
LEMMA TrailingRows ==
  ASSUME NEW m, IsPredictor(m), NEW tokens \in Seq(Token), Trails(m, tokens), m.gap = << >>
  PROVE  m.rows = ExactRows(tokens, Len(tokens)) /\ Len(m.rows) = Len(tokens)
<1>1. m.rows \in Seq(PredictorRow) /\ Len(m.gap) = 0 /\ m.synced \in Nat
  BY PredictorParts
<1>2. m.synced = Len(tokens) /\ Len(m.rows) = Len(tokens) /\ Len(tokens) \in Nat
      /\ \A i \in 1..Len(tokens) : m.rows[i] = Row(tokens, i)
  BY <1>1 DEF Trails, Covers
<1>3. m.rows = [i \in 1..Len(tokens) |-> m.rows[i]]
  BY <1>1, <1>2
<1>4. ExactRows(tokens, Len(tokens)) = [i \in 1..Len(tokens) |-> Row(tokens, i)]
  BY DEF ExactRows, Row
<1>5. [i \in 1..Len(tokens) |-> m.rows[i]] = [i \in 1..Len(tokens) |-> Row(tokens, i)]
  BY <1>2
<1> QED
  BY <1>2, <1>3, <1>4, <1>5

LEMMA PrefillKeepsTurn ==
  ASSUME Inv, PInv, NEW prompt, NEW trackMtp, PrefillTokens(prompt, trackMtp)
  PROVE  TurnCarries' /\ images' = images
BY DEF PrefillTokens, Inv, TypeOK, TurnCarries, Quiet, turn

LEMMA PrefillTokensPInv ==
  ASSUME Inv, PInv, NEW prompt \in Prompts, NEW trackMtp \in BOOLEAN,
         PrefillTokens(prompt, trackMtp)
  PROVE  PInv'
<1>1. prompt \in Seq(Token) /\ prompt # << >> /\ evaluated \in Seq(Token)
      /\ lastHidden \in HiddenRow /\ IsPredictor(mtp) /\ Carried(mtp, evaluated, lastHidden)
  BY ConstantTypes DEF Inv, TypeOK, PInv
<1>2. PICK input \in Seq(Token) : input = ContinuationInput(prompt) /\ input # << >>
  <2>1. ContinuationInput(prompt) \in Seq(Token) /\ AsSeq(pending) \in Seq(Token)
    BY <1>1, ContinuationType DEF Inv
  <2>2. ContinuationInput(prompt) # << >>
    BY <1>1, <2>1 DEF ContinuationInput
  <2> QED
    BY <2>1, <2>2
<1>3. /\ evaluated' = evaluated \o input /\ evaluated' \in Seq(Token) /\ lastHidden' = evaluated'
      /\ Len(evaluated') = Len(evaluated) + Len(input)
      /\ Len(evaluated) \in Nat /\ Len(input) \in Nat /\ Len(input) > 0
  BY <1>1, <1>2, ConcatType DEF PrefillTokens
<1>4. CASE trackMtp /\ mtp.valid
  <2>1. PICK kept : kept = Retain(mtp, input, TargetRows(evaluated, input), lastHidden)
    OBVIOUS
  <2>2. mtp' = IF HasMtp THEN CatchUp(kept) ELSE kept
    BY <1>2, <1>4, <2>1 DEF PrefillTokens
  <2>3. /\ Carried(kept, evaluated \o input, evaluated \o input)
        /\ Reach(kept) = Reach(mtp) + Len(input)
    BY <1>1, <1>2, <2>1, RetainCarries, SMTT(40)
  <2>4. IsPredictor(kept)
    BY <1>1, <2>1, RetainType
  <2>5. Carried(CatchUp(kept), evaluated', lastHidden')
    <3>1. CASE Reach(kept) = Len(evaluated')
      <4>1. Trails(kept, evaluated')
        BY <1>3, <2>3, <3>1 DEF Carried
      <4>2. Trails(CatchUp(kept), evaluated')
        BY <1>3, <2>4, <4>1, CatchUpTrails
      <4> QED
        BY <1>3, <4>2, OwnRow, TrailingIsCarried
    <3>2. CASE Reach(kept) # Len(evaluated')
      <4>1. Reach(kept) \in Nat /\ Reach(kept) < Len(evaluated')
        <5>1. Reach(kept) \in Nat
          BY <2>4, PredictorParts
        <5>2. Reach(kept) <= Len(evaluated')
          BY <1>3, <2>3 DEF Carried
        <5>3. Len(evaluated') \in Nat
          BY <1>3
        <5> QED
          BY <3>2, <5>1, <5>2, <5>3
      <4>2. Reach(CatchUp(kept)) = Reach(kept)
        BY <2>4, CatchUpReach
      <4> QED
        BY <1>3, <4>1, <4>2, BehindIsCarried
    <3> QED
      BY <3>1, <3>2
  <2> QED
    BY <1>3, <2>2, <2>3, <2>5, PrefillKeepsTurn DEF PInv
<1>5. CASE ~(trackMtp /\ mtp.valid)
  <2>1. mtp' = ClearGap([mtp EXCEPT !.valid = FALSE])
    BY <1>5 DEF PrefillTokens
  <2>2. Reach(mtp') = mtp.synced
    <3>1. mtp \in Predictor /\ mtp.synced \in Nat
      BY <1>1, PredictorParts DEF IsPredictor
    <3>2. mtp'.synced = mtp.synced /\ mtp'.gap = << >>
      BY <2>1, <3>1 DEF ClearGap, Predictor
    <3>3. Len(mtp'.gap) = 0
      BY <3>2
    <3> QED
      BY <3>1, <3>2, <3>3 DEF Reach
  <2>3. mtp.synced \in Nat /\ mtp.synced <= Reach(mtp) /\ Reach(mtp) <= Len(evaluated)
        /\ Reach(mtp) \in Nat
    BY <1>1, PredictorParts DEF Carried, Reach
  <2>4. Reach(mtp') \in Nat /\ Reach(mtp') < Len(evaluated')
    BY <1>3, <2>2, <2>3
  <2>5. Carried(mtp', evaluated', lastHidden')
    BY <1>3, <2>4, BehindIsCarried
  <2> QED
    BY <2>5, PrefillKeepsTurn DEF PInv
<1> QED
  BY <1>4, <1>5

LEMMA TakeImagePInv == Inv /\ PInv /\ TakeImage => PInv'
<1> SUFFICES ASSUME Inv, PInv, TakeImage PROVE PInv'
  OBVIOUS
<1>1. evaluated = text /\ evaluated \in Seq(Token)
  BY ConcatEmpty DEF TakeImage, AsSeq, Inv, TypeOK, RepresentsText
<1>2. PICK image : image = SessionImage
  OBVIOUS
<1>3. /\ image.tokens = evaluated /\ image.state = evaluated /\ image.lastHidden = lastHidden
      /\ image.mtp = IF ImagesMtpState THEN mtp.rows ELSE NoRow
  BY <1>1, <1>2 DEF SessionImage
<1>4. ASSUME image.mtp # NoRow
      PROVE  image.mtp = ExactRows(evaluated, Len(evaluated)) /\ LastRow(evaluated, lastHidden)
  <2>1. mtp.synced = Len(evaluated) /\ image.mtp = mtp.rows
    BY <1>3, <1>4 DEF ImagesMtpState
  <2>2. /\ Reach(mtp) = mtp.synced + Len(mtp.gap) /\ Len(mtp.gap) \in Nat /\ mtp.synced \in Nat
        /\ mtp.rows \in Seq(PredictorRow) /\ (mtp.gap = << >> <=> Len(mtp.gap) = 0)
    BY PredictorParts DEF Inv, TypeOK, Reach
  <2>3. Reach(mtp) <= Len(evaluated)
    BY DEF PInv, Carried
  <2>4. mtp.gap = << >> /\ Reach(mtp) = Len(evaluated)
    BY <2>1, <2>2, <2>3
  <2>5. Trails(mtp, evaluated) /\ LastRow(evaluated, lastHidden)
    BY <2>4, ReadyTrails
  <2> QED
    <3>1. IsPredictor(mtp)
      BY DEF Inv, TypeOK
    <3>2. mtp.rows = ExactRows(evaluated, Len(evaluated))
      BY <1>1, <2>4, <2>5, <3>1, TrailingRows
    <3> QED
      BY <2>1, <2>5, <3>2
<1>5. evaluated = << >> => LastRow(evaluated, lastHidden)
  BY DEF PInv, Carried
<1>6. ImageCarries(image)
  BY <1>3, <1>4, <1>5 DEF ImageCarries
<1>7. UNCHANGED <<evaluated, lastHidden, mtp, pc, opts, tracking, outputs>>
      /\ images' = images \cup {image}
  BY <1>2 DEF TakeImage, sequence, turn
<1>8. TurnCarries'
  BY <1>7 DEF PInv, TurnCarries, Quiet, Kept
<1> QED
  BY <1>6, <1>7, <1>8 DEF PInv

LEMMA RestoreSessionPInv ==
  ASSUME Inv, PInv, NEW image \in images, RestoreSession(image)
  PROVE  PInv'
<1>1. /\ image \in Image /\ image.state \in Seq(Token) /\ ImageCarries(image)
      /\ image.state = image.tokens
  BY DEF Inv, TypeOK, PInv, Image, ImageCarries
<1>2. evaluated' = image.state /\ lastHidden' = image.lastHidden /\ images' = images
  BY DEF RestoreSession, Adopt
<1>3. TurnCarries'
  BY DEF RestoreSession, Inv, TypeOK, TurnCarries, Quiet, turn
<1>4. CASE HasMtp /\ image.mtp # NoRow
  <2>1. /\ mtp'.rows = image.mtp /\ mtp'.synced = Len(image.state) /\ mtp'.gap = << >>
        /\ Len(mtp'.gap) = 0 /\ Len(image.mtp) = Len(image.state)
    BY <1>4 DEF RestoreSession, NewMtp
  <2>2. image.mtp = [i \in 1..Len(image.state) |-> Row(image.state, i)]
        /\ LastRow(image.state, image.lastHidden)
    BY <1>1, <1>4 DEF ImageCarries, ExactRows, Row
  <2>3. \A i \in 1..Len(image.state) : image.mtp[i] = Row(image.state, i)
    BY <2>2
  <2>4. Trails(mtp', image.state)
    BY <1>1, <2>1, <2>3 DEF Trails, Covers
  <2>5. Carried(mtp', image.state, image.lastHidden)
    BY <1>1, <2>2, <2>4, TrailingIsCarried
  <2> QED
    BY <1>2, <1>3, <2>5 DEF PInv
<1>5. CASE ~(HasMtp /\ image.mtp # NoRow)
  <2>1. /\ mtp'.rows = << >> /\ mtp'.synced = 0 /\ mtp'.gap = << >>
        /\ Len(mtp'.gap) = 0 /\ Len(mtp'.rows) = 0
    BY <1>5 DEF RestoreSession, NewMtp
  <2>2. Reach(mtp') = 0 /\ Reach(mtp') \in Nat
    BY <2>1 DEF Reach
  <2>3. CASE image.state = << >>
    <3>1. Trails(mtp', << >>)
      BY <2>1 DEF Trails, Covers
    <3>2. LastRow(image.state, image.lastHidden)
      BY <1>1, <2>3 DEF ImageCarries
    <3>3. Carried(mtp', image.state, image.lastHidden)
      BY <1>1, <2>3, <3>1, <3>2, TrailingIsCarried
    <3> QED
      BY <1>2, <1>3, <3>3 DEF PInv
  <2>4. CASE image.state # << >>
    <3>1. Len(image.state) \in Nat /\ Len(image.state) > 0
      BY <1>1, <2>4
    <3>2. Reach(mtp') < Len(image.state)
      BY <2>2, <3>1
    <3>3. Carried(mtp', image.state, image.lastHidden)
      BY <1>1, <2>2, <3>2, BehindIsCarried
    <3> QED
      BY <1>2, <1>3, <3>3 DEF PInv
  <2> QED
    BY <2>3, <2>4
<1> QED
  BY <1>4, <1>5

\* Opening a predictor changes nothing but whether it is used.
LEMMA OpenedPredictor ==
  ASSUME NEW m, IsPredictor(m), NEW usable \in BOOLEAN, NEW tokens, NEW row,
         NEW o, o = [m EXCEPT !.valid = usable]
  PROVE  /\ IsPredictor(o) /\ Reach(o) = Reach(m) /\ o.valid = usable
         /\ Carried(m, tokens, row) => Carried(o, tokens, row)
<1>1. m \in Predictor /\ m.synced <= Len(m.rows) /\ Len(m.hidden) = Len(m.gap)
  BY DEF IsPredictor
<1>2. /\ o \in Predictor /\ o.rows = m.rows /\ o.synced = m.synced /\ o.gap = m.gap
      /\ o.hidden = m.hidden /\ o.prior = m.prior /\ o.valid = usable
  BY <1>1 DEF Predictor
<1>3. Reach(o) = Reach(m) /\ (Trails(m, tokens) => Trails(o, tokens))
  BY <1>2 DEF Reach, Trails, Covers
<1> QED
  BY <1>1, <1>2, <1>3 DEF IsPredictor, Carried

LEMMA BeginTurnPInv ==
  ASSUME Inv, PInv, NEW prompt \in Prompts, NEW o \in TurnOptions, BeginTurn(prompt, o)
  PROVE  PInv'
<1>1. prompt \in Seq(Token) /\ prompt # << >> /\ evaluated \in Seq(Token)
      /\ lastHidden \in HiddenRow /\ IsPredictor(mtp) /\ Carried(mtp, evaluated, lastHidden)
  BY ConstantTypes DEF Inv, TypeOK, PInv
<1>2. PICK input \in Seq(Token) : input = ContinuationInput(prompt) /\ input # << >>
  <2>1. ContinuationInput(prompt) \in Seq(Token) /\ AsSeq(pending) \in Seq(Token)
    BY <1>1, ContinuationType DEF Inv
  <2>2. ContinuationInput(prompt) # << >>
    BY <1>1, <2>1 DEF ContinuationInput
  <2> QED
    BY <2>1, <2>2
<1>3. /\ evaluated' = evaluated \o input /\ evaluated' \in Seq(Token)
      /\ Len(evaluated') = Len(evaluated) + Len(input)
      /\ Len(evaluated) \in Nat /\ Len(input) \in Nat /\ Len(input) > 0
  BY <1>1, <1>2, ConcatType DEF BeginTurn
<1>4. Reach(mtp) \in Nat /\ Reach(mtp) <= Len(evaluated)
  BY <1>1, PredictorParts DEF Carried
<1>5. PICK usable \in BOOLEAN :
        usable = (o.mode \in {"Mtp", "Auto"} /\ MtpCap > 0 /\ HasMtp /\ MtpArmReady)
  OBVIOUS
<1>6. PICK opened : opened = [mtp EXCEPT !.valid = usable]
  OBVIOUS
<1>7. /\ IsPredictor(opened) /\ Reach(opened) = Reach(mtp) /\ opened.valid = usable
      /\ Carried(opened, evaluated, lastHidden)
  BY <1>1, <1>5, <1>6, OpenedPredictor
<1>8. /\ tracking' = usable /\ opts' = o /\ images' = images
      /\ pc' \in {"closing", "sample"} /\ outputs' = outputs
      /\ IF o.mode = "Off" THEN UNCHANGED <<lastHidden, mtp>>
         ELSE /\ lastHidden' = evaluated'
              /\ mtp' = IF usable
                        THEN Retain(opened, input, TargetRows(evaluated, input), lastHidden)
                        ELSE opened
  BY <1>2, <1>5, <1>6 DEF BeginTurn
<1>9. CASE usable
  <2>1. o.mode # "Off" /\ Reach(mtp) = Len(evaluated)
    BY <1>5, <1>9 DEF MtpArmReady, Reach
  <2>2. mtp' = Retain(opened, input, TargetRows(evaluated, input), lastHidden)
        /\ lastHidden' = evaluated'
    BY <1>8, <1>9, <2>1
  <2>3. /\ Carried(mtp', evaluated \o input, evaluated \o input)
        /\ Reach(mtp') = Reach(opened) + Len(input) /\ mtp'.valid = opened.valid
    BY <1>1, <1>2, <1>7, <2>2, RetainCarries, SMTT(40)
  <2>4. Reach(mtp') = Len(evaluated')
    BY <1>3, <1>7, <2>1, <2>3
  <2>5. TurnCarries'
    BY <1>7, <1>8, <1>9, <2>1, <2>3, <2>4 DEF TurnCarries, Quiet
  <2> QED
    BY <1>3, <1>8, <2>2, <2>3, <2>5 DEF PInv
<1>10. CASE ~usable
  <2>1. mtp' \in {mtp, opened} /\ (o.mode # "Off" => mtp' = opened)
    BY <1>8, <1>10
  <2>2. Reach(mtp') = Reach(mtp) /\ Reach(mtp') \in Nat
    BY <1>4, <1>7, <2>1
  <2>3. Reach(mtp') < Len(evaluated')
    BY <1>3, <1>4, <2>2
  <2>4. Carried(mtp', evaluated', lastHidden')
    BY <1>3, <2>2, <2>3, BehindIsCarried
  <2>5. Kept' = Len(evaluated')
    BY <1>8 DEF Kept
  <2>6. o.mode # "Off" => ~mtp'.valid
    BY <1>7, <1>10, <2>1
  <2>7. TurnCarries'
    BY <1>8, <1>10, <2>3, <2>5, <2>6 DEF TurnCarries, Quiet
  <2> QED
    BY <1>8, <2>4, <2>7 DEF PInv
<1> QED
  BY <1>9, <1>10

LEMMA EndTurnPInv ==
  ASSUME Inv, PInv, NEW token, EndTurn(token), UNCHANGED images,
         Carried(mtp', evaluated', lastHidden')
  PROVE  PInv'
BY DEF PInv, TurnCarries, EndTurn, NoTurnLocals, Quiet

LEMMA FailurePInv == Inv /\ PInv /\ (PassFails \/ PrefillFails) => PInv'
<1> SUFFICES ASSUME Inv, PInv, PassFails \/ PrefillFails PROVE PInv'
  OBVIOUS
<1>1. UNCHANGED <<evaluated, lastHidden, mtp, images>> /\ pc' = "failed" /\ ~tracking'
  BY DEF PassFails, PrefillFails, sequence, turn, NoTurnLocals, Inv, TypeOK, Quiet
<1> QED
  BY <1>1 DEF PInv, TurnCarries, Quiet

LEMMA SampleSpentPInv == Inv /\ PInv /\ SampleSpent => PInv'
<1> SUFFICES ASSUME Inv, PInv, SampleSpent PROVE PInv'
  OBVIOUS
<1>1. Carried(mtp', evaluated', lastHidden')
  BY DEF SampleSpent, PInv
<1> QED
  BY <1>1, EndTurnPInv DEF SampleSpent

\* Between passes a turn keeps all that is evaluated.
LEMMA BetweenPasses ==
  ASSUME Inv, PInv, ~Quiet, pc' \in {"sample", "closing", "decode"}, UNCHANGED <<opts, tracking, images>>,
         Carried(mtp', evaluated', lastHidden'),
         tracking => mtp'.valid /\ Reach(mtp') = Len(evaluated'),
         ~tracking => mtp' = mtp /\ Reach(mtp') < Len(evaluated')
  PROVE  PInv'
<1>1. Kept' = Len(evaluated')
  BY DEF Kept
<1> QED
  BY <1>1 DEF PInv, TurnCarries, Quiet

LEMMA StartClosurePInv ==
  ASSUME Inv, PInv, ~Quiet, NEW unevaluated \in Seq(Token), NEW out, StartClosure(unevaluated, out),
         UNCHANGED images
  PROVE  PInv'
<1>1. Evaluate(unevaluated) /\ pc' = "closing" /\ UNCHANGED <<opts, tracking>>
  BY DEF StartClosure
<1> QED
  BY <1>1, EvaluateCarries, BetweenPasses

LEMMA UnevaluatedPInv ==
  ASSUME Inv, PInv, pc \in {"sample", "closing", "decode"},
         pc' \in {"sample", "closing", "decode"},
         UNCHANGED <<evaluated, lastHidden, mtp, opts, tracking, images>>
  PROVE  PInv'
BY DEF PInv, TurnCarries, Quiet, Kept

LEMMA SamplePInv ==
  ASSUME Inv, PInv, NEW token \in Token, NEW halt \in BOOLEAN, Sample(token, halt)
  PROVE  PInv'
<1>1. pc = "sample" /\ images' = images /\ <<token>> \in Seq(Token)
  BY DEF Sample
<1>2. ASSUME EndTurn(token), UNCHANGED <<evaluated, lastHidden, mtp>>
      PROVE  PInv'
  BY <1>1, <1>2, EndTurnPInv DEF PInv
<1>3. ASSUME StartClosure(<<token>>, Append(generated, token))
      PROVE  PInv'
  BY <1>1, <1>3, StartClosurePInv DEF Quiet
<1>4. ASSUME pc' = "decode", UNCHANGED <<evaluated, lastHidden, mtp, opts, tracking>>
      PROVE  PInv'
  BY <1>1, <1>4, UnevaluatedPInv
<1> QED
  BY <1>2, <1>3, <1>4 DEF Sample

LEMMA EmitClosurePInv ==
  ASSUME Inv, PInv, NEW halt \in BOOLEAN, EmitClosure(halt)
  PROVE  PInv'
<1>1. pc = "closing" /\ images' = images /\ ~Quiet
  BY DEF EmitClosure, Quiet
<1>2. <<Head(closure)>> \in Seq(Token)
  <2>1. closure \in Seq(Token) /\ closure # << >>
    BY <1>1 DEF Inv, TypeOK
  <2>2. Head(closure) \in Token
    BY <2>1, TailType
  <2> QED
    BY <2>2
<1>3. CASE halt
  <2>1. EndTurn(Head(closure)) /\ UNCHANGED <<evaluated, lastHidden, mtp>>
    BY <1>3 DEF EmitClosure
  <2>2. Carried(mtp', evaluated', lastHidden')
    BY <2>1 DEF PInv
  <2> QED
    BY <1>1, <2>1, <2>2, EndTurnPInv
<1>4. CASE ~halt
  <2>1. /\ Evaluate(<<Head(closure)>>) /\ UNCHANGED <<opts, tracking>>
        /\ pc' \in {"sample", "closing", "decode"}
    BY <1>4 DEF EmitClosure
  <2> QED
    BY <1>1, <1>2, <2>1, EvaluateCarries, BetweenPasses
<1> QED
  BY <1>3, <1>4

LEMMA PlainStepPInv == Inv /\ PInv /\ PlainStep => PInv'
<1> SUFFICES ASSUME Inv, PInv, PlainStep PROVE PInv'
  OBVIOUS
<1>1. /\ <<seed>> \in Seq(Token) /\ Evaluate(<<seed>>) /\ ~Quiet
      /\ pc' \in {"sample", "closing", "decode"} /\ UNCHANGED <<opts, tracking, images>>
  BY DEF PlainStep, Quiet, Inv, RepresentsText
<1> QED
  BY <1>1, EvaluateCarries, BetweenPasses

\* A predictor that covers what is evaluated retains what a pass adds.
LEMMA RetainKeepsUp ==
  ASSUME NEW m, NEW tokens \in Seq(Token), NEW more \in Seq(Token), NEW row \in HiddenRow, NEW r
  PROVE  /\ IsPredictor(m) /\ more # << >> /\ Covers(m, tokens) /\ LastRow(tokens, row)
         /\ r = Retain(m, more, TargetRows(tokens, more), row)
         => /\ Trails(r, tokens \o more) /\ IsPredictor(r) /\ r.valid = m.valid
            /\ Len(r.gap) >= Len(more)
<1>0. SUFFICES ASSUME IsPredictor(m), more # << >>, Covers(m, tokens), LastRow(tokens, row),
                      r = Retain(m, more, TargetRows(tokens, more), row)
               PROVE  /\ Trails(r, tokens \o more) /\ IsPredictor(r) /\ r.valid = m.valid
                      /\ Len(r.gap) >= Len(more)
  OBVIOUS
<1>1. Trails(r, tokens \o more)
  BY <1>0, RetainCovers, SMTT(40)
<1>2. r.valid = m.valid /\ Len(r.gap) = Len(m.gap) + Len(more)
  BY <1>0, RetainFields, SMTT(40)
<1>3. IsPredictor(r)
  BY <1>0, RetainType
<1>4. Len(m.gap) \in Nat /\ Len(more) \in Nat
  BY <1>0, PredictorParts
<1> QED
  BY <1>1, <1>2, <1>3, <1>4

\* A pass: the predictor that drafted, or that only follows, retains what the
\* pass keeps; whether it then catches up at once or later is all the same.
LEMMA VerifyPInv ==
  ASSUME Inv, PInv, pc = "decode", opts.mode # "Off", NEW drafts \in Seq(Token),
         NEW m, IsPredictor(m), Verify(drafts, m),
         tracking => /\ m.valid /\ Reach(m) = Len(evaluated) /\ Covers(m, evaluated),
         ~tracking => m = mtp
  PROVE  PInv'
<1>1. /\ evaluated \in Seq(Token) /\ seed \in Token /\ lastHidden \in HiddenRow
      /\ tracking \in BOOLEAN /\ Len(drafts) \in Nat /\ Len(evaluated) \in Nat
  BY DEF Inv, TypeOK, RepresentsText
<1>2. PICK accepted \in 0..Len(drafts), authoritative \in Token :
        LET committed == <<seed>> \o SubSeq(drafts, 1, accepted)
            retained  == Retain(m, committed, TargetRows(evaluated, committed), lastHidden)
        IN /\ evaluated' = evaluated \o committed
           /\ lastHidden' = evaluated'
           /\ mtp' = CASE ~tracking -> m
                       [] tracking /\ opts.eager -> CatchUp(retained)
                       [] OTHER -> retained
           /\ outputs' = Append(SubSeq(drafts, 1, accepted), authoritative)
           /\ pc' = "emit"
           /\ UNCHANGED <<opts, tracking, images>>
  BY DEF Verify
<1>3. PICK taken \in Seq(Token) : taken = SubSeq(drafts, 1, accepted) /\ Len(taken) = accepted
  BY <1>1, PrefixType
<1>4. PICK committed \in Seq(Token) :
        committed = <<seed>> \o taken /\ Len(committed) = accepted + 1 /\ committed # << >>
  <2>1. <<seed>> \in Seq(Token) /\ Len(<<seed>>) = 1
    BY <1>1
  <2>2. /\ <<seed>> \o taken \in Seq(Token) /\ Len(<<seed>> \o taken) = 1 + accepted
    BY <1>3, <2>1, ConcatType
  <2>3. 1 + accepted = accepted + 1 /\ <<seed>> \o taken # << >>
    BY <1>1, <2>2
  <2> QED
    BY <2>2, <2>3
<1>5. PICK retained : retained = Retain(m, committed, TargetRows(evaluated, committed), lastHidden)
  OBVIOUS
<1>6. /\ evaluated' = evaluated \o committed /\ lastHidden' = evaluated'
      /\ mtp' = CASE ~tracking -> m
                  [] tracking /\ opts.eager -> CatchUp(retained)
                  [] OTHER -> retained
      /\ outputs' = Append(taken, authoritative)
      /\ pc' = "emit" /\ UNCHANGED <<opts, tracking, images>>
  BY <1>2, <1>3, <1>4, <1>5
<1>7. /\ evaluated' \in Seq(Token) /\ Len(evaluated') = Len(evaluated) + (accepted + 1)
      /\ Len(outputs') = accepted + 1 /\ accepted \in Nat
  BY <1>1, <1>3, <1>4, <1>6, ConcatType, AppendType
<1>8. Kept' = Len(evaluated) + 1
  BY <1>1, <1>6, <1>7 DEF Kept
<1>9. CASE ~tracking
  <2>1. mtp' = mtp /\ Reach(mtp) < Len(evaluated) /\ ~mtp.valid
    BY <1>1, <1>6, <1>9, KeptIsEvaluated DEF PInv, TurnCarries, Quiet
  <2>2. Reach(mtp) \in Nat
    BY PredictorParts DEF Inv, TypeOK
  <2>3. Reach(mtp') \in Nat /\ Reach(mtp') < Len(evaluated') /\ Reach(mtp') < Kept'
    BY <1>1, <1>7, <1>8, <2>1, <2>2
  <2>4. Carried(mtp', evaluated', lastHidden')
    BY <1>7, <2>3, BehindIsCarried
  <2>5. TurnCarries'
    BY <1>6, <1>9, <2>1, <2>3 DEF TurnCarries, Quiet
  <2> QED
    BY <1>6, <2>4, <2>5 DEF PInv
<1>10. CASE tracking
  <2>1. LastRow(evaluated, lastHidden)
    BY <1>10, ReadyTrails DEF PInv, TurnCarries
  <2>2. /\ Trails(retained, evaluated \o committed) /\ IsPredictor(retained)
        /\ retained.valid = m.valid /\ Len(retained.gap) >= Len(committed)
    <3>1. /\ IsPredictor(m) /\ committed # << >> /\ Covers(m, evaluated)
          /\ retained = Retain(m, committed, TargetRows(evaluated, committed), lastHidden)
          /\ evaluated \in Seq(Token) /\ lastHidden \in HiddenRow
      BY <1>1, <1>4, <1>5, <1>10
    <3> QED
      BY <2>1, <3>1, RetainKeepsUp, SMTT(60)
  <2>3. Trails(retained, evaluated') /\ IsPredictor(retained)
    BY <1>6, <2>2
  <2>4. Reach(retained) = Len(evaluated')
    BY <2>3 DEF Trails, Covers, Reach
  <2>5. Len(outputs') <= Len(retained.gap)
    BY <1>4, <1>7, <2>2
  <2>6. retained.valid
    BY <1>10, <2>2
  <2>7. Carried(retained, evaluated', lastHidden')
    BY <1>6, <1>7, <2>3, OwnRow, TrailingIsCarried
  <2>8. CASE opts.eager
    <3>1. mtp' = CatchUp(retained)
      BY <1>6, <1>10, <2>8
    <3>2. /\ Trails(mtp', evaluated') /\ mtp'.gap = << >> /\ mtp'.valid = retained.valid
      BY <1>7, <2>3, <3>1, CatchUpTrails
    <3>3. Carried(mtp', evaluated', lastHidden') /\ Reach(mtp') = Len(evaluated')
      BY <1>6, <1>7, <3>2, OwnRow, TrailingIsCarried
    <3>4. TurnCarries'
      BY <1>6, <1>10, <2>6, <3>2, <3>3 DEF TurnCarries
    <3> QED
      BY <1>6, <3>3, <3>4 DEF PInv
  <2>9. CASE ~opts.eager
    <3>1. mtp' = retained
      BY <1>6, <1>10, <2>9
    <3>2. TurnCarries'
      BY <1>6, <1>10, <2>4, <2>5, <2>6, <3>1 DEF TurnCarries
    <3> QED
      BY <1>6, <2>7, <3>1, <3>2 DEF PInv
  <2> QED
    BY <2>8, <2>9
<1> QED
  BY <1>1, <1>9, <1>10

\* The predictor as it stands, when a turn decodes with it.
LEMMA FollowsTarget ==
  ASSUME Inv, PInv
  PROVE  tracking => mtp.valid /\ Reach(mtp) = Len(evaluated) /\ Covers(mtp, evaluated)
BY ReadyTrails DEF PInv, TurnCarries

LEMMA UndraftedStepPInv == Inv /\ PInv /\ UndraftedStep => PInv'
<1> SUFFICES ASSUME Inv, PInv, UndraftedStep PROVE PInv'
  OBVIOUS
<1>1. << >> \in Seq(Token) /\ IsPredictor(mtp)
  BY DEF Inv, TypeOK
<1>2. pc = "decode" /\ opts.mode # "Off" /\ Verify(<< >>, mtp)
  BY DEF UndraftedStep
<1> QED
  BY <1>1, <1>2, FollowsTarget, VerifyPInv

LEMMA NgramStepPInv ==
  ASSUME Inv, PInv, NEW drafts \in Drafts(NgramCap), NgramStep(drafts)
  PROVE  PInv'
<1>1. drafts \in Seq(Token) /\ IsPredictor(mtp)
  BY ConstantsAssumption, DraftsType DEF Inv, TypeOK
<1>2. pc = "decode" /\ opts.mode # "Off" /\ Verify(drafts, mtp)
  BY DEF NgramStep
<1> QED
  BY <1>1, <1>2, FollowsTarget, VerifyPInv

\* Guesses above the authoritative rows are covered over when rows are retained.
LEMMA GuessesLeaveCovers ==
  ASSUME NEW m, IsPredictor(m), NEW tokens \in Seq(Token), Trails(m, tokens), m.gap = << >>,
         NEW guesses \in Seq(PredictorRow), NEW d, d = [m EXCEPT !.rows = @ \o guesses]
  PROVE  /\ IsPredictor(d) /\ Covers(d, tokens) /\ Reach(d) = Reach(m) /\ d.valid = m.valid
<1>1. /\ m \in Predictor /\ m.rows \in Seq(PredictorRow) /\ m.synced \in Nat
      /\ Len(m.rows) \in Nat /\ Len(m.gap) = 0 /\ Len(m.hidden) = Len(m.gap)
      /\ m.synced = Len(m.rows)
  BY PredictorParts DEF IsPredictor, Trails
<1>2. /\ m.rows \o guesses \in Seq(PredictorRow)
      /\ Len(m.rows \o guesses) = Len(m.rows) + Len(guesses) /\ Len(guesses) \in Nat
      /\ \A i \in 1..Len(m.rows) : (m.rows \o guesses)[i] = m.rows[i]
  BY <1>1, ConcatType, IndexOfConcat
<1>3. /\ d \in Predictor /\ d.rows = m.rows \o guesses /\ d.synced = m.synced /\ d.gap = m.gap
      /\ d.hidden = m.hidden /\ d.prior = m.prior /\ d.valid = m.valid
  BY <1>1, <1>2 DEF Predictor
<1>4. d.synced <= Len(d.rows)
  BY <1>1, <1>2, <1>3
<1>5. IsPredictor(d)
  BY <1>1, <1>3, <1>4 DEF IsPredictor
<1>6. \A i \in 1..d.synced : d.rows[i] = Row(tokens, i)
  BY <1>1, <1>2, <1>3 DEF Trails, Covers
<1>7. Covers(d, tokens)
  BY <1>1, <1>3, <1>6 DEF Trails, Covers
<1> QED
  BY <1>3, <1>5, <1>7 DEF Reach

LEMMA MtpStepPInv ==
  ASSUME Inv, PInv, NEW drafts \in Drafts(MtpCap), NEW extra \in 0..MtpCap, MtpStep(drafts, extra)
  PROVE  PInv'
<1>1. /\ drafts \in Seq(Token) /\ Len(drafts) \in Nat /\ extra \in Nat /\ IsPredictor(mtp)
      /\ evaluated \in Seq(Token) /\ tracking /\ pc = "decode"
  BY ConstantsAssumption, DraftsType DEF MtpStep, Inv, TypeOK
<1>2. PICK guesses : guesses = <<[token |-> seed, input |-> lastHidden]>>
                               \o [i \in 1..(Len(drafts) + extra - 1) |-> DraftRow]
  OBVIOUS
<1>3. guesses \in Seq(PredictorRow)
  <2>1. [token |-> seed, input |-> lastHidden] \in PredictorRow /\ DraftRow \in PredictorRow
    BY DEF Inv, TypeOK, PredictorRow, DraftRow, HiddenRow
  <2>2. Len(drafts) + extra - 1 \in Nat
    BY <1>1 DEF MtpStep
  <2>3. [i \in 1..(Len(drafts) + extra - 1) |-> DraftRow] \in Seq(PredictorRow)
    BY <2>1, <2>2
  <2> QED
    BY <1>2, <2>1, <2>3, AppendAsConcat, ConcatType
<1>4. PICK caught : caught = CatchUp(mtp)
  OBVIOUS
<1>5. mtp.valid /\ Trails(mtp, evaluated)
  BY <1>1, ReadyTrails DEF PInv, TurnCarries
<1>6. /\ Trails(caught, evaluated) /\ caught.gap = << >> /\ caught.valid /\ IsPredictor(caught)
  BY <1>1, <1>4, <1>5, CatchUpTrails, CatchUpType
<1>7. PICK drafted : drafted = [caught EXCEPT !.rows = @ \o guesses]
  OBVIOUS
<1>8. /\ IsPredictor(drafted) /\ Covers(drafted, evaluated) /\ drafted.valid
      /\ Reach(drafted) = Len(evaluated)
  <2>1. Reach(caught) = Len(evaluated)
    BY <1>6 DEF Trails, Covers, Reach
  <2> QED
    BY <1>1, <1>3, <1>6, <1>7, <2>1, GuessesLeaveCovers
<1>9. Verify(drafts, drafted)
  BY <1>2, <1>4, <1>7 DEF MtpStep
<1>10. opts.mode # "Off"
  BY <1>1 DEF PInv, TurnCarries
<1> QED
  BY <1>1, <1>8, <1>9, <1>10, VerifyPInv

\* A halt inside a pass unwinds the drafts that were not emitted, and the
\* predictor with them.
LEMMA HaltCarries ==
  ASSUME Inv, PInv, pc = "emit", HaltInsidePass
  PROVE  /\ Carried(mtp', evaluated', lastHidden')
         /\ tracking => mtp'.valid /\ Reach(mtp') = Len(evaluated') /\ evaluated' \in Seq(Token)
<1>1. /\ evaluated \in Seq(Token) /\ Len(evaluated) \in Nat /\ IsPredictor(mtp)
      /\ Len(outputs) \in Nat /\ Len(outputs) > 0 /\ Len(text) \in Nat /\ text \in Seq(Token)
      /\ Len(evaluated) - (Len(outputs) - 1) = Len(text) /\ Kept = Len(text)
      /\ SubSeq(evaluated, 1, Len(text)) = text /\ tracking \in BOOLEAN
  BY EmitFacts, KeptIsEvaluated DEF Inv, TypeOK
<1>2. Reach(mtp) \in Nat /\ Len(mtp.gap) \in Nat /\ mtp.synced \in Nat
      /\ Reach(mtp) = mtp.synced + Len(mtp.gap)
  BY <1>1, PredictorParts DEF Reach
<1>3. CASE Len(outputs) - 1 = 0
  <2>1. UNCHANGED <<evaluated, lastHidden, mtp>>
    BY <1>3 DEF HaltInsidePass
  <2> QED
    BY <1>1, <2>1 DEF PInv, TurnCarries
<1>4. CASE Len(outputs) - 1 # 0
  <2>1. /\ evaluated' = text /\ lastHidden' = text
        /\ mtp' = IF mtp.valid THEN TruncateGap(mtp, Len(text)) ELSE mtp
    BY <1>1, <1>4 DEF HaltInsidePass
  <2>2. Len(text) < Len(evaluated)
    <3>1. \A e, o, t \in Nat : e - (o - 1) = t /\ o > 0 /\ o - 1 # 0 => t < e
      OBVIOUS
    <3> QED
      BY <1>1, <1>4, <3>1
  <2>3. CASE tracking
    <3>1. mtp.valid /\ Reach(mtp) = Len(evaluated) /\ Trails(mtp, evaluated)
          /\ (mtp.gap # << >> => Len(outputs) <= Len(mtp.gap))
      BY <2>3, ReadyTrails DEF PInv, TurnCarries
    <3>2. mtp.gap # << >> => Len(text) > mtp.synced
      BY <1>1, <1>2, <3>1
    <3>3. mtp' = TruncateGap(mtp, Len(text)) /\ Len(text) \in 0..Len(evaluated)
      BY <1>1, <2>1, <2>2, <3>1
    <3>4. Trails(mtp', text) /\ Reach(mtp') = Len(text) /\ mtp'.valid = mtp.valid
      <4>1. PICK n \in 0..Len(evaluated) : n = Len(text)
        BY <3>3
      <4>2. PICK cut : cut = TruncateGap(mtp, n)
        OBVIOUS
      <4>3. n < Len(evaluated) /\ (mtp.gap # << >> => n > mtp.synced)
        BY <2>2, <3>2, <4>1
      <4>4. Trails(cut, SubSeq(evaluated, 1, n)) /\ Reach(cut) = n /\ cut.valid = mtp.valid
        <5>1. IsPredictor(mtp) /\ evaluated \in Seq(Token) /\ Trails(mtp, evaluated)
          BY <1>1, <3>1
        <5> QED
          BY <4>2, <4>3, <5>1, TruncateTrails, SMTT(40)
      <4> QED
        BY <1>1, <3>3, <4>1, <4>2, <4>4
    <3>5. Carried(mtp', text, text)
      BY <1>1, <3>4, OwnRow, TrailingIsCarried
    <3> QED
      BY <1>1, <2>1, <3>1, <3>4, <3>5
  <2>4. CASE ~tracking
    <3>1. ~mtp.valid /\ Reach(mtp) < Len(text)
      BY <1>1, <2>4 DEF PInv, TurnCarries, Quiet
    <3>2. Carried(mtp', text, text)
      BY <1>1, <1>2, <2>1, <3>1, BehindIsCarried
    <3> QED
      BY <2>1, <2>4, <3>2
  <2> QED
    BY <1>1, <2>3, <2>4
<1> QED
  BY <1>3, <1>4

LEMMA EmitOutputPInv ==
  ASSUME Inv, PInv, NEW halt \in BOOLEAN, EmitOutput(halt)
  PROVE  PInv'
<1> DEFINE token == Head(outputs)
           draft == Len(outputs) > 1
           out   == Append(generated, token)
<1>1. pc = "emit" /\ images' = images /\ ~Quiet
  BY DEF EmitOutput, Quiet
<1>2. /\ Len(outputs) \in Nat /\ Len(outputs) > 0 /\ outputs \in Seq(Token) /\ outputs # << >>
      /\ Len(Tail(outputs)) = Len(outputs) - 1 /\ token \in Token
      /\ evaluated \in Seq(Token) /\ Len(evaluated) \in Nat
      /\ Kept = Len(evaluated) - (Len(outputs) - 1)
  BY <1>1, EmitFacts, TailType, KeptIsEvaluated
<1>3. ASSUME HaltInsidePass, EndTurn(token)
      PROVE  PInv'
  BY <1>1, <1>3, HaltCarries, EndTurnPInv
<1>4. ASSUME StartClosure(IF draft THEN << >> ELSE <<token>>, out)
      PROVE  PInv'
  <2>1. (IF draft THEN << >> ELSE <<token>>) \in Seq(Token)
    BY <1>2
  <2> QED
    BY <1>1, <1>4, <2>1, StartClosurePInv
<1>5. ASSUME EndTurn(IF draft THEN NoToken ELSE token), UNCHANGED <<evaluated, lastHidden, mtp>>
      PROVE  PInv'
  BY <1>1, <1>5, EndTurnPInv DEF PInv
<1>6. ASSUME outputs' = Tail(outputs),
             IF draft THEN UNCHANGED <<pc, seed>> ELSE pc' = "decode" /\ seed' = token,
             UNCHANGED <<evaluated, lastHidden, mtp, pending, opts, tracking, closure>>
      PROVE  PInv'
  <2>1. Reach(mtp) \in Nat
    BY PredictorParts DEF Inv, TypeOK
  <2>2. Kept <= Kept' /\ Kept' \in Int /\ Kept \in Int
    <3>1. CASE draft
      <4>1. Kept' = Len(evaluated) - ((Len(outputs) - 1) - 1)
        BY <1>1, <1>2, <1>6, <3>1 DEF Kept
      <4> QED
        BY <1>2, <4>1
    <3>2. CASE ~draft
      <4>1. Kept' = Len(evaluated)
        BY <1>6, <3>2 DEF Kept
      <4> QED
        BY <1>2, <4>1
    <3> QED
      BY <3>1, <3>2
  <2>3. ~tracking => Reach(mtp) < Kept'
    BY <1>1, <2>1, <2>2 DEF PInv, TurnCarries
  <2>4. pc' \in {"emit", "decode"}
    BY <1>1, <1>6
  <2>5. Len(mtp.gap) \in Nat
    BY PredictorParts DEF Inv, TypeOK
  <2>6. mtp.gap # << >> /\ tracking => Len(outputs') <= Len(mtp.gap)
    BY <1>1, <1>2, <1>6, <2>5 DEF PInv, TurnCarries
  <2>7. TurnCarries'
    BY <1>1, <1>6, <2>3, <2>4, <2>6 DEF PInv, TurnCarries, Quiet
  <2> QED
    BY <1>1, <1>6, <2>7 DEF PInv
<1> QED
  BY <1>3, <1>4, <1>5, <1>6 DEF EmitOutput

LEMMA StutterPInv == PInv /\ UNCHANGED vars => PInv'
BY DEF vars, PInv, TurnCarries, Quiet, Kept

LEMMA NextPInv == Inv /\ PInv /\ [Next]_vars => PInv'
<1> SUFFICES ASSUME Inv, PInv, [Next]_vars PROVE PInv'
  OBVIOUS
<1>1. CASE Reset
  BY <1>1, ResetPInv
<1>2. CASE \E prompt \in Prompts, trackMtp \in BOOLEAN : PrefillTokens(prompt, trackMtp)
  BY <1>2, PrefillTokensPInv
<1>3. CASE TakeImage
  BY <1>3, TakeImagePInv
<1>4. CASE \E image \in images : RestoreSession(image)
  BY <1>4, RestoreSessionPInv
<1>5. CASE \E prompt \in Prompts, o \in TurnOptions : BeginTurn(prompt, o)
  BY <1>5, BeginTurnPInv
<1>6. CASE PassFails \/ PrefillFails
  BY <1>6, FailurePInv
<1>7. CASE TurnStep
  <2>1. CASE SampleSpent
    BY <2>1, SampleSpentPInv
  <2>2. CASE \E token \in Token, halt \in BOOLEAN : Sample(token, halt)
    BY <2>2, SamplePInv
  <2>3. CASE \E halt \in BOOLEAN : EmitClosure(halt)
    BY <2>3, EmitClosurePInv
  <2>4. CASE PlainStep
    BY <2>4, PlainStepPInv
  <2>5. CASE UndraftedStep
    BY <2>5, UndraftedStepPInv
  <2>6. CASE \E drafts \in Drafts(NgramCap) : NgramStep(drafts)
    BY <2>6, NgramStepPInv
  <2>7. CASE \E drafts \in Drafts(MtpCap), extra \in 0..MtpCap : MtpStep(drafts, extra)
    BY <2>7, MtpStepPInv
  <2>8. CASE \E halt \in BOOLEAN : EmitOutput(halt)
    BY <2>8, EmitOutputPInv
  <2> QED
    BY <1>7, <2>1, <2>2, <2>3, <2>4, <2>5, <2>6, <2>7, <2>8 DEF TurnStep
<1>8. CASE UNCHANGED vars
  BY <1>8, StutterPInv
<1> QED
  BY <1>1, <1>2, <1>3, <1>4, <1>5, <1>6, <1>7, <1>8 DEF Next

LEMMA PInvHolds == Spec => [](Inv /\ PInv)
<1>1. Init => Inv /\ PInv
  BY InitInv, InitPInv
<1>2. Inv /\ PInv /\ [Next]_vars => Inv' /\ PInv'
  BY NextInv, NextPInv
<1> QED
  BY <1>1, <1>2, PTL DEF Spec
-----------------------------------------------------------------------------
(***************************************************************************)
(* The theorems.                                                           *)
(***************************************************************************)
\* While the MTP arm may draft, closing the gap gives the predictor exactly the
\* rows of the evaluated tokens.
THEOREM PredictorIsExact == Spec => []PredictorExact
<1>1. ASSUME Inv, PInv PROVE PredictorExact
  <2> SUFFICES ASSUME MtpArmReady
               PROVE  /\ CanCatchUp(mtp)
                      /\ SubSeq(CatchUp(mtp).rows, 1, Len(evaluated))
                           = ExactRows(evaluated, Len(evaluated))
                      /\ evaluated # << >> => lastHidden = evaluated
    BY DEF PredictorExact
  <2>1. evaluated \in Seq(Token) /\ IsPredictor(mtp)
    BY <1>1 DEF Inv, TypeOK
  <2>2. Trails(mtp, evaluated) /\ LastRow(evaluated, lastHidden)
    BY <1>1, ReadyTrails DEF MtpArmReady, Reach
  <2>3. PICK caught : caught = CatchUp(mtp)
    OBVIOUS
  <2>4. Trails(caught, evaluated) /\ caught.gap = << >> /\ CanCatchUp(mtp) /\ IsPredictor(caught)
    BY <2>1, <2>2, <2>3, CatchUpTrails, CatchUpType
  <2>5. caught.rows = ExactRows(evaluated, Len(evaluated)) /\ Len(caught.rows) = Len(evaluated)
    BY <2>1, <2>4, TrailingRows
  <2>6. SubSeq(caught.rows, 1, Len(caught.rows)) = caught.rows
    <3>1. caught.rows \in Seq(PredictorRow)
      BY <2>4, PredictorParts
    <3> QED
      BY <3>1, WholeSequence
  <2> QED
    BY <2>2, <2>3, <2>4, <2>5, <2>6 DEF LastRow
<1> QED
  BY <1>1, PInvHolds, PTL

\* A turn that retains hidden rows can draft at every step, from the target's
\* last row and over exactly the evaluated tokens.
THEOREM DraftsAreFresh == Spec => []DraftsFromFreshState
<1>1. ASSUME Inv, PInv PROVE DraftsFromFreshState
  <2> SUFFICES ASSUME tracking
               PROVE  MtpArmReady /\ Len(CatchUp(mtp).rows) = Len(evaluated)
    BY DEF DraftsFromFreshState
  <2>1. mtp.valid /\ Reach(mtp) = Len(evaluated)
    BY <1>1 DEF PInv, TurnCarries
  <2>2. Trails(mtp, evaluated) /\ MtpArmReady /\ evaluated \in Seq(Token) /\ IsPredictor(mtp)
    BY <1>1, <2>1, ReadyTrails DEF Inv, TypeOK
  <2> QED
    BY <2>2, CatchUpTrails
<1> QED
  BY <1>1, PInvHolds, PTL

\* An image holds the state and the predictor rows of the tokens it is tagged
\* with.
THEOREM ImagesAreFaithful == Spec => []ImagesFaithful
<1>1. PInv => ImagesFaithful
  BY DEF PInv, ImageCarries, ImagesFaithful
<1> QED
  BY <1>1, PInvHolds, PTL

LEMMA ArmStaysReady ==
  ASSUME Inv, PInv, tracking, UNCHANGED <<evaluated, lastHidden, mtp>>
  PROVE  MtpArmReady'
<1>1. MtpArmReady
  BY ReadyTrails DEF PInv, TurnCarries
<1> QED
  BY <1>1 DEF MtpArmReady

\* A callback that halts a turn does not cost the session its MTP arm.
THEOREM HaltsKeepTheArm == Spec => HaltKeepsArm
<1>1. ASSUME Inv, PInv, PInv', [Next]_vars, Halts, tracking PROVE MtpArmReady'
  <2>1. pc \in {"sample", "closing", "emit"} /\ pc' = "idle" /\ pc' # pc /\ ~Quiet
    BY <1>1 DEF Halts, Quiet
  <2>2. ~(UNCHANGED vars)
    BY <2>1 DEF vars
  <2>3. TurnStep \/ PassFails
    BY <1>1, <2>1, <2>2 DEF Next, Reset, PrefillTokens, TakeImage, RestoreSession, BeginTurn,
       PrefillFails, Quiet
  <2>4. CASE SampleSpent
    BY <1>1, <2>4, ArmStaysReady DEF SampleSpent
  <2>5. ASSUME NEW token \in Token, NEW halt \in BOOLEAN, Sample(token, halt)
        PROVE  MtpArmReady'
    <3>1. UNCHANGED <<evaluated, lastHidden, mtp>>
      BY <2>1, <2>5 DEF Sample, StartClosure
    <3> QED
      BY <1>1, <3>1, ArmStaysReady
  <2>6. ASSUME NEW halt \in BOOLEAN, EmitClosure(halt)
        PROVE  MtpArmReady'
    <3>1. UNCHANGED <<evaluated, lastHidden, mtp>>
      BY <2>1, <2>6 DEF EmitClosure
    <3> QED
      BY <1>1, <3>1, ArmStaysReady
  <2>7. ASSUME NEW halt \in BOOLEAN, EmitOutput(halt)
        PROVE  MtpArmReady'
    <3>1. pc = "emit" /\ (HaltInsidePass \/ UNCHANGED <<evaluated, lastHidden, mtp>>)
      BY <2>1, <2>7 DEF EmitOutput, StartClosure
    <3>2. CASE UNCHANGED <<evaluated, lastHidden, mtp>>
      BY <1>1, <3>2, ArmStaysReady
    <3>3. CASE HaltInsidePass
      <4>1. /\ Carried(mtp', evaluated', lastHidden') /\ mtp'.valid
            /\ Reach(mtp') = Len(evaluated') /\ evaluated' \in Seq(Token)
        BY <1>1, <3>1, <3>3, HaltCarries
      <4>2. LastRow(evaluated', lastHidden')
        BY <4>1 DEF Carried
      <4>3. evaluated' # << >> => lastHidden' # NoRow
        BY <4>1, <4>2, ConstantsAssumption DEF LastRow
      <4> QED
        BY <4>1, <4>3 DEF MtpArmReady, Reach
    <3> QED
      BY <3>1, <3>2, <3>3
  <2>8. ~PassFails /\ ~PlainStep /\ ~UndraftedStep
    BY <2>1 DEF PassFails, PlainStep, UndraftedStep
  <2>9. ASSUME NEW drafts PROVE ~NgramStep(drafts) /\ \A extra : ~MtpStep(drafts, extra)
    BY <2>1 DEF NgramStep, MtpStep
  <2> QED
    BY <2>3, <2>4, <2>5, <2>6, <2>7, <2>8, <2>9 DEF TurnStep
<1>2. Inv /\ PInv /\ Inv' /\ PInv' /\ [Next]_vars => [(Halts /\ tracking) => MtpArmReady']_vars
  BY <1>1
<1> QED
  BY <1>2, PInvHolds, PTL DEF Spec, HaltKeepsArm
-----------------------------------------------------------------------------
(***************************************************************************)
(* The n-gram index.  It falls behind the text in turns that do not        *)
(* speculate, and what reseeds it is never as long as the text unless it   *)
(* is the text.                                                            *)
(***************************************************************************)
Mirrors == Len(index) <= Len(text) /\ (Len(index) = Len(text) => index = text)

LEMMA CommitMirrors ==
  ASSUME TypeOK, Mirrors, NEW token \in Token, Commit(token)
  PROVE  Mirrors'
<1>1. /\ index \in Seq(Token) /\ text \in Seq(Token)
      /\ Len(index) \in Nat /\ Len(text) \in Nat
      /\ text' = Append(text, token) /\ Len(text') = Len(text) + 1
  BY AppendType DEF TypeOK, Commit
<1>2. CASE opts.mode = "Off"
  <2>1. index' = index /\ Len(index') < Len(text') /\ Len(text') \in Nat
    BY <1>1, <1>2 DEF Commit, Mirrors
  <2> QED
    BY <1>1, <2>1 DEF Mirrors
<1>3. CASE opts.mode # "Off"
  <2>1. index' = Append(index, token) /\ Len(index') = Len(index) + 1
    BY <1>1, <1>3, AppendType DEF Commit
  <2>2. Len(index') <= Len(text') /\ (Len(index') = Len(text') => Len(index) = Len(text))
    BY <1>1, <2>1 DEF Mirrors
  <2> QED
    BY <1>1, <2>1, <2>2 DEF Mirrors
<1> QED
  BY <1>2, <1>3

\* Extended, the index stays the text; reseeded, it holds what follows the
\* evaluated tokens, which is all of the text only when nothing was evaluated.
LEMMA IndexAfterMirrors ==
  ASSUME Inv, Mirrors, pc = "idle", NEW prompt \in Prompts,
         text' = text \o prompt, index' \in {index, IndexAfter(prompt)}
  PROVE  Mirrors'
<1>1. /\ prompt \in Seq(Token) /\ prompt # << >> /\ index \in Seq(Token) /\ text \in Seq(Token)
      /\ evaluated \in Seq(Token)
  BY ConstantTypes DEF Inv, TypeOK
<1>2. PICK carried \in Seq(Token) : carried = AsSeq(pending)
  BY <1>1, ContinuationType DEF Inv
<1>3. /\ evaluated \o carried = text /\ Len(text) = Len(evaluated) + Len(carried)
      /\ Len(evaluated) \in Nat /\ Len(carried) \in Nat /\ Len(index) \in Nat
      /\ Len(prompt) \in Nat /\ Len(prompt) > 0 /\ Len(text) \in Nat
  BY <1>1, <1>2, ConcatType DEF Inv, RepresentsText
<1>4. Len(text') = Len(text) + Len(prompt)
  BY <1>1, ConcatType
<1>5. CASE index' = index
  <2>1. Len(index') < Len(text') /\ Len(index') \in Nat /\ Len(text') \in Nat
    BY <1>3, <1>4, <1>5 DEF Mirrors
  <2> QED
    BY <2>1 DEF Mirrors
<1>6. CASE index' = IndexAfter(prompt) /\ Len(index) = Len(text)
  <2>1. index = text /\ index' = index \o prompt
    BY <1>2, <1>3, <1>6 DEF Mirrors, IndexAfter
  <2> QED
    BY <1>3, <1>4, <2>1 DEF Mirrors
<1>7. CASE index' = IndexAfter(prompt) /\ Len(index) # Len(text)
  <2>1. index' = carried \o prompt
    BY <1>2, <1>3, <1>7 DEF IndexAfter, ContinuationInput
  <2>2. Len(index') = Len(carried) + Len(prompt)
    BY <1>1, <2>1, ConcatType
  <2>3. Len(index') <= Len(text') /\ (Len(index') = Len(text') => Len(evaluated) = 0)
    BY <1>3, <1>4, <2>2
  <2>4. Len(evaluated) = 0 => text = carried
    <3>1. Len(evaluated) = 0 => evaluated = << >>
      BY <1>1
    <3> QED
      BY <1>2, <1>3, <3>1, ConcatEmpty
  <2> QED
    BY <2>1, <2>3, <2>4 DEF Mirrors
<1> QED
  BY <1>5, <1>6, <1>7

LEMMA NextMirrors == Inv /\ Mirrors /\ [Next]_vars => Mirrors'
<1> SUFFICES ASSUME Inv, Mirrors, [Next]_vars PROVE Mirrors'
  OBVIOUS
<1>1. TypeOK
  BY DEF Inv
<1>2. ASSUME UNCHANGED <<text, index>> PROVE Mirrors'
  BY <1>2 DEF Mirrors
<1>3. CASE Reset
  BY <1>3 DEF Reset, Mirrors
<1>4. ASSUME NEW prompt \in Prompts, NEW trackMtp \in BOOLEAN, PrefillTokens(prompt, trackMtp)
      PROVE  Mirrors'
  BY <1>4, IndexAfterMirrors DEF PrefillTokens
<1>5. ASSUME NEW image \in images, RestoreSession(image)
      PROVE  Mirrors'
  <2>1. index' = text' /\ text' \in Seq(Token)
    BY <1>1, <1>5 DEF RestoreSession, Adopt, TypeOK, Image
  <2>2. Len(text') \in Nat
    BY <2>1
  <2> QED
    BY <2>1, <2>2 DEF Mirrors
<1>6. ASSUME NEW prompt \in Prompts, NEW o \in TurnOptions, BeginTurn(prompt, o)
      PROVE  Mirrors'
  BY <1>6, IndexAfterMirrors DEF BeginTurn
<1>7. ASSUME NEW token \in Token, NEW halt \in BOOLEAN, Sample(token, halt)
      PROVE  Mirrors'
  BY <1>1, <1>7, CommitMirrors DEF Sample
<1>8. ASSUME NEW halt \in BOOLEAN, EmitClosure(halt)
      PROVE  Mirrors'
  <2>1. Head(closure) \in Token
    BY <1>1, <1>8, TailType DEF EmitClosure, TypeOK
  <2> QED
    BY <1>1, <1>8, <2>1, CommitMirrors DEF EmitClosure
<1>9. ASSUME NEW halt \in BOOLEAN, EmitOutput(halt)
      PROVE  Mirrors'
  <2>1. Head(outputs) \in Token
    BY <1>1, <1>9, TailType DEF EmitOutput, TypeOK
  <2> QED
    BY <1>1, <1>9, <2>1, CommitMirrors DEF EmitOutput
<1>10. CASE TakeImage \/ PrefillFails \/ PassFails \/ SampleSpent \/ PlainStep \/ UNCHANGED vars
  BY <1>2, <1>10 DEF TakeImage, PrefillFails, PassFails, SampleSpent, PlainStep, sequence, vars
<1>11. ASSUME NEW drafts, NEW m, Verify(drafts, m) PROVE Mirrors'
  BY <1>2, <1>11 DEF Verify
<1>12. CASE TurnStep
  <2>1. CASE UndraftedStep \/ (\E drafts \in Drafts(NgramCap) : NgramStep(drafts))
             \/ \E drafts \in Drafts(MtpCap), extra \in 0..MtpCap : MtpStep(drafts, extra)
    BY <1>11, <2>1 DEF UndraftedStep, NgramStep, MtpStep
  <2> QED
    BY <1>7, <1>8, <1>9, <1>10, <1>12, <2>1 DEF TurnStep
<1> QED
  BY <1>3, <1>4, <1>5, <1>6, <1>10, <1>12 DEF Next

\* An index as long as the context is the context, which is all the runtime
\* compares before it extends it.
THEOREM IndexIsContext == Spec => []IndexMirrorsContext
<1>1. Init => Mirrors
  BY DEF Init, Mirrors
<1>2. Mirrors => IndexMirrorsContext
  BY DEF Mirrors, IndexMirrorsContext
<1> QED
  BY <1>1, <1>2, NextMirrors, InvHolds, PTL DEF Spec
=============================================================================
