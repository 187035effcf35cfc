---------------------------- MODULE TargetState ----------------------------
(***************************************************************************)
(* The target model's sequence state (src/src/qwen/quantized_model.rs):    *)
(* one state per decoder layer - the KV rows of a full-attention layer,    *)
(* the recurrent state of a linear one - which a forward pass advances     *)
(* layer by layer.  A verification pass first sets up an arena of          *)
(* snapshots, into which each linear layer copies its state before every   *)
(* row it consumes; rolling back truncates the KV rows and copies a        *)
(* snapshot back.  The arena is reused by later passes and outlives a      *)
(* reset of the state.                                                     *)
(*                                                                         *)
(* A layer's state is the sequence of tokens it has consumed: it is a      *)
(* function of them as long as the layers before it agree, which is what   *)
(* has to be shown.  A recurrent state of zeros is the one that has        *)
(* consumed nothing.                                                       *)
(***************************************************************************)
EXTENDS Naturals, Sequences, SequencesExt

CONSTANTS
  Token,
  Kind,         \* per layer, "full" or "linear"
  MaxPosition,  \* config.max_position_embeddings
  Passes,       \* the tokens of the passes to consider
  Foreign,      \* what the layers of an image of another shape hold
  Lost, NoText, NoImage, NoPass

ASSUME TargetAssumption ==
  /\ Kind \in Seq({"full", "linear"}) /\ Kind # << >>
  /\ MaxPosition \in Nat
  /\ Passes \subseteq Seq(Token) /\ << >> \notin Passes
  /\ Foreign \subseteq Seq(Token)
  /\ NoText # Lost
  /\ Lost \notin Seq(Token) /\ NoText \notin Seq(Token) /\ NoImage \notin Seq(Token)
  /\ NoImage \notin [layers : [1..Len(Kind) -> Seq(Token)], position : Nat]

VARIABLES
  layers,    \* per layer, the tokens its state has consumed
  position,  \* state.position
  arena,     \* the snapshots: [position, rows, stored, slots]
  pass,      \* the pass under way: [tokens, snapshotted, next, before, committed]
  stage,     \* where the pass is
  image      \* the last image taken, or NoImage

vars == <<layers, position, arena, pass, stage, image>>

Layers == 1..Len(Kind)

\* The text that a state represents: every layer has consumed it, and the
\* position is its length.
TextOf(states, length) ==
  IF Len(states[1]) = length /\ \A i \in Layers : states[i] = states[1]
  THEN states[1] ELSE NoText

NewState == [i \in Layers |-> << >>]

NewArena ==
  [position |-> 0, rows |-> 0, stored |-> [i \in Layers |-> 0],
   slots |-> [i \in Layers |-> << >>]]

Init ==
  /\ layers = NewState /\ position = 0
  /\ arena = NewArena
  /\ pass = NoPass /\ stage = "idle"
  /\ image = NoImage

(***************************************************************************)
(* The arena.                                                              *)
(***************************************************************************)

\* Slots are resized, not cleared: what an earlier pass stored stays there.
Resized(slots, rows) == [r \in 1..rows |-> IF r <= Len(slots) THEN slots[r] ELSE << >>]

\* Mutant: slots of an earlier pass still count as stored.
ReservedKeepingStored(rows) ==
  [position |-> position, rows |-> rows, stored |-> arena.stored,
   slots |-> [i \in Layers |-> IF Kind[i] = "linear" THEN Resized(arena.slots[i], rows)
                               ELSE << >>]]

\* begin_pass.
Reserved(rows) ==
  [position |-> position, rows |-> rows, stored |-> [i \in Layers |-> 0],
   slots |-> [i \in Layers |-> IF Kind[i] = "linear" THEN Resized(arena.slots[i], rows)
                               ELSE << >>]]

\* What a linear layer stores during a pass: its state before each row.
Snapshots(state, tokens) ==
  [r \in 1..Len(tokens) |-> state \o SubSeq(tokens, 1, r - 1)]

Stored(i) ==
  [arena EXCEPT !.slots[i] = Snapshots(layers[i], pass.tokens),
                !.stored[i] = Len(pass.tokens)]

\* A layer's own part of a rollback: whether it refuses, and what it becomes.
LayerRefuses(i, rows) ==
  IF Kind[i] = "full" THEN arena.position + rows > Len(layers[i])
  ELSE arena.stored[i] # 0 /\ rows >= arena.stored[i]

Truncated(i, rows) == SubSeq(layers[i], 1, arena.position + rows)

RestoredInto(i, rows) == IF arena.stored[i] = 0 THEN layers[i] ELSE arena.slots[i][rows + 1]

RolledBackLayer(i, rows) ==
  IF Kind[i] = "full" THEN Truncated(i, rows) ELSE RestoredInto(i, rows)

Refuses(rows) == rows >= arena.rows /\ arena.rows # 0

\* Layers go back in order, up to the first that refuses.
Rollback(rows, after) ==
  LET Reaches(i) == ~Refuses(rows) /\ \A j \in 1..i : ~LayerRefuses(j, rows)
  IN /\ layers' = [i \in Layers |-> IF Reaches(i) THEN RolledBackLayer(i, rows)
                                    ELSE layers[i]]
     /\ IF Reaches(Len(Kind))
        THEN position' = arena.position + rows /\ stage' = after
        ELSE stage' = "refused" /\ UNCHANGED position

(***************************************************************************)
(* A forward pass.                                                         *)
(***************************************************************************)

\* A pass: the verification of drafts prepares the arena first, and any pass is
\* turned away if the sequence would exceed the model's positions.
BeginPass(tokens, snapshotted) ==
  /\ stage = "idle" /\ (snapshotted => Len(tokens) > 1)
  /\ pass' = [tokens |-> tokens, snapshotted |-> snapshotted, next |-> 1,
              before |-> TextOf(layers, position), committed |-> 0]
  /\ arena' = IF snapshotted THEN Reserved(Len(tokens)) ELSE arena
  /\ stage' = IF position + Len(tokens) > MaxPosition THEN "failed" ELSE "layers"
  /\ UNCHANGED <<layers, position, image>>

\* Attention appends the rows of all tokens; it only checks its own position.
AttentionForward(i) ==
  /\ Kind[i] = "full" /\ Len(layers[i]) = position
  /\ layers' = [layers EXCEPT ![i] = @ \o pass.tokens]
  /\ UNCHANGED arena

\* A linear layer consumes the rows one by one, storing before each.
DeltaForward(i) ==
  /\ Kind[i] = "linear"
  /\ arena' = IF pass.snapshotted THEN Stored(i) ELSE arena
  /\ layers' = [layers EXCEPT ![i] = @ \o pass.tokens]

LayerForward(i) == AttentionForward(i) \/ DeltaForward(i)

RunLayer ==
  /\ stage = "layers" /\ pass.next <= Len(Kind)
  /\ LayerForward(pass.next)
  /\ pass' = [pass EXCEPT !.next = @ + 1]
  /\ UNCHANGED <<position, stage, image>>

\* A layer fails before its state moves, in its projections or because attention
\* finds its rows at another position ...
LayerFails ==
  /\ stage = "layers" /\ pass.next <= Len(Kind)
  /\ stage' = "failed"
  /\ UNCHANGED <<layers, position, arena, pass, image>>

\* ... or after, in its output projection or its experts.
LayerFailsLate ==
  /\ stage = "layers" /\ pass.next <= Len(Kind)
  /\ LayerForward(pass.next)
  /\ pass' = [pass EXCEPT !.next = @ + 1]
  /\ stage' = "failed"
  /\ UNCHANGED <<position, image>>

\* The final norm and the head; then the position moves.
EndPass ==
  /\ stage = "layers" /\ pass.next > Len(Kind)
  /\ \/ /\ position' = position + Len(pass.tokens)
        /\ IF pass.snapshotted
           THEN stage' = "judge" /\ pass' = pass
           ELSE stage' = "idle" /\ pass' = NoPass
     \/ stage' = "failed" /\ UNCHANGED <<position, pass>>
  /\ UNCHANGED <<layers, arena, image>>

\* A failed verification pass goes back to its first row; a failed plain pass
\* has nothing to go back to.
PassFailed ==
  /\ stage = "failed"
  /\ pass' = NoPass
  /\ IF pass.snapshotted THEN Rollback(0, "idle")
     ELSE stage' = "torn" /\ UNCHANGED <<layers, position>>
  /\ UNCHANGED <<arena, image>>

\* Mutant: a pass accepted in full is rolled back like any other.
JudgeRollingBackAll ==
  /\ stage = "judge"
  /\ \E accepted \in 0..(Len(pass.tokens) - 1) :
       /\ pass' = [pass EXCEPT !.committed = 1 + accepted]
       /\ Rollback(1 + accepted, "emit")
  /\ UNCHANGED <<arena, image>>

\* The target accepts some of the drafts: the rows past them are rolled back.
Judge ==
  /\ stage = "judge"
  /\ \E accepted \in 0..(Len(pass.tokens) - 1) :
       /\ pass' = [pass EXCEPT !.committed = 1 + accepted]
       /\ IF 1 + accepted = Len(pass.tokens)
          THEN stage' = "emit" /\ UNCHANGED <<layers, position>>
          ELSE Rollback(1 + accepted, "emit")
  /\ UNCHANGED <<arena, image>>

\* The logits cannot be read: the turn fails with every row evaluated.
JudgeFails ==
  /\ stage = "judge"
  /\ stage' = "idle" /\ pass' = NoPass
  /\ UNCHANGED <<layers, position, arena, image>>

Delivered ==
  /\ stage = "emit"
  /\ stage' = "idle" /\ pass' = NoPass
  /\ UNCHANGED <<layers, position, arena, image>>

\* The callback halts on an output: one inside the accepted drafts unwinds the
\* rows past it, from the arena the pass has already gone back with.
Halted ==
  /\ stage = "emit"
  /\ \E output \in 0..(pass.committed - 2) : Rollback(1 + output, "idle")
  /\ pass' = NoPass
  /\ UNCHANGED <<arena, image>>

(***************************************************************************)
(* Replacing the state.                                                    *)
(***************************************************************************)

Save ==
  /\ stage = "idle"
  /\ image' = [layers |-> layers, position |-> position]
  /\ UNCHANGED <<layers, position, arena, pass, stage>>

ImageValid == \A i \in Layers : Kind[i] = "full" => Len(image.layers[i]) = image.position

RestoreImage ==
  /\ stage \in {"idle", "torn"} /\ image # NoImage /\ ImageValid
  /\ layers' = image.layers /\ position' = image.position
  /\ stage' = "idle"
  /\ UNCHANGED <<arena, pass, image>>

\* An image of another shape is refused at one of its layers, the layers before
\* it replaced; the state is not used after that.
RestoreFails(other, i) ==
  /\ stage \in {"idle", "torn"}
  /\ layers' = [j \in Layers |-> IF j < i THEN other ELSE layers[j]]
  /\ stage' = "torn"
  /\ UNCHANGED <<position, arena, pass, image>>

\* A new state; the arena is the runtime's and stays.
Reset ==
  /\ stage \in {"idle", "torn"}
  /\ layers' = NewState /\ position' = 0
  /\ stage' = "idle"
  /\ UNCHANGED <<arena, pass, image>>

\* The process ends at any point; images are on disk.
Restart ==
  /\ layers' = NewState /\ position' = 0
  /\ arena' = NewArena
  /\ pass' = NoPass /\ stage' = "idle"
  /\ UNCHANGED image

Next ==
  \/ \E tokens \in Passes, snapshotted \in BOOLEAN : BeginPass(tokens, snapshotted)
  \/ RunLayer \/ LayerFails \/ LayerFailsLate \/ EndPass \/ PassFailed
  \/ Judge \/ JudgeFails \/ Delivered \/ Halted
  \/ Save \/ RestoreImage
  \/ \E other \in Foreign, i \in Layers : RestoreFails(other, i)
  \/ Reset \/ Restart

Spec == Init /\ [][Next]_vars

(***************************************************************************)
(* What the layers' states must keep true together.                        *)
(***************************************************************************)
Arena == [position : Nat, rows : Nat, stored : [Layers -> Nat],
          slots : [Layers -> Seq(Seq(Token))]]
Pass == [tokens : Seq(Token), snapshotted : BOOLEAN, next : Nat,
         before : Seq(Token), committed : Nat]

\* Every variable has its type; a pass is there while one is under way, and
\* no rollback of the runtime is ever refused by the model
\* (QuantizedModelState::rollback, whose error would leave some layers back
\* and others not).
TypeOK ==
  /\ layers \in [Layers -> Seq(Token)] /\ position \in Nat
  /\ arena \in Arena
  /\ pass \in Pass \cup {NoPass}
  /\ stage \in {"idle", "layers", "failed", "judge", "emit", "torn"}
  /\ stage \in {"layers", "failed", "judge", "emit"} => pass \in Pass
  /\ image # NoImage => image \in [layers : [Layers -> Seq(Token)], position : Nat]

\* The state implements the text evaluated: between passes every layer has
\* consumed exactly that text, whatever accepted, rejected, halted and failed
\* passes, resets, restores and restarts came before, and a verification pass
\* that fails leaves no trace of itself (forward_inner, rollback, image).
Text == INSTANCE EvaluatedText
          WITH text <- CASE stage = "idle" -> TextOf(layers, position)
                         [] stage = "torn" -> Lost
                         [] stage = "refused" -> NoText
                         [] OTHER -> pass.before,
               saved <- IF image = NoImage THEN NoImage
                        ELSE TextOf(image.layers, image.position)
PassesAreAtomic == Text!Spec
=============================================================================
