---------------------------- MODULE DecodeProofs ----------------------------
(***************************************************************************)
(* What a decoding pass runs on.  The layers' states are one text: for     *)
(* every sequence of layer kinds, every set of passes and every number of  *)
(* positions.  The routed experts of a layer are the readable reference,   *)
(* and their cache is exact: for every model, plan, capacity and order of  *)
(* the workers.  What the n-gram index and a copied span propose continues *)
(* the text, and the two arms earn the drafts they are given: for every    *)
(* vocabulary, set of key lengths, hash, set of turn options and bound.    *)
(***************************************************************************)
EXTENDS TargetState, QuantizedMoeProps, SpeculativePolicyProps, SeqLemmas, TLAPS

\* A state that is a text: each layer has consumed it.
IsWholeText(states, length, t) ==
  t \in Seq(Token) /\ length = Len(t) /\ states = [i \in Layers |-> t]

\* The layers below n have consumed rows of the pass, the others none.
Partway(n, rows) ==
  layers = [i \in Layers |-> IF i < n THEN pass.before \o SubSeq(pass.tokens, 1, rows)
                             ELSE pass.before]

\* The arena is this pass's: what the layers below n consumed is stored in it,
\* and the others have nothing stored.
ArenaHolds(n) ==
  /\ arena.position = Len(pass.before) /\ arena.rows = Len(pass.tokens)
  /\ \A i \in Layers :
       IF Kind[i] = "linear" /\ i < n
       THEN /\ arena.stored[i] = Len(pass.tokens)
            /\ arena.slots[i] = Snapshots(pass.before, pass.tokens)
       ELSE arena.stored[i] = 0

Consistent ==
  /\ stage = "idle" => \E t \in Seq(Token) : IsWholeText(layers, position, t)
  /\ image # NoImage => \E t \in Seq(Token) : IsWholeText(image.layers, image.position, t)
  /\ stage \in {"layers", "failed"} =>
       /\ pass.next \in 1..(Len(Kind) + 1) /\ position = Len(pass.before)
       /\ Partway(pass.next, Len(pass.tokens))
       /\ pass.snapshotted => ArenaHolds(pass.next)
  /\ stage = "judge" =>
       /\ pass.snapshotted /\ ArenaHolds(Len(Kind) + 1)
       /\ position = Len(pass.before) + Len(pass.tokens)
       /\ Partway(Len(Kind) + 1, Len(pass.tokens))
  /\ stage = "emit" =>
       /\ pass.snapshotted /\ ArenaHolds(Len(Kind) + 1)
       /\ pass.committed \in 1..Len(pass.tokens)
       /\ position = Len(pass.before) + pass.committed
       /\ Partway(Len(Kind) + 1, pass.committed)
  /\ stage \in {"layers", "failed", "judge", "emit"} => pass.tokens \in Passes
  /\ stage \in {"layers", "judge", "emit"} =>
       Len(pass.before) + Len(pass.tokens) <= MaxPosition

IInv == TypeOK /\ Consistent

LEMMA CutConcat ==
  ASSUME NEW S, NEW s \in Seq(S), NEW t \in Seq(S), NEW c \in 0..Len(t), NEW k \in 0..c
  PROVE  /\ SubSeq(s \o SubSeq(t, 1, c), 1, Len(s) + k) = s \o SubSeq(t, 1, k)
         /\ SubSeq(t, 1, k) \in Seq(S) /\ s \o SubSeq(t, 1, c) \in Seq(S)
         /\ Len(s \o SubSeq(t, 1, c)) = Len(s) + c
OBVIOUS

LEMMA WholePass ==
  ASSUME NEW S, NEW s \in Seq(S), NEW t \in Seq(S)
  PROVE  /\ SubSeq(t, 1, Len(t)) = t /\ s \o SubSeq(t, 1, 0) = s
         /\ SubSeq(s, 1, Len(s) + 0) = s
OBVIOUS

LEMMA LayerNumbers ==
  Len(Kind) \in Nat \ {0} /\ 1 \in Layers /\ Len(Kind) \in Layers /\ Layers = 1..Len(Kind)
  /\ \A i \in Layers : i \in Nat /\ Kind[i] \in {"full", "linear"}
BY TargetAssumption DEF Layers

LEMMA TextOfWhole ==
  ASSUME NEW states, NEW length, NEW t, IsWholeText(states, length, t)
  PROVE  TextOf(states, length) = t /\ t \in Seq(Token)
BY LayerNumbers DEF IsWholeText, TextOf

LEMMA PassTokens ==
  ASSUME pass \in Pass, pass.tokens \in Passes
  PROVE  /\ pass.tokens \in Seq(Token) /\ pass.before \in Seq(Token)
         /\ Len(pass.tokens) \in Nat \ {0} /\ Len(pass.before) \in Nat
BY TargetAssumption DEF Pass

\* What one layer is before a rollback of the pass under way, and what it
\* becomes: what the committed rows alone would have made of it.
LEMMA LayerRollsBack ==
  ASSUME TypeOK, pass \in Pass, pass.tokens \in Passes,
         NEW n \in 1..(Len(Kind) + 1), NEW c \in 0..Len(pass.tokens), NEW k \in 0..c,
         k < Len(pass.tokens), n <= Len(Kind) => k = 0,
         Partway(n, c), ArenaHolds(n), NEW i \in Layers
  PROVE  /\ ~LayerRefuses(i, k)
         /\ RolledBackLayer(i, k) = pass.before \o SubSeq(pass.tokens, 1, k)
<1> DEFINE b == pass.before
           t == pass.tokens
<1>1. t \in Seq(Token) /\ b \in Seq(Token) /\ Len(t) \in Nat \ {0} /\ Len(b) \in Nat
  BY PassTokens
<1>2. /\ c \in Nat /\ k \in Nat /\ k <= c /\ c <= Len(t) /\ n \in Nat /\ i \in Nat /\ i <= Len(Kind)
      /\ c \in 0..Len(t) /\ k \in 0..c
  BY <1>1, LayerNumbers
<1>3. layers[i] = IF i < n THEN b \o SubSeq(t, 1, c) ELSE b
  BY DEF Partway
<1>4. arena.position = Len(b)
  BY DEF ArenaHolds
<1>5. /\ SubSeq(b \o SubSeq(t, 1, c), 1, Len(b) + k) = b \o SubSeq(t, 1, k)
      /\ Len(b \o SubSeq(t, 1, c)) = Len(b) + c
  <2> HIDE DEF b, t
  <2> QED
    BY <1>1, <1>2, CutConcat
<1>6. i >= n => k = 0 /\ b \o SubSeq(t, 1, k) = b /\ SubSeq(b, 1, Len(b) + k) = b
  <2>1. i >= n => n <= Len(Kind)
    BY <1>2, LayerNumbers
  <2>2. b \o SubSeq(t, 1, 0) = b /\ SubSeq(b, 1, Len(b) + 0) = b
    <3> HIDE DEF b, t
    <3> QED
      BY <1>1, WholePass
  <2> QED
    BY <2>1, <2>2
<1>7. Kind[i] \in {"full", "linear"}
  BY LayerNumbers
<1>8. CASE Kind[i] = "full"
  <2>1. LayerRefuses(i, k) <=> Len(b) + k > Len(layers[i])
    BY <1>4, <1>8 DEF LayerRefuses
  <2>2. RolledBackLayer(i, k) = SubSeq(layers[i], 1, Len(b) + k)
    BY <1>4, <1>8 DEF RolledBackLayer, Truncated
  <2>3. CASE i < n
    <3>1. layers[i] = b \o SubSeq(t, 1, c)
      BY <1>3, <2>3
    <3>2. Len(layers[i]) = Len(b) + c /\ SubSeq(layers[i], 1, Len(b) + k) = b \o SubSeq(t, 1, k)
      BY <3>1, <1>5
    <3> HIDE DEF b, t
    <3>3. ~(Len(b) + k > Len(layers[i]))
      BY <3>2, <1>1, <1>2
    <3> QED
      BY <2>1, <2>2, <3>2, <3>3 DEF b, t
  <2>4. CASE ~(i < n)
    <3>1. layers[i] = b /\ i >= n
      BY <1>3, <2>4, <1>2
    <3>2. k = 0 /\ b \o SubSeq(t, 1, k) = b /\ SubSeq(layers[i], 1, Len(b) + k) = b
      BY <1>6, <3>1
    <3> HIDE DEF b, t
    <3>3. ~(Len(b) + k > Len(layers[i]))
      BY <3>1, <3>2, <1>1
    <3> QED
      BY <2>1, <2>2, <3>2, <3>3 DEF b, t
  <2> QED
    BY <2>3, <2>4
<1>9. CASE Kind[i] = "linear"
  <2>1. LayerRefuses(i, k) <=> arena.stored[i] # 0 /\ k >= arena.stored[i]
    BY <1>9 DEF LayerRefuses
  <2>2. RolledBackLayer(i, k) = IF arena.stored[i] = 0 THEN layers[i] ELSE arena.slots[i][k + 1]
    BY <1>9 DEF RolledBackLayer, RestoredInto
  <2>3. CASE i < n
    <3>1. arena.stored[i] = Len(t) /\ arena.slots[i] = Snapshots(b, t)
      BY <1>9, <2>3 DEF ArenaHolds
    <3>2. k + 1 \in 1..Len(t) /\ (k + 1) - 1 = k /\ ~(k >= Len(t)) /\ Len(t) # 0
      BY <1>1, <1>2
    <3>3. arena.slots[i][k + 1] = b \o SubSeq(t, 1, k)
      BY <3>1, <3>2 DEF Snapshots
    <3> QED
      BY <2>1, <2>2, <3>1, <3>2, <3>3
  <2>4. CASE ~(i < n)
    <3>1. arena.stored[i] = 0
      BY <2>4 DEF ArenaHolds
    <3>2. i >= n
      BY <2>4, <1>2
    <3> QED
      BY <2>1, <2>2, <2>4, <3>1, <3>2, <1>3, <1>6
  <2> QED
    BY <2>3, <2>4
<1> QED
  BY <1>7, <1>8, <1>9

\* A rollback of the pass under way is never refused and leaves the text.
LEMMA RollbackExact ==
  ASSUME TypeOK, pass \in Pass, pass.tokens \in Passes,
         NEW n \in 1..(Len(Kind) + 1), NEW c \in 0..Len(pass.tokens), NEW k \in 0..c,
         k < Len(pass.tokens), n <= Len(Kind) => k = 0,
         Partway(n, c), ArenaHolds(n), NEW after, Rollback(k, after)
  PROVE  /\ layers' = [i \in Layers |-> pass.before \o SubSeq(pass.tokens, 1, k)]
         /\ position' = Len(pass.before) + k
         /\ stage' = after
<1> DEFINE Reaches(i) == ~Refuses(k) /\ \A j \in 1..i : ~LayerRefuses(j, k)
<1>1. \A i \in Layers : /\ ~LayerRefuses(i, k)
                        /\ RolledBackLayer(i, k) = pass.before \o SubSeq(pass.tokens, 1, k)
  BY LayerRollsBack
<1>2. ~Refuses(k)
  <2>1. arena.rows = Len(pass.tokens) /\ Len(pass.tokens) \in Nat
    BY PassTokens DEF ArenaHolds
  <2>2. k \in Nat
    BY <2>1
  <2> QED
    BY <2>1, <2>2 DEF Refuses
<1>3. \A i \in Layers : 1..i \subseteq Layers
  BY LayerNumbers
<1>4. \A i \in Layers : Reaches(i)
  BY <1>1, <1>2, <1>3
<1>5. Reaches(Len(Kind))
  BY <1>4, LayerNumbers
<1>6. /\ layers' = [i \in Layers |-> IF Reaches(i) THEN RolledBackLayer(i, k) ELSE layers[i]]
      /\ position' = arena.position + k /\ stage' = after
  <2>1. /\ layers' = [i \in Layers |-> IF Reaches(i) THEN RolledBackLayer(i, k) ELSE layers[i]]
        /\ IF Reaches(Len(Kind))
           THEN position' = arena.position + k /\ stage' = after
           ELSE stage' = "refused" /\ UNCHANGED position
    BY DEF Rollback
  <2> QED
    BY <2>1, <1>5
<1>7. arena.position = Len(pass.before)
  BY DEF ArenaHolds
<1> HIDE DEF Reaches
<1>8. [i \in Layers |-> IF Reaches(i) THEN RolledBackLayer(i, k) ELSE layers[i]]
        = [i \in Layers |-> pass.before \o SubSeq(pass.tokens, 1, k)]
  BY <1>1, <1>4
<1> QED
  BY <1>6, <1>7, <1>8

LEMMA InitHolds == Init => IInv
<1> SUFFICES ASSUME Init PROVE IInv
  OBVIOUS
<1>1. << >> \in Seq(Token) /\ Len(<< >>) = 0 /\ << >> \in Seq(Seq(Token))
  OBVIOUS
<1>2. IsWholeText(layers, position, << >>)
  BY <1>1 DEF Init, NewState, IsWholeText
<1>3. TypeOK
  BY <1>1 DEF Init, NewState, NewArena, TypeOK, Arena
<1>4. Consistent
  BY <1>1, <1>2 DEF Init, Consistent
<1> QED
  BY <1>3, <1>4 DEF IInv

\* A pass begins on a text, with nothing stored by it yet.
LEMMA BeginPassHolds ==
  ASSUME IInv, NEW tokens \in Passes, NEW snapshotted \in BOOLEAN,
         BeginPass(tokens, snapshotted)
  PROVE  IInv' /\ pass'.before = TextOf(layers, position)
<1>1. PICK t \in Seq(Token) : IsWholeText(layers, position, t)
  BY DEF IInv, Consistent, BeginPass
<1>2. TextOf(layers, position) = t /\ position = Len(t) /\ layers = [i \in Layers |-> t]
  BY <1>1, TextOfWhole DEF IsWholeText
<1>3. tokens \in Seq(Token) /\ Len(tokens) \in Nat /\ Len(t) \in Nat
  BY TargetAssumption
<1>4. pass' = [tokens |-> tokens, snapshotted |-> snapshotted, next |-> 1,
               before |-> t, committed |-> 0]
  BY <1>2 DEF BeginPass
<1>5. pass' \in Pass /\ pass'.next = 1 /\ pass'.before = t /\ pass'.tokens = tokens
      /\ pass'.snapshotted = snapshotted
  BY <1>3, <1>4 DEF Pass
<1>6. /\ stage' \in {"layers", "failed"}
      /\ stage' = "layers" => position + Len(tokens) <= MaxPosition
      /\ UNCHANGED <<layers, position, image>>
  BY <1>2, <1>3, TargetAssumption DEF BeginPass
<1>7. snapshotted => /\ arena' = Reserved(Len(tokens))
  BY DEF BeginPass
<1>8. \A slots \in Seq(Seq(Token)), rows \in Nat : Resized(slots, rows) \in Seq(Seq(Token))
  <2> SUFFICES ASSUME NEW slots \in Seq(Seq(Token)), NEW rows \in Nat
               PROVE  Resized(slots, rows) \in Seq(Seq(Token))
    OBVIOUS
  <2>1. \A r \in 1..rows : (IF r <= Len(slots) THEN slots[r] ELSE << >>) \in Seq(Token)
    OBVIOUS
  <2>2. Resized(slots, rows) \in [1..rows -> Seq(Token)]
    BY <2>1 DEF Resized
  <2> QED
    BY <2>2
<1>9. arena' \in Arena
  <2>1. arena \in Arena /\ position \in Nat
    BY DEF IInv, TypeOK
  <2>2. CASE ~snapshotted
    BY <2>1, <2>2 DEF BeginPass
  <2>3. CASE snapshotted
    <3>1. arena.slots \in [Layers -> Seq(Seq(Token))]
      BY <2>1 DEF Arena
    <3>2. << >> \in Seq(Seq(Token))
      OBVIOUS
    <3>3. [i \in Layers |-> IF Kind[i] = "linear" THEN Resized(arena.slots[i], Len(tokens))
                            ELSE << >>] \in [Layers -> Seq(Seq(Token))]
      BY <1>3, <1>8, <3>1, <3>2
    <3>4. [i \in Layers |-> 0] \in [Layers -> Nat]
      OBVIOUS
    <3> DEFINE slots == [i \in Layers |-> IF Kind[i] = "linear"
                                          THEN Resized(arena.slots[i], Len(tokens)) ELSE << >>]
               stored == [i \in Layers |-> 0]
    <3>5. arena' = [position |-> position, rows |-> Len(tokens), stored |-> stored, slots |-> slots]
      BY <1>7, <2>3 DEF Reserved
    <3>6. slots \in [Layers -> Seq(Seq(Token))] /\ stored \in [Layers -> Nat]
      BY <3>3, <3>4
    <3> HIDE DEF slots, stored
    <3> QED
      BY <1>3, <2>1, <3>5, <3>6 DEF Arena
  <2> QED
    BY <2>2, <2>3
<1>10. snapshotted => ArenaHolds(1)'
  <2> SUFFICES ASSUME snapshotted PROVE ArenaHolds(1)'
    OBVIOUS
  <2>1. /\ arena'.position = position /\ arena'.rows = Len(tokens)
        /\ arena'.stored = [i \in Layers |-> 0]
    BY <1>7 DEF Reserved
  <2>2. \A i \in Layers : arena'.stored[i] = 0 /\ ~(i < 1)
    BY <2>1, LayerNumbers
  <2> QED
    BY <1>2, <1>5, <2>1, <2>2 DEF ArenaHolds
<1>11. Partway(1, Len(pass.tokens))'
  <2>1. \A i \in Layers : ~(i < 1)
    BY LayerNumbers
  <2> QED
    BY <1>2, <1>5, <1>6, <2>1 DEF Partway
<1>12. TypeOK'
  BY <1>5, <1>6, <1>9 DEF IInv, TypeOK
<1>13. 1 \in 1..(Len(Kind) + 1)
  BY LayerNumbers
<1>14. Consistent'
  BY <1>1, <1>2, <1>5, <1>6, <1>10, <1>11, <1>13 DEF IInv, Consistent
<1> QED
  BY <1>2, <1>5, <1>12, <1>14 DEF IInv

\* One layer consumes the rows, and a linear one stores before each.
LEMMA LayerAdvances ==
  ASSUME IInv, stage = "layers", pass.next <= Len(Kind), LayerForward(pass.next),
         pass' = [pass EXCEPT !.next = @ + 1]
  PROVE  /\ layers' \in [Layers -> Seq(Token)] /\ arena' \in Arena /\ pass' \in Pass
         /\ pass'.tokens = pass.tokens /\ pass'.before = pass.before
         /\ pass'.snapshotted = pass.snapshotted
         /\ pass'.next \in 1..(Len(Kind) + 1)
         /\ Partway(pass.next, Len(pass.tokens))'
         /\ pass'.snapshotted => ArenaHolds(pass.next)'
<1> DEFINE b == pass.before
           t == pass.tokens
           n == pass.next
<1>1. /\ pass \in Pass /\ t \in Passes /\ n \in 1..(Len(Kind) + 1)
      /\ layers \in [Layers -> Seq(Token)] /\ arena \in Arena
      /\ Partway(n, Len(t)) /\ (pass.snapshotted => ArenaHolds(n))
  BY DEF IInv, TypeOK, Consistent
<1>2. t \in Seq(Token) /\ b \in Seq(Token) /\ Len(t) \in Nat \ {0} /\ Len(b) \in Nat
  BY <1>1, PassTokens
<1>3. n \in Layers /\ n \in Nat /\ n + 1 \in 1..(Len(Kind) + 1)
  BY <1>1, LayerNumbers
<1>4. /\ pass' \in Pass /\ pass'.tokens = t /\ pass'.before = b /\ pass'.next = n + 1
      /\ pass'.snapshotted = pass.snapshotted
  <2>1. pass' = [pass EXCEPT !.next = n + 1] /\ n + 1 \in Nat
    BY <1>3
  <2>2. pass \in Pass
    BY <1>1
  <2> HIDE DEF n
  <2> QED
    BY <2>1, <2>2 DEF Pass
<1>5. layers[n] = b
  <2>1. ~(n < n)
    BY <1>3
  <2> QED
    BY <1>1, <1>3, <2>1 DEF Partway
<1>6. layers' = [layers EXCEPT ![n] = b \o t]
  BY <1>5 DEF LayerForward, AttentionForward, DeltaForward
<1>7. b \o t \in Seq(Token) /\ SubSeq(t, 1, Len(t)) = t
  BY <1>2, WholePass, ConcatType
<1>8. \A i \in Layers : i \in Nat /\ (i < n + 1 <=> i < n \/ i = n)
  BY <1>3, LayerNumbers
<1>9. Partway(pass.next, Len(pass.tokens))'
  <2>1. \A i \in Layers : layers'[i] = IF i < n + 1 THEN b \o SubSeq(t, 1, Len(t)) ELSE b
    <3> SUFFICES ASSUME NEW i \in Layers
                 PROVE  layers'[i] = IF i < n + 1 THEN b \o SubSeq(t, 1, Len(t)) ELSE b
      OBVIOUS
    <3>1. layers[i] = IF i < n THEN b \o SubSeq(t, 1, Len(t)) ELSE b
      BY <1>1 DEF Partway
    <3>2. layers'[i] = IF i = n THEN b \o t ELSE layers[i]
      BY <1>1, <1>6
    <3> HIDE DEF b, t, n
    <3> QED
      BY <3>1, <3>2, <1>7, <1>8
  <2>2. layers' = [i \in Layers |-> layers'[i]]
    BY <1>1, <1>6
  <2> QED
    BY <1>4, <2>1, <2>2 DEF Partway
<1>10. layers' \in [Layers -> Seq(Token)]
  BY <1>1, <1>6, <1>7
<1>11. Snapshots(b, t) \in Seq(Seq(Token))
  <2>1. \A r \in 1..Len(t) : b \o SubSeq(t, 1, r - 1) \in Seq(Token)
    <3> SUFFICES ASSUME NEW r \in 1..Len(t) PROVE b \o SubSeq(t, 1, r - 1) \in Seq(Token)
      OBVIOUS
    <3>1. r - 1 \in 0..Len(t)
      BY <1>2
    <3> HIDE DEF b, t
    <3>2. SubSeq(t, 1, r - 1) \in Seq(Token)
      BY <1>2, <3>1, PrefixType
    <3> QED
      BY <1>2, <3>2, ConcatType
  <2>2. Snapshots(b, t) \in [1..Len(t) -> Seq(Token)]
    BY <2>1 DEF Snapshots
  <2>3. Len(t) \in Nat
    BY <1>2
  <2> HIDE DEF b, t
  <2> QED
    BY <2>2, <2>3
<1>12. arena' = IF pass.snapshotted /\ Kind[n] = "linear"
                THEN [arena EXCEPT !.slots[n] = Snapshots(b, t), !.stored[n] = Len(t)]
                ELSE arena
  BY <1>5, LayerNumbers DEF LayerForward, AttentionForward, DeltaForward, Stored
<1>13. arena' \in Arena
  <2>1. arena.slots \in [Layers -> Seq(Seq(Token))] /\ arena.stored \in [Layers -> Nat]
        /\ arena.position \in Nat /\ arena.rows \in Nat
    BY <1>1 DEF Arena
  <2>2. /\ [arena.slots EXCEPT ![n] = Snapshots(b, t)] \in [Layers -> Seq(Seq(Token))]
        /\ [arena.stored EXCEPT ![n] = Len(t)] \in [Layers -> Nat]
    BY <1>2, <1>3, <1>11, <2>1
  <2> HIDE DEF b, t, n
  <2> QED
    BY <1>1, <1>12, <2>1, <2>2 DEF Arena
<1>14. pass'.snapshotted => ArenaHolds(pass.next)'
  <2> SUFFICES ASSUME pass.snapshotted PROVE ArenaHolds(pass.next)'
    BY <1>4
  <2>1. ArenaHolds(n)
    BY <1>1
  <2>2. /\ arena'.position = arena.position /\ arena'.rows = arena.rows
        /\ \A i \in Layers :
             /\ arena'.stored[i] = IF Kind[n] = "linear" /\ i = n THEN Len(t) ELSE arena.stored[i]
             /\ arena'.slots[i] = IF Kind[n] = "linear" /\ i = n THEN Snapshots(b, t)
                                  ELSE arena.slots[i]
    BY <1>1, <1>3, <1>12 DEF Arena
  <2>3. arena'.position = Len(b) /\ arena'.rows = Len(t)
    BY <2>1, <2>2 DEF ArenaHolds
  <2>4. ASSUME NEW i \in Layers
        PROVE  IF Kind[i] = "linear" /\ i < n + 1
               THEN arena'.stored[i] = Len(t) /\ arena'.slots[i] = Snapshots(b, t)
               ELSE arena'.stored[i] = 0
    <3>1. IF Kind[i] = "linear" /\ i < n
          THEN arena.stored[i] = Len(t) /\ arena.slots[i] = Snapshots(b, t)
          ELSE arena.stored[i] = 0
      BY <2>1 DEF ArenaHolds
    <3> HIDE DEF b, t, n
    <3> QED
      BY <2>2, <3>1, <1>8
  <2> QED
    BY <1>4, <2>3, <2>4 DEF ArenaHolds
<1> QED
  BY <1>3, <1>4, <1>9, <1>10, <1>13, <1>14

(***************************************************************************)
(* The steps, and what they do to the text.                                *)
(***************************************************************************)

\* What PassesAreAtomic takes the text and the image to be.
Current == CASE stage = "idle" -> TextOf(layers, position)
             [] stage = "torn" -> Lost
             [] stage = "refused" -> NoText
             [] OTHER -> pass.before
Kept == IF image = NoImage THEN NoImage ELSE TextOf(image.layers, image.position)

\* While a pass is under way nothing of it shows.
LEMMA InPass ==
  ASSUME IInv, stage \in {"layers", "failed", "judge", "emit"}
  PROVE  /\ Current = pass.before /\ pass \in Pass /\ pass.tokens \in Passes
         /\ pass.before \in Seq(Token) /\ pass.before # Lost
         /\ pass.tokens \in Seq(Token) /\ Len(pass.tokens) \in Nat \ {0}
         /\ Len(pass.before) \in Nat
<1>1. pass \in Pass /\ pass.tokens \in Passes
  BY DEF IInv, TypeOK, Consistent
<1>2. Current = pass.before
  BY DEF Current
<1> QED
  BY <1>1, <1>2, PassTokens, TargetAssumption

LEMMA AtRest ==
  ASSUME IInv, stage = "idle"
  PROVE  IsWholeText(layers, position, Current) /\ Current \in Seq(Token) /\ Current # Lost
<1>1. PICK t \in Seq(Token) : IsWholeText(layers, position, t)
  BY DEF IInv, Consistent
<1>2. Current = t
  BY <1>1, TextOfWhole DEF Current
<1> QED
  BY <1>1, <1>2, TargetAssumption

\* A step that ends with every layer at one text.
LEMMA BecomesText ==
  ASSUME IInv, NEW t \in Seq(Token), layers' = [i \in Layers |-> t], position' = Len(t),
         arena' \in Arena, pass' \in Pass \cup {NoPass}, stage' = "idle", image' = image
  PROVE  IInv' /\ Current' = t /\ Kept' = Kept
<1>1. IsWholeText(layers, position, t)'
  BY DEF IsWholeText
<1>2. TextOf(layers, position)' = t
  BY <1>1, LayerNumbers DEF IsWholeText, TextOf
<1>3. layers' \in [Layers -> Seq(Token)] /\ position' \in Nat
  OBVIOUS
<1>4. TypeOK'
  BY <1>3 DEF IInv, TypeOK
<1>5. Consistent'
  BY <1>1 DEF IInv, Consistent
<1>6. Current' = t /\ Kept' = Kept
  BY <1>2 DEF Current, Kept, TextOf
<1> QED
  BY <1>4, <1>5, <1>6 DEF IInv

\* A step after which the state cannot be used.
LEMMA BecomesTorn ==
  ASSUME IInv, layers' \in [Layers -> Seq(Token)], position' = position, arena' = arena,
         pass' \in Pass \cup {NoPass}, stage' = "torn", image' = image
  PROVE  IInv' /\ Current' = Lost /\ Kept' = Kept
<1>1. TypeOK'
  BY DEF IInv, TypeOK
<1>2. Consistent'
  BY DEF IInv, Consistent
<1>3. Current' = Lost /\ Kept' = Kept
  BY DEF Current, Kept, TextOf
<1> QED
  BY <1>1, <1>2, <1>3 DEF IInv

LEMMA SameImage ==
  ASSUME IInv, image' = image
  PROVE  /\ (image # NoImage => \E t \in Seq(Token) : IsWholeText(image.layers, image.position, t))'
         /\ Kept' = Kept
BY DEF IInv, Consistent, Kept, TextOf, IsWholeText

LEMMA BeginPassMaps ==
  ASSUME IInv, NEW tokens \in Passes, NEW snapshotted \in BOOLEAN,
         BeginPass(tokens, snapshotted)
  PROVE  IInv' /\ Current' = Current /\ Kept' = Kept
<1>1. IInv' /\ pass'.before = TextOf(layers, position)
  BY BeginPassHolds
<1>2. stage = "idle" /\ stage' \in {"layers", "failed"} /\ image' = image
  BY DEF BeginPass
<1>3. Current = TextOf(layers, position) /\ Current' = pass'.before
  BY <1>2 DEF Current
<1> QED
  BY <1>1, <1>2, <1>3, SameImage

\* A layer that has run, or failed before or after its state moved.
LEMMA LayerMaps ==
  ASSUME IInv, RunLayer \/ LayerFails \/ LayerFailsLate
  PROVE  IInv' /\ Current' = Current /\ Kept' = Kept
<1>1. /\ stage = "layers" /\ pass.next <= Len(Kind) /\ stage' \in {"layers", "failed"}
      /\ position' = position /\ image' = image
  BY DEF RunLayer, LayerFails, LayerFailsLate
<1>2. /\ pass \in Pass /\ pass.tokens \in Passes /\ Current = pass.before
  BY <1>1, InPass
<1>3. CASE LayerFails
  <2>1. UNCHANGED <<layers, position, arena, pass, image>> /\ stage' = "failed"
    BY <1>3 DEF LayerFails
  <2>2. TypeOK'
    BY <1>2, <2>1 DEF IInv, TypeOK
  <2>3. Consistent'
    <3>1. Partway(pass.next, Len(pass.tokens))' <=> Partway(pass.next, Len(pass.tokens))
      BY <2>1 DEF Partway
    <3>2. ArenaHolds(pass.next)' <=> ArenaHolds(pass.next)
      BY <2>1 DEF ArenaHolds
    <3> QED
      BY <1>1, <2>1, <3>1, <3>2, SameImage DEF IInv, Consistent
  <2>4. Current' = Current
    BY <1>2, <2>1 DEF Current
  <2> QED
    BY <1>1, <2>2, <2>3, <2>4, SameImage DEF IInv
<1>4. CASE RunLayer \/ LayerFailsLate
  <2>1. LayerForward(pass.next) /\ pass' = [pass EXCEPT !.next = @ + 1]
    BY <1>4 DEF RunLayer, LayerFailsLate
  <2>2. /\ layers' \in [Layers -> Seq(Token)] /\ arena' \in Arena /\ pass' \in Pass
        /\ pass'.tokens = pass.tokens /\ pass'.before = pass.before
        /\ pass'.snapshotted = pass.snapshotted
        /\ pass'.next \in 1..(Len(Kind) + 1)
        /\ Partway(pass.next, Len(pass.tokens))'
        /\ pass'.snapshotted => ArenaHolds(pass.next)'
    BY <1>1, <2>1, LayerAdvances
  <2>3. TypeOK'
    BY <1>1, <2>2 DEF IInv, TypeOK
  <2>4. Consistent'
    BY <1>1, <1>2, <2>2, SameImage DEF IInv, Consistent
  <2>5. Current' = pass'.before
    BY <1>1 DEF Current
  <2> QED
    BY <1>1, <1>2, <2>2, <2>3, <2>4, <2>5, SameImage DEF IInv
<1> QED
  BY <1>3, <1>4

\* Some rows of the pass, kept at once.
KeepsRows ==
  /\ \E rows \in 1..Len(pass.tokens) : Current' = Current \o SubSeq(pass.tokens, 1, rows)
  /\ Len(Current) + Len(pass.tokens) <= MaxPosition
  /\ Kept' = Kept

\* The rows a rollback or an accepted pass leaves are a text.
LEMMA RowsAreText ==
  ASSUME IInv, stage \in {"layers", "failed", "judge", "emit"},
         NEW rows \in 0..Len(pass.tokens)
  PROVE  /\ pass.before \o SubSeq(pass.tokens, 1, rows) \in Seq(Token)
         /\ Len(pass.before \o SubSeq(pass.tokens, 1, rows)) = Len(pass.before) + rows
<1>1. pass.tokens \in Seq(Token) /\ pass.before \in Seq(Token)
  BY InPass
<1> DEFINE b == pass.before
           t == pass.tokens
<1>2. b \in Seq(Token) /\ t \in Seq(Token) /\ rows \in 0..Len(t)
  BY <1>1
<1> HIDE DEF b, t
<1>3. b \o SubSeq(t, 1, rows) \in Seq(Token) /\ Len(b \o SubSeq(t, 1, rows)) = Len(b) + rows
  <2>1. SubSeq(t, 1, rows) \in Seq(Token) /\ Len(SubSeq(t, 1, rows)) = rows
    BY <1>2, PrefixType
  <2> QED
    BY <1>2, <2>1, ConcatType
<1> QED
  BY <1>3 DEF b, t

\* Every layer past the last one: the whole state has consumed the rows.
LEMMA AllLayers ==
  ASSUME IInv, NEW rows, Partway(Len(Kind) + 1, rows)
  PROVE  layers = [i \in Layers |-> pass.before \o SubSeq(pass.tokens, 1, rows)]
<1>1. \A i \in Layers : i < Len(Kind) + 1
  BY LayerNumbers
<1> QED
  BY <1>1 DEF Partway

LEMMA EndPassMaps ==
  ASSUME IInv, EndPass
  PROVE  IInv' /\ ((Current' = Current /\ Kept' = Kept) \/ KeepsRows)
<1>1. /\ stage = "layers" /\ pass.next > Len(Kind)
      /\ layers' = layers /\ arena' = arena /\ image' = image
  BY DEF EndPass
<1>2. /\ Current = pass.before /\ pass \in Pass /\ pass.tokens \in Passes
      /\ Len(pass.tokens) \in Nat \ {0} /\ Len(pass.before) \in Nat
  BY <1>1, InPass
<1>3. /\ pass.next = Len(Kind) + 1 /\ position = Len(pass.before)
      /\ Partway(Len(Kind) + 1, Len(pass.tokens))
      /\ pass.snapshotted => ArenaHolds(Len(Kind) + 1)
      /\ Len(pass.before) + Len(pass.tokens) <= MaxPosition
  <2>1. /\ pass.next \in 1..(Len(Kind) + 1) /\ position = Len(pass.before)
        /\ Partway(pass.next, Len(pass.tokens))
        /\ pass.snapshotted => ArenaHolds(pass.next)
        /\ Len(pass.before) + Len(pass.tokens) <= MaxPosition
    BY <1>1 DEF IInv, Consistent
  <2>2. pass.next = Len(Kind) + 1
    BY <2>1, <1>1, LayerNumbers
  <2> QED
    BY <2>1, <2>2
<1>4. arena' \in Arena
  BY <1>1 DEF IInv, TypeOK
<1>5. CASE position' = position + Len(pass.tokens) /\ ~pass.snapshotted
           /\ stage' = "idle" /\ pass' = NoPass
  <2> DEFINE t == pass.before \o SubSeq(pass.tokens, 1, Len(pass.tokens))
  <2>1. Len(pass.tokens) \in 0..Len(pass.tokens) /\ Len(pass.tokens) \in 1..Len(pass.tokens)
    BY <1>2
  <2>2. t \in Seq(Token) /\ Len(t) = Len(pass.before) + Len(pass.tokens)
    BY <1>1, <2>1, RowsAreText
  <2>3. layers' = [i \in Layers |-> t] /\ position' = Len(t)
    BY <1>1, <1>3, <1>5, <2>2, AllLayers
  <2>4. IInv' /\ Current' = t /\ Kept' = Kept
    BY <1>1, <1>4, <1>5, <2>2, <2>3, BecomesText
  <2>5. KeepsRows
    BY <1>2, <1>3, <2>1, <2>4 DEF KeepsRows
  <2> QED
    BY <2>4, <2>5
<1>6. CASE position' = position + Len(pass.tokens) /\ pass.snapshotted
           /\ stage' = "judge" /\ pass' = pass
  <2>1. Partway(Len(Kind) + 1, Len(pass.tokens))' /\ ArenaHolds(Len(Kind) + 1)'
    BY <1>1, <1>3, <1>6 DEF Partway, ArenaHolds
  <2>2. TypeOK'
    BY <1>1, <1>2, <1>6 DEF IInv, TypeOK
  <2>3. Consistent'
    BY <1>1, <1>2, <1>3, <1>6, <2>1, SameImage DEF Consistent
  <2>4. Current' = pass.before
    BY <1>6 DEF Current
  <2> QED
    BY <1>1, <1>2, <2>2, <2>3, <2>4, SameImage DEF IInv
<1>7. CASE stage' = "failed" /\ UNCHANGED <<position, pass>>
  <2>1. Partway(Len(Kind) + 1, Len(pass.tokens))'
        /\ (pass.snapshotted => ArenaHolds(Len(Kind) + 1)')
    BY <1>1, <1>3, <1>7 DEF Partway, ArenaHolds
  <2>2. TypeOK'
    BY <1>1, <1>2, <1>7 DEF IInv, TypeOK
  <2>3. Len(Kind) + 1 \in 1..(Len(Kind) + 1)
    BY LayerNumbers
  <2>4. Consistent'
    BY <1>1, <1>2, <1>3, <1>7, <2>1, <2>3, SameImage DEF Consistent
  <2>5. Current' = pass.before
    BY <1>7 DEF Current
  <2> QED
    BY <1>1, <1>2, <2>2, <2>4, <2>5, SameImage DEF IInv
<1> QED
  BY <1>5, <1>6, <1>7 DEF EndPass

LEMMA PassFailedMaps ==
  ASSUME IInv, PassFailed
  PROVE  IInv' /\ Kept' = Kept /\ (Current' = Current \/ Current' = Lost)
<1>1. stage = "failed" /\ pass' = NoPass /\ arena' = arena /\ image' = image
  BY DEF PassFailed
<1>2. /\ Current = pass.before /\ pass \in Pass /\ pass.tokens \in Passes
      /\ pass.tokens \in Seq(Token) /\ pass.before \in Seq(Token)
      /\ Len(pass.tokens) \in Nat \ {0} /\ Len(pass.before) \in Nat
  BY <1>1, InPass
<1>3. arena \in Arena /\ TypeOK
  BY DEF IInv, TypeOK
<1>4. CASE pass.snapshotted
  <2>1. Rollback(0, "idle")
    BY <1>4 DEF PassFailed
  <2>2. /\ pass.next \in 1..(Len(Kind) + 1) /\ Partway(pass.next, Len(pass.tokens))
        /\ ArenaHolds(pass.next)
    BY <1>1, <1>4 DEF IInv, Consistent
  <2>3. Len(pass.tokens) \in 0..Len(pass.tokens) /\ 0 \in 0..Len(pass.tokens)
        /\ 0 < Len(pass.tokens)
    BY <1>2
  <2>4. /\ layers' = [i \in Layers |-> pass.before \o SubSeq(pass.tokens, 1, 0)]
        /\ position' = Len(pass.before) + 0 /\ stage' = "idle"
    BY <1>2, <1>3, <2>1, <2>2, <2>3, RollbackExact
  <2>5. pass.before \o SubSeq(pass.tokens, 1, 0) = pass.before
    <3> DEFINE b == pass.before
               t == pass.tokens
    <3>1. b \in Seq(Token) /\ t \in Seq(Token)
      BY <1>2
    <3> HIDE DEF b, t
    <3>2. b \o SubSeq(t, 1, 0) = b
      BY <3>1, WholePass
    <3> QED
      BY <3>2 DEF b, t
  <2>6. layers' = [i \in Layers |-> pass.before] /\ position' = Len(pass.before)
    BY <1>2, <2>4, <2>5
  <2>7. IInv' /\ Current' = pass.before /\ Kept' = Kept
    BY <1>1, <1>2, <1>3, <2>4, <2>6, BecomesText
  <2> QED
    BY <1>2, <2>7
<1>5. CASE ~pass.snapshotted
  <2>1. stage' = "torn" /\ layers' = layers /\ position' = position
    BY <1>5 DEF PassFailed
  <2>2. layers' \in [Layers -> Seq(Token)]
    BY <1>3, <2>1 DEF TypeOK
  <2> QED
    BY <1>1, <2>1, <2>2, BecomesTorn
<1> QED
  BY <1>4, <1>5

LEMMA JudgeMaps ==
  ASSUME IInv, Judge
  PROVE  IInv' /\ Current' = Current /\ Kept' = Kept
<1>1. stage = "judge" /\ arena' = arena /\ image' = image
  BY DEF Judge
<1>2. /\ Current = pass.before /\ pass \in Pass /\ pass.tokens \in Passes
      /\ Len(pass.tokens) \in Nat \ {0} /\ Len(pass.before) \in Nat
  BY <1>1, InPass
<1>3. /\ pass.snapshotted /\ ArenaHolds(Len(Kind) + 1)
      /\ position = Len(pass.before) + Len(pass.tokens)
      /\ Partway(Len(Kind) + 1, Len(pass.tokens))
      /\ Len(pass.before) + Len(pass.tokens) <= MaxPosition
      /\ TypeOK
  BY <1>1 DEF IInv, Consistent
<1>4. PICK accepted \in 0..(Len(pass.tokens) - 1) :
        /\ pass' = [pass EXCEPT !.committed = 1 + accepted]
        /\ IF 1 + accepted = Len(pass.tokens)
           THEN stage' = "emit" /\ UNCHANGED <<layers, position>>
           ELSE Rollback(1 + accepted, "emit")
  BY DEF Judge
<1> DEFINE c == 1 + accepted
<1>5. c \in 1..Len(pass.tokens) /\ c \in Nat /\ c \in 0..Len(pass.tokens)
  BY <1>2
<1>6. /\ pass' \in Pass /\ pass'.tokens = pass.tokens /\ pass'.before = pass.before
      /\ pass'.snapshotted = pass.snapshotted /\ pass'.committed = c
  <2>1. pass' = [pass EXCEPT !.committed = c]
    BY <1>4
  <2> HIDE DEF c
  <2> QED
    BY <2>1, <1>2, <1>5 DEF Pass
<1>7. /\ layers' = [i \in Layers |-> pass.before \o SubSeq(pass.tokens, 1, c)]
      /\ position' = Len(pass.before) + c /\ stage' = "emit"
  <2>1. CASE c = Len(pass.tokens)
    <3>1. stage' = "emit" /\ layers' = layers /\ position' = position
      BY <1>4, <2>1
    <3>2. layers = [i \in Layers |-> pass.before \o SubSeq(pass.tokens, 1, Len(pass.tokens))]
      BY <1>3, AllLayers
    <3> HIDE DEF c
    <3> QED
      BY <1>3, <2>1, <3>1, <3>2
  <2>2. CASE c # Len(pass.tokens)
    <3>1. Rollback(c, "emit")
      BY <1>4, <2>2
    <3>2. c < Len(pass.tokens) /\ Len(pass.tokens) \in 0..Len(pass.tokens)
          /\ Len(Kind) + 1 \in 1..(Len(Kind) + 1) /\ ~(Len(Kind) + 1 <= Len(Kind))
      BY <1>2, <1>5, <2>2, LayerNumbers
    <3> HIDE DEF c
    <3> QED
      BY <1>2, <1>3, <1>5, <3>1, <3>2, RollbackExact
  <2> QED
    BY <2>1, <2>2
<1>8. Partway(Len(Kind) + 1, c)'
  <2>1. \A i \in Layers : i < Len(Kind) + 1
    BY LayerNumbers
  <2>2. layers' = [i \in Layers |-> IF i < Len(Kind) + 1
                     THEN pass'.before \o SubSeq(pass'.tokens, 1, c) ELSE pass'.before]
    BY <1>6, <1>7, <2>1
  <2> QED
    BY <2>2, <1>5 DEF Partway
<1>9. ArenaHolds(Len(Kind) + 1)'
  BY <1>1, <1>3, <1>6 DEF ArenaHolds
<1>10. layers' \in [Layers -> Seq(Token)] /\ position' \in Nat
  <2>1. pass.before \o SubSeq(pass.tokens, 1, c) \in Seq(Token)
    BY <1>1, <1>5, RowsAreText
  <2> HIDE DEF c
  <2> QED
    BY <1>2, <1>5, <1>7, <2>1
<1>11. TypeOK'
  BY <1>1, <1>3, <1>6, <1>7, <1>10 DEF TypeOK
<1>12. Consistent'
  <2> HIDE DEF c
  <2>1. Partway(Len(Kind) + 1, pass.committed)'
    BY <1>6, <1>8 DEF Partway
  <2> QED
    BY <1>1, <1>2, <1>3, <1>5, <1>6, <1>7, <1>9, <2>1, SameImage DEF Consistent
<1>13. Current' = pass'.before
  BY <1>7 DEF Current
<1> QED
  BY <1>1, <1>2, <1>6, <1>11, <1>12, <1>13, SameImage DEF IInv

\* The outputs are delivered, or cannot be read; or the callback halts and the
\* rows past the halt are taken back.
LEMMA PassEnds ==
  ASSUME IInv, JudgeFails \/ Delivered \/ Halted
  PROVE  IInv' /\ KeepsRows
<1>1. /\ stage \in {"judge", "emit"} /\ pass' = NoPass /\ arena' = arena /\ image' = image
  BY DEF JudgeFails, Delivered, Halted
<1>2. /\ Current = pass.before /\ pass \in Pass /\ pass.tokens \in Passes
      /\ Len(pass.tokens) \in Nat \ {0} /\ Len(pass.before) \in Nat
  BY <1>1, InPass
<1>3. /\ ArenaHolds(Len(Kind) + 1) /\ TypeOK /\ arena \in Arena
      /\ Len(pass.before) + Len(pass.tokens) <= MaxPosition
      /\ stage = "judge" => /\ position = Len(pass.before) + Len(pass.tokens)
                            /\ Partway(Len(Kind) + 1, Len(pass.tokens))
      /\ stage = "emit" => /\ pass.committed \in 1..Len(pass.tokens)
                           /\ position = Len(pass.before) + pass.committed
                           /\ Partway(Len(Kind) + 1, pass.committed)
  BY <1>1 DEF IInv, Consistent, TypeOK
<1>4. \E rows \in 1..Len(pass.tokens) :
        /\ layers' = [i \in Layers |-> pass.before \o SubSeq(pass.tokens, 1, rows)]
        /\ position' = Len(pass.before) + rows /\ stage' = "idle"
  <2>1. CASE JudgeFails
    <3>1. stage = "judge" /\ layers' = layers /\ position' = position /\ stage' = "idle"
      BY <2>1 DEF JudgeFails
    <3>2. Len(pass.tokens) \in 1..Len(pass.tokens)
      BY <1>2
    <3>3. layers = [i \in Layers |-> pass.before \o SubSeq(pass.tokens, 1, Len(pass.tokens))]
      BY <1>3, <3>1, AllLayers
    <3> QED
      BY <1>3, <3>1, <3>2, <3>3
  <2>2. CASE Delivered
    <3>1. stage = "emit" /\ layers' = layers /\ position' = position /\ stage' = "idle"
      BY <2>2 DEF Delivered
    <3>2. layers = [i \in Layers |-> pass.before \o SubSeq(pass.tokens, 1, pass.committed)]
      BY <1>3, <3>1, AllLayers
    <3> QED
      BY <1>3, <3>1, <3>2
  <2>3. CASE Halted
    <3>1. PICK output \in 0..(pass.committed - 2) : Rollback(1 + output, "idle")
      BY <2>3 DEF Halted
    <3>2. stage = "emit"
      BY <2>3 DEF Halted
    <3> DEFINE k == 1 + output
               c == pass.committed
    <3>3. /\ c \in 1..Len(pass.tokens) /\ c \in 0..Len(pass.tokens) /\ k \in 0..c
          /\ k \in 1..Len(pass.tokens) /\ k < Len(pass.tokens)
      BY <1>2, <1>3, <3>2
    <3>4. Partway(Len(Kind) + 1, c) /\ Rollback(k, "idle")
      BY <1>3, <3>1, <3>2
    <3>5. Len(Kind) + 1 \in 1..(Len(Kind) + 1) /\ ~(Len(Kind) + 1 <= Len(Kind))
      BY LayerNumbers
    <3> HIDE DEF k, c
    <3>6. /\ layers' = [i \in Layers |-> pass.before \o SubSeq(pass.tokens, 1, k)]
          /\ position' = Len(pass.before) + k /\ stage' = "idle"
      BY <1>2, <1>3, <3>3, <3>4, <3>5, RollbackExact
    <3> QED
      BY <3>3, <3>6
  <2> QED
    BY <2>1, <2>2, <2>3
<1>5. PICK rows \in 1..Len(pass.tokens) :
        /\ layers' = [i \in Layers |-> pass.before \o SubSeq(pass.tokens, 1, rows)]
        /\ position' = Len(pass.before) + rows /\ stage' = "idle"
  BY <1>4
<1> DEFINE t == pass.before \o SubSeq(pass.tokens, 1, rows)
<1>6. rows \in 0..Len(pass.tokens)
  BY <1>2
<1>7. t \in Seq(Token) /\ Len(t) = Len(pass.before) + rows
  BY <1>1, <1>6, RowsAreText
<1>8. IInv' /\ Current' = t /\ Kept' = Kept
  BY <1>1, <1>3, <1>5, <1>7, BecomesText
<1> QED
  BY <1>2, <1>3, <1>5, <1>8 DEF KeepsRows

LEMMA SaveMaps ==
  ASSUME IInv, Save
  PROVE  IInv' /\ Current' = Current /\ Kept' = Current /\ Current # Lost
<1>1. /\ stage = "idle" /\ image' = [layers |-> layers, position |-> position]
      /\ UNCHANGED <<layers, position, arena, pass, stage>>
  BY DEF Save
<1>2. IsWholeText(layers, position, Current) /\ Current \in Seq(Token) /\ Current # Lost
  BY <1>1, AtRest
<1>3. /\ layers \in [Layers -> Seq(Token)] /\ position \in Nat
      /\ image' \in [layers : [Layers -> Seq(Token)], position : Nat]
  BY <1>1 DEF IInv, TypeOK
<1>4. image' # NoImage
  BY <1>3, TargetAssumption DEF Layers
<1>5. image'.layers = layers /\ image'.position = position
  BY <1>1
<1>6. TypeOK'
  BY <1>1, <1>3 DEF IInv, TypeOK
<1>7. IsWholeText(image.layers, image.position, Current)'
  BY <1>1, <1>2, <1>5 DEF IsWholeText, Current, TextOf
<1>8. Consistent'
  <2>1. IsWholeText(layers, position, Current)'
    BY <1>1, <1>2 DEF IsWholeText, Current, TextOf
  <2>2. Current' \in Seq(Token)
    BY <1>7 DEF IsWholeText
  <2> QED
    BY <1>1, <1>7, <2>1, <2>2 DEF Consistent
<1>9. Current' = Current
  BY <1>1 DEF Current, TextOf
<1>10. Kept' = TextOf(layers, position)
  BY <1>4, <1>5 DEF Kept, TextOf
<1>11. Current = TextOf(layers, position)
  BY <1>1 DEF Current
<1> QED
  BY <1>2, <1>6, <1>8, <1>9, <1>10, <1>11 DEF IInv

LEMMA RestoreMaps ==
  ASSUME IInv, RestoreImage
  PROVE  IInv' /\ Current' = Kept /\ Kept' = Kept /\ Kept # NoImage
<1>1. /\ image # NoImage /\ layers' = image.layers /\ position' = image.position
      /\ stage' = "idle" /\ UNCHANGED <<arena, pass, image>>
  BY DEF RestoreImage
<1>2. PICK t \in Seq(Token) : IsWholeText(image.layers, image.position, t)
  BY <1>1 DEF IInv, Consistent
<1>3. Kept = t
  BY <1>1, <1>2, TextOfWhole DEF Kept
<1>4. layers' = [i \in Layers |-> t] /\ position' = Len(t)
  BY <1>1, <1>2 DEF IsWholeText
<1>5. arena' \in Arena /\ pass' \in Pass \cup {NoPass}
  BY <1>1 DEF IInv, TypeOK
<1>6. IInv' /\ Current' = t /\ Kept' = Kept
  BY <1>1, <1>4, <1>5, BecomesText
<1>7. t # NoImage
  BY TargetAssumption
<1> QED
  BY <1>3, <1>6, <1>7

LEMMA StartsOver ==
  ASSUME IInv, Reset \/ Restart
  PROVE  IInv' /\ Current' = << >> /\ Kept' = Kept
<1>1. /\ layers' = [i \in Layers |-> << >>] /\ position' = 0 /\ stage' = "idle"
      /\ image' = image /\ arena' \in {arena, NewArena} /\ pass' \in {pass, NoPass}
  BY DEF Reset, Restart, NewState
<1>2. << >> \in Seq(Token) /\ Len(<< >>) = 0 /\ << >> \in Seq(Seq(Token))
  OBVIOUS
<1>3. NewArena \in Arena
  BY <1>2 DEF NewArena, Arena
<1>4. arena' \in Arena /\ pass' \in Pass \cup {NoPass}
  BY <1>1, <1>3 DEF IInv, TypeOK
<1> QED
  BY <1>1, <1>2, <1>4, BecomesText

LEMMA RestoreFailsMaps ==
  ASSUME IInv, NEW other \in Foreign, NEW i \in Layers, RestoreFails(other, i)
  PROVE  IInv' /\ Current' = Lost /\ Kept' = Kept
<1>1. /\ layers' = [j \in Layers |-> IF j < i THEN other ELSE layers[j]]
      /\ stage' = "torn" /\ UNCHANGED <<position, arena, pass, image>>
  BY DEF RestoreFails
<1>2. other \in Seq(Token) /\ layers \in [Layers -> Seq(Token)] /\ pass \in Pass \cup {NoPass}
  BY TargetAssumption DEF IInv, TypeOK
<1>3. layers' \in [Layers -> Seq(Token)] /\ pass' \in Pass \cup {NoPass}
  BY <1>1, <1>2
<1> QED
  BY <1>1, <1>3, BecomesTorn

\* What a step may do to the text, and nothing else.
TextStep ==
  \/ Current' = Current /\ Kept' = Kept
  \/ Current # Lost /\ pass.tokens \in Passes /\ KeepsRows
  \/ Current' = Lost /\ Kept' = Kept
  \/ Current' = << >> /\ Kept' = Kept
  \/ Current # Lost /\ Current' = Current /\ Kept' = Current
  \/ Kept # NoImage /\ Current' = Kept /\ Kept' = Kept

LEMMA StepHolds == IInv /\ [Next]_vars => IInv' /\ TextStep
<1> SUFFICES ASSUME IInv, [Next]_vars PROVE IInv' /\ TextStep
  OBVIOUS
<1>1. ASSUME NEW tokens \in Passes, NEW snapshotted \in BOOLEAN, BeginPass(tokens, snapshotted)
      PROVE  IInv' /\ TextStep
  BY <1>1, BeginPassMaps DEF TextStep
<1>2. CASE RunLayer \/ LayerFails \/ LayerFailsLate
  BY <1>2, LayerMaps DEF TextStep
<1>3. CASE EndPass
  <2>1. Current # Lost /\ pass.tokens \in Passes
    BY <1>3, InPass DEF EndPass
  <2> QED
    BY <1>3, <2>1, EndPassMaps DEF TextStep
<1>4. CASE PassFailed
  BY <1>4, PassFailedMaps DEF TextStep
<1>5. CASE Judge
  BY <1>5, JudgeMaps DEF TextStep
<1>6. CASE JudgeFails \/ Delivered \/ Halted
  <2>1. Current # Lost /\ pass.tokens \in Passes
    BY <1>6, InPass DEF JudgeFails, Delivered, Halted
  <2> QED
    BY <1>6, <2>1, PassEnds DEF TextStep
<1>7. CASE Save
  BY <1>7, SaveMaps DEF TextStep
<1>8. CASE RestoreImage
  BY <1>8, RestoreMaps DEF TextStep
<1>9. CASE Reset \/ Restart
  BY <1>9, StartsOver DEF TextStep
<1>10. ASSUME NEW other \in Foreign, NEW i \in Layers, RestoreFails(other, i)
       PROVE  IInv' /\ TextStep
  BY <1>10, RestoreFailsMaps DEF TextStep
<1>11. CASE UNCHANGED vars
  <2>1. TypeOK'
    BY <1>11 DEF vars, IInv, TypeOK
  <2>2. Consistent'
    BY <1>11 DEF vars, IInv, Consistent, IsWholeText, Partway, ArenaHolds
  <2>3. Current' = Current /\ Kept' = Kept
    BY <1>11 DEF vars, Current, Kept, TextOf
  <2> QED
    BY <2>1, <2>2, <2>3 DEF IInv, TextStep
<1> QED
  BY <1>1, <1>2, <1>3, <1>4, <1>5, <1>6, <1>7, <1>8, <1>9, <1>10, <1>11 DEF Next

\* The layers' states have their types and no rollback is ever refused, for
\* every model and every sequence of passes (QuantizedModelState::rollback).
THEOREM RollbacksSucceed == Spec => []TypeOK
<1>1. Init => IInv
  BY InitHolds
<1>2. IInv /\ [Next]_vars => IInv'
  BY StepHolds
<1>3. IInv => TypeOK
  BY DEF IInv
<1> QED
  BY <1>1, <1>2, <1>3, PTL DEF Spec

\* The layer-by-layer state implements the text evaluated: a pass is kept up
\* to a row, in every layer alike, or leaves no trace (forward_inner,
\* rollback, restore_image).
THEOREM StateIsText == Spec => PassesAreAtomic
<1>1. Init => Text!Init
  <2> SUFFICES ASSUME Init PROVE Text!Init
    OBVIOUS
  <2>1. << >> \in Seq(Token) /\ Len(<< >>) = 0
    OBVIOUS
  <2>2. IsWholeText(layers, position, << >>)
    BY <2>1 DEF Init, NewState, IsWholeText
  <2>3. TextOf(layers, position) = << >>
    BY <2>2, TextOfWhole
  <2> QED
    BY <2>3 DEF Init, Text!Init
<1>2. IInv /\ [Next]_vars => [Text!Next]_Text!vars
  <2> SUFFICES ASSUME IInv, [Next]_vars PROVE [Text!Next]_Text!vars
    OBVIOUS
  <2>1. TextStep
    BY StepHolds
  <2>2. CASE Current' = Current /\ Kept' = Kept
    BY <2>2 DEF Text!vars, Current, Kept
  <2>3. CASE Current # Lost /\ pass.tokens \in Passes /\ KeepsRows
    <3>1. Text!Commit
      BY <2>3 DEF KeepsRows, Text!Commit, Current, Kept
    <3> QED
      BY <3>1 DEF Text!Next
  <2>4. CASE Current' = Lost /\ Kept' = Kept
    BY <2>4 DEF Text!Next, Text!Lose, Current, Kept
  <2>5. CASE Current' = << >> /\ Kept' = Kept
    BY <2>5 DEF Text!Next, Text!Reset, Current, Kept
  <2>6. CASE Current # Lost /\ Current' = Current /\ Kept' = Current
    BY <2>6 DEF Text!Next, Text!Save, Current, Kept
  <2>7. CASE Kept # NoImage /\ Current' = Kept /\ Kept' = Kept
    BY <2>7 DEF Text!Next, Text!Load, Current, Kept
  <2> QED
    BY <2>1, <2>2, <2>3, <2>4, <2>5, <2>6, <2>7 DEF TextStep
<1>3. Init => IInv
  BY InitHolds
<1>4. IInv /\ [Next]_vars => IInv'
  BY StepHolds
<1> QED
  BY <1>1, <1>2, <1>3, <1>4, PTL DEF Spec, PassesAreAtomic, Text!Spec

(***************************************************************************)
(* The routed experts and their cache.                                     *)
(***************************************************************************)

\* Every key there is.
AllKeys == {Key(l, part, e) : l \in MoeLayers, part \in {"gate", "up", "down", "pair"}, e \in Experts}
\* A record of the queue.
Records == [key : AllKeys, access : Nat]
\* What an entry may hold.
Entries == [matrix : Seq(AllKeys), access : Nat]

\* The fields of a cache have their types.
Shape(c) ==
  /\ c = [capacity |-> c.capacity, resident |-> c.resident, clock |-> c.clock,
          entries |-> c.entries, lru |-> c.lru, full |-> c.full]
  /\ c.capacity \in Nat /\ c.resident \in Nat /\ c.clock \in Nat /\ c.full \in BOOLEAN
  /\ c.lru \in Seq(Records)
  /\ DOMAIN c.entries \subseteq AllKeys
  /\ c.entries \in [DOMAIN c.entries -> Entries]
\* Every entry is the matrix of its key.
Faithful(c) == \A k \in DOMAIN c.entries : c.entries[k].matrix = Contents(k)
\* No two entries were accessed at the same tick of the clock.
Stamped(c) ==
  /\ \A k \in DOMAIN c.entries : c.entries[k].access \in 1..c.clock
  /\ \A k, m \in DOMAIN c.entries : c.entries[k].access = c.entries[m].access => k = m
\* The bytes are counted and within the capacity.
Fits(c) ==
  c.resident = EntryBytes(c, DOMAIN c.entries) /\ c.resident <= c.capacity
\* The records stand in the order of their accesses.
Queued(c) ==
  /\ \A i \in DOMAIN c.lru : c.lru[i].access <= c.clock
  /\ \A i, j \in DOMAIN c.lru : i < j => c.lru[i].access < c.lru[j].access
\* Each entry has a record of its latest access.
Covered(c) ==
  \A k \in DOMAIN c.entries : \E i \in DOMAIN c.lru :
    c.lru[i] = [key |-> k, access |-> c.entries[k].access]
\* The queue is in proportion to the entries.
Proportionate(c) == Len(c.lru) <= 4 * Cardinality(DOMAIN c.entries) + Slack
\* A cache as an operation needs it, and as one leaves it.
Orderly(c) == Shape(c) /\ Faithful(c) /\ Stamped(c) /\ Fits(c) /\ Queued(c)
\* In a sound cache the queue is in proportion too.
Sound(c) == Orderly(c) /\ Proportionate(c)

\* The first keys of the plan.
Planned(n) == {WarmAllPlan[i] : i \in 1..n}
\* The keys that fusing leaves alone.
Downs == {Key(l, "down", e) : l \in MoeLayers, e \in Experts}
\* The keys of a cache in which the layers below n are fused.
FusedKeys(n) ==
  {Key(l, part, e) : l \in 0..(n - 1), part \in {"pair", "down"}, e \in Experts}
  \cup {Key(l, part, e) : l \in n..DecoderLayers, part \in {"gate", "up", "down"}, e \in Experts}

\* A start that pins has loaded the keys the plan no longer has, without an eviction.
Warming == \E n \in 0..Len(WarmAllPlan) :
  /\ plan = SubSeq(WarmAllPlan, n + 1, Len(WarmAllPlan))
  /\ DOMAIN cache.entries = Planned(n)
  /\ Len(cache.lru) = Cardinality(DOMAIN cache.entries)
  /\ n > 0 => TotalBytes <= cache.capacity
  /\ cache.capacity > 0
\* It has fused the layers the plan no longer has.
Fusing == \E n \in 0..(DecoderLayers + 1) :
  /\ plan = [i \in 1..(DecoderLayers + 1 - n) |-> n + i - 1]
  /\ DOMAIN cache.entries = FusedKeys(n)
  /\ Len(cache.lru) <= 3 * Cardinality(Downs)
  /\ cache.capacity > 0
\* What it has pinned no worker ever misses.
Pinned ==
  /\ cache.full /\ cache.capacity > 0
  /\ DOMAIN cache.entries = FusedKeys(DecoderLayers + 1)
  /\ \A g \in DOMAIN worker : worker[g].at \in {"lookup", "done"}

\* What the cache holds in each phase.
Residency ==
  /\ phase \in {"warm", "fuse"} => DOMAIN worker = {}
  /\ cache.full => pinning /\ phase \in {"serve", "experts"}
  /\ phase # "fuse" /\ ~cache.full => Covered(cache)
  /\ phase = "fuse" => pinning
  /\ ~pinning /\ phase = "warm" => plan \in Seq(AllKeys)
  /\ pinning /\ phase = "warm" => Warming
  /\ pinning /\ phase = "fuse" => Fusing
  /\ pinning /\ phase \in {"serve", "experts"} => Pinned
  /\ phase \in {"warm", "fuse", "serve", "experts", "stopped"} /\ pinning \in BOOLEAN

\* What each worker has got so far is its group's expert's.
GroupKey(g, part) == Key(layer, part, Groups[g].expert)
\* A worker's matrices are those its part says it has.
WorkerHas(g) ==
  /\ worker[g].at \in {"lookup", "read", "insert", "failed", "done"}
  /\ worker[g].part \in {"pair", "down"}
  /\ worker[g].part = "down" => worker[g].pair = Contents(GroupKey(g, "pair"))
  /\ worker[g].at = "done" =>
       worker[g].part = "down" /\ worker[g].down = Contents(GroupKey(g, "down"))
\* The workers are the forward's groups, at work on one of the layers.
Working ==
  /\ layer \in MoeLayers
  /\ routes \in Seq(RouterPicks)
  /\ DOMAIN worker = DOMAIN Groups
  /\ \A g \in DOMAIN worker : WorkerHas(g)
  /\ worker = [g \in DOMAIN worker |-> [part |-> worker[g].part, at |-> worker[g].at,
                                        pair |-> worker[g].pair, down |-> worker[g].down]]
  /\ phase = "experts" => result = NoResult

\* The sequence holds every member of the set, once, by rank.
LEMMA InOrderIs ==
  ASSUME NEW S, IsFiniteSet(S), NEW rank, \A x \in S : rank[x] \in Nat,
         \A x, y \in S : rank[x] = rank[y] => x = y
  PROVE  /\ InOrder(S, rank) \in Seq(S) /\ Len(InOrder(S, rank)) = Cardinality(S)
         /\ Cardinality(S) \in Nat
         /\ \A x \in S : \E i \in 1..Cardinality(S) : InOrder(S, rank)[i] = x
         /\ \A i, j \in 1..Cardinality(S) :
              i < j => rank[InOrder(S, rank)[i]] < rank[InOrder(S, rank)[j]]
<1>1. PICK below : below = [x \in S |-> {y \in S : rank[y] <= rank[x]}]
  OBVIOUS
<1>2. PICK N : N = Cardinality(S) /\ N \in Nat
  BY FS_CardinalityType
<1>3. PICK place : place = [x \in S |-> Cardinality({y \in S : rank[y] <= rank[x]})]
  OBVIOUS
<1>4. ASSUME NEW x \in S
      PROVE  below[x] \in SUBSET S /\ IsFiniteSet(below[x]) /\ place[x] = Cardinality(below[x]) /\ place[x] \in 1..N
  <2>1. below[x] = {y \in S : rank[y] <= rank[x]} /\ below[x] \in SUBSET S
    BY <1>1
  <2>2. place[x] = Cardinality(below[x])
    BY <1>3, <2>1
  <2>3. IsFiniteSet(below[x]) /\ Cardinality(below[x]) <= N
    BY <1>2, <2>1, FS_Subset
  <2>4. x \in below[x]
    BY <2>1
  <2>5. Cardinality(below[x]) \in Nat /\ Cardinality(below[x]) # 0
    BY <2>3, <2>4, FS_EmptySet, FS_CardinalityType
  <2> QED BY <1>2, <2>1, <2>2, <2>3, <2>5
<1>5. ASSUME NEW x \in S, NEW y \in S, rank[x] < rank[y] PROVE place[x] < place[y]
  <2>1. below[x] \subseteq below[y]
    BY <1>1, <1>5
  <2>2. y \in below[y] /\ y \notin below[x]
    BY <1>1, <1>5
  <2>3. below[x] \in SUBSET below[y] /\ below[x] # below[y] /\ IsFiniteSet(below[y])
    BY <1>4, <2>1, <2>2
  <2>4. Cardinality(below[x]) <= Cardinality(below[y]) /\ Cardinality(below[y]) # Cardinality(below[x])
    BY <2>3, FS_Subset
  <2> QED BY <1>4, <2>4
<1>6. place \in Injection(S, 1..N)
  <2>1. place \in [S -> 1..N]
    BY <1>3, <1>4
  <2>2. ASSUME NEW x \in S, NEW y \in S, place[x] = place[y] PROVE x = y
    <3>1. rank[x] \in Nat /\ rank[y] \in Nat /\ place[x] \in Nat /\ place[y] \in Nat
      BY <1>4
    <3>2. ~(rank[x] < rank[y]) /\ ~(rank[y] < rank[x])
      BY <1>5, <2>2, <3>1
    <3> QED BY <3>1, <3>2
  <2> QED BY <2>1, <2>2 DEF Injection, IsInjective
<1>7. \A n \in 1..N : \E x \in S : place[x] = n
  <2>1. IsFiniteSet(1..N) /\ Cardinality(1..N) = N
    BY <1>2, FS_Interval
  <2>2. place \in Surjection(S, 1..N)
    BY <1>2, <1>6, <2>1, FS_Injection
  <2> QED BY <2>2 DEF Surjection
<1>8. PICK q : q = InOrder(S, rank)
  OBVIOUS
<1>9. q = [n \in 1..N |-> CHOOSE x \in S : Cardinality({y \in S : rank[y] <= rank[x]}) = n]
  BY <1>2, <1>8 DEF InOrder
<1>10. ASSUME NEW n \in 1..N PROVE q[n] \in S /\ place[q[n]] = n
  <2>1. q[n] = CHOOSE x \in S : Cardinality({y \in S : rank[y] <= rank[x]}) = n
    BY <1>9
  <2>2. \E x \in S : Cardinality({y \in S : rank[y] <= rank[x]}) = n
    BY <1>3, <1>7
  <2>3. q[n] \in S /\ Cardinality({y \in S : rank[y] <= rank[q[n]]}) = n
    BY <2>1, <2>2
  <2> QED BY <1>3, <2>3
<1>11. q \in Seq(S) /\ Len(q) = N
  <2>1. q \in [1..N -> S]
    <3> DEFINE at(n) == CHOOSE x \in S : Cardinality({y \in S : rank[y] <= rank[x]}) = n
    <3>1. q = [n \in 1..N |-> at(n)]
      BY <1>9
    <3>2. \A n \in 1..N : at(n) \in S
      <4>1. \A n \in 1..N : q[n] = at(n)
        BY <3>1
      <4> HIDE DEF at
      <4> QED BY <1>10, <4>1
    <3> HIDE DEF at
    <3> QED BY <3>1, <3>2
  <2> QED BY <1>2, <2>1
<1>12. \A x \in S : \E i \in 1..N : q[i] = x
  <2> SUFFICES ASSUME NEW x \in S PROVE \E i \in 1..N : q[i] = x
    OBVIOUS
  <2>1. place[x] \in 1..N
    BY <1>4
  <2>2. q[place[x]] \in S /\ place[q[place[x]]] = place[x]
    BY <1>10, <2>1
  <2>3. q[place[x]] = x
    BY <1>6, <2>2 DEF Injection, IsInjective
  <2> QED BY <2>1, <2>3
<1>13. \A i, j \in 1..N : i < j => rank[q[i]] < rank[q[j]]
  <2> SUFFICES ASSUME NEW i \in 1..N, NEW j \in 1..N, i < j PROVE rank[q[i]] < rank[q[j]]
    OBVIOUS
  <2>1. q[i] \in S /\ q[j] \in S /\ place[q[i]] = i /\ place[q[j]] = j
    BY <1>10
  <2>2. rank[q[i]] \in Nat /\ rank[q[j]] \in Nat
    BY <2>1
  <2>3. ~(rank[q[j]] < rank[q[i]])
    BY <1>5, <2>1
  <2>4. rank[q[i]] # rank[q[j]]
    BY <2>1
  <2> QED BY <2>2, <2>3, <2>4
<1> QED BY <1>2, <1>8, <1>11, <1>12, <1>13

(***************************************************************************)
(* Bytes.                                                                  *)
(***************************************************************************)
LEMMA StorageIsTotal ==
  ASSUME NEW m, NEW F, F = [i \in DOMAIN m |-> Size[m[i].part]], IsFiniteSet(DOMAIN m), \A i \in DOMAIN m : F[i] \in Nat
  PROVE  StorageBytes(m) = Total(F, DOMAIN m)
<1>1. PICK D : D = DOMAIN m
  OBVIOUS
<1>2. PICK h : AddsUp(h, F, D) /\ Total(F, D) = h[D]
  BY <1>1, TotalIs
<1>3. \A s \in SUBSET D : s # {} => F[Chosen(s)] = Size[m[Chosen(s)].part]
  BY <1>1, ChosenIn
<1>4. h = [s \in SUBSET D |-> IF s = {} THEN 0 ELSE Size[m[Chosen(s)].part] + h[s \ {Chosen(s)}]]
  BY <1>2, <1>3 DEF AddsUp
<1>5. PICK g : g = CHOOSE k : k = [s \in SUBSET D |-> IF s = {} THEN 0 ELSE Size[m[Chosen(s)].part] + k[s \ {Chosen(s)}]]
  OBVIOUS
<1>6. g = [s \in SUBSET D |-> IF s = {} THEN 0 ELSE Size[m[Chosen(s)].part] + g[s \ {Chosen(s)}]]
  BY <1>4, <1>5
<1>7. AddsUp(g, F, D)
  BY <1>3, <1>6 DEF AddsUp
<1>8. StorageBytes(m) = g[D]
  BY <1>1, <1>5, Zenon DEF StorageBytes, MapThenSumSet, MapThenFoldSet, Chosen
<1>9. g[D] = h[D]
  <2>1. D \in SUBSET D /\ IsFiniteSet(D)
    BY <1>1
  <2> QED BY ONLY <2>1, <1>2, <1>7, AddsUpAgree
<1> QED BY <1>1, <1>2, <1>8, <1>9

\* The bytes of some entries are the sum of what each one stores.
LEMMA EntryBytesAreTotal ==
  ASSUME NEW c, NEW K, IsFiniteSet(K), NEW F, \A k \in K : F[k] \in Nat /\ StorageBytes(c.entries[k].matrix) = F[k]
  PROVE  EntryBytes(c, K) = Total(F, K)
<1>1. PICK h : AddsUp(h, F, K) /\ Total(F, K) = h[K]
  BY TotalIs
<1>3. \A s \in SUBSET K : s # {} => F[Chosen(s)] = StorageBytes(c.entries[Chosen(s)].matrix)
  BY ChosenIn
<1>4. h = [s \in SUBSET K |-> IF s = {} THEN 0 ELSE StorageBytes(c.entries[Chosen(s)].matrix) + h[s \ {Chosen(s)}]]
  BY <1>1, <1>3 DEF AddsUp
<1>5. PICK g : g = CHOOSE k : k = [s \in SUBSET K |-> IF s = {} THEN 0 ELSE StorageBytes(c.entries[Chosen(s)].matrix) + k[s \ {Chosen(s)}]]
  OBVIOUS
<1>6. g = [s \in SUBSET K |-> IF s = {} THEN 0 ELSE StorageBytes(c.entries[Chosen(s)].matrix) + g[s \ {Chosen(s)}]]
  BY <1>4, <1>5
<1>7. AddsUp(g, F, K)
  BY <1>3, <1>6 DEF AddsUp
<1>8. EntryBytes(c, K) = g[K]
  BY <1>5, Zenon DEF EntryBytes, MapThenSumSet, MapThenFoldSet, Chosen
<1>9. g[K] = h[K]
  <2>1. K \in SUBSET K /\ IsFiniteSet(K)
    OBVIOUS
  <2> QED BY ONLY <2>1, <1>1, <1>7, AddsUpAgree
<1> QED BY <1>1, <1>8, <1>9

\* What a key may name: a tensor, or gate and up as a pair.
Parts == {"gate", "up", "down", "pair"}

\* The bytes a key's matrix takes.
Weight == [k \in AllKeys |-> IF k.part = "pair" THEN Size["gate"] + Size["up"] ELSE Size[k.part]]

\* A key is told by its three fields.
LEMMA KeyFields ==
  \A l, part, e : /\ Key(l, part, e).layer = l /\ Key(l, part, e).part = part
                  /\ Key(l, part, e).expert = e
BY DEF Key

\* The keys of the model, and their fields.
LEMMA KeyIsKey ==
  /\ \A l \in MoeLayers, part \in Parts, e \in Experts : Key(l, part, e) \in AllKeys
  /\ \A k \in AllKeys : /\ k.layer \in MoeLayers /\ k.part \in Parts /\ k.expert \in Experts
                        /\ k = Key(k.layer, k.part, k.expert)
BY KeyFields DEF AllKeys, Parts

\* The model has finitely many keys.
LEMMA AllKeysFinite == IsFiniteSet(AllKeys)
<1>1. DecoderLayers \in Nat /\ ExpertCount \in Nat
  BY MoeAssumption
<1>2. IsFiniteSet(MoeLayers) /\ IsFiniteSet(Experts)
  BY <1>1, FS_Interval DEF MoeLayers, Experts
<1>3. IsFiniteSet(Parts)
  <2>1. IsFiniteSet({"gate"})
    BY FS_Singleton
  <2>2. IsFiniteSet({"gate"} \cup {"up"})
    BY <2>1, FS_AddElement
  <2>3. IsFiniteSet(({"gate"} \cup {"up"}) \cup {"down"})
    BY <2>2, FS_AddElement
  <2>4. IsFiniteSet((({"gate"} \cup {"up"}) \cup {"down"}) \cup {"pair"})
    BY <2>3, FS_AddElement
  <2>5. Parts = (({"gate"} \cup {"up"}) \cup {"down"}) \cup {"pair"}
    BY DEF Parts
  <2> QED BY <2>4, <2>5
<1>4. PICK D : D = (MoeLayers \X Parts) \X Experts
  OBVIOUS
<1>5. IsFiniteSet(D)
  BY <1>2, <1>3, <1>4, FS_Product
<1>6. PICK f : f = [t \in D |-> Key(t[1][1], t[1][2], t[2])]
  OBVIOUS
<1>7. \A t \in D : f[t] \in AllKeys
  BY <1>4, <1>6, KeyIsKey
<1>8. \A k \in AllKeys : \E t \in D : f[t] = k
  <2> SUFFICES ASSUME NEW k \in AllKeys PROVE \E t \in D : f[t] = k
    OBVIOUS
  <2>1. << <<k.layer, k.part>>, k.expert>> \in D
    BY <1>4, KeyIsKey
  <2>2. f[<< <<k.layer, k.part>>, k.expert>>] = Key(k.layer, k.part, k.expert)
    BY <1>6, <2>1
  <2> QED BY <2>1, <2>2, KeyIsKey
<1>9. f \in Surjection(D, AllKeys)
  BY <1>6, <1>7, <1>8 DEF Surjection
<1> QED BY <1>5, <1>9, FS_Surjection

\* So has every part of it.
LEMMA KeysFinite ==
  ASSUME NEW K \in SUBSET AllKeys
  PROVE  IsFiniteSet(K) /\ Cardinality(K) \in Nat
BY AllKeysFinite, FS_Subset, FS_CardinalityType

\* No matrix is empty.
LEMMA WeightType == \A k \in AllKeys : Weight[k] \in Nat /\ Weight[k] > 0
<1>1. Size["gate"] \in Nat \ {0} /\ Size["up"] \in Nat \ {0} /\ Size["down"] \in Nat \ {0}
  BY CacheAssumption
<1>2. \A k \in AllKeys : k.part \in {"gate", "up", "down", "pair"}
  BY KeyIsKey DEF Parts
<1> QED BY <1>1, <1>2 DEF Weight

\* What the file holds for a key takes the bytes the key weighs.
LEMMA ContentsBytes ==
  ASSUME NEW k \in AllKeys
  PROVE  Contents(k) \in Seq(AllKeys) /\ StorageBytes(Contents(k)) = Weight[k]
<1>1. PICK m : m = Contents(k)
  OBVIOUS
<1>2. PICK F : F = [i \in DOMAIN m |-> Size[m[i].part]]
  OBVIOUS
<1>3. Size["gate"] \in Nat /\ Size["up"] \in Nat /\ Size["down"] \in Nat
  BY CacheAssumption
<1>4. CASE k.part = "pair"
  <2>1. m = <<Key(k.layer, "gate", k.expert), Key(k.layer, "up", k.expert)>>
    BY <1>1, <1>4 DEF Contents
  <2>2. m \in Seq(AllKeys) /\ DOMAIN m = {1, 2}
    BY <2>1, KeyIsKey DEF Parts
  <2>3. m[1].part = "gate" /\ m[2].part = "up"
    BY <2>1, KeyFields
  <2>4. F[1] = Size["gate"] /\ F[2] = Size["up"]
    BY <1>2, <2>2, <2>3
  <2>5. IsFiniteSet({2}) /\ IsFiniteSet({}) /\ {1, 2} = {2} \cup {1} /\ {2} = {} \cup {2}
    BY FS_Singleton, FS_EmptySet
  <2>6. IsFiniteSet({1, 2})
    BY <2>5, FS_AddElement
  <2>7. Total(F, {}) = 0
    BY <2>5, TotalByChosen
  <2>8. Total(F, {} \cup {2}) = F[2] + Total(F, {})
    BY <1>3, <2>4, <2>5, TotalAdd
  <2>9. Total(F, {2} \cup {1}) = F[1] + Total(F, {2})
    <3>1. (\A x \in {2} : F[x] \in Nat) /\ 1 \notin {2} /\ F[1] \in Nat
      BY <1>3, <2>4
    <3> QED BY <2>5, <3>1, TotalAdd
  <2>10. StorageBytes(m) = Total(F, {1, 2})
    <3>1. \A i \in DOMAIN m : F[i] \in Nat
      BY <1>3, <2>2, <2>4
    <3>2. StorageBytes(m) = Total(F, DOMAIN m)
      BY <1>2, <2>2, <2>6, <3>1, StorageIsTotal
    <3> QED BY <2>2, <3>2
  <2>11. StorageBytes(m) = Size["gate"] + Size["up"]
    <3>1. Total(F, {2}) = F[2] + 0
      BY <2>5, <2>7, <2>8
    <3>2. Total(F, {1, 2}) = F[1] + Total(F, {2})
      BY <2>5, <2>9
    <3>3. F[1] + (F[2] + 0) = Size["gate"] + Size["up"]
      BY <1>3, <2>4
    <3> QED BY <2>10, <3>1, <3>2, <3>3
  <2> QED BY <1>1, <1>4, <2>2, <2>11 DEF Weight
<1>5. CASE k.part # "pair"
  <2>1. m = <<k>>
    BY <1>1, <1>5 DEF Contents
  <2>2. m \in Seq(AllKeys) /\ DOMAIN m = {1} /\ m[1] = k
    BY <2>1
  <2>3. k.part \in {"gate", "up", "down"}
    BY <1>5, KeyIsKey DEF Parts
  <2>4. F[1] = Size[k.part] /\ F[1] \in Nat
    BY <1>2, <1>3, <2>2, <2>3
  <2>5. IsFiniteSet({1}) /\ IsFiniteSet({}) /\ {1} = {} \cup {1}
    BY FS_Singleton, FS_EmptySet
  <2>6. Total(F, {}) = 0
    BY <2>5, TotalByChosen
  <2>7. Total(F, {} \cup {1}) = F[1] + Total(F, {})
    BY <2>4, <2>5, TotalAdd
  <2>8. StorageBytes(m) = Total(F, DOMAIN m)
    <3>1. \A i \in DOMAIN m : F[i] \in Nat
      BY <2>2, <2>4
    <3> QED BY <1>2, <2>2, <2>5, <3>1, StorageIsTotal
  <2>9. StorageBytes(m) = Size[k.part]
    BY <2>2, <2>4, <2>5, <2>6, <2>7, <2>8
  <2> QED BY <1>1, <1>5, <2>2, <2>9 DEF Weight
<1> QED BY <1>4, <1>5

\* In a faithful cache the bytes of some entries are the weights of their keys.
LEMMA CacheBytes ==
  ASSUME NEW c, DOMAIN c.entries \subseteq AllKeys, Faithful(c), NEW K \in SUBSET (DOMAIN c.entries)
  PROVE  EntryBytes(c, K) = Total(Weight, K) /\ Total(Weight, K) \in Nat
<1>1. K \in SUBSET AllKeys /\ IsFiniteSet(K)
  BY KeysFinite
<1>2. ASSUME NEW k \in K PROVE Weight[k] \in Nat /\ StorageBytes(c.entries[k].matrix) = Weight[k]
  <2>1. c.entries[k].matrix = Contents(k) /\ k \in AllKeys
    BY <1>1 DEF Faithful
  <2> QED BY <2>1, ContentsBytes, WeightType
<1>3. EntryBytes(c, K) = Total(Weight, K)
  BY <1>1, <1>2, EntryBytesAreTotal
<1>4. Total(Weight, K) \in Nat
  BY <1>1, <1>2, TotalNat
<1> QED BY <1>3, <1>4

(***************************************************************************)
(* The recency queue.                                                      *)
(***************************************************************************)
LEMMA ByAccessIs ==
  ASSUME NEW c, Shape(c), Stamped(c)
  PROVE  LET q == ByAccess(c.entries)
         IN  /\ q \in Seq(Records) /\ Len(q) = Cardinality(DOMAIN c.entries)
             /\ \A k \in DOMAIN c.entries : \E i \in DOMAIN q : q[i] = [key |-> k, access |-> c.entries[k].access]
             /\ \A i \in DOMAIN q : q[i].access <= c.clock
             /\ \A i, j \in DOMAIN q : i < j => q[i].access < q[j].access
<1>1. PICK D : D = DOMAIN c.entries
  OBVIOUS
<1>2. PICK S : S = {[key |-> k, access |-> c.entries[k].access] : k \in DOMAIN c.entries}
  OBVIOUS
<1>3. PICK rank : rank = [r \in S |-> r.access]
  OBVIOUS
<1>4. PICK q : q = InOrder(S, rank)
  OBVIOUS
<1>5. q = ByAccess(c.entries)
  BY <1>2, <1>3, <1>4 DEF ByAccess
<1>6. D \in SUBSET AllKeys /\ IsFiniteSet(D) /\ \A k \in D : c.entries[k].access \in 1..c.clock /\ c.clock \in Nat
  BY <1>1, KeysFinite DEF Shape, Stamped
<1>7. \A r \in S : r \in Records /\ r.access \in 1..c.clock /\ rank[r] = r.access /\ r.key \in D /\ r = [key |-> r.key, access |-> c.entries[r.key].access]
  BY <1>1, <1>2, <1>3, <1>6 DEF Records
<1>8. PICK f : f = [k \in D |-> [key |-> k, access |-> c.entries[k].access]]
  OBVIOUS
<1>9. f \in Bijection(D, S)
  <2>1. f \in [D -> S] /\ \A r \in S : \E k \in D : f[k] = r
    BY <1>1, <1>2, <1>8
  <2>2. \A j, k \in D : f[j] = f[k] => j = k
    BY <1>8
  <2> QED BY <2>1, <2>2 DEF Bijection, Injection, Surjection, IsInjective
<1>10. IsFiniteSet(S) /\ Cardinality(S) = Cardinality(D)
  BY <1>6, <1>9, FS_Bijection DEF ExistsBijection
<1>11. \A r \in S : rank[r] \in Nat
  BY <1>6, <1>7
<1>12. \A r, s \in S : rank[r] = rank[s] => r = s
  <2> SUFFICES ASSUME NEW r \in S, NEW s \in S, rank[r] = rank[s] PROVE r = s
    OBVIOUS
  <2>1. r.key \in D /\ s.key \in D /\ c.entries[r.key].access = c.entries[s.key].access
    BY <1>7
  <2>2. r.key = s.key
    BY <1>1, <2>1 DEF Stamped
  <2> QED BY <1>7, <2>2
<1>13. /\ q \in Seq(S) /\ Len(q) = Cardinality(S) /\ Cardinality(S) \in Nat
       /\ \A x \in S : \E i \in 1..Cardinality(S) : q[i] = x
       /\ \A i, j \in 1..Cardinality(S) : i < j => rank[q[i]] < rank[q[j]]
  BY <1>4, <1>10, <1>11, <1>12, InOrderIs
<1>14. DOMAIN q = 1..Cardinality(S) /\ \A i \in DOMAIN q : q[i] \in S
  BY <1>13
<1>15. q \in Seq(Records)
  BY <1>7, <1>13
<1>16. \A k \in D : \E i \in DOMAIN q : q[i] = [key |-> k, access |-> c.entries[k].access]
  BY <1>1, <1>2, <1>13, <1>14
<1>17. \A i \in DOMAIN q : q[i].access <= c.clock
  BY <1>6, <1>7, <1>14
<1>18. \A i, j \in DOMAIN q : i < j => q[i].access < q[j].access
  BY <1>7, <1>13, <1>14
<1> QED BY <1>1, <1>5, <1>10, <1>13, <1>15, <1>16, <1>17, <1>18

\* An operation leaves the configured capacity and the pin as they were.
SameSetup(r, c) == r.capacity = c.capacity /\ r.full = c.full

\* The queue is a sequence of records.
LEMMA QueueRecords ==
  ASSUME NEW c, Shape(c)
  PROVE  /\ \A i \in DOMAIN c.lru : /\ c.lru[i] \in Records /\ c.lru[i].access \in Nat
                                    /\ c.lru[i].key \in AllKeys
         /\ Len(c.lru) \in Nat /\ DOMAIN c.lru = 1..Len(c.lru)
<1>1. c.lru \in Seq(Records)
  BY DEF Shape
<1>2. Len(c.lru) \in Nat /\ DOMAIN c.lru = 1..Len(c.lru) /\ \A i \in DOMAIN c.lru : c.lru[i] \in Records
  BY <1>1
<1>3. \A r \in Records : r.access \in Nat /\ r.key \in AllKeys
  BY DEF Records
<1> QED BY <1>2, <1>3

\* Compaction leaves each entry its record and the queue in proportion.
LEMMA CompactIs ==
  ASSUME NEW c, Orderly(c), Covered(c), NEW r, r = CompactLruIfNeeded(c)
  PROVE  /\ Sound(r) /\ Covered(r) /\ r.entries = c.entries /\ SameSetup(r, c)
         /\ r.clock = c.clock /\ r.resident = c.resident
         /\ Proportionate(c) => r = c
<1>1. CASE Len(c.lru) <= 4 * Cardinality(DOMAIN c.entries) + Slack
  <2>1. r = c
    BY <1>1 DEF CompactLruIfNeeded
  <2> QED BY <1>1, <2>1 DEF Sound, Proportionate, SameSetup
<1>2. CASE ~(Len(c.lru) <= 4 * Cardinality(DOMAIN c.entries) + Slack)
  <2>1. PICK q : q = ByAccess(c.entries)
    OBVIOUS
  <2>2. r = [c EXCEPT !.lru = q]
    BY <1>2, <2>1 DEF CompactLruIfNeeded
  <2>3. r = [capacity |-> c.capacity, resident |-> c.resident, clock |-> c.clock,
             entries |-> c.entries, lru |-> q, full |-> c.full]
    BY <2>2 DEF Orderly, Shape
  <2>4. /\ q \in Seq(Records) /\ Len(q) = Cardinality(DOMAIN c.entries)
        /\ \A k \in DOMAIN c.entries : \E i \in DOMAIN q : q[i] = [key |-> k, access |-> c.entries[k].access]
        /\ \A i \in DOMAIN q : q[i].access <= c.clock
        /\ \A i, j \in DOMAIN q : i < j => q[i].access < q[j].access
    BY <2>1, ByAccessIs DEF Orderly
  <2>5. /\ r.capacity = c.capacity /\ r.resident = c.resident /\ r.clock = c.clock
        /\ r.entries = c.entries /\ r.lru = q /\ r.full = c.full
    BY <2>3
  <2>6. Shape(r)
    BY <2>3, <2>4, <2>5 DEF Orderly, Shape
  <2>7. Faithful(r) /\ Stamped(r) /\ Queued(r) /\ Covered(r)
    BY <2>4, <2>5 DEF Orderly, Faithful, Stamped, Queued, Covered
  <2>8. Fits(r)
    <3>1. EntryBytes(r, DOMAIN r.entries) = EntryBytes(c, DOMAIN c.entries)
      <4>1. DOMAIN c.entries \subseteq AllKeys /\ Faithful(c) /\ DOMAIN c.entries \in SUBSET (DOMAIN c.entries)
        BY DEF Orderly, Shape
      <4>2. EntryBytes(c, DOMAIN c.entries) = Total(Weight, DOMAIN c.entries)
        BY <4>1, CacheBytes
      <4>3. EntryBytes(r, DOMAIN r.entries) = Total(Weight, DOMAIN r.entries)
        BY <2>5, <2>7, <4>1, CacheBytes
      <4> QED BY <2>5, <4>2, <4>3
    <3> QED BY <2>5, <3>1 DEF Orderly, Fits
  <2>9. Proportionate(r)
    <3>1. Cardinality(DOMAIN c.entries) \in Nat /\ Slack \in Nat
      BY KeysFinite, CacheAssumption DEF Orderly, Shape
    <3> QED BY <2>4, <2>5, <3>1 DEF Proportionate
  <2>10. ~Proportionate(c)
    BY <1>2 DEF Proportionate
  <2> QED BY <2>5, <2>6, <2>7, <2>8, <2>9, <2>10 DEF Sound, Orderly, SameSetup
<1> QED BY <1>1, <1>2

\* How much an orderly cache holds.
LEMMA Holding ==
  ASSUME NEW c, Orderly(c), NEW K \in SUBSET (DOMAIN c.entries)
  PROVE  /\ EntryBytes(c, K) = Total(Weight, K) /\ Total(Weight, K) \in Nat
         /\ c.resident = Total(Weight, DOMAIN c.entries)
         /\ c.resident = Total(Weight, K) + Total(Weight, (DOMAIN c.entries) \ K)
         /\ Total(Weight, (DOMAIN c.entries) \ K) \in Nat
<1>1. PICK D : D = DOMAIN c.entries
  OBVIOUS
<1>2. D \subseteq AllKeys /\ Faithful(c) /\ IsFiniteSet(D) /\ \A k \in D : Weight[k] \in Nat
  BY <1>1, KeysFinite, WeightType DEF Orderly, Shape
<1>3. EntryBytes(c, K) = Total(Weight, K) /\ EntryBytes(c, D) = Total(Weight, D)
  BY <1>1, <1>2, CacheBytes
<1>4. c.resident = Total(Weight, D)
  BY <1>1, <1>3 DEF Orderly, Fits
<1>5. /\ Total(Weight, D) = Total(Weight, K) + Total(Weight, D \ K)
      /\ Total(Weight, K) \in Nat /\ Total(Weight, D \ K) \in Nat
  BY <1>1, <1>2, TotalPart
<1> QED BY <1>1, <1>3, <1>4, <1>5

\* Only the bytes of what is held count.
LEMMA FitsFromTotal ==
  ASSUME NEW r, DOMAIN r.entries \subseteq AllKeys, Faithful(r),
         r.resident = Total(Weight, DOMAIN r.entries), r.resident <= r.capacity
  PROVE  Fits(r)
<1>1. EntryBytes(r, DOMAIN r.entries) = Total(Weight, DOMAIN r.entries)
  BY CacheBytes
<1> QED BY <1>1 DEF Fits

\* A lookup keeps a sound cache sound, moves no entry, and leaves a pinned one alone.
LEMMA AfterGetIs ==
  ASSUME NEW c, Sound(c), ~c.full => Covered(c), NEW key \in AllKeys, NEW r, r = AfterGet(c, key)
  PROVE  /\ Sound(r) /\ (~c.full => Covered(r)) /\ SameSetup(r, c)
         /\ DOMAIN r.entries = DOMAIN c.entries
         /\ c.full => r = c
         /\ key \notin DOMAIN c.entries => r.lru = c.lru /\ r.resident = c.resident
<1>1. CASE c.capacity = 0 \/ c.full
  <2>1. r = c
    BY <1>1 DEF AfterGet
  <2> QED BY <2>1 DEF SameSetup
<1>2. CASE ~(c.capacity = 0 \/ c.full) /\ ~Holds(c, key)
  <2>1. r = [c EXCEPT !.clock = c.clock + 1]
    BY <1>2 DEF AfterGet
  <2>2. r = [capacity |-> c.capacity, resident |-> c.resident, clock |-> c.clock + 1,
             entries |-> c.entries, lru |-> c.lru, full |-> c.full]
    BY <2>1 DEF Sound, Orderly, Shape
  <2>3. /\ r.capacity = c.capacity /\ r.resident = c.resident /\ r.clock = c.clock + 1
        /\ r.entries = c.entries /\ r.lru = c.lru /\ r.full = c.full
    BY <2>2
  <2>4. Shape(r)
    BY <2>2, <2>3 DEF Sound, Orderly, Shape
  <2>5. Faithful(r) /\ Covered(r) /\ Proportionate(r)
    BY <1>2, <2>3 DEF Sound, Orderly, Faithful, Covered, Proportionate
  <2>6. Stamped(r)
    <3>1. c.clock \in Nat
      BY DEF Sound, Orderly, Shape
    <3> QED BY <2>3, <3>1 DEF Sound, Orderly, Stamped
  <2>7. Queued(r)
    <3>1. c.clock \in Nat /\ \A i \in DOMAIN c.lru : c.lru[i].access \in Nat
      BY QueueRecords DEF Sound, Orderly, Shape
    <3> QED BY <2>3, <3>1 DEF Sound, Orderly, Queued
  <2>8. Fits(r)
    <3>1. DOMAIN c.entries \in SUBSET (DOMAIN c.entries) /\ Orderly(c)
      BY DEF Sound
    <3>2. c.resident = Total(Weight, DOMAIN c.entries) /\ c.resident <= c.capacity /\ DOMAIN c.entries \subseteq AllKeys
      BY <3>1, Holding DEF Orderly, Fits, Shape
    <3> QED BY <2>3, <2>5, <3>2, FitsFromTotal
  <2> QED BY <1>2, <2>3, <2>4, <2>5, <2>6, <2>7, <2>8 DEF Sound, Orderly, SameSetup
<1>3. CASE ~(c.capacity = 0 \/ c.full) /\ Holds(c, key)
  <2>1. PICK now : now = c.clock + 1
    OBVIOUS
  <2>2. PICK s : s = [c EXCEPT !.clock = now, !.entries[key].access = now,
                               !.lru = Append(@, [key |-> key, access |-> now])]
    OBVIOUS
  <2>3. r = CompactLruIfNeeded(s)
    BY <1>3, <2>1, <2>2 DEF AfterGet
  <2>4. key \in DOMAIN c.entries /\ c.clock \in Nat /\ now \in Nat /\ c.clock < now
    BY <1>3, <2>1 DEF Holds, Sound, Orderly, Shape
  <2>5. PICK ent : ent = [c.entries EXCEPT ![key].access = now]
    OBVIOUS
  <2>6. PICK q : q = Append(c.lru, [key |-> key, access |-> now])
    OBVIOUS
  <2>7. s = [capacity |-> c.capacity, resident |-> c.resident, clock |-> now,
             entries |-> ent, lru |-> q, full |-> c.full]
    <3>1. c = [capacity |-> c.capacity, resident |-> c.resident, clock |-> c.clock,
               entries |-> c.entries, lru |-> c.lru, full |-> c.full]
      BY DEF Sound, Orderly, Shape
    <3> QED BY <2>2, <2>5, <2>6, <3>1
  <2>8. /\ s.capacity = c.capacity /\ s.resident = c.resident /\ s.clock = now
        /\ s.entries = ent /\ s.lru = q /\ s.full = c.full
    BY <2>7
  <2>9. /\ DOMAIN ent = DOMAIN c.entries
        /\ \A k \in DOMAIN c.entries : /\ ent[k] \in Entries /\ ent[k].matrix = c.entries[k].matrix
                                       /\ ent[k].access = IF k = key THEN now ELSE c.entries[k].access
        /\ ent \in [DOMAIN c.entries -> Entries]
    <3>1. \A k \in DOMAIN c.entries : c.entries[k] \in Entries
      BY DEF Sound, Orderly, Shape
    <3>2. DOMAIN ent = DOMAIN c.entries /\ \A k \in DOMAIN c.entries : k # key => ent[k] = c.entries[k]
      BY <2>5
    <3>3. ent[key] = [c.entries[key] EXCEPT !.access = now]
      BY <2>4, <2>5
    <3>4. ent[key] \in Entries /\ ent[key].matrix = c.entries[key].matrix /\ ent[key].access = now
      BY <2>4, <3>1, <3>3 DEF Entries
    <3>5. \A k \in DOMAIN c.entries : /\ ent[k] \in Entries /\ ent[k].matrix = c.entries[k].matrix
                                       /\ ent[k].access = IF k = key THEN now ELSE c.entries[k].access
      BY <3>1, <3>2, <3>4
    <3>6. ent = [k \in DOMAIN c.entries |-> ent[k]]
      BY <2>5
    <3> QED BY <3>2, <3>5, <3>6
  <2>10. /\ q \in Seq(Records) /\ Len(q) = Len(c.lru) + 1 /\ Len(c.lru) \in Nat
         /\ q[Len(c.lru) + 1] = [key |-> key, access |-> now]
         /\ \A i \in DOMAIN c.lru : q[i] = c.lru[i]
         /\ DOMAIN q = 1..(Len(c.lru) + 1) /\ DOMAIN c.lru = 1..Len(c.lru)
    <3>1. c.lru \in Seq(Records) /\ [key |-> key, access |-> now] \in Records
      BY <2>4 DEF Sound, Orderly, Shape, Records
    <3> QED BY <2>6, <3>1
  <2>11. Shape(s)
    BY <2>4, <2>7, <2>8, <2>9, <2>10 DEF Sound, Orderly, Shape
  <2>12. Faithful(s)
    BY <2>8, <2>9 DEF Sound, Orderly, Faithful
  <2>13. Stamped(s)
    <3>1. \A k \in DOMAIN c.entries : c.entries[k].access \in 1..c.clock
      BY DEF Sound, Orderly, Stamped
    <3>2. \A k \in DOMAIN ent : ent[k].access \in 1..now
      BY <2>4, <2>9, <3>1
    <3>3. \A k, m \in DOMAIN ent : ent[k].access = ent[m].access => k = m
      <4>1. \A k, m \in DOMAIN c.entries : c.entries[k].access = c.entries[m].access => k = m
        BY DEF Sound, Orderly, Stamped
      <4>2. \A k \in DOMAIN c.entries : c.entries[k].access # now
        BY <2>4, <3>1
      <4> QED BY <2>9, <4>1, <4>2
    <3> QED BY <2>8, <3>2, <3>3 DEF Stamped
  <2>14. Queued(s)
    <3>1. \A i \in DOMAIN c.lru : c.lru[i].access <= c.clock /\ c.lru[i].access \in Nat
      BY QueueRecords DEF Sound, Orderly, Queued
    <3>2. \A i, j \in DOMAIN c.lru : i < j => c.lru[i].access < c.lru[j].access
      BY DEF Sound, Orderly, Queued
    <3>3. \A i \in DOMAIN q : q[i].access <= now
      BY <2>4, <2>10, <3>1
    <3>4. \A i, j \in DOMAIN q : i < j => q[i].access < q[j].access
      <4> SUFFICES ASSUME NEW i \in DOMAIN q, NEW j \in DOMAIN q, i < j PROVE q[i].access < q[j].access
        OBVIOUS
      <4>1. i \in DOMAIN c.lru /\ q[i] = c.lru[i]
        BY <2>10
      <4>2. CASE j \in DOMAIN c.lru
        BY <2>10, <3>2, <4>1, <4>2
      <4>3. CASE j = Len(c.lru) + 1
        <5>1. q[j].access = now
          BY <2>10, <4>3
        <5> QED BY <2>4, <3>1, <4>1, <5>1
      <4> QED BY <2>10, <4>2, <4>3
    <3> QED BY <2>8, <3>3, <3>4 DEF Queued
  <2>15. Fits(s)
    <3>1. DOMAIN c.entries \in SUBSET (DOMAIN c.entries) /\ Orderly(c)
      BY DEF Sound
    <3>2. c.resident = Total(Weight, DOMAIN c.entries) /\ c.resident <= c.capacity /\ DOMAIN c.entries \subseteq AllKeys
      BY <3>1, Holding DEF Orderly, Fits, Shape
    <3> QED BY <2>8, <2>9, <2>12, <3>2, FitsFromTotal
  <2>16. Covered(s)
    <3>1. \A k \in DOMAIN c.entries : \E i \in DOMAIN c.lru : c.lru[i] = [key |-> k, access |-> c.entries[k].access]
      BY <1>3 DEF Covered
    <3>2. ASSUME NEW k \in DOMAIN ent PROVE \E i \in DOMAIN q : q[i] = [key |-> k, access |-> ent[k].access]
      <4>1. CASE k = key
        BY <2>4, <2>9, <2>10, <4>1
      <4>2. CASE k # key
        BY <2>9, <2>10, <3>1, <4>2
      <4> QED BY <4>1, <4>2
    <3> QED BY <2>8, <3>2 DEF Covered
  <2>17. /\ Sound(r) /\ Covered(r) /\ r.entries = s.entries /\ SameSetup(r, s)
    BY <2>3, <2>11, <2>12, <2>13, <2>14, <2>15, <2>16, CompactIs DEF Orderly
  <2> QED BY <1>3, <2>4, <2>8, <2>9, <2>17 DEF SameSetup
<1> QED BY <1>1, <1>2, <1>3

\* What is left of a sequence once its first n members are gone.
LEMMA SuffixType ==
  ASSUME NEW S, NEW s \in Seq(S), NEW n \in 0..Len(s)
  PROVE  LET t == SubSeq(s, n + 1, Len(s))
         IN  /\ t \in Seq(S) /\ Len(t) = Len(s) - n /\ DOMAIN t = 1..(Len(s) - n)
             /\ \A i \in 1..(Len(s) - n) : t[i] = s[i + n]
OBVIOUS

\* The least of some numbers is one of them.
LEMMA MinIs ==
  ASSUME NEW S, S \subseteq Nat, S # {}
  PROVE  Min(S) \in S /\ \A y \in S : Min(S) <= y
<1>1. \E m \in S : \A y \in S : m <= y
  BY LeastNat
<1> QED BY <1>1 DEF Min

\* Popping records evicts until the new matrix fits; what stays is sound.
LEMMA EvictedIs ==
  ASSUME NEW c, Orderly(c), Covered(c), NEW bytes \in Nat, bytes <= c.capacity,
         NEW r, r = Evicted(c, bytes)
  PROVE  /\ Orderly(r) /\ Covered(r) /\ SameSetup(r, c) /\ r.clock = c.clock
         /\ r.resident + bytes <= r.capacity
         /\ c.resident + bytes <= c.capacity => r = c
<1> DEFINE victims(n) == {c.lru[i].key : i \in {j \in 1..n : IsCurrent(c, j)}}
           fits(n) == c.resident - EntryBytes(c, victims(n)) + bytes <= c.capacity
           popped == Min({n \in 0..Len(c.lru) : fits(n)} \union {Len(c.lru)})
<1>1. r = [c EXCEPT !.entries = Dropped(@, victims(popped)),
                    !.resident = @ - EntryBytes(c, victims(popped)),
                    !.lru = SubSeq(@, popped + 1, Len(@))]
  BY DEF Evicted
<1>2. PICK D : D = DOMAIN c.entries
  OBVIOUS
<1>3. PICK L : L = Len(c.lru) /\ L \in Nat /\ DOMAIN c.lru = 1..L
  BY QueueRecords DEF Orderly
<1>4. \A n \in 0..L : victims(n) \subseteq D
  BY <1>2 DEF IsCurrent, Holds
<1>5. victims(0) = {}
  OBVIOUS
<1>6. victims(L) = D
  <2>1. ASSUME NEW k \in D PROVE k \in victims(L)
    <3>1. PICK i \in DOMAIN c.lru : c.lru[i] = [key |-> k, access |-> c.entries[k].access]
      BY <1>2 DEF Covered
    <3>2. i \in 1..L /\ c.lru[i].key = k /\ c.lru[i].access = c.entries[k].access
      BY <1>3, <3>1
    <3>3. IsCurrent(c, i)
      BY <1>2, <3>2 DEF IsCurrent, Holds
    <3> QED BY <3>2, <3>3
  <2>2. L \in 0..L
    BY <1>3
  <2> QED BY <1>4, <2>1, <2>2
<1>7. \A n \in 1..L : \A i \in 1..n : IsCurrent(c, i) => c.lru[i].key \in victims(n)
  OBVIOUS
<1>8. PICK p : p = popped
  OBVIOUS
<1>9. PICK V : V = victims(p)
  OBVIOUS
<1> HIDE DEF victims
<1>10. \A n \in 0..L : /\ EntryBytes(c, victims(n)) = Total(Weight, victims(n))
                       /\ Total(Weight, victims(n)) \in Nat
  BY <1>2, <1>4, Holding
<1>11. c.resident \in Nat /\ c.capacity \in Nat /\ c.clock \in Nat
  BY DEF Orderly, Shape
<1>12. fits(L)
  <2>1. D \in SUBSET D /\ L \in 0..L
    BY <1>3
  <2>2. c.resident = Total(Weight, D)
    BY <1>2, <2>1, Holding
  <2>3. EntryBytes(c, victims(L)) = c.resident
    BY <1>6, <1>10, <2>1, <2>2
  <2> QED BY <1>11, <2>3
<1>13. p \in 0..L /\ fits(p) /\ (fits(0) => p = 0)
  <2>1. PICK T : T = {n \in 0..Len(c.lru) : fits(n)} \union {Len(c.lru)}
    OBVIOUS
  <2>2. p = Min(T)
    BY <1>8, <2>1
  <2>3. T \subseteq 0..L /\ T # {} /\ (\A n \in T : fits(n)) /\ (fits(0) => 0 \in T)
    BY <1>3, <1>12, <2>1
  <2> HIDE DEF fits
  <2>4. T \subseteq Nat
    BY <1>3, <2>3
  <2>5. p \in T /\ \A y \in T : p <= y
    BY <2>2, <2>3, <2>4, MinIs
  <2>6. fits(p) /\ p \in 0..L
    BY <2>3, <2>5
  <2>7. ASSUME fits(0) PROVE p = 0
    <3>1. 0 \in T /\ p <= 0
      BY <2>3, <2>5, <2>7
    <3> QED BY <1>3, <2>6, <3>1
  <2> QED BY <2>6, <2>7
<1>14. c.resident + bytes <= c.capacity => fits(0)
  <2>1. Total(Weight, {}) = 0
    <3>1. IsFiniteSet({}) /\ \A x \in {} : Weight[x] \in Nat
      BY FS_EmptySet
    <3> QED BY <3>1, TotalByChosen
  <2>2. EntryBytes(c, victims(0)) = 0
    <3>1. 0 \in 0..L
      BY <1>3
    <3>2. EntryBytes(c, victims(0)) = Total(Weight, victims(0))
      BY <1>10, <3>1
    <3> QED BY <1>5, <2>1, <3>2
  <2> QED BY <1>11, <2>2
<1>15. /\ V \subseteq D /\ EntryBytes(c, V) = Total(Weight, V) /\ Total(Weight, V) \in Nat
       /\ c.resident - Total(Weight, V) + bytes <= c.capacity
       /\ \A i \in 1..p : IsCurrent(c, i) => c.lru[i].key \in V
       /\ p = 0 => V = {}
  <2>1. V \subseteq D /\ EntryBytes(c, V) = Total(Weight, V) /\ Total(Weight, V) \in Nat
    BY <1>4, <1>9, <1>10, <1>13
  <2>2. c.resident - Total(Weight, V) + bytes <= c.capacity
    BY <1>9, <1>13, <2>1
  <2>3. \A i \in 1..p : IsCurrent(c, i) => c.lru[i].key \in V
    BY <1>3, <1>7, <1>9, <1>13
  <2> QED BY <1>5, <1>9, <2>1, <2>2, <2>3
<1>16. PICK ent : ent = Dropped(c.entries, V)
  OBVIOUS
<1>17. PICK q : q = SubSeq(c.lru, p + 1, L)
  OBVIOUS
<1>18. PICK res : res = c.resident - Total(Weight, V)
  OBVIOUS
<1>19. r = [capacity |-> c.capacity, resident |-> res, clock |-> c.clock,
            entries |-> ent, lru |-> q, full |-> c.full]
  <2>1. r = [c EXCEPT !.entries = ent, !.resident = res, !.lru = q]
    BY <1>1, <1>3, <1>8, <1>9, <1>15, <1>16, <1>17, <1>18
  <2>2. c = [capacity |-> c.capacity, resident |-> c.resident, clock |-> c.clock,
             entries |-> c.entries, lru |-> c.lru, full |-> c.full]
    BY DEF Orderly, Shape
  <2> QED BY <2>1, <2>2
<1> HIDE DEF fits, popped
<1>20. /\ r.capacity = c.capacity /\ r.resident = res /\ r.clock = c.clock
       /\ r.entries = ent /\ r.lru = q /\ r.full = c.full
  BY <1>19
<1>21. /\ DOMAIN ent = D \ V /\ \A k \in D \ V : ent[k] = c.entries[k] /\ k \in DOMAIN c.entries
       /\ ent = [k \in D \ V |-> c.entries[k]]
  BY <1>2, <1>16 DEF Dropped
<1>22. /\ q \in Seq(Records) /\ Len(q) = L - p /\ DOMAIN q = 1..(L - p)
       /\ \A i \in 1..(L - p) : q[i] = c.lru[i + p] /\ i + p \in DOMAIN c.lru
  <2>1. c.lru \in Seq(Records)
    BY DEF Orderly, Shape
  <2>2. /\ q \in Seq(Records) /\ Len(q) = L - p /\ DOMAIN q = 1..(L - p)
        /\ \A i \in 1..(L - p) : q[i] = c.lru[i + p]
    BY <1>3, <1>13, <1>17, <2>1, SuffixType
  <2>3. \A i \in 1..(L - p) : i + p \in 1..L
    BY <1>3, <1>13
  <2> QED BY <1>3, <2>2, <2>3
<1>23. /\ res = Total(Weight, D \ V) /\ res \in Nat
  <2>1. /\ c.resident = Total(Weight, V) + Total(Weight, D \ V) /\ Total(Weight, D \ V) \in Nat
    BY <1>2, <1>15, Holding
  <2> QED BY <1>15, <1>18, <2>1
<1>24. Shape(r)
  <2>1. D \subseteq AllKeys /\ \A k \in D : c.entries[k] \in Entries
    BY <1>2 DEF Orderly, Shape
  <2>2. ent \in [D \ V -> Entries]
    BY <1>21, <2>1
  <2>3. c.full \in BOOLEAN
    BY DEF Orderly, Shape
  <2> QED BY <1>11, <1>19, <1>20, <1>21, <1>22, <1>23, <2>1, <2>2, <2>3 DEF Shape
<1>25. Faithful(r) /\ Stamped(r)
  BY <1>20, <1>21 DEF Orderly, Faithful, Stamped
<1>26. Queued(r)
  <2>1. /\ \A i \in DOMAIN c.lru : c.lru[i].access <= c.clock
        /\ \A i, j \in DOMAIN c.lru : i < j => c.lru[i].access < c.lru[j].access
    BY DEF Orderly, Queued
  <2>2. \A i \in DOMAIN q : q[i].access <= c.clock
    BY <1>22, <2>1
  <2>3. \A i, j \in DOMAIN q : i < j => q[i].access < q[j].access
    <3> SUFFICES ASSUME NEW i \in DOMAIN q, NEW j \in DOMAIN q, i < j PROVE q[i].access < q[j].access
      OBVIOUS
    <3>1. i + p \in DOMAIN c.lru /\ j + p \in DOMAIN c.lru /\ i + p < j + p
      BY <1>13, <1>22
    <3> QED BY <1>22, <2>1, <3>1
  <2> QED BY <1>20, <2>2, <2>3 DEF Queued
<1>27. r.resident + bytes <= r.capacity
  BY <1>11, <1>15, <1>18, <1>20
<1>28. Fits(r)
  <2>1. DOMAIN r.entries \subseteq AllKeys /\ r.resident = Total(Weight, DOMAIN r.entries) /\ r.resident <= r.capacity
    BY <1>11, <1>20, <1>21, <1>23, <1>24, <1>27 DEF Shape
  <2> QED BY <1>25, <2>1, FitsFromTotal
<1>29. Covered(r)
  <2> SUFFICES ASSUME NEW k \in D \ V PROVE \E i \in DOMAIN q : q[i] = [key |-> k, access |-> ent[k].access]
    BY <1>20, <1>21 DEF Covered
  <2>1. PICK i \in DOMAIN c.lru : c.lru[i] = [key |-> k, access |-> c.entries[k].access]
    BY <1>2 DEF Covered
  <2>2. i \in 1..L /\ c.lru[i].key = k /\ c.lru[i].access = c.entries[k].access
    BY <1>3, <2>1
  <2>3. IsCurrent(c, i)
    BY <1>2, <2>2 DEF IsCurrent, Holds
  <2>4. i \notin 1..p
    BY <1>15, <2>2, <2>3
  <2>5. i - p \in 1..(L - p) /\ (i - p) + p = i
    BY <1>3, <1>13, <2>2, <2>4
  <2>6. q[i - p] = c.lru[i]
    BY <1>22, <2>5
  <2> QED BY <1>21, <1>22, <2>1, <2>5, <2>6
<1>30. ASSUME c.resident + bytes <= c.capacity PROVE r = c
  <2>1. p = 0 /\ V = {}
    BY <1>13, <1>14, <1>15, <1>30
  <2>2. ent = c.entries
    <3>1. c.entries = [k \in D |-> c.entries[k]]
      BY <1>2 DEF Orderly, Shape
    <3>2. D \ V = D
      BY <2>1
    <3> QED BY <1>21, <3>1, <3>2
  <2>3. q = c.lru
    <3>1. c.lru \in Seq(Records)
      BY DEF Orderly, Shape
    <3> QED BY <1>3, <1>17, <2>1, <3>1
  <2>4. res = c.resident
    <3>1. D \ V = D
      BY <2>1
    <3>2. c.resident = Total(Weight, D)
      <4>1. D \in SUBSET D
        OBVIOUS
      <4> QED BY <1>2, <4>1, Holding
    <3> QED BY <1>23, <3>1, <3>2
  <2> QED BY <1>19, <2>2, <2>3, <2>4 DEF Orderly, Shape
<1> QED BY <1>20, <1>24, <1>25, <1>26, <1>27, <1>28, <1>29, <1>30 DEF Orderly, SameSetup

\* Inserting keeps a sound cache sound; with room for the matrix nothing is evicted.
LEMMA InsertIs ==
  ASSUME NEW c, Sound(c), Covered(c), ~c.full, NEW key \in AllKeys,
         NEW r, r = RecordReadAndInsert(c, key, Contents(key))
  PROVE  /\ Sound(r) /\ Covered(r) /\ SameSetup(r, c)
         /\ key \notin DOMAIN c.entries /\ c.resident + Weight[key] <= c.capacity
              /\ Len(c.lru) = Cardinality(DOMAIN c.entries)
            => /\ DOMAIN r.entries = DOMAIN c.entries \cup {key}
               /\ Len(r.lru) = Cardinality(DOMAIN r.entries)
<1>1. PICK bytes : bytes = StorageBytes(Contents(key)) /\ bytes = Weight[key] /\ bytes \in Nat
  BY ContentsBytes, WeightType
<1>2. Tracked(c) = c
  BY DEF Tracked
<1>3. c.resident \in Nat /\ c.capacity \in Nat /\ c.clock \in Nat /\ Orderly(c)
  BY DEF Sound, Orderly, Shape
<1>4. CASE bytes > c.capacity
  <2>1. r = c
    BY <1>1, <1>2, <1>4 DEF RecordReadAndInsert
  <2>2. ~(c.resident + Weight[key] <= c.capacity)
    BY <1>1, <1>3, <1>4
  <2> QED BY <2>1, <2>2 DEF SameSetup
<1>5. CASE ~(bytes > c.capacity)
  <2>1. PICK room : room = Evicted(c, bytes)
    OBVIOUS
  <2>2. bytes <= c.capacity
    BY <1>1, <1>3, <1>5
  <2>3. /\ Orderly(room) /\ Covered(room) /\ SameSetup(room, c) /\ room.clock = c.clock
        /\ room.resident + bytes <= room.capacity
        /\ c.resident + bytes <= c.capacity => room = c
    BY <1>1, <1>3, <2>1, <2>2, EvictedIs
  <2>4. PICK now : now = room.clock + 1
    OBVIOUS
  <2>5. PICK D : D = DOMAIN room.entries
    OBVIOUS
  <2>6. PICK previous : previous = IF Holds(room, key) THEN EntryBytes(room, {key}) ELSE 0
    OBVIOUS
  <2>7. PICK ent : ent = WithEntry(room.entries, key, Entry(Contents(key), now))
    OBVIOUS
  <2>8. PICK q : q = Append(room.lru, [key |-> key, access |-> now])
    OBVIOUS
  <2>9. PICK res : res = room.resident - previous + bytes
    OBVIOUS
  <2>10. PICK s : s = [room EXCEPT !.entries = ent, !.resident = res, !.clock = now, !.lru = q]
    OBVIOUS
  <2>11. r = CompactLruIfNeeded(s)
    BY <1>1, <1>2, <1>5, <2>1, <2>4, <2>6, <2>7, <2>8, <2>9, <2>10 DEF RecordReadAndInsert
  <2>12. /\ room.clock \in Nat /\ now \in Nat /\ room.clock < now /\ now \in 1..now
         /\ room.resident \in Nat /\ room.capacity \in Nat
         /\ D \subseteq AllKeys /\ room.full \in BOOLEAN
         /\ \A k \in D : room.entries[k] \in Entries
    BY <2>3, <2>4, <2>5 DEF Orderly, Shape
  <2>13. s = [capacity |-> room.capacity, resident |-> res, clock |-> now,
              entries |-> ent, lru |-> q, full |-> room.full]
    <3>1. room = [capacity |-> room.capacity, resident |-> room.resident, clock |-> room.clock,
                  entries |-> room.entries, lru |-> room.lru, full |-> room.full]
      BY <2>3 DEF Orderly, Shape
    <3> QED BY <2>10, <3>1
  <2>14. /\ s.capacity = room.capacity /\ s.resident = res /\ s.clock = now
         /\ s.entries = ent /\ s.lru = q /\ s.full = room.full
    BY <2>13
  <2>15. /\ DOMAIN ent = D \cup {key}
         /\ ent[key].matrix = Contents(key) /\ ent[key].access = now /\ ent[key] \in Entries
         /\ \A k \in D : k # key => ent[k] = room.entries[k]
         /\ ent \in [D \cup {key} -> Entries]
    <3>1. ent = [k \in D \cup {key} |-> IF k = key THEN Entry(Contents(key), now) ELSE room.entries[k]]
      BY <2>5, <2>7 DEF WithEntry
    <3>2. /\ Entry(Contents(key), now).matrix = Contents(key) /\ Entry(Contents(key), now).access = now
          /\ Entry(Contents(key), now) \in Entries
      BY <2>12, ContentsBytes DEF Entry, Entries
    <3> QED BY <2>12, <3>1, <3>2
  <2>16. PICK N : N = Len(room.lru) /\ N \in Nat /\ DOMAIN room.lru = 1..N
    BY <2>3, QueueRecords DEF Orderly
  <2>17. /\ q \in Seq(Records) /\ Len(q) = N + 1 /\ DOMAIN q = 1..(N + 1)
         /\ q[N + 1] = [key |-> key, access |-> now] /\ \A i \in 1..N : q[i] = room.lru[i]
    <3>1. room.lru \in Seq(Records) /\ [key |-> key, access |-> now] \in Records
      BY <2>3, <2>12 DEF Orderly, Shape, Records
    <3> QED BY <2>8, <2>16, <3>1
  <2>18. Faithful(s)
    <3>1. \A k \in D : room.entries[k].matrix = Contents(k)
      BY <2>3, <2>5 DEF Orderly, Faithful
    <3> QED BY <2>14, <2>15, <3>1 DEF Faithful
  <2>19. Stamped(s)
    <3>1. \A k \in D : room.entries[k].access \in 1..room.clock
      BY <2>3, <2>5 DEF Orderly, Stamped
    <3>2. \A j, k \in D : room.entries[j].access = room.entries[k].access => j = k
      BY <2>3, <2>5 DEF Orderly, Stamped
    <3>3. \A k \in D : room.entries[k].access # now /\ room.entries[k].access \in 1..now
      BY <2>12, <3>1
    <3>4. \A k \in D \cup {key} : ent[k].access \in 1..now
      BY <2>12, <2>15, <3>3
    <3>5. \A j, k \in D \cup {key} : ent[j].access = ent[k].access => j = k
      BY <2>15, <3>2, <3>3
    <3> QED BY <2>14, <2>15, <3>4, <3>5 DEF Stamped
  <2>20. Queued(s)
    <3>1. \A i \in 1..N : room.lru[i].access <= room.clock /\ room.lru[i].access \in Nat
      BY <2>3, <2>16, QueueRecords DEF Orderly, Queued
    <3>2. \A i, j \in 1..N : i < j => room.lru[i].access < room.lru[j].access
      BY <2>3, <2>16 DEF Orderly, Queued
    <3>3. \A i \in DOMAIN q : q[i].access <= now
      BY <2>12, <2>16, <2>17, <3>1
    <3>4. \A i, j \in DOMAIN q : i < j => q[i].access < q[j].access
      <4> SUFFICES ASSUME NEW i \in DOMAIN q, NEW j \in DOMAIN q, i < j PROVE q[i].access < q[j].access
        OBVIOUS
      <4>1. i \in 1..N /\ q[i] = room.lru[i]
        BY <2>16, <2>17
      <4>2. CASE j \in 1..N
        BY <2>17, <3>2, <4>1, <4>2
      <4>3. CASE j = N + 1
        <5>1. q[j].access = now
          BY <2>17, <4>3
        <5> QED BY <2>12, <3>1, <4>1, <5>1
      <4> QED BY <2>16, <2>17, <4>2, <4>3
    <3> QED BY <2>14, <3>3, <3>4 DEF Queued
  <2>21. Covered(s)
    <3>1. \A k \in D : \E i \in 1..N : room.lru[i] = [key |-> k, access |-> room.entries[k].access]
      BY <2>3, <2>5, <2>16 DEF Covered
    <3>2. ASSUME NEW k \in D \cup {key} PROVE \E i \in DOMAIN q : q[i] = [key |-> k, access |-> ent[k].access]
      <4>1. CASE k = key
        BY <2>15, <2>16, <2>17, <4>1
      <4>2. CASE k # key
        <5>1. k \in D /\ ent[k] = room.entries[k]
          BY <2>15, <4>2
        <5>2. PICK i \in 1..N : room.lru[i] = [key |-> k, access |-> room.entries[k].access]
          BY <3>1, <5>1
        <5>3. i \in DOMAIN q /\ q[i] = room.lru[i]
          BY <2>16, <2>17, <5>2
        <5> QED BY <5>1, <5>2, <5>3
      <4> QED BY <4>1, <4>2
    <3> QED BY <2>14, <2>15, <3>2 DEF Covered
  <2>22. res = Total(Weight, D \cup {key}) /\ res \in Nat /\ res <= room.capacity
    <3>1. IsFiniteSet(D) /\ (\A k \in D : Weight[k] \in Nat) /\ D \in SUBSET D
      BY <2>12, KeysFinite, WeightType
    <3>2. room.resident = Total(Weight, D)
      BY <2>3, <2>5, <3>1, Holding
    <3>3. CASE key \in D
      <4>1. {key} \in SUBSET D /\ D \cup {key} = D
        BY <3>3
      <4>2. EntryBytes(room, {key}) = Total(Weight, {key})
        BY <2>3, <2>5, <4>1, Holding
      <4>3. Total(Weight, {key}) = bytes
        <5>1. IsFiniteSet({key}) /\ IsFiniteSet({}) /\ {key} \ {key} = {}
          BY FS_Singleton, FS_EmptySet
        <5>2. Total(Weight, {}) = 0
          BY <5>1, TotalByChosen
        <5>3. Total(Weight, {key}) = Weight[key] + Total(Weight, {key} \ {key})
          BY <1>1, <5>1, TotalSplit
        <5> QED BY <1>1, <5>1, <5>2, <5>3
      <4>4. previous = bytes
        BY <2>5, <2>6, <3>3, <4>2, <4>3 DEF Holds
      <4>5. res = room.resident
        BY <1>1, <2>9, <2>12, <4>4
      <4>6. res = Total(Weight, D \cup {key})
        BY <3>2, <4>1, <4>5
      <4>7. room.resident \in Nat /\ room.resident <= room.capacity
        BY <2>3 DEF Orderly, Shape, Fits
      <4> QED BY <4>5, <4>6, <4>7
    <3>4. CASE key \notin D
      <4>1. previous = 0
        BY <2>5, <2>6, <3>4 DEF Holds
      <4>2. res = room.resident + bytes
        BY <1>1, <2>9, <2>12, <4>1
      <4>3. Total(Weight, D \cup {key}) = Weight[key] + Total(Weight, D)
        BY <1>1, <3>1, <3>4, TotalAdd
      <4> QED BY <1>1, <2>3, <2>12, <3>2, <4>2, <4>3
    <3> QED BY <3>3, <3>4
  <2>23. Shape(s)
    <3>1. D \cup {key} \subseteq AllKeys
      BY <2>12
    <3> QED BY <2>12, <2>13, <2>14, <2>15, <2>17, <2>22, <3>1 DEF Shape
  <2>24. Fits(s)
    <3>1. DOMAIN s.entries \subseteq AllKeys /\ s.resident = Total(Weight, DOMAIN s.entries) /\ s.resident <= s.capacity
      BY <2>12, <2>14, <2>15, <2>22
    <3> QED BY <2>18, <3>1, FitsFromTotal
  <2>25. /\ Sound(r) /\ Covered(r) /\ r.entries = s.entries /\ SameSetup(r, s)
         /\ Proportionate(s) => r = s
    BY <2>11, <2>18, <2>19, <2>20, <2>21, <2>23, <2>24, CompactIs DEF Orderly
  <2>26. ASSUME key \notin DOMAIN c.entries, c.resident + Weight[key] <= c.capacity,
                Len(c.lru) = Cardinality(DOMAIN c.entries)
         PROVE  /\ DOMAIN r.entries = DOMAIN c.entries \cup {key}
                /\ Len(r.lru) = Cardinality(DOMAIN r.entries)
    <3>1. room = c
      BY <1>1, <2>3, <2>26
    <3>2. IsFiniteSet(D) /\ Cardinality(D) \in Nat /\ Slack \in Nat
      BY <2>12, KeysFinite, CacheAssumption
    <3>3. Cardinality(D \cup {key}) = Cardinality(D) + 1
      BY <2>5, <2>26, <3>1, <3>2, FS_AddElement
    <3>4. Len(s.lru) = Cardinality(DOMAIN s.entries) /\ Cardinality(DOMAIN s.entries) \in Nat
      BY <2>5, <2>14, <2>15, <2>16, <2>17, <2>26, <3>1, <3>2, <3>3
    <3>5. Proportionate(s)
      BY <3>2, <3>4 DEF Proportionate
    <3> QED BY <2>5, <2>14, <2>15, <2>25, <3>1, <3>4, <3>5
  <2> QED BY <2>3, <2>14, <2>25, <2>26 DEF SameSetup
<1> QED BY <1>4, <1>5

\* The experts of a layer are finitely many numbers.
LEMMA ExpertsAre == Experts \subseteq Nat /\ IsFiniteSet(Experts)
<1>1. ExpertCount \in Nat
  BY MoeAssumption
<1> QED BY <1>1, FS_Interval DEF Experts

\* The keys of a layer that fusing adds.
PairKeys(l, E) == {Key(l, "pair", e) : e \in E}
\* The keys of a layer that fusing removes.
MemberKeys(l, E) == {Key(l, part, e) : part \in {"gate", "up"}, e \in E}

\* A pair takes the bytes of its members.
LEMMA FusedWeight ==
  ASSUME NEW l \in MoeLayers
  PROVE  Total(Weight, PairKeys(l, Experts)) = Total(Weight, MemberKeys(l, Experts))
<1>1. PICK P : P = {E \in SUBSET Experts : Total(Weight, PairKeys(l, E)) = Total(Weight, MemberKeys(l, E))}
  OBVIOUS
<1>2. \A E \in SUBSET Experts :
        /\ PairKeys(l, E) \in SUBSET AllKeys /\ MemberKeys(l, E) \in SUBSET AllKeys
        /\ IsFiniteSet(PairKeys(l, E)) /\ IsFiniteSet(MemberKeys(l, E))
  <2> SUFFICES ASSUME NEW E \in SUBSET Experts
               PROVE  /\ PairKeys(l, E) \in SUBSET AllKeys /\ MemberKeys(l, E) \in SUBSET AllKeys
                      /\ IsFiniteSet(PairKeys(l, E)) /\ IsFiniteSet(MemberKeys(l, E))
    OBVIOUS
  <2>1. PairKeys(l, E) \in SUBSET AllKeys /\ MemberKeys(l, E) \in SUBSET AllKeys
    BY KeyIsKey DEF PairKeys, MemberKeys, Parts
  <2> QED BY <2>1, KeysFinite
<1>3. {} \in P
  <2>1. PairKeys(l, {}) = {} /\ MemberKeys(l, {}) = {}
    BY DEF PairKeys, MemberKeys
  <2> QED BY <1>1, <2>1
<1>4. ASSUME NEW E \in SUBSET Experts, NEW e \in Experts, E \in P, e \notin E PROVE E \cup {e} \in P
  <2>1. PICK p : p = Key(l, "pair", e)
    OBVIOUS
  <2>2. PICK g : g = Key(l, "gate", e)
    OBVIOUS
  <2>3. PICK u : u = Key(l, "up", e)
    OBVIOUS
  <2>4. p \in AllKeys /\ g \in AllKeys /\ u \in AllKeys /\ g # u
    BY <2>1, <2>2, <2>3, KeyIsKey, KeyFields DEF Parts
  <2>5. Weight[p] = Weight[g] + Weight[u] /\ Weight[p] \in Nat /\ Weight[g] \in Nat /\ Weight[u] \in Nat
    <3>1. p.part = "pair" /\ g.part = "gate" /\ u.part = "up"
      BY <2>1, <2>2, <2>3, KeyFields
    <3>2. Weight[p] = Size["gate"] + Size["up"] /\ Weight[g] = Size["gate"] /\ Weight[u] = Size["up"]
      BY <2>4, <3>1 DEF Weight
    <3> QED BY <2>4, <3>2, WeightType
  <2>6. PairKeys(l, E \cup {e}) = PairKeys(l, E) \cup {p} /\ p \notin PairKeys(l, E)
    <3>1. PairKeys(l, E \cup {e}) = PairKeys(l, E) \cup {p}
      BY <2>1 DEF PairKeys
    <3>2. p \notin PairKeys(l, E)
      BY <1>4, <2>1, KeyFields DEF PairKeys
    <3> QED BY <3>1, <3>2
  <2>7. /\ MemberKeys(l, E \cup {e}) = (MemberKeys(l, E) \cup {g}) \cup {u}
        /\ g \notin MemberKeys(l, E) /\ u \notin MemberKeys(l, E) \cup {g}
    <3>1. MemberKeys(l, E \cup {e}) = (MemberKeys(l, E) \cup {g}) \cup {u}
      BY <2>2, <2>3 DEF MemberKeys
    <3>2. \A k \in MemberKeys(l, E) : k.expert \in E
      BY KeyFields DEF MemberKeys
    <3>3. g.expert = e /\ u.expert = e
      BY <2>2, <2>3, KeyFields
    <3> QED BY <1>4, <2>4, <3>1, <3>2, <3>3
  <2>8. (\A k \in PairKeys(l, E) : Weight[k] \in Nat) /\ (\A k \in MemberKeys(l, E) : Weight[k] \in Nat)
    BY <1>2, WeightType
  <2>9. Total(Weight, PairKeys(l, E) \cup {p}) = Weight[p] + Total(Weight, PairKeys(l, E))
    BY <1>2, <2>5, <2>6, <2>8, TotalAdd
  <2>10. Total(Weight, MemberKeys(l, E) \cup {g}) = Weight[g] + Total(Weight, MemberKeys(l, E))
    BY <1>2, <2>5, <2>7, <2>8, TotalAdd
  <2>11. Total(Weight, (MemberKeys(l, E) \cup {g}) \cup {u}) = Weight[u] + Total(Weight, MemberKeys(l, E) \cup {g})
    <3>1. IsFiniteSet(MemberKeys(l, E) \cup {g}) /\ \A k \in MemberKeys(l, E) \cup {g} : Weight[k] \in Nat
      BY <1>2, <2>5, <2>8, FS_AddElement
    <3> QED BY <2>5, <2>7, <3>1, TotalAdd
  <2>12. Total(Weight, MemberKeys(l, E)) \in Nat /\ Total(Weight, PairKeys(l, E)) = Total(Weight, MemberKeys(l, E))
    BY <1>1, <1>2, <1>4, <2>8, TotalNat
  <2>13. Total(Weight, PairKeys(l, E \cup {e})) = Total(Weight, MemberKeys(l, E \cup {e}))
    <3>1. PICK a : a = Total(Weight, PairKeys(l, E \cup {e}))
      OBVIOUS
    <3>2. PICK b : b = Total(Weight, MemberKeys(l, E \cup {e}))
      OBVIOUS
    <3>3. PICK t : t = Total(Weight, MemberKeys(l, E)) /\ t \in Nat
      BY <2>12
    <3>4. PICK v : v = Total(Weight, MemberKeys(l, E) \cup {g})
      OBVIOUS
    <3>5. a = Weight[p] + t
      BY <2>6, <2>9, <2>12, <3>1, <3>3
    <3>6. v = Weight[g] + t
      BY <2>10, <3>3, <3>4
    <3>7. b = Weight[u] + v
      BY <2>7, <2>11, <3>2, <3>4
    <3>8. a = b
      BY <2>5, <3>3, <3>5, <3>6, <3>7
    <3> QED BY <3>1, <3>2, <3>8
  <2> QED BY <1>1, <1>4, <2>13
<1>5. Experts \in P
  <2>1. \A T \in SUBSET Experts : \A x \in Experts : T \in P /\ x \notin T => T \cup {x} \in P
    BY <1>4
  <2>2. IsFiniteSet(Experts)
    BY ExpertsAre
  <2>3. \A T \in SUBSET Experts : T \in P
    BY <1>3, <2>1, <2>2, FiniteInduction
  <2> QED BY <2>3
<1> QED BY <1>1, <1>5

\* The pairs of a layer replace their members, byte for byte.
LEMMA FuseIs ==
  ASSUME NEW c, Orderly(c), NEW l \in MoeLayers, CanFuse(c, l, Experts),
         PairKeys(l, Experts) \cap DOMAIN c.entries = {},
         NEW r, r = FusePair(c, l, Experts)
  PROVE  /\ Orderly(r) /\ SameSetup(r, c) /\ r.lru = c.lru
         /\ DOMAIN r.entries = PairKeys(l, Experts) \cup (DOMAIN c.entries \ MemberKeys(l, Experts))
<1> DEFINE split == {e \in Experts : ~Holds(c, Key(l, "pair", e))}
           members == {Key(l, part, e) : part \in {"gate", "up"}, e \in split}
           rank(e) == Cardinality({d \in split : d <= e})
           pairs == {Key(l, "pair", e) : e \in split}
           fused(e) == Entry(ConcatenateRows(c.entries[Key(l, "gate", e)].matrix,
                                             c.entries[Key(l, "up", e)].matrix),
                             c.clock + rank(e))
           entries == [k \in pairs \union (DOMAIN c.entries \ members) |->
                         IF k \in pairs THEN fused(k.expert) ELSE c.entries[k]]
<1>1. r = [c EXCEPT !.entries = entries, !.clock = @ + Cardinality(split),
                    !.resident = @ - EntryBytes(c, members)
                                   + EntryBytes([entries |-> entries], pairs)]
  BY DEF FusePair
<1>2. split = Experts
  BY DEF PairKeys, Holds
<1>3. pairs = PairKeys(l, Experts) /\ members = MemberKeys(l, Experts)
  BY <1>2 DEF PairKeys, MemberKeys
<1>4. PICK P : P = PairKeys(l, Experts)
  OBVIOUS
<1>5. PICK M : M = MemberKeys(l, Experts)
  OBVIOUS
<1>6. PICK D : D = DOMAIN c.entries
  OBVIOUS
<1>7. PICK N : N = Cardinality(Experts) /\ N \in Nat
  BY ExpertsAre, FS_CardinalityType
<1>8. PICK at : at = [e \in Experts |-> Cardinality({d \in Experts : d <= e})]
  OBVIOUS
<1>9. /\ \A e \in Experts : at[e] \in 1..N /\ rank(e) = at[e]
      /\ \A d, e \in Experts : at[d] = at[e] => d = e
  <2>0. \A e \in Experts : at[e] \in 1..N
    BY <1>7, <1>8, ExpertsAre, PlaceIs
  <2>1. \A e \in Experts : rank(e) = at[e]
    BY <1>2, <1>8
  <2>2. \A d, e \in Experts : d < e => at[d] < at[e]
    BY <1>8, ExpertsAre, PlaceIs
  <2>3. \A e \in Experts : e \in Nat /\ at[e] \in Nat
    BY <1>7, <2>0, ExpertsAre
  <2>4. \A d, e \in Experts : at[d] = at[e] => d = e
    <3> SUFFICES ASSUME NEW d \in Experts, NEW e \in Experts, at[d] = at[e] PROVE d = e
      OBVIOUS
    <3>1. ~(at[d] < at[e]) /\ ~(at[e] < at[d])
      BY <2>3
    <3>2. ~(d < e) /\ ~(e < d)
      BY <2>2, <3>1
    <3> QED BY <2>3, <3>2
  <2> QED BY <2>0, <2>1, <2>4
<1>10. PICK ent : ent = entries
  <2> HIDE DEF entries
  <2> QED OBVIOUS
<1>11. PICK res : res = c.resident - EntryBytes(c, M) + EntryBytes([entries |-> ent], P)
  BY Zenon
<1>12. PICK now : now = c.clock + N
  OBVIOUS
<1>13. c = [capacity |-> c.capacity, resident |-> c.resident, clock |-> c.clock,
            entries |-> c.entries, lru |-> c.lru, full |-> c.full]
  BY DEF Orderly, Shape
<1>14. r = [capacity |-> c.capacity, resident |-> res, clock |-> now,
            entries |-> ent, lru |-> c.lru, full |-> c.full]
  <2>1. r = [c EXCEPT !.entries = ent, !.clock = c.clock + Cardinality(Experts),
                      !.resident = c.resident - EntryBytes(c, M) + EntryBytes([entries |-> ent], P)]
    <3>1. pairs = P /\ members = M
      BY <1>3, <1>4, <1>5
    <3> HIDE DEF pairs, members, split, entries
    <3> QED BY <1>1, <1>2, <1>10, <3>1
  <2> QED BY <1>7, <1>11, <1>12, <1>13, <2>1
<1>15. \A e \in Experts : Key(l, "gate", e) \in D /\ Key(l, "up", e) \in D
  BY <1>6 DEF CanFuse, Holds, PairKeys
<1>16. /\ ent = [k \in P \cup (D \ M) |-> IF k \in P THEN fused(k.expert) ELSE c.entries[k]]
  BY <1>3, <1>4, <1>5, <1>6, <1>10
<1>17. \A k \in D : k \in AllKeys /\ c.entries[k] \in Entries /\ c.entries[k].matrix = Contents(k)
                    /\ c.entries[k].access \in 1..c.clock
  BY <1>6 DEF Orderly, Shape, Faithful, Stamped
<1>18. c.clock \in Nat /\ now \in Nat /\ c.clock <= now /\ c.capacity \in Nat /\ c.resident \in Nat /\ c.full \in BOOLEAN
  BY <1>7, <1>12 DEF Orderly, Shape
<1>19. P \subseteq AllKeys /\ M \subseteq D /\ P \cap (D \ M) = {} /\ D \subseteq AllKeys
  <2>1. P \subseteq AllKeys
    BY <1>4, KeyIsKey DEF PairKeys, Parts
  <2>2. M \subseteq D
    BY <1>5, <1>15 DEF MemberKeys
  <2> QED BY <1>4, <1>6, <1>17, <2>1, <2>2
<1>20. ASSUME NEW k \in P
       PROVE  /\ ent[k].matrix = Contents(k) /\ ent[k].access = c.clock + at[k.expert]
              /\ ent[k] \in Entries /\ k.expert \in Experts /\ k = Key(l, "pair", k.expert)
  <2>1. PICK e \in Experts : k = Key(l, "pair", e)
    BY <1>4 DEF PairKeys
  <2>2. k.expert = e /\ k.part = "pair" /\ k.layer = l
    BY <2>1, KeyFields
  <2>3. c.entries[Key(l, "gate", e)].matrix = Contents(Key(l, "gate", e)) /\ c.entries[Key(l, "up", e)].matrix = Contents(Key(l, "up", e))
    BY <1>15, <1>17
  <2>4. Contents(Key(l, "gate", e)) = <<Key(l, "gate", e)>> /\ Contents(Key(l, "up", e)) = <<Key(l, "up", e)>>
    BY KeyFields DEF Contents
  <2>5. Contents(k) = <<Key(l, "gate", e), Key(l, "up", e)>>
    BY <2>2 DEF Contents
  <2>6. ConcatenateRows(c.entries[Key(l, "gate", e)].matrix, c.entries[Key(l, "up", e)].matrix) = Contents(k)
    <3>1. ASSUME NEW a, NEW b PROVE <<a>> \o <<b>> = <<a, b>>
      <4>1. <<a>> \in Seq({a, b}) /\ <<b>> \in Seq({a, b}) /\ <<a, b>> \in Seq({a, b})
        OBVIOUS
      <4>2. <<a>> \o <<b>> = [i \in 1..2 |-> IF i <= 1 THEN <<a>>[i] ELSE <<b>>[i - 1]]
        BY <4>1
      <4>3. \A i \in 1..2 : i = 1 \/ i = 2
        OBVIOUS
      <4>4. <<a, b>> = [i \in 1..2 |-> <<a, b>>[i]]
        OBVIOUS
      <4>5. \A i \in 1..2 : (IF i <= 1 THEN <<a>>[i] ELSE <<b>>[i - 1]) = <<a, b>>[i]
        BY <4>3
      <4> QED BY <4>2, <4>4, <4>5
    <3> QED BY <2>3, <2>4, <2>5, <3>1 DEF ConcatenateRows
  <2>7. ent[k] = Entry(Contents(k), c.clock + at[e])
    <3>1. ent[k] = fused(e)
      BY <1>16, <2>2
    <3>2. rank(e) = at[e]
      BY <1>9
    <3> QED BY <2>6, <3>1, <3>2
  <2>8. k \in AllKeys /\ at[e] \in Nat
    <3>1. at[e] \in 1..N
      BY <1>9
    <3> QED BY <1>7, <1>19, <3>1
  <2>9. Contents(k) \in Seq(AllKeys) /\ c.clock + at[e] \in Nat
    BY <1>18, <2>8, ContentsBytes
  <2> QED BY <2>1, <2>2, <2>7, <2>9 DEF Entry, Entries
<1> HIDE DEF fused
<1>21. /\ DOMAIN ent = P \cup (D \ M) /\ \A k \in D \ M : ent[k] = c.entries[k]
       /\ ent \in [P \cup (D \ M) -> Entries]
  <2>1. DOMAIN ent = P \cup (D \ M) /\ \A k \in D \ M : ent[k] = c.entries[k]
    BY <1>16, <1>19
  <2>2. \A k \in P \cup (D \ M) : ent[k] \in Entries
    BY <1>17, <1>20, <2>1
  <2>3. ent = [k \in P \cup (D \ M) |-> ent[k]]
    BY <1>16
  <2> QED BY <2>1, <2>2, <2>3
<1> HIDE DEF split, members, rank, pairs, entries
<1>22. /\ r.capacity = c.capacity /\ r.resident = res /\ r.clock = now
       /\ r.entries = ent /\ r.lru = c.lru /\ r.full = c.full
  BY <1>14
<1>23. Faithful(r)
  BY <1>17, <1>20, <1>21, <1>22 DEF Faithful
<1>24. Stamped(r)
  <2>1. \A k \in P : ent[k].access \in (c.clock + 1)..now
    BY <1>7, <1>9, <1>12, <1>18, <1>20
  <2>2. \A k \in D \ M : ent[k].access \in 1..c.clock /\ ent[k].access = c.entries[k].access
    BY <1>17, <1>21
  <2>3. \A k \in P \cup (D \ M) : ent[k].access \in 1..now
    BY <1>18, <2>1, <2>2
  <2>4. \A j, k \in P : ent[j].access = ent[k].access => j = k
    <3> SUFFICES ASSUME NEW j \in P, NEW k \in P, ent[j].access = ent[k].access PROVE j = k
      OBVIOUS
    <3>1. at[j.expert] \in Nat /\ at[k.expert] \in Nat
      BY <1>7, <1>9, <1>20
    <3>2. at[j.expert] = at[k.expert]
      BY <1>18, <1>20, <3>1
    <3> QED BY <1>9, <1>20, <3>2
  <2>5. \A j, k \in D \ M : ent[j].access = ent[k].access => j = k
    BY <1>6, <2>2 DEF Orderly, Stamped
  <2>6. \A j \in P, k \in D \ M : ent[j].access # ent[k].access
    BY <1>18, <2>1, <2>2
  <2>7. \A j, k \in P \cup (D \ M) : ent[j].access = ent[k].access => j = k
    BY <2>4, <2>5, <2>6
  <2> QED BY <1>21, <1>22, <2>3, <2>7 DEF Stamped
<1>25. Queued(r)
  <2>1. \A i \in DOMAIN c.lru : c.lru[i].access <= c.clock /\ c.lru[i].access \in Nat
    BY QueueRecords DEF Orderly, Queued
  <2> QED BY <1>18, <1>22, <2>1 DEF Orderly, Queued
<1>26. res = Total(Weight, P \cup (D \ M)) /\ res \in Nat /\ res = c.resident
  <2>1. /\ EntryBytes(c, M) = Total(Weight, M) /\ Total(Weight, M) \in Nat
        /\ c.resident = Total(Weight, M) + Total(Weight, D \ M)
        /\ Total(Weight, D \ M) \in Nat
    BY <1>6, <1>19, Holding
  <2>2. EntryBytes([entries |-> ent], P) = Total(Weight, P)
    <3>1. PICK x : x = [entries |-> ent]
      OBVIOUS
    <3>2. x.entries = ent
      BY <3>1
    <3>3. DOMAIN x.entries \subseteq AllKeys /\ Faithful(x) /\ P \in SUBSET (DOMAIN x.entries)
      BY <1>17, <1>19, <1>20, <1>21, <3>2 DEF Faithful
    <3> QED BY <3>1, <3>3, CacheBytes
  <2>3. Total(Weight, P) = Total(Weight, M)
    BY <1>4, <1>5, FusedWeight
  <2>4. Total(Weight, P \cup (D \ M)) = Total(Weight, P) + Total(Weight, D \ M)
    <3>1. P \in SUBSET AllKeys /\ D \ M \in SUBSET AllKeys
      BY <1>19
    <3>2. IsFiniteSet(P) /\ IsFiniteSet(D \ M) /\ \A k \in P \cup (D \ M) : Weight[k] \in Nat
      BY <3>1, KeysFinite, WeightType
    <3> QED BY <1>19, <3>2, TotalUnion
  <2> QED BY <1>11, <2>1, <2>2, <2>3, <2>4
<1>27. Shape(r)
  <2>1. c.lru \in Seq(Records) /\ P \cup (D \ M) \subseteq AllKeys
    BY <1>19 DEF Orderly, Shape
  <2> QED BY <1>14, <1>18, <1>21, <1>22, <1>26, <2>1 DEF Shape
<1>28. Fits(r)
  <2>1. DOMAIN r.entries \subseteq AllKeys /\ r.resident = Total(Weight, DOMAIN r.entries)
    BY <1>19, <1>21, <1>22, <1>26
  <2>2. r.resident <= r.capacity
    BY <1>22, <1>26 DEF Orderly, Fits
  <2> QED BY <1>23, <2>1, <2>2, FitsFromTotal
<1> QED BY <1>4, <1>5, <1>6, <1>21, <1>22, <1>23, <1>24, <1>25, <1>27, <1>28 DEF Orderly, SameSetup

\* The file names every tensor, and none of them twice.
LEMMA FileOrderIs ==
  /\ IsFiniteSet(Tensors) /\ Len(FileOrder) \in Nat
  /\ \A i \in 1..Len(FileOrder) : FileOrder[i] \in Tensors
  /\ \A t \in Tensors : \E i \in 1..Len(FileOrder) : FileOrder[i] = t
  /\ \A i, j \in 1..Len(FileOrder) : FileOrder[i] = FileOrder[j] => i = j
<1>1. FileOrder \in Seq(Tensors) /\ ToSet(FileOrder) = Tensors /\ Len(FileOrder) = Cardinality(Tensors)
  BY MoeAssumption
<1>2. PICK L : L = Len(FileOrder) /\ L \in Nat
  BY <1>1
<1>3. PICK f : f = FileOrder /\ f \in [1..L -> Tensors]
  BY <1>1, <1>2
<1>4. \A t \in Tensors : \E i \in 1..L : f[i] = t
  BY <1>1, <1>3 DEF ToSet
<1>5. f \in Surjection(1..L, Tensors)
  BY <1>3, <1>4 DEF Surjection
<1>6. IsFiniteSet(1..L) /\ Cardinality(1..L) = L
  <2>1. IsFiniteSet(1..L) /\ Cardinality(1..L) = (IF 1 > L THEN 0 ELSE L - 1 + 1)
    <3>1. 1 \in Int /\ L \in Int
      BY <1>2
    <3> QED BY ONLY <3>1, FS_Interval
  <2> QED BY <1>2, <2>1
<1>7. IsFiniteSet(Tensors) /\ f \in Injection(1..L, Tensors)
  <2>1. Cardinality(Tensors) = Cardinality(1..L)
    BY <1>1, <1>2, <1>6
  <2> QED BY <1>5, <1>6, <2>1, FS_Surjection
<1>8. \A i, j \in 1..L : f[i] = f[j] => i = j
  <2>1. f \in [1..L -> Tensors] /\ DOMAIN f = 1..L
    BY <1>3
  <2> QED BY <1>7, <2>1 DEF Injection, IsInjective
<1> QED BY <1>2, <1>3, <1>4, <1>7, <1>8

\* One key for each expert of each tensor: what a start that pins loads.
TensorKeys == {Key(l, part, e) : l \in MoeLayers, part \in {"gate", "up", "down"}, e \in Experts}

\* A tensor is a layer and one of its three parts.
LEMMA TensorIs ==
  ASSUME NEW t \in Tensors
  PROVE  t[1] \in MoeLayers /\ t[2] \in {"gate", "up", "down"} /\ t = <<t[1], t[2]>>
BY DEF Tensors

\* Warming loads every tensor's experts, each of them once.
LEMMA WarmAllPlanIs ==
  /\ WarmAllPlan \in Seq(TensorKeys) /\ Len(WarmAllPlan) \in Nat
  /\ \A i, j \in 1..Len(WarmAllPlan) : WarmAllPlan[i] = WarmAllPlan[j] => i = j
  /\ \A k \in TensorKeys : \E i \in 1..Len(WarmAllPlan) : WarmAllPlan[i] = k
<1>1. PICK L : L = Len(FileOrder) /\ L \in Nat
  BY FileOrderIs
<1>2. PICK E : E = ExpertCount /\ E \in Nat \ {0}
  BY MoeAssumption
<1>3. PICK M : M = L * E /\ M \in Nat
  BY <1>1, <1>2
<1>4. PICK at : at = [n \in 1..M |-> (n - 1) \div E + 1]
  OBVIOUS
<1>5. PICK of : of = [n \in 1..M |-> (n - 1) % E]
  OBVIOUS
<1>6. ASSUME NEW n \in 1..M
      PROVE  at[n] \in 1..L /\ of[n] \in 0..(E - 1) /\ n = E * (at[n] - 1) + of[n] + 1
  <2>1. n - 1 \in Nat /\ n - 1 < L * E
    BY <1>3
  <2>2. PICK q : q = (n - 1) \div E
    OBVIOUS
  <2>3. PICK r : r = (n - 1) % E
    OBVIOUS
  <2>4. q \in Int /\ r \in 0..(E - 1) /\ n - 1 = E * q + r
    BY <1>2, <2>1, <2>2, <2>3, DivMod
  <2>5. E * L = L * E
    BY <1>1, <1>2
  <2>6. 0 <= q /\ q < L
    BY <1>1, <1>2, <2>1, <2>4, <2>5, QuotientBelow
  <2>7. at[n] = q + 1 /\ of[n] = r
    BY <1>4, <1>5, <2>2, <2>3
  <2>8. at[n] - 1 = q
    BY <2>4, <2>7
  <2> QED BY <1>1, <1>2, <2>1, <2>4, <2>6, <2>7, <2>8
<1>7. PICK w : w = WarmAllPlan
  OBVIOUS
<1>8. w = [n \in 1..M |-> Key(FileOrder[at[n]][1], FileOrder[at[n]][2], of[n])]
  BY <1>1, <1>2, <1>3, <1>4, <1>5, <1>7, Zenon DEF WarmAllPlan
<1>9. Experts = 0..(E - 1)
  BY <1>2 DEF Experts
<1>10. ASSUME NEW n \in 1..M
       PROVE  w[n] \in TensorKeys /\ FileOrder[at[n]] = <<w[n].layer, w[n].part>> /\ of[n] = w[n].expert
  <2>1. FileOrder[at[n]] \in Tensors
    BY <1>1, <1>6, FileOrderIs
  <2>2. PICK t : t = FileOrder[at[n]]
    OBVIOUS
  <2>3. t[1] \in MoeLayers /\ t[2] \in {"gate", "up", "down"} /\ t = <<t[1], t[2]>> /\ of[n] \in Experts
    BY <1>6, <1>9, <2>1, <2>2, TensorIs
  <2>4. w[n] = Key(t[1], t[2], of[n])
    BY <1>8, <2>2
  <2> QED BY <2>2, <2>3, <2>4, KeyFields DEF TensorKeys
<1>11. w \in Seq(TensorKeys) /\ Len(w) = M
  BY <1>3, <1>8, <1>10
<1>12. \A i, j \in 1..M : w[i] = w[j] => i = j
  <2> SUFFICES ASSUME NEW i \in 1..M, NEW j \in 1..M, w[i] = w[j] PROVE i = j
    OBVIOUS
  <2>1. FileOrder[at[i]] = FileOrder[at[j]] /\ of[i] = of[j]
    BY <1>10
  <2>2. at[i] = at[j]
    BY <1>1, <1>6, <2>1, FileOrderIs
  <2> QED BY <1>6, <2>1, <2>2
<1>13. \A k \in TensorKeys : \E i \in 1..M : w[i] = k
  <2> SUFFICES ASSUME NEW l \in MoeLayers, NEW part \in {"gate", "up", "down"}, NEW e \in Experts
               PROVE  \E i \in 1..M : w[i] = Key(l, part, e)
    BY DEF TensorKeys
  <2>1. <<l, part>> \in Tensors
    BY DEF Tensors
  <2>2. PICK f \in 1..L : FileOrder[f] = <<l, part>>
    BY <1>1, <2>1, FileOrderIs
  <2>3. PICK i : i = E * (f - 1) + e + 1
    OBVIOUS
  <2>4. i \in 1..M
    <3>1. e \in 0..(E - 1) /\ f - 1 \in Nat /\ f <= L
      BY <1>1, <1>9
    <3>2. E * (f - 1) \in Nat /\ E * (f - 1) <= E * (L - 1)
      BY <1>1, <1>2, <3>1
    <3>3. E * (L - 1) = L * E - E
      BY <1>1, <1>2
    <3>4. i \in Nat /\ i >= 1 /\ i <= E * (L - 1) + (E - 1) + 1
      BY <1>1, <1>2, <2>3, <3>1, <3>2
    <3> QED BY <1>1, <1>2, <1>3, <3>3, <3>4
  <2>5. E * (f - 1) + e = E * (at[i] - 1) + of[i]
    <3>1. PICK a : a = E * (f - 1) + e /\ a \in Int
      BY <1>1, <1>2, <1>9
    <3>2. PICK b : b = E * (at[i] - 1) + of[i] /\ b \in Int
      BY <1>1, <1>2, <1>6, <2>4
    <3>3. i = a + 1 /\ i = b + 1
      BY <1>6, <2>3, <2>4, <3>1, <3>2
    <3> QED BY <3>1, <3>2, <3>3
  <2>6. f - 1 = at[i] - 1 /\ e = of[i]
    <3>1. f - 1 \in Int /\ at[i] - 1 \in Int /\ e \in 0..(E - 1) /\ of[i] \in 0..(E - 1)
      BY <1>1, <1>6, <1>9, <2>4
    <3> QED BY <1>2, <2>5, <3>1, DivModUnique
  <2>7. f = at[i]
    BY <1>1, <1>6, <2>4, <2>6
  <2>8. w[i] = Key(l, part, e)
    <3>1. <<l, part>>[1] = l /\ <<l, part>>[2] = part
      OBVIOUS
    <3> QED BY <1>8, <2>2, <2>4, <2>6, <2>7, <3>1
  <2> QED BY <2>4, <2>8
<1> QED BY <1>3, <1>7, <1>11, <1>12, <1>13

\* The keys of some experts of one tensor.
PartKeys(l, part, E) == {Key(l, part, e) : e \in E}
\* The keys of some tensors.
KeysOf(T) == {Key(t[1], t[2], e) : t \in T, e \in Experts}
\* The bytes of each tensor.
TensorBytes == [t \in Tensors |-> ExpertCount * Size[t[2]]]

\* The tensors are parts a key may name.
LEMMA TensorParts == {"gate", "up", "down"} \subseteq Parts
BY DEF Parts

\* The experts of one tensor take as many bytes as the tensor.
LEMMA PartWeight ==
  ASSUME NEW l \in MoeLayers, NEW part \in {"gate", "up", "down"}
  PROVE  Total(Weight, PartKeys(l, part, Experts)) = ExpertCount * Size[part]
<1>1. PICK b : b = Size[part] /\ b \in Nat
  BY CacheAssumption
<1>2. PICK P : P = {E \in SUBSET Experts : Total(Weight, PartKeys(l, part, E)) = Cardinality(E) * b}
  OBVIOUS
<1>3. {} \in P
  <2>1. PartKeys(l, part, {}) = {}
    BY DEF PartKeys
  <2>2. Total(Weight, {}) = 0
    BY FS_EmptySet, TotalByChosen
  <2>3. Cardinality({}) * b = 0
    BY <1>1, FS_EmptySet
  <2> QED BY <1>2, <2>1, <2>2, <2>3
<1>4. ASSUME NEW E \in SUBSET Experts, NEW e \in Experts, E \in P, e \notin E PROVE E \cup {e} \in P
  <2>1. PICK k : k = Key(l, part, e)
    OBVIOUS
  <2>2. PICK K : K = PartKeys(l, part, E)
    OBVIOUS
  <2>3. k \in AllKeys /\ k.part = part /\ k.expert = e
    BY <2>1, KeyIsKey, KeyFields, TensorParts
  <2>4. K \in SUBSET AllKeys
    BY <2>2, KeyIsKey, TensorParts DEF PartKeys
  <2>5. k \notin K
    BY <1>4, <2>2, <2>3, KeyFields DEF PartKeys
  <2>6. PartKeys(l, part, E \cup {e}) = K \cup {k}
    BY <2>1, <2>2 DEF PartKeys
  <2>7. Weight[k] = b
    BY <1>1, <2>3 DEF Weight
  <2>8. IsFiniteSet(K) /\ \A x \in K : Weight[x] \in Nat
    BY <2>4, KeysFinite, WeightType
  <2>9. Total(Weight, K \cup {k}) = b + Total(Weight, K)
    BY <1>1, <2>5, <2>7, <2>8, TotalAdd
  <2>10. IsFiniteSet(E) /\ Cardinality(E) \in Nat /\ Cardinality(E \cup {e}) = Cardinality(E) + 1
    <3>1. IsFiniteSet(E)
      BY ExpertsAre, FS_Subset
    <3> QED BY <1>4, <3>1, FS_CardinalityType, FS_AddElement
  <2>11. PICK n : n = Cardinality(E) /\ n \in Nat
    BY <2>10
  <2>12. Total(Weight, K) = n * b
    BY <1>2, <1>4, <2>2, <2>11
  <2>13. b + n * b = (n + 1) * b
    BY <1>1, <2>11
  <2>14. Total(Weight, PartKeys(l, part, E \cup {e})) = Cardinality(E \cup {e}) * b
    BY <2>6, <2>9, <2>10, <2>11, <2>12, <2>13
  <2> QED BY <1>2, <1>4, <2>14
<1>5. Experts \in P
  <2>1. \A T \in SUBSET Experts : \A x \in Experts : T \in P /\ x \notin T => T \cup {x} \in P
    BY <1>4
  <2>2. IsFiniteSet(Experts)
    BY ExpertsAre
  <2>3. \A T \in SUBSET Experts : T \in P
    BY <1>3, <2>1, <2>2, FiniteInduction
  <2> QED BY <2>3
<1>6. Cardinality(Experts) = ExpertCount
  <2>1. PICK n : n = ExpertCount /\ n \in Nat \ {0}
    BY MoeAssumption
  <2>2. Cardinality(0..(n - 1)) = (IF 0 > n - 1 THEN 0 ELSE n - 1 - 0 + 1)
    <3>1. 0 \in Int /\ n - 1 \in Int
      BY <2>1
    <3> QED BY ONLY <3>1, FS_Interval
  <2> QED BY <2>1, <2>2 DEF Experts
<1> QED BY <1>1, <1>2, <1>5, <1>6

\* The model's byte count is the sum over its tensors.
LEMMA TotalBytesIsTotal == TotalBytes = Total(TensorBytes, Tensors)
<1>1. PICK S : S = Tensors /\ IsFiniteSet(S)
  BY FileOrderIs
<1>2. PICK F : F = TensorBytes
  OBVIOUS
<1>3. \A t \in S : F[t] \in Nat /\ F[t] = ExpertCount * Size[t[2]]
  <2> SUFFICES ASSUME NEW t \in Tensors PROVE TensorBytes[t] \in Nat /\ TensorBytes[t] = ExpertCount * Size[t[2]]
    BY <1>1, <1>2
  <2>1. TensorBytes[t] = ExpertCount * Size[t[2]]
    BY DEF TensorBytes
  <2>2. Size[t[2]] \in Nat /\ ExpertCount \in Nat
    BY TensorIs, CacheAssumption, MoeAssumption
  <2> QED BY <2>1, <2>2
<1>4. PICK h : AddsUp(h, F, S) /\ Total(F, S) = h[S]
  BY <1>1, <1>3, TotalIs
<1>5. \A s \in SUBSET S : s # {} => F[Chosen(s)] = ExpertCount * Size[Chosen(s)[2]]
  BY <1>3, ChosenIn
<1>6. h = [s \in SUBSET S |-> IF s = {} THEN 0 ELSE ExpertCount * Size[Chosen(s)[2]] + h[s \ {Chosen(s)}]]
  BY <1>4, <1>5 DEF AddsUp
<1>7. PICK g : g = CHOOSE k : k = [s \in SUBSET S |-> IF s = {} THEN 0 ELSE ExpertCount * Size[Chosen(s)[2]] + k[s \ {Chosen(s)}]]
  OBVIOUS
<1>8. g = [s \in SUBSET S |-> IF s = {} THEN 0 ELSE ExpertCount * Size[Chosen(s)[2]] + g[s \ {Chosen(s)}]]
  BY <1>6, <1>7
<1>9. AddsUp(g, F, S)
  BY <1>5, <1>8 DEF AddsUp
<1>10. TotalBytes = g[S]
  BY <1>1, <1>7, Zenon DEF TotalBytes, MapThenSumSet, MapThenFoldSet, Chosen
<1>11. g[S] = h[S]
  <2>1. S \in SUBSET S
    OBVIOUS
  <2> QED BY ONLY <2>1, <1>1, <1>4, <1>9, AddsUpAgree
<1> QED BY <1>1, <1>2, <1>4, <1>10, <1>11

\* The matrices of the model take the bytes a pinned start has to find room for.
LEMMA ModelWeight == Total(Weight, TensorKeys) = TotalBytes
<1>1. PICK F : F = TensorBytes
  OBVIOUS
<1>2. PICK P : P = {T \in SUBSET Tensors : Total(Weight, KeysOf(T)) = Total(F, T)}
  OBVIOUS
<1>3. {} \in P
  <2>1. KeysOf({}) = {}
    BY DEF KeysOf
  <2> QED BY <1>2, <2>1, FS_EmptySet, TotalByChosen
<1>4. \A t \in Tensors : F[t] \in Nat /\ F[t] = ExpertCount * Size[t[2]]
  <2> SUFFICES ASSUME NEW t \in Tensors PROVE TensorBytes[t] \in Nat /\ TensorBytes[t] = ExpertCount * Size[t[2]]
    BY <1>1
  <2>1. TensorBytes[t] = ExpertCount * Size[t[2]]
    BY DEF TensorBytes
  <2>2. Size[t[2]] \in Nat /\ ExpertCount \in Nat
    BY TensorIs, CacheAssumption, MoeAssumption
  <2> QED BY <2>1, <2>2
<1>5. \A T \in SUBSET Tensors : KeysOf(T) \in SUBSET AllKeys
  BY TensorIs, KeyIsKey, TensorParts DEF KeysOf
<1>6. ASSUME NEW T \in SUBSET Tensors, NEW t \in Tensors, T \in P, t \notin T PROVE T \cup {t} \in P
  <2>1. PICK A : A = KeysOf(T)
    OBVIOUS
  <2>2. PICK B : B = PartKeys(t[1], t[2], Experts)
    OBVIOUS
  <2>3. KeysOf(T \cup {t}) = A \cup B
    BY <2>1, <2>2 DEF KeysOf, PartKeys
  <2>4. A \in SUBSET AllKeys
    BY <1>5, <2>1
  <2>5. B \in SUBSET AllKeys
    BY <2>2, TensorIs, KeyIsKey, TensorParts DEF PartKeys
  <2>6. A \cap B = {}
    <3> SUFFICES ASSUME NEW k \in A, k \in B PROVE FALSE
      OBVIOUS
    <3>1. k.layer = t[1] /\ k.part = t[2]
      BY <2>2, KeyFields DEF PartKeys
    <3>2. PICK u \in T : k.layer = u[1] /\ k.part = u[2]
      BY <2>1, KeyFields DEF KeysOf
    <3>3. t = <<t[1], t[2]>> /\ u = <<u[1], u[2]>>
      BY TensorIs
    <3>4. t = u
      BY <3>1, <3>2, <3>3
    <3> QED BY <1>6, <3>4
  <2>7. IsFiniteSet(A) /\ IsFiniteSet(B) /\ \A k \in A \cup B : Weight[k] \in Nat
    BY <2>4, <2>5, KeysFinite, WeightType
  <2>8. Total(Weight, A \cup B) = Total(Weight, A) + Total(Weight, B)
    BY <2>6, <2>7, TotalUnion
  <2>9. Total(Weight, B) = F[t]
    BY <1>4, <2>2, TensorIs, PartWeight
  <2>10. IsFiniteSet(T) /\ \A x \in T : F[x] \in Nat
    BY <1>4, FileOrderIs, FS_Subset
  <2>11. Total(F, T \cup {t}) = F[t] + Total(F, T)
    BY <1>4, <1>6, <2>10, TotalAdd
  <2>12. Total(F, T) \in Nat /\ F[t] \in Nat
    BY <1>4, <2>10, TotalNat
  <2>13. Total(Weight, A) = Total(F, T)
    BY <1>2, <1>6, <2>1
  <2>14. Total(Weight, KeysOf(T \cup {t})) = Total(F, T \cup {t})
    <3>1. PICK a : a = Total(Weight, A)
      OBVIOUS
    <3>2. PICK f : f = F[t]
      OBVIOUS
    <3>3. Total(Weight, KeysOf(T \cup {t})) = a + f
      BY <2>3, <2>8, <2>9, <3>1, <3>2
    <3>4. Total(F, T \cup {t}) = f + a
      BY <2>11, <2>13, <3>1, <3>2
    <3>5. a \in Nat /\ f \in Nat
      BY <2>12, <2>13, <3>1, <3>2
    <3> QED BY <3>3, <3>4, <3>5
  <2> QED BY <1>2, <1>6, <2>14
<1>7. Tensors \in P
  <2>1. \A T \in SUBSET Tensors : \A x \in Tensors : T \in P /\ x \notin T => T \cup {x} \in P
    BY <1>6
  <2>2. IsFiniteSet(Tensors)
    BY FileOrderIs
  <2>3. \A T \in SUBSET Tensors : T \in P
    BY <1>3, <2>1, <2>2, FiniteInduction
  <2> QED BY <2>3
<1>8. KeysOf(Tensors) = TensorKeys
  <2>1. \A l \in MoeLayers, part \in {"gate", "up", "down"} :
          <<l, part>> \in Tensors /\ <<l, part>>[1] = l /\ <<l, part>>[2] = part
    BY DEF Tensors
  <2>2. TensorKeys \subseteq KeysOf(Tensors)
    <3> SUFFICES ASSUME NEW l \in MoeLayers, NEW part \in {"gate", "up", "down"}, NEW e \in Experts
                 PROVE  Key(l, part, e) \in KeysOf(Tensors)
      BY DEF TensorKeys
    <3>1. PICK t \in Tensors : t[1] = l /\ t[2] = part
      BY <2>1
    <3> QED BY <3>1 DEF KeysOf
  <2>3. KeysOf(Tensors) \subseteq TensorKeys
    BY TensorIs DEF KeysOf, TensorKeys
  <2> QED BY <2>2, <2>3
<1> QED BY <1>1, <1>2, <1>7, <1>8, TotalBytesIsTotal

\* A row chooses experts, none of them twice.
LEMMA PicksAre ==
  /\ ExpertsPerToken \in Nat \ {0}
  /\ \A pick \in RouterPicks :
       /\ pick \in [1..ExpertsPerToken -> Experts]
       /\ \A i, j \in 1..ExpertsPerToken : pick[i] = pick[j] => i = j
  /\ \A rts \in Seq(RouterPicks) : \A row \in 1..Len(rts) : rts[row] \in RouterPicks
<1>1. ExpertsPerToken \in Nat \ {0}
  BY MoeAssumption
<1>2. \A pick \in RouterPicks :
        /\ pick \in [1..ExpertsPerToken -> Experts]
        /\ \A i, j \in 1..ExpertsPerToken : pick[i] = pick[j] => i = j
  BY MoeAssumption
<1> QED BY <1>1, <1>2

\* The (row, route) slots that chose an expert.
SlotsOf(rts, e) == {s \in (1..Len(rts)) \X (1..ExpertsPerToken) : rts[s[1]][s[2]] = e}

\* The slots of an expert, at most one in each row, all of them in its group.
LEMMA AssignedIs ==
  ASSUME NEW rts \in Seq(RouterPicks), NEW e, NEW a, a = Assigned(rts, e)
  PROVE  /\ a \in Seq(SlotsOf(rts, e)) /\ Len(a) \in 0..Len(rts)
         /\ \A s \in SlotsOf(rts, e) : \E i \in 1..Len(a) : a[i] = s
<1>1. PICK S : S = SlotsOf(rts, e)
  OBVIOUS
<1>2. PICK E : E = ExpertsPerToken /\ E \in Nat \ {0}
  BY PicksAre
<1>3. PICK L : L = Len(rts) /\ L \in Nat
  OBVIOUS
<1>4. PICK rank : rank = [s \in S |-> s[1] * E + s[2]]
  OBVIOUS
<1>5. a = InOrder(S, rank)
  BY <1>1, <1>2, <1>4 DEF Assigned, SlotsOf
<1>6. \A s \in S : s[1] \in 1..L /\ s[2] \in 1..E /\ s = <<s[1], s[2]>> /\ rts[s[1]][s[2]] = e
  BY <1>1, <1>2, <1>3 DEF SlotsOf
<1>7. PICK row : row = [s \in S |-> s[1]]
  OBVIOUS
<1>8. \A s, t \in S : row[s] = row[t] => s = t
  <2> SUFFICES ASSUME NEW s \in S, NEW t \in S, row[s] = row[t] PROVE s = t
    OBVIOUS
  <2>1. s[1] = t[1] /\ rts[s[1]] \in RouterPicks
    BY <1>3, <1>6, <1>7, PicksAre
  <2>2. s[2] = t[2]
    BY <1>2, <1>6, <2>1, PicksAre
  <2> QED BY <1>6, <2>1, <2>2
<1>9. IsFiniteSet(S) /\ Cardinality(S) \in 0..L
  <2>1. row \in [S -> 1..L]
    BY <1>6, <1>7
  <2>2. row \in Injection(S, 1..L)
    BY <1>8, <2>1 DEF Injection, IsInjective
  <2>3. IsFiniteSet(1..L) /\ Cardinality(1..L) = (IF 1 > L THEN 0 ELSE L - 1 + 1)
    <3>1. 1 \in Int /\ L \in Int
      BY <1>3
    <3> QED BY ONLY <3>1, FS_Interval
  <2>4. IsFiniteSet(S) /\ Cardinality(S) <= Cardinality(1..L)
    BY <2>2, <2>3, FS_Injection
  <2>5. Cardinality(S) \in Nat
    BY <2>4, FS_CardinalityType
  <2> QED BY <1>3, <2>3, <2>4, <2>5
<1>10. \A s \in S : rank[s] \in Nat
  <2> SUFFICES ASSUME NEW s \in S PROVE rank[s] \in Nat
    OBVIOUS
  <2>1. rank[s] = s[1] * E + s[2] /\ s[1] \in Nat /\ s[2] \in Nat
    BY <1>2, <1>3, <1>4, <1>6
  <2> QED BY <1>2, <2>1
<1>11. \A s, t \in S : rank[s] = rank[t] => s = t
  <2> SUFFICES ASSUME NEW s \in S, NEW t \in S, rank[s] = rank[t] PROVE s = t
    OBVIOUS
  <2>1. /\ s[1] \in Int /\ t[1] \in Int /\ s[2] - 1 \in 0..(E - 1) /\ t[2] - 1 \in 0..(E - 1)
        /\ s[2] \in Int /\ t[2] \in Int
    BY <1>2, <1>3, <1>6
  <2>2. rank[s] = s[1] * E + s[2] /\ rank[t] = t[1] * E + t[2]
    BY <1>4
  <2>3. s[1] * E = E * s[1] /\ t[1] * E = E * t[1] /\ E * s[1] \in Int /\ E * t[1] \in Int
    BY <1>2, <2>1
  <2>4. E * s[1] + (s[2] - 1) = E * t[1] + (t[2] - 1)
    <3>1. PICK x : x = E * s[1] /\ x \in Int
      BY <2>3
    <3>2. PICK y : y = E * t[1] /\ y \in Int
      BY <2>3
    <3>3. x + s[2] = y + t[2]
      BY <2>2, <2>3, <3>1, <3>2
    <3>4. x + (s[2] - 1) = y + (t[2] - 1)
      <4>1. PICK u : u = s[2] /\ u \in Int
        BY <2>1
      <4>2. PICK v : v = t[2] /\ v \in Int
        BY <2>1
      <4>3. x + (u - 1) = y + (v - 1)
        <5>1. x \in Int /\ y \in Int /\ u \in Int /\ v \in Int
          BY <3>1, <3>2, <4>1, <4>2
        <5>2. x + u = y + v
          BY <3>3, <4>1, <4>2
        <5> QED BY ONLY <5>1, <5>2
      <4> QED BY <4>1, <4>2, <4>3
    <3> QED BY <3>1, <3>2, <3>4
  <2>5. s[1] = t[1] /\ s[2] - 1 = t[2] - 1
    <3>1. PICK q : q = s[1] /\ q \in Int
      BY <2>1
    <3>2. PICK r : r = s[2] - 1 /\ r \in 0..(E - 1)
      BY <2>1
    <3>3. PICK p : p = t[1] /\ p \in Int
      BY <2>1
    <3>4. PICK v : v = t[2] - 1 /\ v \in 0..(E - 1)
      BY <2>1
    <3>5. E * q + r = E * p + v
      BY <2>4, <3>1, <3>2, <3>3, <3>4
    <3>6. q = p /\ r = v
      <4>1. E \in Nat \ {0}
        BY <1>2
      <4>2. q \in Int /\ p \in Int /\ r \in 0..(E - 1) /\ v \in 0..(E - 1)
        BY <3>1, <3>2, <3>3, <3>4
      <4> QED BY ONLY <3>5, <4>1, <4>2, DivModUnique
    <3> QED BY <3>1, <3>2, <3>3, <3>4, <3>6
  <2> QED BY <1>6, <2>1, <2>5
<1>12. /\ a \in Seq(S) /\ Len(a) = Cardinality(S)
       /\ \A s \in S : \E i \in 1..Cardinality(S) : a[i] = s
  BY <1>5, <1>9, <1>10, <1>11, InOrderIs
<1> QED BY <1>1, <1>3, <1>9, <1>12

\* The experts that some row chose.
ChosenBy(rts) == UNION {ToSet(rts[row]) : row \in DOMAIN rts}

\* They are experts, and every route chose one of them.
LEMMA ChosenByIs ==
  ASSUME NEW rts \in Seq(RouterPicks)
  PROVE  /\ ChosenBy(rts) \subseteq Experts
         /\ \A row \in 1..Len(rts), i \in 1..ExpertsPerToken : rts[row][i] \in ChosenBy(rts)
<1>1. \A row \in DOMAIN rts : rts[row] \in [1..ExpertsPerToken -> Experts]
  BY PicksAre
<1>2. DOMAIN rts = 1..Len(rts)
  OBVIOUS
<1>3. \A row \in DOMAIN rts : ToSet(rts[row]) = {rts[row][i] : i \in 1..ExpertsPerToken}
  BY <1>1 DEF ToSet
<1>4. ChosenBy(rts) = UNION {ToSet(rts[row]) : row \in DOMAIN rts}
  BY DEF ChosenBy
<1>5. \A row \in DOMAIN rts : ToSet(rts[row]) \subseteq Experts
  <2> SUFFICES ASSUME NEW row \in DOMAIN rts, NEW i \in 1..ExpertsPerToken PROVE rts[row][i] \in Experts
    BY <1>3
  <2>1. rts[row] \in [1..ExpertsPerToken -> Experts]
    BY <1>1
  <2> QED BY <2>1
<1>6. \A row \in DOMAIN rts, i \in 1..ExpertsPerToken : rts[row][i] \in ToSet(rts[row])
  BY <1>3
<1> QED BY <1>2, <1>4, <1>5, <1>6

\* Every slot is in exactly the group of the expert its row chose there.
GroupsFit(groups, rts) ==
  /\ \A g \in DOMAIN groups :
       /\ groups[g].expert \in Experts
       /\ \A j \in DOMAIN groups[g].slots :
            groups[g].slots[j] \in SlotsOf(rts, groups[g].expert)
  /\ \A s \in (1..Len(rts)) \X (1..ExpertsPerToken) :
       \E g \in DOMAIN groups, j \in 1..Len(rts) :
         j \in DOMAIN groups[g].slots /\ groups[g].slots[j] = s

\* Grouping by expert puts every slot in the group of its expert.
LEMMA GroupedFits ==
  ASSUME NEW rts \in Seq(RouterPicks), NEW groups, groups = GroupedByExpert(rts)
  PROVE  GroupsFit(groups, rts) /\ \E n \in Nat : DOMAIN groups = 1..n
<1>1. PICK C : C = ChosenBy(rts)
  OBVIOUS
<1>2. PICK rank : rank = [e \in C |-> e]
  OBVIOUS
<1>3. PICK used : used = InOrder(C, rank)
  OBVIOUS
<1>4. IsFiniteSet(C) /\ C \subseteq Nat /\ C \subseteq Experts
  BY <1>1, ChosenByIs, ExpertsAre, FS_Subset
<1>5. /\ used \in Seq(C) /\ Len(used) \in Nat /\ DOMAIN used = 1..Len(used)
      /\ \A e \in C : \E g \in DOMAIN used : used[g] = e
  <2>1. (\A e \in C : rank[e] \in Nat) /\ \A d, e \in C : rank[d] = rank[e] => d = e
    BY <1>2, <1>4
  <2>2. used \in Seq(C) /\ Len(used) = Cardinality(C) /\ \A e \in C : \E i \in 1..Cardinality(C) : used[i] = e
    <3>1. IsFiniteSet(C)
      BY <1>4
    <3> QED BY ONLY <1>3, <2>1, <3>1, InOrderIs
  <2> QED BY <2>2
<1>6. groups = [g \in DOMAIN used |-> [expert |-> used[g], slots |-> Assigned(rts, used[g])]]
  BY <1>1, <1>2, <1>3, Zenon DEF GroupedByExpert, ChosenBy
<1>7. \A g \in DOMAIN groups :
        groups[g].expert = used[g] /\ groups[g].slots = Assigned(rts, used[g]) /\ g \in DOMAIN used
  BY <1>6
<1>8. ASSUME NEW g \in DOMAIN groups
      PROVE  /\ groups[g].expert \in Experts
             /\ \A j \in DOMAIN groups[g].slots : groups[g].slots[j] \in SlotsOf(rts, groups[g].expert)
  <2>1. groups[g].slots \in Seq(SlotsOf(rts, groups[g].expert))
    BY <1>7, AssignedIs
  <2>2. \A j \in DOMAIN groups[g].slots : groups[g].slots[j] \in SlotsOf(rts, groups[g].expert)
    BY <2>1
  <2>3. g \in DOMAIN used /\ groups[g].expert = used[g]
    BY <1>7
  <2>4. used[g] \in C
    BY <1>5, <2>3
  <2> QED BY <1>4, <2>2, <2>3, <2>4
<1>9. ASSUME NEW s \in (1..Len(rts)) \X (1..ExpertsPerToken)
      PROVE  \E g \in DOMAIN groups, j \in 1..Len(rts) :
               j \in DOMAIN groups[g].slots /\ groups[g].slots[j] = s
  <2>1. PICK e : e = rts[s[1]][s[2]]
    OBVIOUS
  <2>2. s[1] \in 1..Len(rts) /\ s[2] \in 1..ExpertsPerToken /\ s \in SlotsOf(rts, e)
    BY <2>1 DEF SlotsOf
  <2>3. PICK g \in DOMAIN groups : used[g] = e
    BY <1>1, <1>5, <1>6, <2>1, <2>2, ChosenByIs
  <2>4. PICK q : q = Assigned(rts, e)
    OBVIOUS
  <2>5. q \in Seq(SlotsOf(rts, e)) /\ Len(q) \in 0..Len(rts)
        /\ \E i \in 1..Len(q) : q[i] = s
    BY <2>2, <2>4, AssignedIs
  <2>6. PICK j \in 1..Len(q) : q[j] = s
    BY <2>5
  <2>7. j \in DOMAIN q /\ j \in 1..Len(rts)
    BY <2>5, <2>6
  <2> QED BY <1>7, <2>3, <2>4, <2>6, <2>7
<1>10. DOMAIN groups = 1..Len(used)
  BY <1>5, <1>6
<1> QED BY <1>5, <1>8, <1>9, <1>10 DEF GroupsFit

\* So does running one row alone.
LEMMA TokenMajorFits ==
  ASSUME NEW rts \in Seq(RouterPicks), Len(rts) = 1, NEW groups, groups = TokenMajor(rts[1])
  PROVE  GroupsFit(groups, rts) /\ \E n \in Nat : DOMAIN groups = 1..n
<1>1. rts[1] \in RouterPicks
  BY PicksAre
<1>2. rts[1] \in [1..ExpertsPerToken -> Experts] /\ ExpertsPerToken \in Nat
  BY <1>1, PicksAre
<1>3. groups = [g \in 1..ExpertsPerToken |-> [expert |-> rts[1][g], slots |-> <<(<<1, g>>)>>]]
  BY <1>2 DEF TokenMajor
<1>4. \A g \in 1..ExpertsPerToken :
        /\ groups[g].expert = rts[1][g] /\ DOMAIN groups[g].slots = {1} /\ groups[g].slots[1] = <<1, g>>
  BY <1>3
<1>5. 1..Len(rts) = {1}
  OBVIOUS
<1>6. \A g \in 1..ExpertsPerToken : <<1, g>> \in SlotsOf(rts, rts[1][g])
  BY <1>5 DEF SlotsOf
<1>7. \A s \in (1..Len(rts)) \X (1..ExpertsPerToken) : s[2] \in 1..ExpertsPerToken /\ s = <<1, s[2]>>
  BY <1>5
<1>8. DOMAIN groups = 1..ExpertsPerToken
  BY <1>3
<1>9. \A g \in DOMAIN groups :
        /\ groups[g].expert \in Experts
        /\ \A j \in DOMAIN groups[g].slots : groups[g].slots[j] \in SlotsOf(rts, groups[g].expert)
  <2> SUFFICES ASSUME NEW g \in 1..ExpertsPerToken
               PROVE  /\ groups[g].expert \in Experts
                      /\ \A j \in DOMAIN groups[g].slots :
                           groups[g].slots[j] \in SlotsOf(rts, groups[g].expert)
    BY <1>8
  <2>1. groups[g].expert = rts[1][g] /\ rts[1][g] \in Experts
    BY <1>2, <1>4
  <2>2. \A j \in DOMAIN groups[g].slots : groups[g].slots[j] = <<1, g>>
    BY <1>4
  <2> QED BY <1>6, <2>1, <2>2
<1>10. \A s \in (1..Len(rts)) \X (1..ExpertsPerToken) :
         \E g \in DOMAIN groups, j \in 1..Len(rts) :
           j \in DOMAIN groups[g].slots /\ groups[g].slots[j] = s
  <2> SUFFICES ASSUME NEW s \in (1..Len(rts)) \X (1..ExpertsPerToken)
               PROVE  \E g \in DOMAIN groups, j \in 1..Len(rts) :
                        j \in DOMAIN groups[g].slots /\ groups[g].slots[j] = s
    OBVIOUS
  <2>1. PICK g \in 1..ExpertsPerToken : s = <<1, g>>
    BY <1>7
  <2>2. 1 \in DOMAIN groups[g].slots /\ groups[g].slots[1] = s /\ g \in DOMAIN groups /\ 1 \in 1..Len(rts)
    BY <1>4, <1>5, <1>8, <2>1
  <2> QED BY <2>2
<1> QED BY <1>2, <1>8, <1>9, <1>10 DEF GroupsFit

\* So does the forward, whichever of the two it takes.
LEMMA GroupsAre ==
  ASSUME routes \in Seq(RouterPicks)
  PROVE  GroupsFit(Groups, routes) /\ \E n \in Nat : DOMAIN Groups = 1..n
BY GroupedFits, TokenMajorFits, PicksAre DEF Groups

\* The invariant: the cache is sound, it holds what the start has loaded so far, and
\* each worker has the matrices its group's expert needs.
MoeInv == Sound(cache) /\ Residency /\ Working

\* A cache is sound when it is configured.
LEMMA EmptyIsSound ==
  ASSUME NEW capacity \in Nat, NEW c, c = Configured(capacity)
  PROVE  /\ Sound(c) /\ Covered(c) /\ c.capacity = capacity /\ c.full = FALSE
         /\ DOMAIN c.entries = {} /\ c.lru = <<>>
<1>1. /\ c.capacity = capacity /\ c.resident = 0 /\ c.clock = 0 /\ c.lru = <<>> /\ c.full = FALSE
      /\ c.entries = [key \in {} |-> 0] /\ DOMAIN c.entries = {}
      /\ c = [capacity |-> c.capacity, resident |-> c.resident, clock |-> c.clock,
              entries |-> c.entries, lru |-> c.lru, full |-> c.full]
  BY DEF Configured
<1>2. c.lru \in Seq(Records) /\ Len(c.lru) = 0 /\ DOMAIN c.lru = {}
  BY <1>1
<1>3. Shape(c)
  <2>1. c.entries \in [DOMAIN c.entries -> Entries] /\ DOMAIN c.entries \subseteq AllKeys
    <3>1. [key \in {} |-> 0] \in [{} -> Entries]
      OBVIOUS
    <3>2. DOMAIN c.entries = {} /\ c.entries = [key \in {} |-> 0]
      BY <1>1
    <3>3. c.entries \in [{} -> Entries]
      BY ONLY <3>1, <3>2
    <3> QED BY ONLY <3>2, <3>3
  <2>2. /\ c.capacity \in Nat /\ c.resident \in Nat /\ c.clock \in Nat
        /\ c.full \in BOOLEAN /\ c.lru \in Seq(Records)
    <3>1. c.capacity = capacity /\ capacity \in Nat /\ c.resident = 0 /\ c.clock = 0 /\ c.full = FALSE
      BY <1>1
    <3>2. c.capacity \in Nat /\ c.resident \in Nat /\ c.clock \in Nat
      BY ONLY <3>1
    <3>3. c.full \in BOOLEAN
      BY ONLY <3>1
    <3>4. c.lru \in Seq(Records)
      BY ONLY <1>2
    <3> QED BY ONLY <3>2, <3>3, <3>4
  <2>3. c = [capacity |-> c.capacity, resident |-> c.resident, clock |-> c.clock,
             entries |-> c.entries, lru |-> c.lru, full |-> c.full]
    BY <1>1
  <2> QED BY ONLY <2>1, <2>2, <2>3 DEF Shape
<1>4. Faithful(c) /\ Stamped(c) /\ Covered(c)
  BY <1>1 DEF Faithful, Stamped, Covered
<1>5. Queued(c)
  BY <1>2 DEF Queued
<1>6. Fits(c)
  <2>1. Total(Weight, {}) = 0
    BY FS_EmptySet, TotalByChosen
  <2> QED BY <1>1, <1>4, <2>1, FitsFromTotal
<1>7. Proportionate(c)
  <2>1. Cardinality(DOMAIN c.entries) = 0 /\ Slack \in Nat
    BY <1>1, FS_EmptySet, CacheAssumption
  <2> QED BY <1>2, <2>1 DEF Proportionate
<1> QED BY <1>1, <1>3, <1>4, <1>5, <1>6, <1>7 DEF Sound, Orderly

\* A census names keys of the model.
LEMMA CensusPlanIs == CensusPlan \in Seq(AllKeys)
<1>1. PICK n : n = Len(Census) /\ n \in Nat
  BY MoeAssumption
<1>2. \A i \in 1..n : Census[i][1] \in MoeLayers /\ Census[i][2] \in Experts
  BY <1>1, MoeAssumption DEF MoeLayers
<1>3. \A i \in 1..(2 * n) : (i + 1) \div 2 \in 1..n
  BY <1>1
<1>4. \A i \in 1..(2 * n) : CensusPlan[i] \in AllKeys
  <2> SUFFICES ASSUME NEW i \in 1..(2 * n) PROVE CensusPlan[i] \in AllKeys
    OBVIOUS
  <2>1. PICK h : h = Census[(i + 1) \div 2]
    OBVIOUS
  <2>2. h[1] \in MoeLayers /\ h[2] \in Experts
    BY <1>2, <1>3, <2>1
  <2>3. CensusPlan[i] = Key(h[1], IF i % 2 = 1 THEN "pair" ELSE "down", h[2])
    BY <1>1, <2>1 DEF CensusPlan
  <2> QED BY <2>2, <2>3, KeyIsKey DEF Parts
<1>5. CensusPlan = [i \in 1..(2 * n) |-> CensusPlan[i]]
  BY <1>1 DEF CensusPlan
<1> QED BY <1>1, <1>4, <1>5

\* Before the first forward there are no groups.
LEMMA NoRoutesNoGroups ==
  ASSUME routes = <<>>
  PROVE  DOMAIN Groups = {} /\ routes \in Seq(RouterPicks) /\ Len(routes) = 0
<1>1. routes \in Seq(RouterPicks) /\ Len(routes) = 0 /\ DOMAIN routes = {}
  OBVIOUS
<1>2. ChosenBy(routes) = {}
  BY <1>1 DEF ChosenBy
<1>3. Groups = GroupedByExpert(routes)
  BY <1>1 DEF Groups
<1>4. DOMAIN Groups = DOMAIN InOrder(ChosenBy(routes), [e \in ChosenBy(routes) |-> e])
  BY <1>3, Zenon DEF GroupedByExpert, ChosenBy
<1>5. DOMAIN Groups = 1..Cardinality({})
  BY <1>2, <1>4 DEF InOrder
<1> QED BY <1>1, <1>5, FS_EmptySet

\* The invariant holds when the server starts.
LEMMA InitIsSound == MoeInit => MoeInv
<1> SUFFICES ASSUME MoeInit PROVE MoeInv
  OBVIOUS
<1>1. PICK capacity \in Capacities : cache = Configured(capacity)
  BY DEF MoeInit
<1>2. capacity \in Nat
  BY MoeAssumption
<1>3. /\ Sound(cache) /\ Covered(cache) /\ cache.capacity = capacity /\ cache.full = FALSE
      /\ DOMAIN cache.entries = {} /\ cache.lru = <<>>
  BY <1>1, <1>2, EmptyIsSound
<1>4. PICK warmup \in {"none", "all", "census"} :
        /\ pinning = (warmup = "all" /\ cache.capacity > 0)
        /\ plan = WarmupPlan(warmup, cache.capacity)
  BY DEF MoeInit
<1>5. pinning \in BOOLEAN
  BY <1>4
<1>6. /\ phase = "warm" /\ layer = 0 /\ routes = <<>> /\ worker = <<>> /\ result = <<>>
  BY DEF MoeInit, NoResult
<1>7. ASSUME ~pinning PROVE plan \in Seq(AllKeys)
  <2>1. plan = CensusPlan \/ plan = <<>>
    BY <1>2, <1>3, <1>4, <1>7 DEF WarmupPlan
  <2>2. <<>> \in Seq(AllKeys)
    OBVIOUS
  <2> QED BY <2>1, <2>2, CensusPlanIs
<1>8. ASSUME pinning PROVE Warming
  <2>1. warmup = "all" /\ cache.capacity > 0
    BY <1>4, <1>8
  <2>2. plan = WarmAllPlan
    BY <1>4, <2>1 DEF WarmupPlan
  <2>3. SubSeq(WarmAllPlan, 0 + 1, Len(WarmAllPlan)) = WarmAllPlan /\ 0 \in 0..Len(WarmAllPlan)
    BY WarmAllPlanIs
  <2>4. Planned(0) = {}
    BY DEF Planned
  <2>5. Len(cache.lru) = 0 /\ Cardinality(DOMAIN cache.entries) = 0
    BY <1>3, FS_EmptySet
  <2>6. /\ plan = SubSeq(WarmAllPlan, 0 + 1, Len(WarmAllPlan))
        /\ DOMAIN cache.entries = Planned(0)
        /\ Len(cache.lru) = Cardinality(DOMAIN cache.entries)
        /\ 0 > 0 => TotalBytes <= cache.capacity
        /\ cache.capacity > 0
    BY <1>3, <2>1, <2>2, <2>3, <2>4, <2>5
  <2> QED BY <2>3, <2>6 DEF Warming
<1>9. Residency
  <2>1. DOMAIN worker = {}
    BY <1>6
  <2> QED BY <1>3, <1>5, <1>6, <1>7, <1>8, <2>1 DEF Residency
<1>10. Working
  <2>1. DOMAIN worker = {} /\ worker = [g \in {} |-> <<>>]
    BY <1>6
  <2>2. layer \in MoeLayers
    BY <1>6, MoeAssumption DEF MoeLayers
  <2>3. worker = [g \in DOMAIN worker |-> [part |-> worker[g].part, at |-> worker[g].at,
                                           pair |-> worker[g].pair, down |-> worker[g].down]]
    BY <2>1
  <2> QED BY <1>6, <2>1, <2>2, <2>3, NoRoutesNoGroups DEF Working, NoResult
<1> QED BY <1>3, <1>9, <1>10 DEF MoeInv

\* What loading a key outside of a forward leaves.
Loaded(c, key) ==
  IF Hit(c, key) THEN AfterGet(c, key)
  ELSE RecordReadAndInsert(AfterGet(c, key), key, Contents(key))

\* It is sound, and with room for the matrix nothing is evicted.
LEMMA LoadedIs ==
  ASSUME NEW c, Sound(c), Covered(c), ~c.full, NEW key \in AllKeys, NEW r, r = Loaded(c, key)
  PROVE  /\ Sound(r) /\ Covered(r) /\ SameSetup(r, c)
         /\ key \notin DOMAIN c.entries /\ c.resident + Weight[key] <= c.capacity
              /\ Len(c.lru) = Cardinality(DOMAIN c.entries)
            => /\ DOMAIN r.entries = DOMAIN c.entries \cup {key}
               /\ Len(r.lru) = Cardinality(DOMAIN r.entries)
<1>1. PICK a : a = AfterGet(c, key)
  OBVIOUS
<1>2. /\ Sound(a) /\ Covered(a) /\ SameSetup(a, c) /\ ~a.full /\ DOMAIN a.entries = DOMAIN c.entries
      /\ key \notin DOMAIN c.entries => a.lru = c.lru /\ a.resident = c.resident
  <2>1. Sound(a) /\ (~c.full => Covered(a)) /\ SameSetup(a, c) /\ DOMAIN a.entries = DOMAIN c.entries
        /\ (key \notin DOMAIN c.entries => a.lru = c.lru /\ a.resident = c.resident)
    BY <1>1, AfterGetIs
  <2> QED BY <2>1 DEF SameSetup
<1>3. CASE Hit(c, key)
  <2>1. r = a /\ key \in DOMAIN c.entries
    BY <1>1, <1>3 DEF Loaded, Hit, Holds
  <2> QED BY <1>2, <2>1
<1>4. CASE ~Hit(c, key)
  <2>1. r = RecordReadAndInsert(a, key, Contents(key))
    BY <1>1, <1>4 DEF Loaded
  <2>2. /\ Sound(r) /\ Covered(r) /\ SameSetup(r, a)
        /\ key \notin DOMAIN a.entries /\ a.resident + Weight[key] <= a.capacity
             /\ Len(a.lru) = Cardinality(DOMAIN a.entries)
           => /\ DOMAIN r.entries = DOMAIN a.entries \cup {key}
              /\ Len(r.lru) = Cardinality(DOMAIN r.entries)
    BY <1>2, <2>1, InsertIs
  <2>3. SameSetup(r, c) /\ a.capacity = c.capacity
    BY <1>2, <2>2 DEF SameSetup
  <2> QED BY <1>2, <2>2, <2>3
<1> QED BY <1>3, <1>4

\* The workers keep what they have while no forward changes.
LEMMA WorkingStays ==
  ASSUME Working, UNCHANGED <<layer, routes, worker, result>>, phase' = "experts" => phase = "experts"
  PROVE  Working'
<1>1. Groups' = Groups
  BY DEF Groups
<1>2. \A g \in DOMAIN worker : WorkerHas(g)' <=> WorkerHas(g)
  BY <1>1 DEF WorkerHas, GroupKey
<1> QED BY <1>1, <1>2 DEF Working

\* The keys a pinned start has loaded, with the next one.
LEMMA PlannedGrows ==
  ASSUME NEW n \in 0..(Len(WarmAllPlan) - 1)
  PROVE  /\ WarmAllPlan[n + 1] \in TensorKeys /\ WarmAllPlan[n + 1] \notin Planned(n)
         /\ Planned(n + 1) = Planned(n) \cup {WarmAllPlan[n + 1]}
         /\ Planned(n) \subseteq TensorKeys
<1>1. WarmAllPlan \in Seq(TensorKeys) /\ Len(WarmAllPlan) \in Nat
  BY WarmAllPlanIs
<1>2. \A i \in 1..(n + 1) : i \in 1..Len(WarmAllPlan) /\ (i = n + 1 \/ i \in 1..n)
  BY <1>1
<1>3. n + 1 \in 1..(n + 1) /\ \A i \in 1..n : i \in 1..(n + 1) /\ i # n + 1
  OBVIOUS
<1>4. \A i \in 1..(n + 1) : WarmAllPlan[i] \in TensorKeys
  BY <1>1, <1>2
<1>5. WarmAllPlan[n + 1] \notin Planned(n)
  BY <1>2, <1>3, WarmAllPlanIs DEF Planned
<1>6. Planned(n + 1) = Planned(n) \cup {WarmAllPlan[n + 1]}
  BY <1>2, <1>3 DEF Planned
<1>7. Planned(n) \subseteq TensorKeys
  BY <1>3, <1>4 DEF Planned
<1> QED BY <1>3, <1>4, <1>5, <1>6, <1>7

\* The tensors' keys are keys of the model.
LEMMA TensorKeysAre == TensorKeys \subseteq AllKeys
BY KeyIsKey, TensorParts DEF TensorKeys

\* Warming a key keeps the invariant: a pinned start has room for all of them.
LEMMA WarmIsSound == MoeInv /\ Warm => MoeInv'
<1> SUFFICES ASSUME MoeInv, Warm PROVE MoeInv'
  OBVIOUS
<1>1. /\ phase = "warm" /\ plan # <<>> /\ ~Refused /\ plan' = Tail(plan)
      /\ UNCHANGED <<pinning, phase, layer, routes, worker, file, result>>
  BY DEF Warm, forwardVars
<1>2. PICK key : key = Head(plan)
  OBVIOUS
<1>3. PICK r : r = cache'
  OBVIOUS
<1>4. r = Loaded(cache, key)
  BY <1>2, <1>3 DEF Warm, LoadedAlone, Loaded
<1>5. Sound(cache) /\ Residency /\ Working
  BY DEF MoeInv
<1>6. ~cache.full /\ Covered(cache)
  BY <1>1, <1>5 DEF Residency
<1>7. Working'
  BY <1>1, <1>5, WorkingStays
<1>8. CASE ~pinning
  <2>1. plan \in Seq(AllKeys)
    BY <1>1, <1>5, <1>8 DEF Residency
  <2>2. key \in AllKeys /\ Tail(plan) \in Seq(AllKeys)
    BY <1>1, <1>2, <2>1
  <2>3. Sound(r) /\ Covered(r) /\ SameSetup(r, cache)
    BY <1>4, <1>5, <1>6, <2>2, LoadedIs
  <2>4. ~r.full
    BY <1>6, <2>3 DEF SameSetup
  <2>5. Residency'
    BY <1>1, <1>3, <1>5, <1>8, <2>2, <2>3, <2>4 DEF Residency
  <2> QED BY <1>3, <1>7, <2>3, <2>5 DEF MoeInv
<1>9. CASE pinning
  <2>1. PICK n \in 0..Len(WarmAllPlan) :
          /\ plan = SubSeq(WarmAllPlan, n + 1, Len(WarmAllPlan))
          /\ DOMAIN cache.entries = Planned(n)
          /\ Len(cache.lru) = Cardinality(DOMAIN cache.entries)
          /\ cache.capacity > 0
    BY <1>1, <1>5, <1>9 DEF Residency, Warming
  <2>2. PICK L : L = Len(WarmAllPlan) /\ L \in Nat
    BY WarmAllPlanIs
  <2>3. n \in 0..(L - 1)
    BY <1>1, <2>1, <2>2, WarmAllPlanIs
  <2>4. key = WarmAllPlan[n + 1] /\ Tail(plan) = SubSeq(WarmAllPlan, (n + 1) + 1, L)
    BY <1>2, <2>1, <2>2, <2>3, WarmAllPlanIs
  <2>5. /\ key \in TensorKeys /\ key \notin Planned(n) /\ Planned(n + 1) = Planned(n) \cup {key}
        /\ Planned(n) \subseteq TensorKeys
    BY <2>2, <2>3, <2>4, PlannedGrows
  <2>6. key \in AllKeys
    BY <2>5, TensorKeysAre
  <2>7. TotalBytes <= cache.capacity
    <3>1. cache.capacity \in Nat
      BY <1>5 DEF Sound, Orderly, Shape
    <3>2. Total(Weight, TensorKeys) \in Nat
      BY TensorKeysAre, KeysFinite, WeightType, TotalNat
    <3>3. ~(cache.capacity < TotalBytes) /\ TotalBytes \in Nat
      BY <1>1, <1>9, <3>2, ModelWeight DEF Refused
    <3> QED BY <3>1, <3>3
  <2>8. cache.resident + Weight[key] <= cache.capacity
    <3>1. Orderly(cache) /\ DOMAIN cache.entries \in SUBSET (DOMAIN cache.entries)
      BY <1>5 DEF Sound
    <3>2. cache.resident = Total(Weight, Planned(n))
      BY <2>1, <3>1, Holding
    <3>3. PICK K : K = Planned(n + 1)
      OBVIOUS
    <3>4. K \in SUBSET TensorKeys /\ IsFiniteSet(TensorKeys) /\ \A k \in TensorKeys : Weight[k] \in Nat
      BY <2>5, <3>3, TensorKeysAre, KeysFinite, WeightType
    <3>5. /\ Total(Weight, TensorKeys) = Total(Weight, K) + Total(Weight, TensorKeys \ K)
          /\ Total(Weight, K) \in Nat /\ Total(Weight, TensorKeys \ K) \in Nat
      BY <3>4, TotalPart
    <3>6. Total(Weight, K) = Weight[key] + Total(Weight, Planned(n))
      <4>1. IsFiniteSet(Planned(n)) /\ \A k \in Planned(n) : Weight[k] \in Nat
        BY <2>5, <3>4, FS_Subset
      <4> QED BY <2>5, <2>6, <3>3, <4>1, WeightType, TotalAdd
    <3>7. PICK t : t = Total(Weight, K) /\ t \in Nat
      BY <3>5
    <3>8. PICK u : u = Total(Weight, TensorKeys \ K) /\ u \in Nat
      BY <3>5
    <3>9. t + u <= cache.capacity
      BY <2>7, <3>5, <3>7, <3>8, ModelWeight
    <3>10. cache.capacity \in Nat /\ cache.resident \in Nat /\ Weight[key] \in Nat
      BY <1>5, <2>6, WeightType DEF Sound, Orderly, Shape
    <3>11. t = Weight[key] + cache.resident
      BY <3>2, <3>6, <3>7
    <3> QED BY ONLY <3>7, <3>8, <3>9, <3>10, <3>11
  <2>9. /\ Sound(r) /\ Covered(r) /\ SameSetup(r, cache)
        /\ DOMAIN r.entries = Planned(n + 1) /\ Len(r.lru) = Cardinality(DOMAIN r.entries)
    BY <1>4, <1>5, <1>6, <2>1, <2>5, <2>6, <2>8, LoadedIs
  <2>10. ~r.full /\ r.capacity = cache.capacity
    BY <1>6, <2>9 DEF SameSetup
  <2>11. Warming'
    <3>1. n + 1 \in 0..Len(WarmAllPlan)
      BY <2>2, <2>3
    <3>2. /\ plan' = SubSeq(WarmAllPlan, (n + 1) + 1, Len(WarmAllPlan))
          /\ DOMAIN (cache'.entries) = Planned(n + 1)
          /\ Len(cache'.lru) = Cardinality(DOMAIN (cache'.entries))
          /\ n + 1 > 0 => TotalBytes <= cache'.capacity
          /\ cache'.capacity > 0
      BY <1>1, <1>3, <2>1, <2>2, <2>4, <2>7, <2>9, <2>10
    <3> QED BY <3>1, <3>2 DEF Warming
  <2>12. Residency'
    BY <1>1, <1>3, <1>5, <1>9, <2>9, <2>10, <2>11 DEF Residency
  <2> QED BY <1>3, <1>7, <2>9, <2>12 DEF MoeInv
<1> QED BY <1>8, <1>9

\* The layers, the predictor's last.
LEMMA DecoderLayersAre == DecoderLayers \in Nat /\ MoeLayers = 0..DecoderLayers
BY MoeAssumption DEF MoeLayers

\* Whose keys a layer has: a pair and a down matrix once it is fused, its tensors before.
LEMMA FusedKeysAre ==
  ASSUME NEW n \in 0..(DecoderLayers + 1)
  PROVE  /\ FusedKeys(n) \subseteq AllKeys
         /\ \A l \in MoeLayers, e \in Experts :
              /\ Key(l, "down", e) \in FusedKeys(n)
              /\ Key(l, "pair", e) \in FusedKeys(n) <=> l < n
              /\ Key(l, "gate", e) \in FusedKeys(n) <=> l >= n
              /\ Key(l, "up", e) \in FusedKeys(n) <=> l >= n
<1>1. \A l \in 0..(n - 1) : l \in MoeLayers /\ l < n
  BY DecoderLayersAre
<1>2. \A l \in n..DecoderLayers : l \in MoeLayers /\ l >= n
  BY DecoderLayersAre
<1>3. \A l \in MoeLayers : (l < n => l \in 0..(n - 1)) /\ (l >= n => l \in n..DecoderLayers)
  BY DecoderLayersAre
<1>4. \A l \in MoeLayers : l \in Int /\ ~(l < n /\ l >= n) /\ (l < n \/ l >= n)
  BY DecoderLayersAre
<1>5. ASSUME NEW k PROVE k \in FusedKeys(n) <=>
        \/ \E l \in 0..(n - 1), part \in {"pair", "down"}, e \in Experts : k = Key(l, part, e)
        \/ \E l \in n..DecoderLayers, part \in {"gate", "up", "down"}, e \in Experts : k = Key(l, part, e)
  BY DEF FusedKeys
<1>6. FusedKeys(n) \subseteq AllKeys
  BY <1>1, <1>2, <1>5, KeyIsKey DEF Parts
<1>7. ASSUME NEW l \in MoeLayers, NEW e \in Experts
      PROVE  /\ Key(l, "down", e) \in FusedKeys(n)
             /\ Key(l, "pair", e) \in FusedKeys(n) <=> l < n
             /\ Key(l, "gate", e) \in FusedKeys(n) <=> l >= n
             /\ Key(l, "up", e) \in FusedKeys(n) <=> l >= n
  <2>1. Key(l, "down", e) \in FusedKeys(n)
    BY <1>3, <1>4, <1>5
  <2>2. Key(l, "pair", e) \in FusedKeys(n) <=> l < n
    BY <1>1, <1>3, <1>5, KeyFields
  <2>3. Key(l, "gate", e) \in FusedKeys(n) <=> l >= n
    BY <1>2, <1>3, <1>5, KeyFields
  <2>4. Key(l, "up", e) \in FusedKeys(n) <=> l >= n
    BY <1>2, <1>3, <1>5, KeyFields
  <2> QED BY <2>1, <2>2, <2>3, <2>4
<1> QED BY <1>6, <1>7

\* Fusing a layer takes the cache from n fused layers to n + 1.
LEMMA FusedKeysGrow ==
  ASSUME NEW n \in 0..DecoderLayers
  PROVE  /\ n \in MoeLayers /\ PairKeys(n, Experts) \cap FusedKeys(n) = {}
         /\ \A e \in Experts : Key(n, "gate", e) \in FusedKeys(n) /\ Key(n, "up", e) \in FusedKeys(n)
         /\ FusedKeys(n + 1) = PairKeys(n, Experts) \cup (FusedKeys(n) \ MemberKeys(n, Experts))
<1>1. n \in MoeLayers /\ n \in 0..(DecoderLayers + 1) /\ n + 1 \in 0..(DecoderLayers + 1) /\ n \in Int
  BY DecoderLayersAre
<1>2. PICK A : A = FusedKeys(n)
  OBVIOUS
<1>3. PICK B : B = FusedKeys(n + 1)
  OBVIOUS
<1>4. /\ A \subseteq AllKeys
      /\ \A l \in MoeLayers, e \in Experts :
           /\ Key(l, "down", e) \in A
           /\ Key(l, "pair", e) \in A <=> l < n
           /\ Key(l, "gate", e) \in A <=> l >= n
           /\ Key(l, "up", e) \in A <=> l >= n
  BY <1>1, <1>2, FusedKeysAre
<1>5. /\ B \subseteq AllKeys
      /\ \A l \in MoeLayers, e \in Experts :
           /\ Key(l, "down", e) \in B
           /\ Key(l, "pair", e) \in B <=> l < n + 1
           /\ Key(l, "gate", e) \in B <=> l >= n + 1
           /\ Key(l, "up", e) \in B <=> l >= n + 1
  BY <1>1, <1>3, FusedKeysAre
<1>6. PICK P : P = PairKeys(n, Experts)
  OBVIOUS
<1>7. PICK M : M = MemberKeys(n, Experts)
  OBVIOUS
<1>8. \A l \in MoeLayers, e \in Experts :
        /\ Key(l, "down", e) \notin P /\ Key(l, "down", e) \notin M
        /\ Key(l, "pair", e) \in P <=> l = n
        /\ Key(l, "pair", e) \notin M
        /\ Key(l, "gate", e) \notin P /\ Key(l, "up", e) \notin P
        /\ Key(l, "gate", e) \in M <=> l = n
        /\ Key(l, "up", e) \in M <=> l = n
  BY <1>6, <1>7, KeyFields DEF PairKeys, MemberKeys
<1>9. P \subseteq AllKeys
  BY <1>1, <1>6, KeyIsKey DEF PairKeys, Parts
<1>10. ASSUME NEW k \in AllKeys PROVE k \in B <=> k \in P \/ (k \in A /\ k \notin M)
  <2>1. PICK l \in MoeLayers, part \in Parts, e \in Experts : k = Key(l, part, e)
    BY KeyIsKey
  <2>2. l \in Int
    BY DecoderLayersAre
  <2>3. (l < n + 1 <=> (l < n \/ l = n)) /\ (l >= n + 1 <=> (l >= n /\ l # n)) /\ ~(l < n /\ l = n)
    BY <1>1, <2>2
  <2>4. CASE part = "down"
    BY <1>4, <1>5, <1>8, <2>1, <2>4
  <2>5. CASE part = "pair"
    BY <1>4, <1>5, <1>8, <2>1, <2>3, <2>5
  <2>6. CASE part = "gate"
    BY <1>4, <1>5, <1>8, <2>1, <2>3, <2>6
  <2>7. CASE part = "up"
    BY <1>4, <1>5, <1>8, <2>1, <2>3, <2>7
  <2> QED BY <2>4, <2>5, <2>6, <2>7 DEF Parts
<1>11. B = P \cup (A \ M)
  BY <1>4, <1>5, <1>9, <1>10
<1>12. P \cap A = {}
  <2>1. ~(n < n)
    BY <1>1
  <2> QED BY <1>1, <1>4, <1>6, <2>1 DEF PairKeys
<1>13. \A e \in Experts : Key(n, "gate", e) \in A /\ Key(n, "up", e) \in A
  BY <1>1, <1>4
<1> QED BY <1>1, <1>2, <1>3, <1>6, <1>7, <1>11, <1>12, <1>13

\* The plan's keys are the keys before anything is fused.
LEMMA AllPlanned == Planned(Len(WarmAllPlan)) = TensorKeys /\ FusedKeys(0) = TensorKeys
<1>1. Planned(Len(WarmAllPlan)) = TensorKeys
  <2>1. WarmAllPlan \in Seq(TensorKeys) /\ Len(WarmAllPlan) \in Nat
    BY WarmAllPlanIs
  <2>2. \A i \in 1..Len(WarmAllPlan) : WarmAllPlan[i] \in TensorKeys
    BY <2>1
  <2> QED BY <2>2, WarmAllPlanIs DEF Planned
<1>2. FusedKeys(0) = TensorKeys
  <2>1. 0..(0 - 1) = {} /\ MoeLayers = 0..DecoderLayers
    BY DecoderLayersAre
  <2> QED BY <2>1 DEF FusedKeys, TensorKeys
<1> QED BY <1>1, <1>2

\* The keys of one part in all the layers.
KeysFor(part) == {Key(l, part, e) : l \in MoeLayers, e \in Experts}

\* Of each layer a third of the tensors' keys are down keys.
LEMMA DownsCount ==
  /\ Downs \subseteq AllKeys /\ Cardinality(Downs) \in Nat
  /\ Cardinality(TensorKeys) \in Nat /\ Cardinality(TensorKeys) <= 3 * Cardinality(Downs)
<1>1. Downs \subseteq AllKeys
  BY KeyIsKey DEF Downs, Parts
<1>2. IsFiniteSet(Downs) /\ Cardinality(Downs) \in Nat
  BY <1>1, KeysFinite
<1>3. ASSUME NEW part \in {"gate", "up", "down"}, NEW K, K = KeysFor(part)
      PROVE  IsFiniteSet(K) /\ Cardinality(K) \in Nat /\ Cardinality(K) <= Cardinality(Downs)
  <2>1. PICK f : f = [k \in Downs |-> Key(k.layer, part, k.expert)]
    OBVIOUS
  <2>2. \A k \in Downs : f[k] \in K
    BY <1>3, <2>1, KeyFields DEF Downs, KeysFor
  <2>3. \A m \in K : \E k \in Downs : f[k] = m
    <3> SUFFICES ASSUME NEW l \in MoeLayers, NEW e \in Experts PROVE \E k \in Downs : f[k] = Key(l, part, e)
      BY <1>3 DEF KeysFor
    <3>1. PICK k \in Downs : k = Key(l, "down", e)
      BY DEF Downs
    <3>2. f[k] = Key(l, part, e)
      BY <2>1, <3>1, KeyFields
    <3> QED BY <3>2
  <2>4. f \in Surjection(Downs, K)
    BY <2>1, <2>2, <2>3 DEF Surjection
  <2>5. IsFiniteSet(K) /\ Cardinality(K) <= Cardinality(Downs)
    BY <1>2, <2>4, FS_Surjection
  <2> QED BY <2>5, FS_CardinalityType
<1>4. PICK G : G = KeysFor("gate")
  OBVIOUS
<1>5. PICK U : U = KeysFor("up")
  OBVIOUS
<1>6. TensorKeys = (G \cup U) \cup Downs
  BY <1>4, <1>5 DEF TensorKeys, Downs, KeysFor
<1>7. /\ IsFiniteSet(G) /\ Cardinality(G) \in Nat /\ Cardinality(G) <= Cardinality(Downs)
      /\ IsFiniteSet(U) /\ Cardinality(U) \in Nat /\ Cardinality(U) <= Cardinality(Downs)
  BY <1>3, <1>4, <1>5
<1>8. /\ IsFiniteSet(G \cup U) /\ Cardinality(G \cup U) \in Nat
      /\ Cardinality(G \cup U) <= Cardinality(G) + Cardinality(U)
  BY <1>7, UnionCount
<1>9. /\ IsFiniteSet(TensorKeys) /\ Cardinality(TensorKeys) \in Nat
      /\ Cardinality(TensorKeys) <= Cardinality(G \cup U) + Cardinality(Downs)
  BY <1>2, <1>6, <1>8, UnionCount
<1>10. PICK a : a = Cardinality(G) /\ a \in Nat
  BY <1>7
<1>11. PICK b : b = Cardinality(U) /\ b \in Nat
  BY <1>7
<1>12. PICK c : c = Cardinality(G \cup U) /\ c \in Nat
  BY <1>8
<1>13. PICK d : d = Cardinality(Downs) /\ d \in Nat
  BY <1>2
<1>14. PICK t : t = Cardinality(TensorKeys) /\ t \in Nat
  BY <1>9
<1>15. a <= d /\ b <= d /\ c <= a + b /\ t <= c + d
  BY <1>7, <1>8, <1>9, <1>10, <1>11, <1>12, <1>13, <1>14
<1>16. t <= 3 * d
  BY ONLY <1>10, <1>11, <1>12, <1>13, <1>14, <1>15
<1> QED BY <1>1, <1>13, <1>14, <1>16

\* With the plan done a pinned start has every tensor's keys and turns to fusing.
LEMMA WarmedIsSound == MoeInv /\ Warmed => MoeInv'
<1> SUFFICES ASSUME MoeInv, Warmed PROVE MoeInv'
  OBVIOUS
<1>1. /\ phase = "warm" /\ plan = <<>>
      /\ UNCHANGED <<cache, pinning, layer, routes, worker, file, result>>
  BY DEF Warmed, forwardVars
<1>2. Sound(cache) /\ Residency /\ Working
  BY DEF MoeInv
<1>3. ~cache.full /\ Covered(cache) /\ DOMAIN worker = {}
  BY <1>1, <1>2 DEF Residency
<1>4. CASE ~pinning
  <2>1. phase' = "serve"
    BY <1>4 DEF Warmed
  <2>2. Residency'
    BY <1>1, <1>2, <1>3, <1>4, <2>1 DEF Residency
  <2> QED BY <1>1, <1>2, <2>1, <2>2, WorkingStays DEF MoeInv
<1>5. CASE pinning
  <2>1. phase' = "fuse" /\ plan' = [n \in 1..(DecoderLayers + 1) |-> n - 1]
    BY <1>5 DEF Warmed
  <2>2. PICK n \in 0..Len(WarmAllPlan) :
          /\ <<>> = SubSeq(WarmAllPlan, n + 1, Len(WarmAllPlan))
          /\ DOMAIN cache.entries = Planned(n)
          /\ Len(cache.lru) = Cardinality(DOMAIN cache.entries)
          /\ cache.capacity > 0
    BY <1>1, <1>2, <1>5 DEF Residency, Warming
  <2>3. n = Len(WarmAllPlan)
    <3>1. PICK L : L = Len(WarmAllPlan) /\ L \in Nat /\ WarmAllPlan \in Seq(TensorKeys)
      BY WarmAllPlanIs
    <3>2. n < L => Len(SubSeq(WarmAllPlan, n + 1, L)) = L - n
      BY <3>1
    <3>3. n \in 0..L /\ Len(SubSeq(WarmAllPlan, n + 1, L)) = 0
      <4>1. n \in 0..L /\ SubSeq(WarmAllPlan, n + 1, L) = <<>>
        BY <2>2, <3>1
      <4> QED BY ONLY <4>1
    <3> QED BY ONLY <3>1, <3>2, <3>3
  <2>4. DOMAIN cache.entries = FusedKeys(0) /\ Len(cache.lru) <= 3 * Cardinality(Downs)
    BY <2>2, <2>3, AllPlanned, DownsCount
  <2>5. Fusing'
    <3>1. 0 \in 0..(DecoderLayers + 1)
      BY DecoderLayersAre
    <3>2. plan' = [i \in 1..(DecoderLayers + 1 - 0) |-> 0 + i - 1]
      BY <2>1, DecoderLayersAre
    <3> QED BY <1>1, <2>2, <2>4, <3>1, <3>2 DEF Fusing
  <2>6. Residency'
    BY <1>1, <1>2, <1>3, <1>5, <2>1, <2>5 DEF Residency
  <2> QED BY <1>1, <1>2, <2>1, <2>6, WorkingStays DEF MoeInv
<1> QED BY <1>4, <1>5

\* While fusing, the layers below n are fused and the next one can be.
LEMMA Fuses ==
  ASSUME MoeInv, phase = "fuse"
  PROVE  \E n \in 0..(DecoderLayers + 1) :
           /\ plan = [i \in 1..(DecoderLayers + 1 - n) |-> n + i - 1]
           /\ DOMAIN cache.entries = FusedKeys(n)
           /\ Len(cache.lru) <= 3 * Cardinality(Downs)
           /\ cache.capacity > 0
           /\ plan = <<>> => n = DecoderLayers + 1
           /\ plan # <<>> =>
                /\ n \in 0..DecoderLayers /\ Head(plan) = n
                /\ Tail(plan) = [i \in 1..(DecoderLayers + 1 - (n + 1)) |-> (n + 1) + i - 1]
                /\ CanFuse(cache, n, Experts)
<1>1. PICK n \in 0..(DecoderLayers + 1) :
        /\ plan = [i \in 1..(DecoderLayers + 1 - n) |-> n + i - 1]
        /\ DOMAIN cache.entries = FusedKeys(n)
        /\ Len(cache.lru) <= 3 * Cardinality(Downs)
        /\ cache.capacity > 0
  BY DEF MoeInv, Residency, Fusing
<1>2. PICK d : d = DecoderLayers + 1 - n /\ d \in Nat /\ n + d = DecoderLayers + 1 /\ n \in Nat
  BY DecoderLayersAre
<1>3. plan \in Seq(Int) /\ Len(plan) = d
  BY <1>1, <1>2
<1>4. plan = <<>> => n = DecoderLayers + 1
  BY <1>2, <1>3
<1>5. ASSUME plan # <<>>
      PROVE  /\ n \in 0..DecoderLayers /\ Head(plan) = n
             /\ Tail(plan) = [i \in 1..(DecoderLayers + 1 - (n + 1)) |-> (n + 1) + i - 1]
             /\ CanFuse(cache, n, Experts)
  <2>1. d > 0 /\ n \in 0..DecoderLayers
    BY <1>2, <1>3, <1>5, DecoderLayersAre
  <2>2. Head(plan) = n
    BY <1>1, <1>2, <1>3, <2>1
  <2>3. DecoderLayers + 1 - (n + 1) = d - 1
    BY <1>2, DecoderLayersAre
  <2>4. Tail(plan) = [i \in 1..(d - 1) |-> plan[i + 1]]
    <3>1. Tail(plan) \in Seq(Int) /\ Len(Tail(plan)) = d - 1 /\ \A i \in 1..(d - 1) : Tail(plan)[i] = plan[i + 1]
      BY <1>2, <1>3, <2>1
    <3>2. PICK t : t = Tail(plan)
      OBVIOUS
    <3>3. t \in [1..(d - 1) -> Int] /\ \A i \in 1..(d - 1) : t[i] = plan[i + 1]
      <4>1. t \in Seq(Int) /\ Len(t) = d - 1
        BY <3>1, <3>2
      <4>2. t \in [1..Len(t) -> Int]
        BY ONLY <4>1
      <4>3. t \in [1..(d - 1) -> Int]
        BY ONLY <4>1, <4>2
      <4>4. \A i \in 1..(d - 1) : t[i] = plan[i + 1]
        BY <3>1, <3>2
      <4> QED BY ONLY <4>3, <4>4
    <3>4. t = [i \in 1..(d - 1) |-> plan[i + 1]]
      BY ONLY <3>3
    <3> QED BY <3>2, <3>4
  <2>5. \A i \in 1..(d - 1) : plan[i + 1] = (n + 1) + i - 1
    <3>1. plan = [i \in 1..d |-> n + i - 1]
      BY <1>1, <1>2
    <3>2. \A i \in 1..(d - 1) : i + 1 \in 1..d /\ n + (i + 1) - 1 = (n + 1) + i - 1
      BY <1>2
    <3> QED BY <3>1, <3>2
  <2>6. Tail(plan) = [i \in 1..(d - 1) |-> (n + 1) + i - 1]
    BY <2>4, <2>5
  <2>7. CanFuse(cache, n, Experts)
    BY <1>1, <2>1, FusedKeysGrow DEF CanFuse, Holds
  <2> QED BY <2>1, <2>2, <2>3, <2>6, <2>7
<1> QED BY <1>1, <1>4, <1>5

\* Fusing a layer keeps the invariant.
LEMMA FuseLayerIsSound == MoeInv /\ FuseLayer => MoeInv'
<1> SUFFICES ASSUME MoeInv, FuseLayer PROVE MoeInv'
  OBVIOUS
<1>1. /\ phase = "fuse" /\ plan # <<>> /\ plan' = Tail(plan)
      /\ UNCHANGED <<pinning, phase, layer, routes, worker, file, result>>
  BY DEF FuseLayer, forwardVars
<1>2. Sound(cache) /\ Residency /\ Working
  BY DEF MoeInv
<1>3. ~cache.full /\ pinning /\ DOMAIN worker = {}
  BY <1>1, <1>2 DEF Residency
<1>4. PICK n \in 0..DecoderLayers :
        /\ DOMAIN cache.entries = FusedKeys(n)
        /\ Len(cache.lru) <= 3 * Cardinality(Downs)
        /\ cache.capacity > 0
        /\ Head(plan) = n
        /\ Tail(plan) = [i \in 1..(DecoderLayers + 1 - (n + 1)) |-> (n + 1) + i - 1]
        /\ CanFuse(cache, n, Experts)
  BY <1>1, Fuses
<1>5. PICK r : r = cache'
  OBVIOUS
<1>6. r = FusePair(cache, n, Experts)
  BY <1>4, <1>5 DEF FuseLayer
<1>7. /\ n \in MoeLayers /\ PairKeys(n, Experts) \cap DOMAIN cache.entries = {}
      /\ FusedKeys(n + 1) = PairKeys(n, Experts) \cup (DOMAIN cache.entries \ MemberKeys(n, Experts))
  BY <1>4, FusedKeysGrow
<1>8. /\ Orderly(r) /\ SameSetup(r, cache) /\ r.lru = cache.lru
      /\ DOMAIN r.entries = FusedKeys(n + 1)
  <2>1. Orderly(cache)
    BY <1>2 DEF Sound
  <2> QED BY <1>4, <1>6, <1>7, <2>1, FuseIs
<1>9. n + 1 \in 0..(DecoderLayers + 1)
  BY DecoderLayersAre
<1>10. Proportionate(r)
  <2>1. PICK D : D = DOMAIN r.entries
    OBVIOUS
  <2>2. D \in SUBSET AllKeys /\ Downs \in SUBSET D
    BY <1>8, <1>9, <2>1, FusedKeysAre DEF Downs
  <2>3. PICK d : d = Cardinality(D) /\ d \in Nat
    BY <2>2, KeysFinite
  <2>4. PICK e : e = Cardinality(Downs) /\ e \in Nat
    BY DownsCount
  <2>5. e <= d
    BY <2>2, <2>3, <2>4, KeysFinite, FS_Subset
  <2>6. Len(r.lru) <= 3 * e /\ Len(r.lru) \in Nat /\ Slack \in Nat
    BY <1>4, <1>8, <2>4, QueueRecords, CacheAssumption DEF Orderly
  <2>7. Len(r.lru) <= 4 * d + Slack
    BY <2>3, <2>4, <2>5, <2>6
  <2> QED BY <2>1, <2>3, <2>7 DEF Proportionate
<1>11. ~r.full /\ r.capacity = cache.capacity
  BY <1>3, <1>8 DEF SameSetup
<1>12. Fusing'
  <2>1. /\ plan' = [i \in 1..(DecoderLayers + 1 - (n + 1)) |-> (n + 1) + i - 1]
        /\ DOMAIN (cache'.entries) = FusedKeys(n + 1)
        /\ Len(cache'.lru) <= 3 * Cardinality(Downs)
        /\ cache'.capacity > 0
    BY <1>1, <1>4, <1>5, <1>8, <1>11
  <2> QED BY <1>9, <2>1 DEF Fusing
<1>13. Residency'
  BY <1>1, <1>2, <1>3, <1>5, <1>11, <1>12 DEF Residency
<1>14. Sound(cache')
  BY <1>5, <1>8, <1>10 DEF Sound
<1> QED BY <1>1, <1>2, <1>13, <1>14, WorkingStays DEF MoeInv

\* With every layer fused the cache is final.
LEMMA FusedIsSound == MoeInv /\ Fused => MoeInv'
<1> SUFFICES ASSUME MoeInv, Fused PROVE MoeInv'
  OBVIOUS
<1>1. /\ phase = "fuse" /\ plan = <<>> /\ phase' = "serve"
      /\ UNCHANGED <<pinning, plan, layer, routes, worker, file, result>>
  BY DEF Fused, forwardVars
<1>2. Sound(cache) /\ Residency /\ Working
  BY DEF MoeInv
<1>3. pinning /\ DOMAIN worker = {}
  BY <1>1, <1>2 DEF Residency
<1>4. DOMAIN cache.entries = FusedKeys(DecoderLayers + 1) /\ cache.capacity > 0
  BY <1>1, Fuses
<1>5. PICK c : c = cache
  OBVIOUS
<1>6. PICK r : r = cache'
  OBVIOUS
<1>7. r = [c EXCEPT !.full = TRUE, !.lru = <<>>]
  BY <1>5, <1>6 DEF Fused, MarkFullyResident
<1>8. c = [capacity |-> c.capacity, resident |-> c.resident, clock |-> c.clock,
           entries |-> c.entries, lru |-> c.lru, full |-> c.full]
  BY <1>2, <1>5 DEF Sound, Orderly, Shape
<1>9. r = [capacity |-> c.capacity, resident |-> c.resident, clock |-> c.clock,
           entries |-> c.entries, lru |-> <<>>, full |-> TRUE]
  BY <1>7, <1>8
<1>10. /\ r.capacity = c.capacity /\ r.resident = c.resident /\ r.clock = c.clock
       /\ r.entries = c.entries /\ r.lru = <<>> /\ r.full = TRUE
  BY <1>9
<1>11. Shape(r)
  <2>1. r.lru \in Seq(Records)
    BY <1>10
  <2>2. Shape(c)
    BY <1>2, <1>5 DEF Sound, Orderly
  <2> QED BY <1>9, <1>10, <2>1, <2>2 DEF Shape
<1>12. Faithful(r) /\ Stamped(r)
  BY <1>2, <1>5, <1>10 DEF Sound, Orderly, Faithful, Stamped
<1>13. Fits(r)
  <2>1. Orderly(c) /\ DOMAIN c.entries \in SUBSET (DOMAIN c.entries)
    BY <1>2, <1>5 DEF Sound
  <2>2. c.resident = Total(Weight, DOMAIN c.entries) /\ c.resident <= c.capacity /\ DOMAIN c.entries \subseteq AllKeys
    BY <2>1, Holding DEF Orderly, Fits, Shape
  <2> QED BY <1>10, <1>12, <2>2, FitsFromTotal
<1>14. Len(r.lru) = 0 /\ DOMAIN r.lru = {}
  BY <1>10
<1>15. Queued(r)
  BY <1>14 DEF Queued
<1>16. Proportionate(r)
  <2>1. Cardinality(DOMAIN r.entries) \in Nat /\ Slack \in Nat
    BY <1>11, KeysFinite, CacheAssumption DEF Shape
  <2> QED BY <1>14, <2>1 DEF Proportionate
<1>17. Pinned'
  BY <1>1, <1>3, <1>4, <1>5, <1>6, <1>10 DEF Pinned
<1>18. Residency'
  BY <1>1, <1>2, <1>3, <1>6, <1>10, <1>17 DEF Residency
<1>19. Sound(cache')
  BY <1>6, <1>11, <1>12, <1>13, <1>15, <1>16 DEF Sound, Orderly
<1> QED BY <1>1, <1>2, <1>18, <1>19, WorkingStays DEF MoeInv

\* A start that stops leaves a sound cache.
LEMMA WarmupFailsIsSound == MoeInv /\ WarmupFails => MoeInv'
<1> SUFFICES ASSUME MoeInv, WarmupFails PROVE MoeInv'
  OBVIOUS
<1>1. phase' = "stopped" /\ UNCHANGED <<cache, pinning, plan, layer, routes, worker, file, result>>
  BY DEF WarmupFails, forwardVars
<1>2. phase = "warm"
  <2>1. \/ phase = "warm"
        \/ phase = "fuse" /\ plan # <<>> /\ ~CanFuse(cache, Head(plan), Experts)
    BY DEF WarmupFails
  <2>2. ~(phase = "fuse" /\ plan # <<>> /\ ~CanFuse(cache, Head(plan), Experts))
    BY Fuses
  <2> QED BY <2>1, <2>2
<1>3. Sound(cache) /\ Residency /\ Working
  BY DEF MoeInv
<1>4. Residency'
  BY <1>1, <1>2, <1>3 DEF Residency
<1> QED BY <1>1, <1>3, <1>4, WorkingStays DEF MoeInv

\* A forward begins with idle workers and no result.
LEMMA ForwardIsSound == MoeInv /\ Forward => MoeInv' /\ result' = NoResult
<1> SUFFICES ASSUME MoeInv, Forward PROVE MoeInv' /\ result' = NoResult
  OBVIOUS
<1>1. /\ phase = "serve" /\ phase' = "experts" /\ result' = NoResult
      /\ worker' = [g \in DOMAIN Groups' |-> Idle]
      /\ UNCHANGED <<cache, pinning, plan, file>>
  BY DEF Forward
<1>2. PICK next \in NextLayers, rows \in 1..MaxRows :
        layer' = next /\ routes' \in [1..rows -> RouterPicks]
  BY DEF Forward
<1>3. Sound(cache) /\ Residency /\ Working
  BY DEF MoeInv
<1>4. layer' \in MoeLayers
  <2>1. layer \in 0..DecoderLayers /\ DecoderLayers \in Nat
    BY <1>3, DecoderLayersAre DEF Working
  <2>2. next = 0 \/ next = DecoderLayers \/ (layer < DecoderLayers - 1 /\ next = layer + 1)
    BY DEF NextLayers
  <2> QED BY <1>2, <2>1, <2>2, DecoderLayersAre
<1>5. routes' \in Seq(RouterPicks)
  <2>1. MaxRows \in Nat
    BY MoeAssumption
  <2> QED BY <1>2, <2>1
<1>6. ASSUME NEW g \in DOMAIN worker'
      PROVE  worker'[g] = Idle /\ worker'[g].at = "lookup" /\ worker'[g].part = "pair"
             /\ worker'[g] = [part |-> worker'[g].part, at |-> worker'[g].at,
                              pair |-> worker'[g].pair, down |-> worker'[g].down]
  BY <1>1 DEF Idle
<1>7. Working'
  <2>1. \A g \in DOMAIN worker' : WorkerHas(g)'
    BY <1>6 DEF WorkerHas
  <2>2. DOMAIN worker' = DOMAIN Groups'
    BY <1>1
  <2>3. worker' = [g \in DOMAIN worker' |-> [part |-> worker'[g].part, at |-> worker'[g].at,
                                             pair |-> worker'[g].pair, down |-> worker'[g].down]]
    <3>1. PICK w : w = worker'
      OBVIOUS
    <3>2. w = [g \in DOMAIN w |-> w[g]]
      BY <1>1, <3>1
    <3> QED BY <1>6, <3>1, <3>2
  <2> QED BY <1>1, <1>4, <1>5, <2>1, <2>2, <2>3 DEF Working
<1>8. Residency'
  <2>1. \A g \in DOMAIN worker' : worker'[g].at \in {"lookup", "done"}
    BY <1>6
  <2>2. pinning => Pinned'
    BY <1>1, <1>3, <2>1 DEF Residency, Pinned
  <2> QED BY <1>1, <1>3, <2>2 DEF Residency
<1> QED BY <1>1, <1>3, <1>7, <1>8 DEF MoeInv

\* A worker asks for its expert's pair or down matrix, which a pinned cache has.
LEMMA KeyOfIs ==
  ASSUME Working, NEW g \in DOMAIN worker
  PROVE  /\ KeyOf(g) \in AllKeys /\ KeyOf(g) = GroupKey(g, worker[g].part)
         /\ KeyOf(g) \in FusedKeys(DecoderLayers + 1)
         /\ worker[g].part \in {"pair", "down"} /\ WorkerHas(g)
<1>1. layer \in MoeLayers /\ routes \in Seq(RouterPicks) /\ g \in DOMAIN Groups /\ WorkerHas(g)
  BY DEF Working
<1>2. worker[g].part \in {"pair", "down"}
  BY <1>1 DEF WorkerHas
<1>3. Groups[g].expert \in Experts
  BY <1>1, GroupsAre DEF GroupsFit
<1>4. KeyOf(g) = GroupKey(g, worker[g].part)
  BY DEF KeyOf, GroupKey
<1>5. KeyOf(g) \in AllKeys
  BY <1>1, <1>2, <1>3, KeyIsKey DEF KeyOf, Parts
<1>6. KeyOf(g) \in FusedKeys(DecoderLayers + 1)
  <2>1. DecoderLayers + 1 \in 0..(DecoderLayers + 1) /\ layer < DecoderLayers + 1
    BY <1>1, DecoderLayersAre
  <2> QED BY <1>1, <1>2, <1>3, <2>1, FusedKeysAre DEF KeyOf
<1> QED BY <1>1, <1>2, <1>4, <1>5, <1>6

\* One worker moves on, with what it has to have.
LEMMA WorkerMoves ==
  ASSUME Working, NEW g \in DOMAIN worker, NEW w, UNCHANGED <<layer, routes, phase, result>>,
         worker' = [worker EXCEPT ![g] = w],
         w = [part |-> w.part, at |-> w.at, pair |-> w.pair, down |-> w.down],
         w.at \in {"lookup", "read", "insert", "failed", "done"},
         w.part \in {"pair", "down"},
         w.part = "down" => w.pair = Contents(GroupKey(g, "pair")),
         w.at = "done" => w.part = "down" /\ w.down = Contents(GroupKey(g, "down"))
  PROVE  Working'
<1>1. Groups' = Groups
  BY DEF Groups
<1>2. DOMAIN worker' = DOMAIN worker /\ worker'[g] = w /\ \A h \in DOMAIN worker : h # g => worker'[h] = worker[h]
  <2>1. PICK v : v = [worker EXCEPT ![g] = w]
    OBVIOUS
  <2>2. DOMAIN v = DOMAIN worker /\ v[g] = w /\ \A h \in DOMAIN worker : h # g => v[h] = worker[h]
    BY <2>1
  <2> QED BY <2>1, <2>2
<1>3. \A h, part : GroupKey(h, part)' = GroupKey(h, part)
  BY <1>1 DEF GroupKey
<1>4. WorkerHas(g)'
  BY <1>2, <1>3 DEF WorkerHas
<1>5. \A h \in DOMAIN worker : h # g => WorkerHas(h)'
  <2> SUFFICES ASSUME NEW h \in DOMAIN worker, h # g PROVE WorkerHas(h)'
    OBVIOUS
  <2>1. WorkerHas(h) /\ worker'[h] = worker[h]
    BY <1>2 DEF Working
  <2> QED BY <1>3, <2>1 DEF WorkerHas
<1>6. worker' = [h \in DOMAIN worker' |-> [part |-> worker'[h].part, at |-> worker'[h].at,
                                           pair |-> worker'[h].pair, down |-> worker'[h].down]]
  <2>1. \A h \in DOMAIN worker :
          worker[h] = [part |-> worker[h].part, at |-> worker[h].at, pair |-> worker[h].pair, down |-> worker[h].down]
    BY DEF Working
  <2>2. \A h \in DOMAIN worker :
          worker'[h] = [part |-> worker'[h].part, at |-> worker'[h].at,
                        pair |-> worker'[h].pair, down |-> worker'[h].down]
    BY <1>2, <2>1
  <2>3. worker' = [h \in DOMAIN worker |-> worker'[h]]
    <3>1. PICK v : v = [worker EXCEPT ![g] = w]
      OBVIOUS
    <3>2. v = [h \in DOMAIN worker |-> v[h]]
      BY <3>1
    <3> QED BY <3>1, <3>2
  <2> QED BY <1>2, <2>2, <2>3
<1> QED BY <1>1, <1>2, <1>4, <1>5, <1>6 DEF Working

\* A worker is a record of its four fields.
LEMMA WorkerRecord ==
  ASSUME Working, NEW g \in DOMAIN worker
  PROVE  worker[g] = [part |-> worker[g].part, at |-> worker[g].at,
                      pair |-> worker[g].pair, down |-> worker[g].down]
BY DEF Working

\* A worker that gets the matrix its key names has what it has to have.
LEMMA HavingIs ==
  ASSUME Working, NEW g \in DOMAIN worker, NEW w, w = Having(worker[g], Contents(KeyOf(g)))
  PROVE  /\ w = [part |-> w.part, at |-> w.at, pair |-> w.pair, down |-> w.down]
         /\ w.at \in {"lookup", "done"} /\ w.part \in {"pair", "down"}
         /\ w.part = "down" => w.pair = Contents(GroupKey(g, "pair"))
         /\ w.at = "done" => w.part = "down" /\ w.down = Contents(GroupKey(g, "down"))
<1>1. PICK v : v = worker[g]
  OBVIOUS
<1>2. v = [part |-> v.part, at |-> v.at, pair |-> v.pair, down |-> v.down]
  BY <1>1, WorkerRecord
<1>3. /\ KeyOf(g) = GroupKey(g, v.part) /\ v.part \in {"pair", "down"}
      /\ v.part = "down" => v.pair = Contents(GroupKey(g, "pair"))
  BY <1>1, KeyOfIs DEF WorkerHas
<1>4. PICK m : m = Contents(KeyOf(g))
  OBVIOUS
<1>5. CASE v.part = "pair"
  <2>1. w = [v EXCEPT !.pair = m, !.part = "down", !.at = "lookup"]
    BY <1>1, <1>4, <1>5 DEF Having
  <2>2. w = [part |-> "down", at |-> "lookup", pair |-> m, down |-> v.down]
    BY <1>2, <2>1
  <2>3. w.part = "down" /\ w.at = "lookup" /\ w.pair = m /\ w.down = v.down
    BY <2>2
  <2> QED BY <1>3, <1>4, <1>5, <2>2, <2>3
<1>6. CASE v.part = "down"
  <2>1. w = [v EXCEPT !.down = m, !.at = "done"]
    BY <1>1, <1>4, <1>6 DEF Having
  <2>2. w = [part |-> "down", at |-> "done", pair |-> v.pair, down |-> m]
    BY <1>2, <1>6, <2>1
  <2>3. w.part = "down" /\ w.at = "done" /\ w.pair = v.pair /\ w.down = m
    BY <2>2
  <2> QED BY <1>3, <1>4, <1>6, <2>2, <2>3
<1> QED BY <1>3, <1>5, <1>6

\* In a forward every lookup of a pinned cache hits.
LEMMA Serving ==
  ASSUME MoeInv, phase = "experts"
  PROVE  /\ cache.full => pinning
         /\ pinning => /\ Pinned /\ cache.full
                       /\ \A g \in DOMAIN worker : Working => Hit(cache, KeyOf(g))
         /\ ~cache.full => Covered(cache)
<1>1. Sound(cache) /\ Residency /\ Working
  BY DEF MoeInv
<1>2. (cache.full => pinning) /\ (~cache.full => Covered(cache)) /\ (pinning => Pinned)
  BY <1>1 DEF Residency
<1>3. ASSUME pinning, NEW g \in DOMAIN worker PROVE Hit(cache, KeyOf(g))
  BY <1>1, <1>2, <1>3, KeyOfIs DEF Pinned, Hit, Holds
<1> QED BY <1>2, <1>3 DEF Pinned

\* A lookup keeps the invariant, found or not.
LEMMA LookupIsSound ==
  ASSUME MoeInv, NEW g, Lookup(g)
  PROVE  MoeInv' /\ UNCHANGED result
<1>1. /\ phase = "experts" /\ g \in DOMAIN worker /\ cache' = AfterGet(cache, KeyOf(g))
      /\ UNCHANGED <<pinning, phase, plan, layer, routes, result, file>>
      /\ worker' = [worker EXCEPT ![g] = IF Hit(cache, KeyOf(g))
                                         THEN Having(worker[g], cache.entries[KeyOf(g)].matrix)
                                         ELSE [worker[g] EXCEPT !.at = "read"]]
  BY DEF Lookup, Running, loadVars
<1>2. Sound(cache) /\ Residency /\ Working
  BY DEF MoeInv
<1>3. PICK key : key = KeyOf(g)
  OBVIOUS
<1>4. key \in AllKeys
  BY <1>1, <1>2, <1>3, KeyOfIs
<1>5. PICK r : r = cache'
  OBVIOUS
<1>6. /\ Sound(r) /\ (~cache.full => Covered(r)) /\ r.full = cache.full /\ r.capacity = cache.capacity
      /\ DOMAIN r.entries = DOMAIN cache.entries
  <2>1. ~cache.full => Covered(cache)
    BY <1>1, Serving
  <2> QED BY <1>1, <1>2, <1>3, <1>4, <1>5, <2>1, AfterGetIs DEF SameSetup
<1>7. PICK w : w = worker'[g]
  OBVIOUS
<1>8. CASE Hit(cache, key)
  <2>1. cache.entries[key].matrix = Contents(key)
    BY <1>2, <1>8 DEF Sound, Orderly, Faithful, Hit, Holds
  <2>2. PICK x : x = Having(worker[g], Contents(KeyOf(g)))
    OBVIOUS
  <2>3. worker' = [worker EXCEPT ![g] = x]
    BY <1>1, <1>3, <1>8, <2>1, <2>2
  <2>4. /\ x = [part |-> x.part, at |-> x.at, pair |-> x.pair, down |-> x.down]
        /\ x.at \in {"lookup", "done"} /\ x.part \in {"pair", "down"}
        /\ x.part = "down" => x.pair = Contents(GroupKey(g, "pair"))
        /\ x.at = "done" => x.part = "down" /\ x.down = Contents(GroupKey(g, "down"))
    BY <1>1, <1>2, <2>2, HavingIs
  <2>5. Working'
    BY <1>1, <1>2, <2>3, <2>4, WorkerMoves
  <2>6. \A h \in DOMAIN worker' : worker'[h].at \in {"lookup", "done"} \/ (h \in DOMAIN worker /\ worker'[h] = worker[h])
    BY <1>1, <2>3, <2>4
  <2>7. pinning => Pinned'
    BY <1>1, <1>5, <1>6, <2>3, <2>6, Serving DEF Pinned
  <2>8. Residency'
    BY <1>1, <1>2, <1>5, <1>6, <2>7 DEF Residency
  <2> QED BY <1>1, <1>5, <1>6, <2>5, <2>8 DEF MoeInv
<1>9. CASE ~Hit(cache, key)
  <2>1. ~pinning
    BY <1>1, <1>2, <1>3, <1>9, Serving
  <2>2. PICK v : v = worker[g]
    OBVIOUS
  <2>3. PICK x : x = [v EXCEPT !.at = "read"]
    OBVIOUS
  <2>4. worker' = [worker EXCEPT ![g] = x]
    BY <1>1, <1>3, <1>9, <2>2, <2>3
  <2>5. v = [part |-> v.part, at |-> v.at, pair |-> v.pair, down |-> v.down]
    BY <1>1, <1>2, <2>2, WorkerRecord
  <2>6. x = [part |-> v.part, at |-> "read", pair |-> v.pair, down |-> v.down]
    BY <2>3, <2>5
  <2>7. x.part = v.part /\ x.at = "read" /\ x.pair = v.pair /\ x.down = v.down
    BY <2>6
  <2>8. v.part \in {"pair", "down"} /\ (v.part = "down" => v.pair = Contents(GroupKey(g, "pair")))
    BY <1>1, <1>2, <2>2, KeyOfIs DEF WorkerHas
  <2>9. Working'
    BY <1>1, <1>2, <2>4, <2>6, <2>7, <2>8, WorkerMoves
  <2>10. Residency'
    BY <1>1, <1>2, <1>5, <1>6, <2>1 DEF Residency
  <2> QED BY <1>1, <1>5, <1>6, <2>9, <2>10 DEF MoeInv
<1> QED BY <1>8, <1>9

\* A worker that only changes where it is.
LEMMA WorkerGoes ==
  ASSUME MoeInv, NEW g \in DOMAIN worker, NEW at \in {"insert", "failed"}, ~pinning,
         worker' = [worker EXCEPT ![g].at = at],
         UNCHANGED <<cache, pinning, phase, plan, layer, routes, result>>, phase = "experts"
  PROVE  MoeInv'
<1>1. Sound(cache) /\ Residency /\ Working
  BY DEF MoeInv
<1>2. PICK v : v = worker[g]
  OBVIOUS
<1>3. PICK x : x = [v EXCEPT !.at = at]
  OBVIOUS
<1>4. worker' = [worker EXCEPT ![g] = x]
  BY <1>2, <1>3
<1>5. v = [part |-> v.part, at |-> v.at, pair |-> v.pair, down |-> v.down]
  BY <1>1, <1>2, WorkerRecord
<1>6. x = [part |-> v.part, at |-> at, pair |-> v.pair, down |-> v.down]
  BY <1>3, <1>5
<1>7. x.part = v.part /\ x.at = at /\ x.pair = v.pair /\ x.down = v.down
  BY <1>6
<1>8. v.part \in {"pair", "down"} /\ (v.part = "down" => v.pair = Contents(GroupKey(g, "pair")))
  BY <1>1, <1>2, KeyOfIs DEF WorkerHas
<1>9. Working'
  BY <1>1, <1>4, <1>6, <1>7, <1>8, WorkerMoves
<1>10. Residency'
  BY <1>1 DEF Residency
<1> QED BY <1>1, <1>9, <1>10 DEF MoeInv

\* A read keeps it, and so does one that fails.
LEMMA ReadIsSound ==
  ASSUME MoeInv, NEW g, Read(g) \/ ReadFails(g)
  PROVE  MoeInv' /\ UNCHANGED result
<1>1. /\ phase = "experts" /\ g \in DOMAIN worker /\ worker[g].at = "read"
      /\ UNCHANGED <<pinning, phase, plan, layer, routes, result, cache>>
  BY DEF Read, ReadFails, Running, loadVars
<1>2. ~pinning
  BY <1>1, Serving DEF Pinned
<1>3. PICK at \in {"insert", "failed"} : worker' = [worker EXCEPT ![g].at = at]
  BY DEF Read, ReadFails
<1> QED BY <1>1, <1>2, <1>3, WorkerGoes

\* Caching what was read keeps it.
LEMMA InsertIsSound ==
  ASSUME MoeInv, NEW g, Insert(g)
  PROVE  MoeInv' /\ UNCHANGED result
<1>1. /\ phase = "experts" /\ g \in DOMAIN worker /\ worker[g].at = "insert"
      /\ UNCHANGED <<pinning, phase, plan, layer, routes, result>>
      /\ cache' = RecordReadAndInsert(cache, KeyOf(g), Contents(KeyOf(g)))
      /\ worker' = [worker EXCEPT ![g] = Having(worker[g], Contents(KeyOf(g)))]
  BY DEF Insert, Running, loadVars
<1>2. ~pinning /\ ~cache.full /\ Covered(cache)
  BY <1>1, Serving DEF Pinned
<1>3. Sound(cache) /\ Residency /\ Working
  BY DEF MoeInv
<1>4. KeyOf(g) \in AllKeys
  BY <1>1, <1>3, KeyOfIs
<1>5. PICK r : r = cache'
  OBVIOUS
<1>6. Sound(r) /\ Covered(r) /\ r.full = cache.full
  BY <1>1, <1>2, <1>3, <1>4, <1>5, InsertIs DEF SameSetup
<1>7. PICK x : x = Having(worker[g], Contents(KeyOf(g)))
  OBVIOUS
<1>8. /\ x = [part |-> x.part, at |-> x.at, pair |-> x.pair, down |-> x.down]
      /\ x.at \in {"lookup", "done"} /\ x.part \in {"pair", "down"}
      /\ x.part = "down" => x.pair = Contents(GroupKey(g, "pair"))
      /\ x.at = "done" => x.part = "down" /\ x.down = Contents(GroupKey(g, "down"))
  BY <1>1, <1>3, <1>7, HavingIs
<1>9. Working'
  BY <1>1, <1>3, <1>7, <1>8, WorkerMoves
<1>10. Residency'
  BY <1>1, <1>2, <1>3, <1>5, <1>6 DEF Residency
<1> QED BY <1>1, <1>5, <1>6, <1>9, <1>10 DEF MoeInv

\* Where a slot's value is taken from: a group of its expert, at its row.
LEMMA AccumulatedIsReference ==
  ASSUME Working, \A g \in DOMAIN worker : worker[g].at = "done"
  PROVE  Accumulated = Reference
<1>1. routes \in Seq(RouterPicks) /\ DOMAIN worker = DOMAIN Groups /\ \A g \in DOMAIN worker : WorkerHas(g)
  BY DEF Working
<1>2. GroupsFit(Groups, routes)
  BY <1>1, GroupsAre
<1>3. PICK G : G = Groups
  OBVIOUS
<1>4. PICK slots : slots = (1..Len(routes)) \X (1..ExpertsPerToken)
  OBVIOUS
<1>5. PICK at : at = Slots(Groups)
  OBVIOUS
<1>6. \A s \in slots : at[s] = CHOOSE p \in (DOMAIN G) \X (1..Len(routes)) :
                                 p[2] \in DOMAIN G[p[1]].slots /\ G[p[1]].slots[p[2]] = s
  BY <1>3, <1>4, <1>5 DEF Slots
<1>7. ASSUME NEW s \in slots
      PROVE  /\ at[s][1] \in DOMAIN G /\ at[s][2] \in DOMAIN G[at[s][1]].slots
             /\ G[at[s][1]].slots[at[s][2]] = s
  <2>1. PICK g \in DOMAIN G, j \in 1..Len(routes) : j \in DOMAIN G[g].slots /\ G[g].slots[j] = s
    BY <1>2, <1>3, <1>4 DEF GroupsFit
  <2>0. PICK q : q = <<g, j>>
    OBVIOUS
  <2>2. q[1] = g /\ q[2] = j /\ q \in (DOMAIN G) \X (1..Len(routes))
    BY <2>0
  <2>3. PICK p : p = at[s]
    OBVIOUS
  <2>4. /\ p \in (DOMAIN G) \X (1..Len(routes))
        /\ p[2] \in DOMAIN G[p[1]].slots /\ G[p[1]].slots[p[2]] = s
    BY <1>6, <2>1, <2>2, <2>3
  <2> QED BY <2>3, <2>4
<1>8. ASSUME NEW row \in DOMAIN routes, NEW i \in 1..ExpertsPerToken
      PROVE  /\ <<row, i>> \in slots
             /\ Value(Groups, at[<<row, i>>][1], at[<<row, i>>][2])
                  = [input |-> row,
                     gateUp |-> Contents(Key(layer, "pair", routes[row][i])),
                     down |-> Contents(Key(layer, "down", routes[row][i]))]
  <2>0. PICK s : s = <<row, i>>
    OBVIOUS
  <2>1. s = <<row, i>> /\ s[1] = row /\ s[2] = i
    BY <2>0
  <2>2. s \in slots
    BY <1>1, <1>4, <2>1
  <2>3. PICK g : g = at[s][1]
    OBVIOUS
  <2>4. PICK j : j = at[s][2]
    OBVIOUS
  <2>5. g \in DOMAIN G /\ j \in DOMAIN G[g].slots /\ G[g].slots[j] = s
    BY <1>7, <2>2, <2>3, <2>4
  <2>6. s \in SlotsOf(routes, G[g].expert)
    BY <1>2, <1>3, <2>5 DEF GroupsFit
  <2>7. G[g].expert = routes[row][i]
    BY <2>1, <2>6 DEF SlotsOf
  <2>8. WorkerHas(g) /\ worker[g].at = "done"
    BY <1>1, <1>3, <2>5
  <2>9. worker[g].pair = Contents(GroupKey(g, "pair")) /\ worker[g].down = Contents(GroupKey(g, "down"))
    BY <2>8 DEF WorkerHas
  <2>10. GroupKey(g, "pair") = Key(layer, "pair", routes[row][i]) /\ GroupKey(g, "down") = Key(layer, "down", routes[row][i])
    BY <1>3, <2>7 DEF GroupKey
  <2>11. Value(Groups, g, j) = [input |-> row, gateUp |-> worker[g].pair, down |-> worker[g].down]
    BY <1>3, <2>1, <2>5 DEF Value
  <2> QED BY <2>1, <2>2, <2>3, <2>4, <2>9, <2>10, <2>11
<1>9. Accumulated = [row \in DOMAIN routes |->
                       [i \in 1..ExpertsPerToken |->
                          [value |-> Value(Groups, at[<<row, i>>][1], at[<<row, i>>][2]),
                           weight |-> <<row, i>>]]]
  BY <1>5 DEF Accumulated
<1> QED BY <1>8, <1>9 DEF Reference

\* A layer combines to the reference.
LEMMA CombineIsSound == MoeInv /\ Combine => MoeInv' /\ result' = Reference'
<1> SUFFICES ASSUME MoeInv, Combine PROVE MoeInv' /\ result' = Reference'
  OBVIOUS
<1>1. /\ phase = "experts" /\ phase' = "serve" /\ result' = Accumulated
      /\ \A g \in DOMAIN worker : worker[g].at = "done"
      /\ UNCHANGED <<cache, pinning, plan, layer, routes, worker, file>>
  BY DEF Combine
<1>2. Sound(cache) /\ Residency /\ Working
  BY DEF MoeInv
<1>3. Accumulated = Reference
  BY <1>1, <1>2, AccumulatedIsReference
<1>4. Reference' = Reference
  BY <1>1 DEF Reference
<1>5. Groups' = Groups /\ \A g \in DOMAIN worker : WorkerHas(g)' <=> WorkerHas(g)
  BY <1>1 DEF Groups, WorkerHas, GroupKey
<1>6. Working'
  BY <1>1, <1>2, <1>5 DEF Working
<1>7. pinning => Pinned'
  BY <1>1, <1>2 DEF Residency, Pinned
<1>8. Residency'
  BY <1>1, <1>2, <1>7 DEF Residency
<1> QED BY <1>1, <1>2, <1>3, <1>4, <1>6, <1>8 DEF MoeInv

\* A layer that fails keeps the invariant and returns nothing.
LEMMA LayerFailsIsSound == MoeInv /\ ExpertsFail => MoeInv' /\ UNCHANGED <<result, layer, routes>>
<1> SUFFICES ASSUME MoeInv, ExpertsFail PROVE MoeInv' /\ UNCHANGED <<result, layer, routes>>
  OBVIOUS
<1>1. /\ phase = "experts" /\ phase' = "serve"
      /\ UNCHANGED <<cache, pinning, plan, layer, routes, worker, file, result>>
  BY DEF ExpertsFail
<1>2. Sound(cache) /\ Residency /\ Working
  BY DEF MoeInv
<1>3. pinning => Pinned'
  BY <1>1, <1>2 DEF Residency, Pinned
<1>4. Residency'
  BY <1>1, <1>2, <1>3 DEF Residency
<1> QED BY <1>1, <1>2, <1>4, WorkingStays DEF MoeInv

\* A step that changes nothing keeps it.
LEMMA StutterIsSound == MoeInv /\ UNCHANGED allVars => MoeInv'
<1> SUFFICES ASSUME MoeInv, UNCHANGED allVars PROVE MoeInv'
  OBVIOUS
<1>1. UNCHANGED <<cache, pinning, phase, plan, layer, routes, worker, result>>
  BY DEF allVars, moeVars
<1>2. Sound(cache) /\ Residency /\ Working
  BY DEF MoeInv
<1>3. Residency'
  BY <1>1, <1>2 DEF Residency, Warming, Fusing, Pinned
<1> QED BY <1>1, <1>2, <1>3, WorkingStays DEF MoeInv

\* Every step keeps it.
LEMMA NextIsSound == MoeInv /\ [MoeNext]_allVars => MoeInv'
<1> SUFFICES ASSUME MoeInv, [MoeNext]_allVars PROVE MoeInv'
  OBVIOUS
<1>1. CASE Warm \/ Warmed \/ FuseLayer \/ Fused \/ WarmupFails
  BY <1>1, WarmIsSound, WarmedIsSound, FuseLayerIsSound, FusedIsSound, WarmupFailsIsSound
<1>2. CASE Forward \/ Combine \/ ExpertsFail
  BY <1>2, ForwardIsSound, CombineIsSound, LayerFailsIsSound
<1>3. ASSUME NEW g, Load(g) PROVE MoeInv'
  BY <1>3, LookupIsSound, ReadIsSound, InsertIsSound DEF Load
<1>4. CASE UNCHANGED allVars
  BY <1>4, StutterIsSound
<1> QED BY <1>1, <1>2, <1>3, <1>4 DEF MoeNext

\* A layer's result stands until the next forward.
LEMMA ResultStands ==
  ASSUME MoeInv, MatchesTokenMajor, UNCHANGED <<layer, routes, result>>
  PROVE  MatchesTokenMajor'
BY DEF MatchesTokenMajor, Reference

\* Every step keeps what the layer returned.
LEMMA NextMatches == MoeInv /\ MatchesTokenMajor /\ [MoeNext]_allVars => MatchesTokenMajor'
<1> SUFFICES ASSUME MoeInv, MatchesTokenMajor, [MoeNext]_allVars PROVE MatchesTokenMajor'
  OBVIOUS
<1>1. CASE Warm \/ Warmed \/ FuseLayer \/ Fused \/ WarmupFails
  <2>1. UNCHANGED <<layer, routes, result>>
    BY <1>1 DEF Warm, Warmed, FuseLayer, Fused, WarmupFails, forwardVars
  <2> QED BY <2>1, ResultStands
<1>2. CASE Forward
  BY <1>2, ForwardIsSound DEF MatchesTokenMajor
<1>3. CASE Combine
  BY <1>3, CombineIsSound DEF MatchesTokenMajor
<1>4. CASE ExpertsFail
  BY <1>4, LayerFailsIsSound, ResultStands
<1>5. ASSUME NEW g, Load(g) PROVE MatchesTokenMajor'
  <2>1. UNCHANGED <<layer, routes, result>>
    BY <1>5 DEF Load, Lookup, Read, ReadFails, Insert, loadVars
  <2> QED BY <2>1, ResultStands
<1>6. CASE UNCHANGED allVars
  <2>1. UNCHANGED <<layer, routes, result>>
    BY <1>6 DEF allVars, moeVars
  <2> QED BY <2>1, ResultStands
<1> QED BY <1>1, <1>2, <1>3, <1>4, <1>5, <1>6 DEF MoeNext

\* The queue of a cache that is kept in order names each entry's access once.
LEMMA OneRecord ==
  ASSUME NEW c, Sound(c), Covered(c), NEW k \in DOMAIN c.entries
  PROVE  Cardinality({i \in DOMAIN c.lru : IsCurrent(c, i) /\ c.lru[i].key = k}) = 1
<1>1. PICK S : S = {i \in DOMAIN c.lru : IsCurrent(c, i) /\ c.lru[i].key = k}
  OBVIOUS
<1>2. PICK n \in DOMAIN c.lru : c.lru[n] = [key |-> k, access |-> c.entries[k].access]
  BY DEF Covered
<1>3. n \in S
  BY <1>1, <1>2 DEF IsCurrent, Holds
<1>4. \A i, j \in DOMAIN c.lru : i < j => c.lru[i].access < c.lru[j].access
  BY DEF Sound, Orderly, Queued
<1>5. (\A i \in DOMAIN c.lru : c.lru[i].access \in Nat) /\ DOMAIN c.lru = 1..Len(c.lru) /\ Len(c.lru) \in Nat
  BY QueueRecords DEF Sound, Orderly
<1>6. ASSUME NEW i \in S PROVE i = n
  <2>1. i \in DOMAIN c.lru /\ c.lru[i].access = c.entries[k].access /\ c.lru[n].access = c.entries[k].access
    BY <1>1, <1>2 DEF IsCurrent
  <2>2. i \in Nat /\ n \in Nat /\ ~(c.lru[i].access < c.lru[n].access) /\ ~(c.lru[n].access < c.lru[i].access)
    BY <1>5, <2>1
  <2>3. ~(i < n) /\ ~(n < i)
    BY <1>4, <2>1, <2>2
  <2> QED BY <2>2, <2>3
<1>7. S = {n}
  BY <1>3, <1>6
<1> QED BY <1>1, <1>7, FS_Singleton

\* A sound cache is exact.
LEMMA SoundIsExact == MoeInv => CacheExact
<1> SUFFICES ASSUME MoeInv PROVE CacheExact
  OBVIOUS
<1>1. Sound(cache) /\ Residency
  BY DEF MoeInv
<1>2. EntriesFaithful
  BY <1>1 DEF EntriesFaithful, Sound, Orderly, Faithful
<1>3. BytesFit
  BY <1>1 DEF BytesFit, Sound, Orderly, Fits
<1>4. QueueCoversEntries
  <2> SUFFICES ASSUME phase # "fuse", ~cache.full
               PROVE  /\ \A k \in DOMAIN cache.entries :
                           Cardinality({i \in DOMAIN cache.lru :
                                          IsCurrent(cache, i) /\ cache.lru[i].key = k}) = 1
                      /\ \A i, j \in DOMAIN cache.lru : i < j => cache.lru[i].access < cache.lru[j].access
    BY DEF QueueCoversEntries
  <2>1. Covered(cache)
    BY <1>1 DEF Residency
  <2>2. \A i, j \in DOMAIN cache.lru : i < j => cache.lru[i].access < cache.lru[j].access
    BY <1>1 DEF Sound, Orderly, Queued
  <2> QED BY <1>1, <2>1, <2>2, OneRecord
<1>5. QueueIsBounded
  BY <1>1 DEF QueueIsBounded, Sound, Proportionate
<1> QED BY <1>2, <1>3, <1>4, <1>5 DEF CacheExact

\* What a pinned cache holds for good.
ResidentKeys == {Key(l, part, e) : l \in MoeLayers, part \in {"pair", "down"}, e \in Experts}

\* The keys once every layer is fused.
LEMMA LastKeys == FusedKeys(DecoderLayers + 1) = ResidentKeys
<1>1. PICK F : F = FusedKeys(DecoderLayers + 1)
  OBVIOUS
<1>2. DecoderLayers + 1 \in 0..(DecoderLayers + 1) /\ \A l \in MoeLayers : l < DecoderLayers + 1 /\ ~(l >= DecoderLayers + 1)
  BY DecoderLayersAre
<1>3. /\ F \subseteq AllKeys
      /\ \A l \in MoeLayers, e \in Experts :
           /\ Key(l, "down", e) \in F /\ Key(l, "pair", e) \in F
           /\ Key(l, "gate", e) \notin F /\ Key(l, "up", e) \notin F
  BY <1>1, <1>2, FusedKeysAre
<1>4. F \subseteq ResidentKeys
  <2> SUFFICES ASSUME NEW k \in F PROVE k \in ResidentKeys
    OBVIOUS
  <2>1. PICK l \in MoeLayers, part \in Parts, e \in Experts : k = Key(l, part, e)
    BY <1>3, KeyIsKey
  <2>2. part \in {"pair", "down"}
    BY <1>3, <2>1 DEF Parts
  <2> QED BY <2>1, <2>2 DEF ResidentKeys
<1>5. ResidentKeys \subseteq F
  BY <1>3 DEF ResidentKeys
<1> QED BY <1>1, <1>4, <1>5

\* The invariant says that what is pinned stays.
LEMMA SoundStaysResident == MoeInv => PinnedStaysResident
<1> SUFFICES ASSUME MoeInv, pinning
             PROVE  /\ phase = "fuse" /\ plan # <<>> => CanFuse(cache, Head(plan), Experts)
                    /\ phase \in {"serve", "experts"} =>
                         /\ cache.full
                         /\ DOMAIN cache.entries = {Key(l, part, e) : l \in MoeLayers,
                                                      part \in {"pair", "down"}, e \in Experts}
                         /\ \A g \in DOMAIN worker : worker[g].at \notin {"read", "insert", "failed"}
  BY DEF PinnedStaysResident
<1>1. phase = "fuse" /\ plan # <<>> => CanFuse(cache, Head(plan), Experts)
  BY Fuses
<1>2. ASSUME phase \in {"serve", "experts"} PROVE Pinned
  BY <1>2 DEF MoeInv, Residency
<1>3. FusedKeys(DecoderLayers + 1) = {Key(l, part, e) : l \in MoeLayers, part \in {"pair", "down"}, e \in Experts}
  BY LastKeys DEF ResidentKeys
<1> QED BY <1>1, <1>2, <1>3 DEF Pinned

\* The invariant holds of every run of the experts and their cache (gguf.rs:826,
\* quantized_moe.rs:345).
THEOREM MoeInvariantHolds == MoeSpec => []MoeInv
<1> QED BY InitIsSound, NextIsSound, PTL DEF MoeSpec

\* The cache stays exact, whoever looks up, reads, inserts and evicts, and in
\* whatever order (gguf.rs:826).
THEOREM CacheIsExact == MoeSpec => []CacheExact
BY MoeInvariantHolds, SoundIsExact, PTL

\* What a start has pinned is final (residency.rs:101).
THEOREM PinnedIsFinal == MoeSpec => []PinnedStaysResident
BY MoeInvariantHolds, SoundStaysResident, PTL

\* A layer returns what the token-major reference does (quantized_moe.rs:345).
THEOREM LayersMatchTheReference == MoeSpec => []MatchesTokenMajor
<1>1. MoeInit => MatchesTokenMajor
  BY DEF MoeInit, MatchesTokenMajor
<1> QED BY <1>1, MoeInvariantHolds, NextMatches, PTL DEF MoeSpec

-----------------------------------------------------------------------------
(***************************************************************************)
(* The speculation policy.                                                 *)
(***************************************************************************)

(***************************************************************************)
(* The index of a text, in closed form.                                    *)
(***************************************************************************)
Hashes(text, length) == {Hash(Suffix(text, end, length)) : end \in length..Len(text)}

\* Where keys of a hash end, and where keys with the hash of the last one ended before.
EndsOf(text, length, hash) ==
  {end \in length..Len(text) : Hash(Suffix(text, end, length)) = hash}
Earlier(text, length) ==
  {end \in length..(Len(text) - 1) :
     Hash(Suffix(text, end, length)) = Hash(Suffix(text, Len(text), length))}

MapOf(text, length) == [h \in Hashes(text, length) |-> Max(EndsOf(text, length, h))]
LastOf(text, length) ==
  IF Len(text) < length \/ Earlier(text, length) = {} THEN 0 ELSE Max(Earlier(text, length))

IndexOf(text) ==
  [tokens |-> text,
   maps |-> [slot \in DOMAIN MatchLengths |-> MapOf(text, MatchLengths[slot])],
   last |-> [slot \in DOMAIN MatchLengths |-> LastOf(text, MatchLengths[slot])]]

LEMMA MaxOfBounded ==
  ASSUME NEW n \in Nat, NEW T \in SUBSET (0..n), T # {}
  PROVE  Max(T) \in T /\ \A x \in T : x <= Max(T)
<1>1. PICK U : U = {m \in Nat : \A x \in T : x <= m} OBVIOUS
<1>2. n \in U /\ U \subseteq Nat BY <1>1
<1>3. PICK m \in U : \A y \in U : m <= y BY <1>2, LeastNat
<1>4. m \in T
  <2> SUFFICES ASSUME m \notin T PROVE FALSE OBVIOUS
  <2>1. PICK y \in T : TRUE OBVIOUS
  <2>2. m \in Nat /\ m >= y /\ m # y /\ y \in Nat BY <1>1, <2>1
  <2>3. m - 1 \in Nat BY <2>2
  <2>4. \A x \in T : x <= m - 1 BY <1>1, <2>2
  <2>5. m - 1 \in U BY <1>1, <2>3, <2>4
  <2> QED BY <1>3, <2>2, <2>5
<1>5. \A y \in T : m >= y BY <1>1
<1>6. \A x \in T : (\A y \in T : x >= y) => x = m
  BY <1>4, <1>5
<1> QED BY <1>4, <1>5, <1>6 DEF Max

LEMMA MaxIs ==
  ASSUME NEW n \in Nat, NEW T \in SUBSET (0..n), NEW m \in T, \A x \in T : x <= m
  PROVE  Max(T) = m
<1>1. Max(T) \in T /\ \A x \in T : x <= Max(T) BY MaxOfBounded
<1>2. m <= Max(T) /\ Max(T) <= m BY <1>1
<1>3. m \in 0..n /\ Max(T) \in 0..n BY <1>1
<1> QED BY <1>2, <1>3

LEMMA SuffixOfAppend ==
  ASSUME NEW t \in Seq(Tokens), NEW x \in Tokens, NEW L \in Nat \ {0}, NEW e \in L..Len(t)
  PROVE  Suffix(Append(t, x), e, L) = Suffix(t, e, L)
<1>1. Append(t, x) = t \o <<x>> /\ <<x>> \in Seq(Tokens) BY AppendAsConcat
<1> QED BY DEF Suffix

\* h is the hash of the key that a token appended to t completes.
Completes(h, u, t, x, L) == u = Append(t, x) /\ Len(u) >= L /\ h = Hash(Suffix(u, Len(u), L))

LEMMA MapPushed ==
  ASSUME NEW t \in Seq(Tokens), NEW x \in Tokens, NEW L \in Nat \ {0},
         NEW u, NEW h, Completes(h, u, t, x, L)
  PROVE  /\ MapOf(u, L) = Inserted(MapOf(t, L), h, Len(u))
         /\ LastOf(u, L) = EndBefore(MapOf(t, L), h)
<1> DEFINE n == Len(t)
<1>0. u = Append(t, x) /\ Len(u) >= L /\ h = Hash(Suffix(u, Len(u), L)) BY DEF Completes
<1>1. n \in Nat /\ Len(u) = n + 1 /\ u \in Seq(Tokens) BY <1>0, AppendType
<1>2. \A e \in L..n : Suffix(u, e, L) = Suffix(t, e, L) BY <1>0, SuffixOfAppend
<1>2h. \A e \in L..n : Hash(Suffix(u, e, L)) = Hash(Suffix(t, e, L)) BY <1>2
<1>3. \A e : e \in L..(n + 1) <=> e \in L..n \/ e = n + 1
  BY <1>0, <1>1
<1>4. Hashes(u, L) = Hashes(t, L) \cup {h}
  BY <1>0, <1>1, <1>2h, <1>3 DEF Hashes
<1>5. EndsOf(u, L, h) = EndsOf(t, L, h) \cup {n + 1}
  BY <1>0, <1>1, <1>2h, <1>3 DEF EndsOf
<1>6. \A k : k # h => EndsOf(u, L, k) = EndsOf(t, L, k)
  BY <1>0, <1>1, <1>2h, <1>3 DEF EndsOf
<1>7. Max(EndsOf(u, L, h)) = n + 1
  <2>1. EndsOf(u, L, h) \in SUBSET (0..(n + 1)) BY <1>1 DEF EndsOf
  <2>2. n + 1 \in EndsOf(u, L, h) BY <1>5
  <2>3. \A y \in EndsOf(u, L, h) : y <= n + 1 BY <2>1
  <2>4. n + 1 \in Nat BY <1>1
  <2>5. PICK m \in Nat : m = n + 1 BY <2>4
  <2>6. PICK T \in SUBSET (0..m) : T = EndsOf(u, L, h) BY <2>1, <2>5
  <2>7. m \in T /\ \A y \in T : y <= m BY <2>2, <2>3, <2>5, <2>6
  <2> QED BY <2>5, <2>6, <2>7, MaxIs
<1>8. MapOf(u, L) = Inserted(MapOf(t, L), h, n + 1)
  <2>1. PICK f : f = MapOf(t, L) OBVIOUS
  <2>2. f = [k \in Hashes(t, L) |-> Max(EndsOf(t, L, k))] BY <2>1 DEF MapOf
  <2>3. DOMAIN f = Hashes(t, L) /\ \A k \in Hashes(t, L) : f[k] = Max(EndsOf(t, L, k)) BY <2>2
  <2>4. PICK g : g = MapOf(u, L) OBVIOUS
  <2>5. g = [k \in Hashes(u, L) |-> Max(EndsOf(u, L, k))] BY <2>4 DEF MapOf
  <2>6. DOMAIN g = DOMAIN f \cup {h} BY <1>4, <2>3, <2>5
  <2>7. ASSUME NEW k \in Hashes(u, L) PROVE g[k] = IF k = h THEN n + 1 ELSE f[k]
    <3>1. CASE k = h BY <1>7, <2>5, <3>1
    <3>2. CASE k # h
      <4>1. k \in Hashes(t, L) BY <1>4, <3>2
      <4> QED BY <1>6, <2>3, <2>5, <3>2, <4>1
    <3> QED BY <3>1, <3>2
  <2>8. \A k \in DOMAIN g : g[k] = IF k = h THEN n + 1 ELSE f[k] BY <2>5, <2>7
  <2>9. g = [k \in DOMAIN g |-> g[k]] BY <2>5
  <2>10. g = [k \in DOMAIN f \cup {h} |-> IF k = h THEN n + 1 ELSE f[k]] BY <2>6, <2>8, <2>9, Zenon
  <2> QED BY <2>1, <2>4, <2>10 DEF Inserted
<1>9. Earlier(u, L) = EndsOf(t, L, h)
  BY <1>0, <1>1, <1>2h DEF Earlier, EndsOf
<1>10. h \in Hashes(t, L) <=> EndsOf(t, L, h) # {}
  BY DEF Hashes, EndsOf
<1>11. LastOf(u, L) = EndBefore(MapOf(t, L), h)
  BY <1>0, <1>1, <1>9, <1>10 DEF LastOf, EndBefore, MapOf
<1> QED BY <1>1, <1>8, <1>11

LEMMA MapUntouched ==
  ASSUME NEW t \in Seq(Tokens), NEW x \in Tokens, NEW L \in Nat \ {0},
         NEW u, u = Append(t, x), ~(Len(u) >= L)
  PROVE  MapOf(u, L) = MapOf(t, L) /\ LastOf(u, L) = 0
<1>1. Len(u) = Len(t) + 1 /\ Len(t) \in Nat BY AppendType
<1>2. L..Len(u) = {} /\ L..Len(t) = {} BY <1>1
<1>3. Hashes(u, L) = {} /\ Hashes(t, L) = {} BY <1>2 DEF Hashes
<1>4. MapOf(u, L) = MapOf(t, L) BY <1>3 DEF MapOf
<1> QED BY <1>1, <1>4 DEF LastOf

LEMMA SlotLength ==
  ASSUME NEW slot \in DOMAIN MatchLengths
  PROVE  MatchLengths[slot] \in Nat \ {0}
BY IndexAssumption

\* Pushing a token on the index of a text gives the index of the longer text.
LEMMA PushMirrors ==
  ASSUME NEW t \in Seq(Tokens), NEW x \in Tokens
  PROVE  Push(IndexOf(t), x) = IndexOf(Append(t, x))
<1>1. PICK u : u = Append(t, x) OBVIOUS
<1>2. ASSUME NEW slot \in DOMAIN MatchLengths
      PROVE  /\ Push(IndexOf(t), x).maps[slot] = MapOf(u, MatchLengths[slot])
             /\ Push(IndexOf(t), x).last[slot] = LastOf(u, MatchLengths[slot])
  <2>1. PICK L \in Nat \ {0} : L = MatchLengths[slot] BY SlotLength
  <2>2. PICK h : h = Hash(Suffix(u, Len(u), L)) OBVIOUS
  <2>3. CASE Len(u) >= L
    <3>0. Completes(h, u, t, x, L) BY <1>1, <2>2, <2>3 DEF Completes
    <3>1. MapOf(u, L) = Inserted(MapOf(t, L), h, Len(u)) /\ LastOf(u, L) = EndBefore(MapOf(t, L), h)
      BY <3>0, MapPushed
    <3>2. Push(IndexOf(t), x).maps[slot] = Inserted(MapOf(t, L), h, Len(u))
      BY <1>1, <2>1, <2>2, <2>3, Zenon DEF Push, IndexOf
    <3>3. Push(IndexOf(t), x).last[slot] = EndBefore(MapOf(t, L), h)
      BY <1>1, <2>1, <2>2, <2>3, Zenon DEF Push, IndexOf
    <3> QED BY <2>1, <3>1, <3>2, <3>3
  <2>4. CASE ~(Len(u) >= L)
    BY <1>1, <2>1, <2>4, MapUntouched DEF Push, IndexOf
  <2> QED BY <2>3, <2>4
<1>3. Push(IndexOf(t), x).tokens = u BY <1>1 DEF Push, IndexOf
<1>4. Push(IndexOf(t), x).maps = [slot \in DOMAIN MatchLengths |-> MapOf(u, MatchLengths[slot])]
  <2>1. Push(IndexOf(t), x).maps = [slot \in DOMAIN MatchLengths |-> Push(IndexOf(t), x).maps[slot]]
    BY DEF Push
  <2> QED BY <1>2, <2>1, Zenon
<1>5. Push(IndexOf(t), x).last = [slot \in DOMAIN MatchLengths |-> LastOf(u, MatchLengths[slot])]
  <2>1. Push(IndexOf(t), x).last = [slot \in DOMAIN MatchLengths |-> Push(IndexOf(t), x).last[slot]]
    BY DEF Push
  <2> QED BY <1>2, <2>1, Zenon
<1>6. Push(IndexOf(t), x) = [tokens |-> Push(IndexOf(t), x).tokens, maps |-> Push(IndexOf(t), x).maps,
                             last |-> Push(IndexOf(t), x).last]
  BY DEF Push
<1> QED BY <1>1, <1>3, <1>4, <1>5, <1>6 DEF IndexOf

\* The new index is the index of no text.
LEMMA NewIndexMirrors == NewIndex = IndexOf(<< >>)
<1>1. ASSUME NEW slot \in DOMAIN MatchLengths
      PROVE  /\ MapOf(<< >>, MatchLengths[slot]) = [h \in {} |-> 0]
             /\ LastOf(<< >>, MatchLengths[slot]) = 0
  <2>1. PICK L \in Nat \ {0} : L = MatchLengths[slot] BY SlotLength
  <2>2. Len(<< >>) = 0 /\ L..0 = {} BY <2>1
  <2>3. Hashes(<< >>, L) = {} BY <2>2 DEF Hashes
  <2>4. MapOf(<< >>, L) = [h \in {} |-> 0] BY <2>3 DEF MapOf
  <2>5. LastOf(<< >>, L) = 0 BY <2>2 DEF LastOf
  <2> QED BY <2>1, <2>4, <2>5
<1>2. [slot \in DOMAIN MatchLengths |-> MapOf(<< >>, MatchLengths[slot])]
        = [slot \in DOMAIN MatchLengths |-> [h \in {} |-> 0]]
  BY <1>1, Zenon
<1>3. [slot \in DOMAIN MatchLengths |-> LastOf(<< >>, MatchLengths[slot])]
        = [slot \in DOMAIN MatchLengths |-> 0]
  BY <1>1, Zenon
<1> QED BY <1>2, <1>3 DEF NewIndex, IndexOf

LEMMA PrefixExtended ==
  ASSUME NEW s \in Seq(Tokens), NEW n \in 1..Len(s)
  PROVE  /\ SubSeq(s, 1, n) = Append(SubSeq(s, 1, n - 1), s[n])
         /\ SubSeq(s, 1, n - 1) \in Seq(Tokens) /\ s[n] \in Tokens
<1>1. n - 1 \in 0..Len(s) /\ n \in 0..Len(s) OBVIOUS
<1>2. PICK p \in Seq(Tokens) : p = SubSeq(s, 1, n - 1) BY <1>1, PrefixType
<1>3. Len(p) = n - 1 /\ \A i \in 1..(n - 1) : p[i] = s[i] BY <1>1, <1>2
<1>4. PICK q \in Seq(Tokens) : q = SubSeq(s, 1, n) BY <1>1, PrefixType
<1>5. Len(q) = n /\ \A i \in 1..n : q[i] = s[i] BY <1>1, <1>4
<1>6. s[n] \in Tokens OBVIOUS
<1>7. PICK a \in Seq(Tokens) : a = Append(p, s[n]) BY <1>6, AppendType
<1>8. Len(a) = n /\ \A i \in 1..n : a[i] = s[i] BY <1>3, <1>7
<1>9. a = q BY <1>5, <1>8, SeqEqual
<1> QED BY <1>2, <1>4, <1>6, <1>7, <1>9

\* Extending the index of a text gives the index of the longer text.
LEMMA ExtendMirrors ==
  ASSUME NEW t \in Seq(Tokens), NEW s \in Seq(Tokens)
  PROVE  Extend(IndexOf(t), s) = IndexOf(t \o s)
<1>1. PICK N \in Nat : N = Len(s) OBVIOUS
<1>2. PICK base : base = IndexOf(t) OBVIOUS
<1>3. PICK g : g = [n \in 0..N |-> IndexOf(t \o SubSeq(s, 1, n))] OBVIOUS
<1>c. \A n \in 1..N : n \in 0..N /\ n - 1 \in 0..N /\ n # 0 OBVIOUS
<1>d. \A n \in 0..N : n = 0 \/ n \in 1..N OBVIOUS
<1>4. g[0] = base
  <2>1. 0 \in 0..N /\ SubSeq(s, 1, 0) = << >> OBVIOUS
  <2>2. t \o << >> = t BY ConcatEmpty
  <2> QED BY <1>2, <1>3, <2>1, <2>2
<1>5. ASSUME NEW n \in 1..N PROVE g[n] = Push(g[n - 1], s[n])
  <2>1. PICK p \in Seq(Tokens) : p = SubSeq(s, 1, n - 1) BY <1>1, PrefixExtended
  <2>2. SubSeq(s, 1, n) = Append(p, s[n]) /\ s[n] \in Tokens BY <1>1, <2>1, PrefixExtended
  <2>3. t \o Append(p, s[n]) = Append(t \o p, s[n]) /\ t \o p \in Seq(Tokens)
    <3>1. Append(p, s[n]) = p \o <<s[n]>> /\ <<s[n]>> \in Seq(Tokens) BY <2>2, AppendAsConcat
    <3>2. t \o p \in Seq(Tokens) BY ConcatType
    <3>3. Append(t \o p, s[n]) = (t \o p) \o <<s[n]>> BY <2>2, <3>2, AppendAsConcat
    <3> QED BY <3>1, <3>2, <3>3, ConcatAssoc
  <2>4. Push(IndexOf(t \o p), s[n]) = IndexOf(Append(t \o p, s[n]))
    BY <2>2, <2>3, PushMirrors
  <2>5. g[n - 1] = IndexOf(t \o p) /\ g[n] = IndexOf(t \o SubSeq(s, 1, n))
    BY <1>3, <1>c, <2>1
  <2> QED BY <2>2, <2>3, <2>4, <2>5
<1>6. g = [n \in 0..N |-> IF n = 0 THEN base ELSE Push(g[n - 1], s[n])]
  <2>1. \A n \in 0..N : g[n] = IF n = 0 THEN base ELSE Push(g[n - 1], s[n])
    BY <1>4, <1>5, <1>c, <1>d
  <2>2. g = [n \in 0..N |-> g[n]] BY <1>3
  <2> QED BY <2>1, <2>2, Zenon
<1>7. PICK h : /\ h = [n \in 0..N |-> IF n = 0 THEN base ELSE Push(h[n - 1], s[n])]
               /\ Extend(base, s) = h[N]
  BY <1>1, <1>6 DEF Extend
<1>8. \A n \in 0..N : h[n] = IF n = 0 THEN base ELSE Push(h[n - 1], s[n])
  BY <1>7, Zenon
<1>9. \A n \in 0..N : h[n] = g[n]
  <2>1. PICK T : T = {n \in 0..N : h[n] = g[n]} OBVIOUS
  <2>2. 0 \in 0..N OBVIOUS
  <2>3. h[0] = base BY <1>8, <2>2, Zenon
  <2>4. 0 \in T BY <1>4, <2>1, <2>2, <2>3
  <2>5. ASSUME NEW n \in 1..N, n - 1 \in T PROVE n \in T
    <3>1. h[n - 1] = g[n - 1] BY <2>1, <2>5
    <3>2. n \in 0..N /\ n # 0 BY <1>c
    <3>3. h[n] = Push(h[n - 1], s[n]) BY <1>8, <3>2, Zenon
    <3> QED BY <1>5, <2>1, <3>1, <3>2, <3>3
  <2>6. \A n \in 0..N : n \in T BY <2>4, <2>5, BoundedInduction
  <2> QED BY <2>1, <2>6
<1>10. SubSeq(s, 1, N) = s BY <1>1
<1>11. N \in 0..N OBVIOUS
<1> QED BY <1>2, <1>3, <1>7, <1>9, <1>10, <1>11

\* The index is that of its text.
Mirrored == index.tokens \in Seq(Tokens) /\ index = IndexOf(index.tokens)

LEMMA IndexFields ==
  ASSUME NEW t
  PROVE  /\ IndexOf(t).tokens = t
         /\ \A slot \in DOMAIN MatchLengths :
              IndexOf(t).last[slot] = LastOf(t, MatchLengths[slot])
BY DEF IndexOf

LEMMA ExtendTokens ==
  ASSUME NEW i, NEW t \in Seq(Tokens), i = IndexOf(t), NEW s \in Seq(Tokens)
  PROVE  /\ Extend(i, s) = IndexOf(t \o s)
         /\ Extend(i, s).tokens = t \o s /\ t \o s \in Seq(Tokens)
<1>1. Extend(i, s) = IndexOf(t \o s) BY ExtendMirrors
<1>2. t \o s \in Seq(Tokens) BY ConcatType
<1> QED BY <1>1, <1>2, IndexFields

\* What the position remembered for a key length stands for.
LEMMA LastIsNewest ==
  ASSUME Mirrored, NEW slot \in DOMAIN MatchLengths, NEW L, L = MatchLengths[slot]
  PROVE  /\ L \in Nat \ {0} /\ Len(index.tokens) \in Nat
         /\ Occurrences(L) \in SUBSET (0..Len(index.tokens)) /\ Occurrences(L) \subseteq Collisions(L)
         /\ Collisions(L) \in SUBSET (0..Len(index.tokens))
         /\ Len(index.tokens) < L \/ Collisions(L) = {} => index.last[slot] = 0
         /\ Len(index.tokens) >= L /\ Collisions(L) # {} => index.last[slot] = Max(Collisions(L))
<1>1. L \in Nat \ {0} BY SlotLength
<1>2. PICK t \in Seq(Tokens) : t = index.tokens BY DEF Mirrored
<1>3. Len(t) \in Nat OBVIOUS
<1>4. index = IndexOf(t) BY <1>2 DEF Mirrored
<1>5. index.last[slot] = LastOf(t, L) BY <1>4, IndexFields
<1>6. Collisions(L) = Earlier(t, L) BY <1>2 DEF Collisions, Earlier
<1>7. Collisions(L) \in SUBSET (0..Len(t)) BY <1>1, <1>2, <1>3 DEF Collisions
<1>8. Occurrences(L) \subseteq Collisions(L) BY DEF Occurrences, Collisions
<1>9. /\ Len(t) < L \/ Collisions(L) = {} => index.last[slot] = 0
      /\ Len(t) >= L /\ Collisions(L) # {} => index.last[slot] = Max(Collisions(L))
  BY <1>1, <1>3, <1>5, <1>6 DEF LastOf
<1> QED BY <1>1, <1>2, <1>3, <1>7, <1>8, <1>9

LEMMA MatchIsOccurrence ==
  ASSUME Mirrored, NEW slot \in DOMAIN MatchLengths, MostRecentMatch(index, slot) # 0
  PROVE  MostRecentMatch(index, slot) \in Occurrences(MatchLengths[slot])
<1>1. PICK L : L = MatchLengths[slot] OBVIOUS
<1>2. PICK c : c = index.last[slot] OBVIOUS
<1>3. /\ MostRecentMatch(index, slot) = c /\ c >= L
      /\ Suffix(index.tokens, c, L) = Suffix(index.tokens, Len(index.tokens), L)
  BY <1>1, <1>2 DEF MostRecentMatch
<1>4. /\ L \in Nat \ {0} /\ Collisions(L) \in SUBSET (0..Len(index.tokens)) /\ Len(index.tokens) \in Nat
      /\ Len(index.tokens) < L \/ Collisions(L) = {} => c = 0
      /\ Len(index.tokens) >= L /\ Collisions(L) # {} => c = Max(Collisions(L))
  BY <1>1, <1>2, LastIsNewest
<1>5. c = Max(Collisions(L)) /\ Collisions(L) # {} BY <1>3, <1>4
<1>6. c \in Collisions(L) BY <1>4, <1>5, MaxOfBounded
<1>7. c \in L..(Len(index.tokens) - 1) BY <1>6 DEF Collisions
<1> QED BY <1>1, <1>3, <1>7 DEF Occurrences

\* A lookup in the index of a text is exact.
LEMMA MirrorLooksUpExactly == Mirrored => LookupsAreExact
<1> SUFFICES ASSUME Mirrored, NEW slot \in DOMAIN MatchLengths, NEW L, L = MatchLengths[slot]
             PROVE  LET found == MostRecentMatch(index, slot)
                        short == Len(index.tokens) < L
                    IN  IF short \/ Occurrences(L) = {} THEN found = 0
                        ELSE found \in {Max(Occurrences(L))}
                                       \cup (IF Max(Occurrences(L)) = Max(Collisions(L))
                                             THEN {} ELSE {0})
  BY DEF LookupsAreExact
<1> DEFINE found == MostRecentMatch(index, slot)
<1>1. /\ L \in Nat \ {0} /\ Len(index.tokens) \in Nat
      /\ Occurrences(L) \in SUBSET (0..Len(index.tokens)) /\ Occurrences(L) \subseteq Collisions(L)
      /\ Collisions(L) \in SUBSET (0..Len(index.tokens))
      /\ Len(index.tokens) < L \/ Collisions(L) = {} => index.last[slot] = 0
      /\ Len(index.tokens) >= L /\ Collisions(L) # {} => index.last[slot] = Max(Collisions(L))
  BY LastIsNewest
<1>2. found # 0 => found \in Occurrences(L) /\ found = index.last[slot]
  BY MatchIsOccurrence DEF MostRecentMatch
<1>3. CASE Len(index.tokens) < L
  <2>1. index.last[slot] = 0 BY <1>1, <1>3
  <2> QED BY <1>2, <1>3, <2>1
<1>4. CASE Occurrences(L) = {}
  BY <1>2, <1>4
<1>5. CASE ~(Len(index.tokens) < L) /\ Occurrences(L) # {}
  <2>1. Collisions(L) # {} /\ index.last[slot] = Max(Collisions(L)) BY <1>1, <1>5
  <2>2. Max(Collisions(L)) \in Collisions(L) /\ \A x \in Collisions(L) : x <= Max(Collisions(L))
    BY <1>1, <2>1, MaxOfBounded
  <2>3. Max(Occurrences(L)) \in Occurrences(L) /\ \A x \in Occurrences(L) : x <= Max(Occurrences(L))
    BY <1>1, <1>5, MaxOfBounded
  <2>4. CASE found # 0
    <3>1. found \in Occurrences(L) /\ found = Max(Collisions(L)) BY <1>2, <2>1, <2>4
    <3>2. found <= Max(Occurrences(L)) /\ Max(Occurrences(L)) <= found BY <1>1, <2>2, <2>3, <3>1
    <3>3. found = Max(Occurrences(L))
      <4>1. found \in 0..Len(index.tokens) /\ Max(Occurrences(L)) \in 0..Len(index.tokens)
        BY <1>1, <2>3, <3>1
      <4> QED BY <3>2, <4>1
    <3> QED BY <1>5, <3>3
  <2>5. CASE found = 0 /\ Max(Occurrences(L)) = Max(Collisions(L))
    <3> DEFINE c == Max(Collisions(L))
    <3>1. c \in Occurrences(L) BY <2>3, <2>5
    <3>2. /\ c \in L..(Len(index.tokens) - 1)
          /\ Suffix(index.tokens, c, L) = Suffix(index.tokens, Len(index.tokens), L)
      BY <3>1 DEF Occurrences
    <3>3. found = c BY <2>1, <3>2, <1>1 DEF MostRecentMatch
    <3>4. c # 0 BY <1>1, <3>2
    <3> QED BY <2>5, <3>3, <3>4
  <2>6. CASE found = 0 /\ Max(Occurrences(L)) # Max(Collisions(L))
    BY <1>5, <2>6
  <2> QED BY <2>4, <2>5, <2>6
<1> QED BY <1>3, <1>4, <1>5
-----------------------------------------------------------------------------
(***************************************************************************)
(* Quotients, rounded down.                                                *)
(***************************************************************************)
LEMMA DivBounds ==
  ASSUME NEW x \in Nat, NEW d \in Nat \ {0}
  PROVE  x \div d \in Nat /\ d * (x \div d) <= x /\ x < d * (x \div d) + d
OBVIOUS

LEMMA MulMono ==
  ASSUME NEW d \in Nat, NEW a \in Int, NEW b \in Int, a <= b
  PROVE  d * a <= d * b /\ d * a \in Int /\ d * b \in Int
OBVIOUS

LEMMA MulSucc ==
  ASSUME NEW d \in Nat, NEW a \in Int
  PROVE  d * (a + 1) = d * a + d
OBVIOUS

LEMMA DivAtLeast ==
  ASSUME NEW x \in Nat, NEW d \in Nat \ {0}, NEW q \in Nat, d * q <= x
  PROVE  q <= x \div d
<1>1. PICK r \in Nat : r = x \div d BY DivBounds
<1>2. d * r <= x /\ x < d * r + d BY <1>1, DivBounds
<1> SUFFICES ASSUME r + 1 <= q PROVE FALSE BY <1>1
<1>3. d * (r + 1) <= d * q BY <1>1, MulMono
<1>4. d * (r + 1) = d * r + d BY <1>1, MulSucc
<1>5. d * r \in Int /\ d * q \in Int BY <1>1
<1> QED BY <1>2, <1>3, <1>4, <1>5

LEMMA DivAtMost ==
  ASSUME NEW x \in Nat, NEW d \in Nat \ {0}, NEW q \in Nat, x <= d * q
  PROVE  x \div d <= q
<1>1. PICK r \in Nat : r = x \div d BY DivBounds
<1>2. d * r <= x /\ x < d * r + d BY <1>1, DivBounds
<1> SUFFICES ASSUME q + 1 <= r PROVE FALSE BY <1>1
<1>3. d * (q + 1) <= d * r BY <1>1, MulMono
<1>4. d * (q + 1) = d * q + d BY <1>1, MulSucc
<1>5. d * r \in Int /\ d * q \in Int BY <1>1
<1> QED BY <1>2, <1>3, <1>4, <1>5

LEMMA DivMono ==
  ASSUME NEW x \in Nat, NEW y \in Nat, NEW d \in Nat \ {0}, x <= y
  PROVE  x \div d <= y \div d
<1>1. PICK r \in Nat : r = x \div d BY DivBounds
<1>2. d * r <= x BY <1>1, DivBounds
<1>5. d * r \in Int BY <1>1
<1> QED BY <1>1, <1>2, <1>5, DivAtLeast

\* The share of a proposal that is accepted.
LEMMA ShareBounds ==
  ASSUME NEW proposed \in Nat \ {0}, NEW accepted \in 0..proposed,
         NEW share, share = (Whole * accepted) \div proposed
  PROVE  /\ share \in 0..Whole
         /\ accepted = 0 => share = 0
         /\ accepted = proposed => share = Whole
<1>1. Whole * accepted \in Nat /\ Whole * accepted <= proposed * Whole BY DEF Whole
<1>2. share \in Nat BY <1>1, DivBounds
<1>3. share <= Whole
  <2>1. Whole \in Nat BY DEF Whole
  <2> QED BY <1>1, <2>1, DivAtMost
<1>4. ASSUME accepted = 0 PROVE share = 0
  <2>1. Whole * accepted <= proposed * 0 BY <1>4 DEF Whole
  <2>2. share <= 0 BY <1>1, <2>1, DivAtMost
  <2> QED BY <1>2, <2>2
<1>5. ASSUME accepted = proposed PROVE share = Whole
  <2>1. proposed * Whole <= Whole * accepted /\ Whole \in Nat BY <1>5 DEF Whole
  <2>2. Whole <= share BY <1>1, <2>1, DivAtLeast
  <2> QED BY <1>2, <1>3, <2>1, <2>2
<1> QED BY <1>2, <1>3, <1>4, <1>5 DEF Whole

\* The average after a share: never above a whole, not above what an average that
\* was no lower fades to when the share is none, not below the old one when it is whole.
Blended(share, average) == (share + (AlphaParts - 1) * average) \div AlphaParts

LEMMA BlendedBounds ==
  ASSUME NEW share \in 0..Whole, NEW average \in 0..Whole
  PROVE  /\ Blended(share, average) \in 0..Whole
         /\ share = Whole => average <= Blended(share, average)
<1>1. PICK A \in Nat \ {0} : A = AlphaParts BY ArmAssumption
<1>2. PICK B \in Nat : B = A - 1 BY <1>1
<1>3. share \in Nat /\ average \in Nat /\ Whole \in Nat BY DEF Whole
<1>4. B * average \in Nat BY <1>3
<1>5. share + B * average \in Nat BY <1>3, <1>4
<1>6. PICK next : next = Blended(share, average) OBVIOUS
<1>7. next = (share + B * average) \div A BY <1>1, <1>2, <1>6 DEF Blended
<1>8. next \in Nat BY <1>5, <1>7, DivBounds
<1>9. next <= Whole
  <2>1. B * average <= B * Whole BY <1>3, MulMono
  <2>2. A * Whole = B * Whole + Whole BY <1>2, <1>3 DEF Whole
  <2>3. B * Whole \in Nat BY <1>3
  <2>4. share + B * average <= A * Whole BY <1>4, <2>1, <2>2, <2>3 DEF Whole
  <2> QED BY <1>3, <1>5, <1>7, <2>4, DivAtMost
<1>10. ASSUME share = Whole PROVE average <= next
  <2>1. A * average = B * average + average
    <3>1. A = B + 1 BY <1>2
    <3> QED BY <1>3, <3>1
  <2>2. A * average <= share + B * average BY <1>3, <1>4, <1>10, <2>1 DEF Whole
  <2> QED BY <1>3, <1>5, <1>7, <2>2, DivAtLeast
<1> QED BY <1>3, <1>6, <1>8, <1>9, <1>10

LEMMA BlendedFades ==
  ASSUME NEW average \in 0..Whole, NEW faded \in 0..Whole, average <= faded
  PROVE  Blended(0, average) <= Blended(0, faded)
<1>1. PICK A \in Nat \ {0} : A = AlphaParts BY ArmAssumption
<1>2. PICK B \in Nat : B = A - 1 BY <1>1
<1>3. average \in Nat /\ faded \in Nat BY DEF Whole
<1>4. PICK x \in Nat : x = 0 + B * average BY <1>3
<1>5. PICK y \in Nat : y = 0 + B * faded BY <1>3
<1>6. x <= y BY <1>3, <1>4, <1>5, MulMono
<1>7. x \div A <= y \div A BY <1>6, DivMono
<1> QED BY <1>1, <1>2, <1>4, <1>5, <1>7 DEF Blended
-----------------------------------------------------------------------------
(***************************************************************************)
(* An average that fades and a suspension that doubles, step by step.      *)
(***************************************************************************)
Iterates(g, step, start, N) ==
  /\ g[0] = start /\ \A n \in 1..N : g[n] = step[g[n - 1]]
  /\ Iterated(step, start, N) = g[N]

\* The recursion behind Iterated has a solution, and any one gives its value.
LEMMA IteratedRecursion ==
  ASSUME NEW V, NEW step \in [V -> V], NEW start \in V, NEW N \in Nat
  PROVE  \E g \in [0..N -> V] : Iterates(g, step, start, N)
<1>1. PICK steps : steps = [n \in 1..N |-> step] OBVIOUS
<1>2. steps \in [1..N -> [V -> V]] /\ \A n \in 1..N : steps[n] = step BY <1>1
<1>3. PICK f \in [0..N -> V] : f[0] = start /\ \A n \in 1..N : f[n] = steps[n][f[n - 1]]
  BY <1>2, RecursionHasSolution
<1>4. \A n \in 1..N : f[n] = step[f[n - 1]] BY <1>2, <1>3
<1>c. \A n \in 1..N : n \in 0..N /\ n - 1 \in 0..N /\ n # 0 OBVIOUS
<1>d. \A n \in 0..N : n = 0 \/ n \in 1..N OBVIOUS
<1>5. f = [n \in 0..N |-> IF n = 0 THEN start ELSE step[f[n - 1]]]
  <2>1. \A n \in 0..N : f[n] = IF n = 0 THEN start ELSE step[f[n - 1]]
    BY <1>3, <1>4, <1>c, <1>d
  <2>2. f = [n \in 0..N |-> f[n]] BY <1>3
  <2> QED BY <2>1, <2>2, Zenon
<1>6. PICK h : /\ h = [n \in 0..N |-> IF n = 0 THEN start ELSE step[h[n - 1]]]
               /\ Iterated(step, start, N) = h[N]
  BY <1>5 DEF Iterated
<1>7. \A n \in 0..N : h[n] = IF n = 0 THEN start ELSE step[h[n - 1]] BY <1>6, Zenon
<1>8. h[0] = start
  <2>1. 0 \in 0..N OBVIOUS
  <2> QED BY <1>7, <2>1, Zenon
<1>9. ASSUME NEW n \in 1..N PROVE h[n] = step[h[n - 1]]
  <2>1. n \in 0..N /\ n # 0 BY <1>c
  <2> QED BY <1>7, <2>1, Zenon
<1>10. \A n \in 0..N : h[n] \in V
  <2>1. PICK T : T = {n \in 0..N : h[n] \in V} OBVIOUS
  <2>2. 0 \in T BY <1>8, <2>1
  <2>3. ASSUME NEW n \in 1..N, n - 1 \in T PROVE n \in T BY <1>9, <1>c, <2>1, <2>3
  <2>4. \A n \in 0..N : n \in T BY <2>2, <2>3, BoundedInduction
  <2> QED BY <2>1, <2>4
<1>11. h = [n \in 0..N |-> h[n]]
  <2>1. DOMAIN h = 0..N BY <1>6, Zenon
  <2> QED BY <1>6, <1>7, <2>1, Zenon
<1>12. h \in [0..N -> V] BY <1>10, <1>11
<1>13. Iterates(h, step, start, N) BY <1>6, <1>8, <1>9 DEF Iterates
<1> QED BY <1>12, <1>13

LEMMA IteratedSteps ==
  ASSUME NEW V, NEW step \in [V -> V], NEW start \in V
  PROVE  /\ Iterated(step, start, 0) = start
         /\ \A n \in Nat : /\ Iterated(step, start, n) \in V
                           /\ Iterated(step, start, n + 1) = step[Iterated(step, start, n)]
<1>1. Iterated(step, start, 0) = start
  <2>1. 0 \in Nat OBVIOUS
  <2>2. PICK g \in [0..0 -> V] : Iterates(g, step, start, 0) BY <2>1, IteratedRecursion
  <2> QED BY <2>2 DEF Iterates
<1>2. ASSUME NEW N \in Nat
      PROVE  /\ Iterated(step, start, N) \in V
             /\ Iterated(step, start, N + 1) = step[Iterated(step, start, N)]
  <2>0. PICK g \in [0..N -> V] : Iterates(g, step, start, N) BY IteratedRecursion
  <2>1. /\ g[0] = start /\ \A n \in 1..N : g[n] = step[g[n - 1]]
        /\ Iterated(step, start, N) = g[N]
    BY <2>0 DEF Iterates
  <2>2. PICK M \in Nat : M = N + 1 OBVIOUS
  <2>a. PICK h \in [0..M -> V] : Iterates(h, step, start, M) BY IteratedRecursion
  <2>3. /\ h[0] = start /\ \A n \in 1..M : h[n] = step[h[n - 1]]
        /\ Iterated(step, start, M) = h[M]
    BY <2>a DEF Iterates
  <2>4. \A n \in 0..N : h[n] = g[n]
    <3>1. PICK T : T = {n \in 0..N : h[n] = g[n]} OBVIOUS
    <3>2. 0 \in T BY <2>1, <2>3, <3>1
    <3>3. ASSUME NEW n \in 1..N, n - 1 \in T PROVE n \in T
      <4>1. n \in 1..M /\ n \in 0..N BY <2>2
      <4>2. h[n - 1] = g[n - 1] BY <3>1, <3>3
      <4> QED BY <2>1, <2>3, <3>1, <4>1, <4>2
    <3>4. \A n \in 0..N : n \in T BY <3>2, <3>3, BoundedInduction
    <3> QED BY <3>1, <3>4
  <2>5. N \in 0..N /\ M \in 1..M /\ M - 1 = N BY <2>2
  <2>6. h[M] = step[h[N]] /\ h[N] = g[N] BY <2>3, <2>4, <2>5
  <2> QED BY <2>1, <2>2, <2>3, <2>5, <2>6
<1> QED BY <1>1, <1>2

LEMMA FadedSteps ==
  /\ Faded(0) = Whole
  /\ \A n \in Nat : Faded(n) \in 0..Whole /\ Faded(n + 1) = Blended(0, Faded(n))
<1>1. ASSUME NEW a \in 0..Whole
      PROVE  /\ ((AlphaParts - 1) * a) \div AlphaParts \in 0..Whole
             /\ ((AlphaParts - 1) * a) \div AlphaParts = Blended(0, a)
  <2>1. 0 \in 0..Whole BY DEF Whole
  <2>2. Blended(0, a) \in 0..Whole BY <2>1, BlendedBounds
  <2>3. 0 + (AlphaParts - 1) * a = (AlphaParts - 1) * a BY ArmAssumption DEF Whole
  <2> QED BY <2>2, <2>3 DEF Blended
<1>2. PICK V : V = 0..Whole OBVIOUS
<1>3. Fade \in [V -> V] /\ \A v \in V : Fade[v] = Blended(0, v)
  BY <1>1, <1>2 DEF Fade
<1>4. Whole \in V BY <1>2 DEF Whole
<1>5. /\ Iterated(Fade, Whole, 0) = Whole
      /\ \A n \in Nat : /\ Iterated(Fade, Whole, n) \in V
                        /\ Iterated(Fade, Whole, n + 1) = Fade[Iterated(Fade, Whole, n)]
  BY <1>3, <1>4, IteratedSteps
<1> QED BY <1>2, <1>3, <1>5 DEF Faded

LEMMA DoubledSteps ==
  /\ Doubled(0) = BackoffTokens
  /\ \A n \in Nat : Doubled(n) \in Nat /\ Doubled(n + 1) = 2 * Doubled(n)
<1>1. Double \in [Nat -> Nat] /\ \A v \in Nat : Double[v] = 2 * v BY DEF Double
<1>2. BackoffTokens \in Nat BY ArmAssumption
<1>3. PICK V : V = Nat OBVIOUS
<1>4. /\ Iterated(Double, BackoffTokens, 0) = BackoffTokens
      /\ \A n \in Nat : /\ Iterated(Double, BackoffTokens, n) \in V
                        /\ Iterated(Double, BackoffTokens, n + 1) = Double[Iterated(Double, BackoffTokens, n)]
  <2>1. Double \in [V -> V] /\ BackoffTokens \in V BY <1>1, <1>2, <1>3
  <2> QED BY <2>1, IteratedSteps
<1> QED BY <1>1, <1>3, <1>4 DEF Doubled
-----------------------------------------------------------------------------
(***************************************************************************)
(* One arm, polled and observed.                                           *)
(***************************************************************************)
ArmConfig ==
  [enabled : BOOLEAN, floor : Nat, cap : Nat, start : Nat, grow : {1, 2}, bar : Nat,
   probe : Nat, adaptive : BOOLEAN, backoff : BOOLEAN]
Controller ==
  [length : Nat, average : 0..Whole, until : Nat, window : Nat \ {0}, probing : BOOLEAN]
History == [accepted : Nat, rejected : Nat, failedProbes : Nat]

\* How long the suspension is that n failed probes in a row have led to.
WindowAfter(n) == IF n = 0 THEN BackoffTokens ELSE Min({Doubled(n), BackoffCap})

Resting(arm) == Suspended(arm) \/ arm.probing

\* The draft is within its bounds, and longer with every proposal accepted in full.
Lengthened(arm, arms, past) ==
  /\ arm.length \in Lowest(arms)..arms.cap
  /\ arms.adaptive => \/ arm.length = arms.cap
                      \/ arm.length >= Lowest(arms) + arms.grow * past.accepted

\* An arm at work is above its bar, and has not been rejected as often as the
\* trial allows; one at rest has sat out, or sits out, what its probes earned it.
Judged(arm, arms, past) ==
  /\ arms.backoff /\ ~Resting(arm) =>
       /\ arm.average >= arms.bar /\ arm.average <= Faded(past.rejected)
       /\ past.rejected < TrialLength
  /\ Resting(arm) => /\ arms.backoff /\ past.accepted = 0
                     /\ arm.window = WindowAfter(past.failedProbes)
  /\ past.failedProbes > 0 => Resting(arm)
  /\ arm.probing => ~Suspended(arm)

\* Only an arm that is enabled has a past.
Owned(arms, past) == past.accepted > 0 => arms.enabled

ArmInv(arm, arms, past) ==
  /\ arm \in Controller /\ past \in History
  /\ Lengthened(arm, arms, past) /\ Judged(arm, arms, past) /\ Owned(arms, past)

LEMMA MinOfTwo ==
  ASSUME NEW a \in Int, NEW b \in Int
  PROVE  Min({a, b}) = IF a <= b THEN a ELSE b
<1>1. PICK m : m = IF a <= b THEN a ELSE b OBVIOUS
<1>2. m \in {a, b} /\ \A y \in {a, b} : m <= y BY <1>1
<1>3. \A x \in {a, b} : (\A y \in {a, b} : x <= y) => x = m BY <1>1
<1> QED BY <1>1, <1>2, <1>3 DEF Min

LEMMA MaxOfTwo ==
  ASSUME NEW a \in Int, NEW b \in Int
  PROVE  Max({a, b}) = IF a >= b THEN a ELSE b
<1>1. PICK m : m = IF a >= b THEN a ELSE b OBVIOUS
<1>2. m \in {a, b} /\ \A y \in {a, b} : m >= y BY <1>1
<1>3. \A x \in {a, b} : (\A y \in {a, b} : x >= y) => x = m BY <1>1
<1> QED BY <1>1, <1>2, <1>3 DEF Max

LEMMA LowestType ==
  ASSUME NEW arms \in ArmConfig
  PROVE  Lowest(arms) \in Nat /\ Lowest(arms) <= arms.cap /\ arms.cap \in Nat
<1>1. arms.floor \in Int /\ arms.cap \in Int BY DEF ArmConfig
<1> QED BY <1>1, MinOfTwo DEF Lowest, ArmConfig

LEMMA ClampedBounds ==
  ASSUME NEW arms \in ArmConfig, NEW length \in Nat
  PROVE  Clamped(length, arms) \in Lowest(arms)..arms.cap /\ Clamped(length, arms) \in Nat
<1>1. Lowest(arms) \in Nat /\ Lowest(arms) <= arms.cap /\ arms.cap \in Nat BY LowestType
<1>2. PICK m : m = Max({length, Lowest(arms)}) OBVIOUS
<1>3. m \in Nat /\ m >= Lowest(arms) BY <1>1, <1>2, MaxOfTwo
<1>4. Clamped(length, arms) = IF m <= arms.cap THEN m ELSE arms.cap
  BY <1>1, <1>2, <1>3, MinOfTwo DEF Clamped
<1> QED BY <1>1, <1>3, <1>4

\* A fresh arm.
LEMMA NewArmInv ==
  ASSUME NEW arms \in ArmConfig, Paced(arms)
  PROVE  ArmInv(NewArm(arms), arms, NoHistory) /\ ~Suspended(NewArm(arms))
<1>1. arms.start \in Nat BY DEF ArmConfig
<1>2. Clamped(arms.start, arms) \in Lowest(arms)..arms.cap /\ Clamped(arms.start, arms) \in Nat
  BY <1>1, ClampedBounds
<1>3. Lowest(arms) \in Nat /\ arms.cap \in Nat BY LowestType
<1>4. NewArm(arms) \in Controller /\ NoHistory \in History
  BY <1>2, ArmAssumption DEF NewArm, Controller, NoHistory, History, Whole
<1>5. ~Resting(NewArm(arms)) BY DEF NewArm, Resting, Suspended
<1>6. Lengthened(NewArm(arms), arms, NoHistory)
  <2>1. arms.grow * 0 = 0 BY DEF ArmConfig
  <2> QED BY <1>2, <1>3, <2>1 DEF Lengthened, NewArm, NoHistory
<1>7. Judged(NewArm(arms), arms, NoHistory)
  <2>1. arms.bar <= Whole /\ Faded(0) = Whole /\ 0 < TrialLength
    BY FadedSteps, PaceAssumption DEF Paced, Whole
  <2>2. arms.bar \in Nat BY DEF ArmConfig
  <2> QED BY <1>5, <2>1, <2>2 DEF Judged, NewArm, NoHistory, Whole, Suspended
<1>8. Owned(arms, NoHistory) BY DEF Owned, NoHistory
<1> QED BY <1>4, <1>5, <1>6, <1>7, <1>8 DEF ArmInv, Resting

\* Polling an arm lifts a suspension that has expired.
LEMMA PolledInv ==
  ASSUME NEW arms \in ArmConfig, NEW arm, NEW past, ArmInv(arm, arms, past), NEW committed \in Nat
  PROVE  /\ ArmInv(Polled(arm, arms, committed), arms, past)
         /\ Available(arm, arms, committed) => ~Suspended(Polled(arm, arms, committed)) /\ arms.enabled
         /\ Suspended(Polled(arm, arms, committed)) => Polled(arm, arms, committed) = arm
<1> DEFINE next == Polled(arm, arms, committed)
<1>1. arm \in Controller /\ past \in History /\ Lengthened(arm, arms, past)
      /\ Judged(arm, arms, past) /\ Owned(arms, past)
  BY DEF ArmInv
<1>2. CASE ~Available(arm, arms, committed) \/ ~Suspended(arm)
  <2>1. next = arm BY <1>2 DEF Polled
  <2> QED BY <1>2, <2>1 DEF Available
<1>3. CASE Available(arm, arms, committed) /\ Suspended(arm)
  <2>1. next = [arm EXCEPT !.until = 0, !.probing = TRUE,
                           !.length = IF arms.probe = 0 THEN @ ELSE Clamped(arms.probe, arms)]
    BY <1>3 DEF Polled
  <2>2. PICK length : length = IF arms.probe = 0 THEN arm.length ELSE Clamped(arms.probe, arms)
    OBVIOUS
  <2>3. length \in Nat /\ length \in Lowest(arms)..arms.cap
    <3>1. arms.probe \in Nat BY DEF ArmConfig
    <3> QED BY <1>1, <2>2, <3>1, ClampedBounds DEF Controller, Lengthened
  <2>4. /\ next.length = length /\ next.until = 0 /\ next.probing = TRUE
        /\ next.window = arm.window /\ next.average = arm.average
    BY <1>1, <2>1, <2>2 DEF Controller
  <2>5. next \in Controller
    <3>1. next = [length |-> length, average |-> arm.average, until |-> 0,
                  window |-> arm.window, probing |-> TRUE]
      BY <1>1, <2>1, <2>2 DEF Controller
    <3> QED BY <1>1, <2>3, <3>1 DEF Controller
  <2>6. past.accepted = 0 /\ arms.backoff /\ arm.window = WindowAfter(past.failedProbes)
    BY <1>1, <1>3 DEF Judged, Resting
  <2>7. ~Suspended(next) /\ Resting(next) BY <2>4 DEF Suspended, Resting
  <2> HIDE DEF next
  <2>8. Judged(next, arms, past) BY <2>4, <2>6, <2>7 DEF Judged
  <2>9. Lengthened(next, arms, past)
    <3>1. arms.grow * past.accepted = 0 BY <2>6 DEF ArmConfig
    <3>2. Lowest(arms) \in Nat /\ arms.cap \in Nat BY LowestType
    <3> QED BY <2>3, <2>4, <3>1, <3>2 DEF Lengthened
  <2>10. arms.enabled BY <1>3 DEF Available
  <2> QED BY <1>1, <2>5, <2>7, <2>8, <2>9, <2>10 DEF ArmInv, next
<1> QED BY <1>2, <1>3

\* The draft grows when it is accepted in full, and stays within its bounds.
LEMMA AdaptedBounds ==
  ASSUME NEW arms \in ArmConfig, NEW arm \in Controller, NEW past \in History,
         Lengthened(arm, arms, past), NEW proposed \in Nat \ {0}, NEW accepted \in 0..proposed,
         NEW length, length = Adapted(arm.length, arms, proposed, accepted),
         NEW run, run = IF accepted = proposed THEN past.accepted + 1 ELSE 0
  PROVE  /\ length \in Nat /\ length \in Lowest(arms)..arms.cap
         /\ arms.adaptive => \/ length = arms.cap
                             \/ length >= Lowest(arms) + arms.grow * run
<1>1. Lowest(arms) \in Nat /\ Lowest(arms) <= arms.cap /\ arms.cap \in Nat BY LowestType
<1>2. arm.length \in Nat /\ arm.length \in Lowest(arms)..arms.cap BY DEF Lengthened, Controller
<1>3. past.accepted \in Nat /\ arms.grow \in {1, 2} /\ arms.adaptive \in BOOLEAN
  BY DEF History, ArmConfig
<1>4. CASE arms.adaptive /\ accepted = proposed
  <2>1. length = Min({arm.length + arms.grow, arms.cap}) BY <1>4 DEF Adapted
  <2>2. arm.length + arms.grow \in Int BY <1>2, <1>3
  <2>3. length = IF arm.length + arms.grow <= arms.cap THEN arm.length + arms.grow ELSE arms.cap
    BY <1>1, <2>1, <2>2, MinOfTwo
  <2>4. arms.grow * run = arms.grow * past.accepted + arms.grow
    <3>1. run = past.accepted + 1 BY <1>4
    <3>2. arms.grow \in Nat /\ past.accepted \in Int BY <1>3
    <3> QED BY <3>1, <3>2, MulSucc
  <2>5. arm.length = arms.cap \/ arm.length >= Lowest(arms) + arms.grow * past.accepted
    BY <1>4 DEF Lengthened
  <2>6. arms.grow * past.accepted \in Nat BY <1>3
  <2> HIDE <1>4
  <2> QED BY <1>1, <1>2, <1>3, <2>3, <2>4, <2>5, <2>6
<1>5. ASSUME ~(arms.adaptive /\ accepted = proposed)
      PROVE  arms.adaptive => arms.grow * run = 0
  BY <1>3, <1>5
<1>6. CASE arms.adaptive /\ ~(accepted = proposed) /\ accepted * 2 < proposed
  <2>1. length = Max({arm.length \div 2, Lowest(arms)}) BY <1>6 DEF Adapted
  <2>2. arm.length \div 2 \in Nat /\ arm.length \div 2 <= arm.length BY <1>2
  <2>3. length = IF arm.length \div 2 >= Lowest(arms) THEN arm.length \div 2 ELSE Lowest(arms)
    BY <1>1, <2>1, <2>2, MaxOfTwo
  <2> QED BY <1>1, <1>2, <1>5, <1>6, <2>2, <2>3
<1>7. CASE ~(arms.adaptive /\ accepted = proposed) /\ ~(arms.adaptive /\ accepted * 2 < proposed)
  <2>1. length = arm.length BY <1>7 DEF Adapted
  <2> QED BY <1>1, <1>2, <1>5, <1>7, <2>1
<1> QED BY <1>4, <1>6, <1>7

\* A suspension is the first one or, after a probe that failed, twice the last one.
LEMMA WindowGrows ==
  ASSUME NEW n \in Nat
  PROVE  /\ WindowAfter(n + 1) = Min({2 * WindowAfter(n), BackoffCap})
         /\ WindowAfter(n) \in Nat /\ WindowAfter(0) = BackoffTokens
<1>1. Doubled(n) \in Nat /\ Doubled(n + 1) = 2 * Doubled(n) /\ Doubled(0) = BackoffTokens
      /\ BackoffCap \in Nat /\ BackoffTokens \in Nat /\ Doubled(n + 1) \in Nat
  BY DoubledSteps, ArmAssumption
<1>2. WindowAfter(n + 1) = Min({2 * Doubled(n), BackoffCap}) BY <1>1 DEF WindowAfter
<1>3. 2 * Doubled(n) \in Int /\ BackoffCap \in Int /\ Doubled(n) \in Int BY <1>1
<1>4. Min({2 * Doubled(n), BackoffCap}) = IF 2 * Doubled(n) <= BackoffCap THEN 2 * Doubled(n) ELSE BackoffCap
  BY <1>3, MinOfTwo
<1>5. Min({Doubled(n), BackoffCap}) = IF Doubled(n) <= BackoffCap THEN Doubled(n) ELSE BackoffCap
  BY <1>3, MinOfTwo
<1>6. CASE n = 0
  BY <1>1, <1>2, <1>6 DEF WindowAfter
<1>7. CASE n # 0
  <2>1. WindowAfter(n) = Min({Doubled(n), BackoffCap}) BY <1>7 DEF WindowAfter
  <2>2. PICK w : w = WindowAfter(n) OBVIOUS
  <2>3. w \in Nat /\ 2 * w \in Int BY <1>1, <1>5, <2>1, <2>2
  <2>4. Min({2 * w, BackoffCap}) = IF 2 * w <= BackoffCap THEN 2 * w ELSE BackoffCap
    BY <1>3, <2>3, MinOfTwo
  <2>5. Min({2 * w, BackoffCap}) = Min({2 * Doubled(n), BackoffCap})
    BY <1>1, <1>4, <1>5, <2>1, <2>2, <2>3, <2>4
  <2> QED BY <1>2, <2>2, <2>3, <2>5 DEF WindowAfter
<1> QED BY <1>6, <1>7

\* An arm at work that has drafted, and what became of its proposal.
LEMMA ObservedInv ==
  ASSUME NEW arms \in ArmConfig, Paced(arms), arms.enabled,
         NEW arm, NEW past, ArmInv(arm, arms, past), ~Suspended(arm),
         NEW proposed \in Nat \ {0}, NEW accepted \in 0..proposed, NEW committed \in Nat,
         NEW next, next = Observed(arm, arms, proposed, accepted, committed),
         NEW record, record = Recorded(past, arm, arms, proposed, accepted)
  PROVE  /\ ArmInv(next, arms, record)
         /\ Suspended(next) => next.until = committed + next.window
<1>1. arm \in Controller /\ past \in History /\ Lengthened(arm, arms, past) /\ Judged(arm, arms, past)
  BY DEF ArmInv
<1>2. PICK share : share = (Whole * accepted) \div proposed OBVIOUS
<1>3. share \in 0..Whole /\ (accepted = 0 => share = 0) /\ (accepted = proposed => share = Whole)
  BY <1>2, ShareBounds
<1>4. PICK average : average = Averaged(arm, share) OBVIOUS
<1>5. PICK wait : wait = SuspendedFor(arm, arms, share, average) OBVIOUS
<1>6. PICK length : length = Adapted(arm.length, arms, proposed, accepted) OBVIOUS
<1>7. PICK window : window = CASE wait # 0 -> wait [] wait = 0 /\ arm.probing -> BackoffTokens
                               [] OTHER -> arm.window
  OBVIOUS
<1>8. PICK until : until = IF wait = 0 THEN 0 ELSE committed + wait OBVIOUS
<1>9. next = [length |-> length, average |-> average, until |-> until, window |-> window,
              probing |-> FALSE]
  BY <1>2, <1>4, <1>5, <1>6, <1>7, <1>8 DEF Observed
<1>10. /\ next.length = length /\ next.average = average /\ next.until = until
       /\ next.window = window /\ next.probing = FALSE
  BY <1>9
<1>11. PICK run : run = IF accepted = proposed THEN past.accepted + 1 ELSE 0 OBVIOUS
<1>12. PICK rejected : rejected = IF accepted = 0 THEN past.rejected + 1 ELSE 0 OBVIOUS
<1>13. PICK failed : failed = IF arm.probing /\ share < arms.bar THEN past.failedProbes + 1 ELSE 0 OBVIOUS
<1>14. record.accepted = run /\ record.rejected = rejected /\ record.failedProbes = failed
       /\ record = [accepted |-> run, rejected |-> rejected, failedProbes |-> failed]
  BY <1>2, <1>11, <1>12, <1>13 DEF Recorded
<1>15. past.accepted \in Nat /\ past.rejected \in Nat /\ past.failedProbes \in Nat BY <1>1 DEF History
<1>16. record \in History BY <1>11, <1>12, <1>13, <1>14, <1>15 DEF History
<1>17. /\ arm.length \in Nat /\ arm.average \in 0..Whole /\ arm.window \in Nat \ {0}
       /\ arm.probing \in BOOLEAN /\ arm.until = 0
  BY <1>1 DEF Controller, Suspended
<1>18. arms.bar \in 1..Whole /\ Faded(TrialLength) < arms.bar /\ arms.backoff \in BOOLEAN
  BY DEF Paced, ArmConfig
<1>19. BackoffTokens \in Nat \ {0} /\ BackoffCap \in Nat \ {0} BY ArmAssumption
<1>20. length \in Nat /\ length \in Lowest(arms)..arms.cap
       /\ (arms.adaptive => length = arms.cap \/ length >= Lowest(arms) + arms.grow * run)
  BY <1>1, <1>6, <1>11, AdaptedBounds
<1>21. average \in 0..Whole
  <2>1. Blended(share, arm.average) \in 0..Whole BY <1>3, <1>17, BlendedBounds
  <2> QED BY <1>3, <1>4, <2>1 DEF Averaged, Blended
<1>22. Resting(arm) <=> arm.probing BY DEF Resting
<1>23. ~arms.backoff => wait = 0 /\ ~arm.probing
  BY <1>1, <1>5, <1>22 DEF SuspendedFor, Judged
<1>24. ASSUME arms.backoff, arm.probing, share < arms.bar
       PROVE  /\ wait = WindowAfter(failed) /\ wait \in Nat \ {0} /\ failed > 0 /\ run = 0
  <2>1. wait = Min({2 * arm.window, BackoffCap}) BY <1>5, <1>24 DEF SuspendedFor
  <2>2. arm.window = WindowAfter(past.failedProbes) BY <1>1, <1>22, <1>24 DEF Judged
  <2>3. wait = WindowAfter(failed) BY <1>13, <1>15, <1>24, <2>1, <2>2, WindowGrows
  <2>4. wait = IF 2 * arm.window <= BackoffCap THEN 2 * arm.window ELSE BackoffCap
    <3>1. 2 * arm.window \in Int /\ BackoffCap \in Int BY <1>17, <1>19
    <3> QED BY <2>1, <3>1, MinOfTwo
  <2>5. failed > 0 BY <1>13, <1>15, <1>24
  <2>6. accepted # proposed BY <1>3, <1>18, <1>24 DEF Whole
  <2> QED BY <1>11, <1>17, <1>19, <2>3, <2>4, <2>5, <2>6
<1>25. ASSUME arms.backoff, arm.probing, ~(share < arms.bar)
       PROVE  /\ wait = 0 /\ failed = 0 /\ window = BackoffTokens
              /\ average >= arms.bar /\ rejected = 0
  <2>1. wait = 0 /\ average = share BY <1>4, <1>5, <1>25 DEF SuspendedFor, Averaged
  <2>2. accepted # 0 BY <1>3, <1>18, <1>25
  <2> QED BY <1>3, <1>7, <1>12, <1>13, <1>18, <1>25, <2>1, <2>2
<1>26. ASSUME arms.backoff, ~arm.probing
       PROVE  /\ failed = 0 /\ average <= Faded(rejected) /\ past.rejected < TrialLength
              /\ wait = IF average < arms.bar THEN BackoffTokens ELSE 0
              /\ average < arms.bar => run = 0
  <2>1. arm.average >= arms.bar /\ arm.average <= Faded(past.rejected) /\ past.rejected < TrialLength
    BY <1>1, <1>22, <1>26 DEF Judged
  <2>2. average = Blended(share, arm.average) BY <1>4, <1>26 DEF Averaged, Blended
  <2>3. Faded(past.rejected) \in 0..Whole BY <1>15, FadedSteps
  <2>4. /\ share = 0 => average <= Blended(0, Faded(past.rejected))
        /\ share = Whole => arm.average <= average
    <3>1. share = Whole => arm.average <= average BY <1>3, <1>17, <2>2, BlendedBounds
    <3>2. Blended(0, arm.average) <= Blended(0, Faded(past.rejected))
      BY <1>17, <2>1, <2>3, BlendedFades
    <3> QED BY <2>2, <3>1, <3>2
  <2>5. average <= Faded(rejected)
    <3>1. CASE accepted = 0
      <4>1. rejected = past.rejected + 1 /\ share = 0 BY <1>3, <1>12, <3>1
      <4>2. Faded(rejected) = Blended(0, Faded(past.rejected))
        BY <1>15, <4>1, FadedSteps
      <4> QED BY <2>1, <2>4, <4>1, <4>2
    <3>2. CASE accepted # 0
      <4>1. Faded(rejected) = Whole BY <1>12, <3>2, FadedSteps
      <4> QED BY <1>21, <4>1 DEF Whole
    <3> QED BY <3>1, <3>2
  <2>6. average < arms.bar => run = 0
    <3>1. accepted = proposed => arm.average <= average BY <1>3, <2>4
    <3> QED BY <1>11, <1>17, <1>18, <1>21, <2>1, <3>1 DEF Whole
  <2>7. wait = IF average < arms.bar THEN BackoffTokens ELSE 0 BY <1>5, <1>26 DEF SuspendedFor
  <2> QED BY <1>13, <1>26, <2>1, <2>5, <2>6, <2>7
<1>27. wait \in Nat /\ window \in Nat \ {0} /\ (wait # 0 => window = wait)
  <2>1. wait \in Nat
    <3>1. CASE ~arms.backoff BY <1>23, <3>1
    <3>2. CASE arms.backoff /\ arm.probing BY <1>24, <1>25, <3>2
    <3>3. CASE arms.backoff /\ ~arm.probing BY <1>19, <1>26, <3>3
    <3> QED BY <1>17, <1>18, <3>1, <3>2, <3>3
  <2>2. CASE wait # 0 BY <1>7, <2>1, <2>2
  <2>3. CASE wait = 0 /\ arm.probing BY <1>7, <1>19, <2>1, <2>3
  <2>4. CASE wait = 0 /\ ~arm.probing BY <1>7, <1>17, <2>1, <2>4
  <2> QED BY <2>2, <2>3, <2>4
<1>28. until \in Nat /\ (until # 0 <=> wait # 0) /\ (wait # 0 => until = committed + wait)
  BY <1>8, <1>27
<1>29. next \in Controller BY <1>9, <1>20, <1>21, <1>27, <1>28 DEF Controller
<1>30. (Suspended(next) <=> wait # 0) /\ (Resting(next) <=> wait # 0)
  BY <1>10, <1>28 DEF Suspended, Resting
<1>31. Lengthened(next, arms, record) BY <1>10, <1>14, <1>20 DEF Lengthened
<1>32. Owned(arms, record) BY DEF Owned
<1>33. Judged(next, arms, record)
  <2>1. ASSUME arms.backoff, ~Resting(next)
        PROVE  average >= arms.bar /\ average <= Faded(rejected) /\ rejected < TrialLength
    <3>1. wait = 0 BY <1>30, <2>1
    <3>2. CASE arm.probing
      <4>1. ~(share < arms.bar) BY <1>24, <2>1, <3>1, <3>2
      <4>2. average >= arms.bar /\ rejected = 0 BY <1>25, <2>1, <3>2, <4>1
      <4>3. Faded(rejected) = Whole BY <4>2, FadedSteps
      <4> QED BY <1>21, <4>2, <4>3, PaceAssumption DEF Whole
    <3>3. CASE ~arm.probing
      <4>1. /\ average <= Faded(rejected) /\ past.rejected < TrialLength
            /\ ~(average < arms.bar)
        BY <1>19, <1>26, <2>1, <3>1, <3>3
      <4>2. rejected # TrialLength
        <5> SUFFICES ASSUME rejected = TrialLength PROVE FALSE OBVIOUS
        <5>1. average <= Faded(TrialLength) /\ Faded(TrialLength) \in 0..Whole
          BY <4>1, PaceAssumption, FadedSteps
        <5> QED BY <1>18, <1>21, <4>1, <5>1 DEF Whole
      <4>3. rejected \in Nat /\ TrialLength \in Nat \ {0} /\ rejected <= past.rejected + 1
        BY <1>12, <1>15, PaceAssumption
      <4>4. average >= arms.bar BY <1>18, <1>21, <4>1 DEF Whole
      <4> QED BY <1>15, <4>1, <4>2, <4>3, <4>4
    <3> QED BY <3>2, <3>3
  <2>2. ASSUME Resting(next)
        PROVE  arms.backoff /\ run = 0 /\ window = WindowAfter(failed)
    <3>1. wait # 0 BY <1>30, <2>2
    <3>2. arms.backoff BY <1>18, <1>23, <3>1
    <3>3. window = wait BY <1>27, <3>1
    <3>4. CASE arm.probing
      BY <1>24, <1>25, <3>1, <3>2, <3>3, <3>4
    <3>5. CASE ~arm.probing
      <4>1. wait = BackoffTokens /\ run = 0 /\ failed = 0 BY <1>26, <3>1, <3>2, <3>5
      <4> QED BY <3>2, <3>3, <4>1 DEF WindowAfter
    <3> QED BY <3>4, <3>5
  <2>3. ASSUME failed > 0 PROVE Resting(next)
    <3>1. arm.probing /\ share < arms.bar BY <1>13, <2>3
    <3>2. wait # 0 BY <1>18, <1>23, <1>24, <3>1
    <3> QED BY <1>30, <3>2
  <2> QED BY <1>10, <1>14, <2>1, <2>2, <2>3 DEF Judged
<1> QED BY <1>10, <1>16, <1>27, <1>28, <1>29, <1>30, <1>31, <1>32, <1>33 DEF ArmInv
-----------------------------------------------------------------------------
(***************************************************************************)
(* What a draft of the index continues.                                    *)
(***************************************************************************)
\* The text up to p ends in the same `length' tokens as the text up to q.
Alike(text, p, q, length) == \A j \in 0..(length - 1) : text[p - j] = text[q - j]

LEMMA SuffixesAlike ==
  ASSUME NEW t \in Seq(Tokens), NEW m \in Nat, NEW p \in m..Len(t), NEW q \in m..Len(t)
  PROVE  Suffix(t, p, m) = Suffix(t, q, m) <=> Alike(t, p, q, m)
<1> DEFINE u == Suffix(t, p, m)
           v == Suffix(t, q, m)
<1>1. p \in Nat /\ q \in Nat /\ p <= Len(t) /\ q <= Len(t) /\ Len(t) \in Nat OBVIOUS
<1>2. u \in Seq(Tokens) /\ Len(u) = m /\ \A i \in 1..m : u[i] = t[p - m + i]
  BY <1>1 DEF Suffix
<1>3. v \in Seq(Tokens) /\ Len(v) = m /\ \A i \in 1..m : v[i] = t[q - m + i]
  BY <1>1 DEF Suffix
<1> HIDE DEF u, v
<1>4. ASSUME u = v PROVE Alike(t, p, q, m)
  <2> SUFFICES ASSUME NEW j \in 0..(m - 1) PROVE t[p - j] = t[q - j] BY DEF Alike
  <2>1. PICK i \in 1..m : i = m - j OBVIOUS
  <2>2. p - m + i = p - j /\ q - m + i = q - j BY <1>1, <2>1
  <2> QED BY <1>2, <1>3, <1>4, <2>2
<1>5. ASSUME Alike(t, p, q, m) PROVE u = v
  <2>1. ASSUME NEW i \in 1..m PROVE u[i] = v[i]
    <3>1. PICK j \in 0..(m - 1) : j = m - i OBVIOUS
    <3>2. p - m + i = p - j /\ q - m + i = q - j BY <1>1, <3>1
    <3> QED BY <1>2, <1>3, <1>5, <3>2 DEF Alike
  <2> QED BY <1>2, <1>3, <2>1, SeqEqual
<1> QED BY <1>4, <1>5 DEF u, v

LEMMA MinIsMember ==
  ASSUME NEW T, T \subseteq Nat, T # {}
  PROVE  Min(T) \in T
<1>1. PICK m \in T : \A y \in T : m <= y BY LeastNat
<1> QED BY <1>1 DEF Min

LEMMA BeforeStopIsPrefix ==
  ASSUME NEW t \in Seq(Tokens)
  PROVE  \E n \in 0..Len(t) : BeforeStop(t) = SubSeq(t, 1, n)
<1>1. PICK stops : stops = {i \in DOMAIN t : t[i] \in Stops} OBVIOUS
<1>2. stops \subseteq 1..Len(t) /\ Len(t) \in Nat BY <1>1
<1>3. CASE stops = {}
  <2>1. BeforeStop(t) = t BY <1>1, <1>3 DEF BeforeStop
  <2>2. SubSeq(t, 1, Len(t)) = t /\ Len(t) \in 0..Len(t) OBVIOUS
  <2> QED BY <2>1, <2>2
<1>4. CASE stops # {}
  <2>1. BeforeStop(t) = SubSeq(t, 1, Min(stops) - 1) BY <1>1, <1>4 DEF BeforeStop
  <2>0. stops \subseteq Nat BY <1>2
  <2>2. Min(stops) \in stops BY <2>0, <1>4, MinIsMember
  <2>a. PICK i \in 1..Len(t) : i = Min(stops) BY <1>2, <2>2
  <2>3. Min(stops) - 1 \in 0..Len(t) BY <2>a
  <2> QED BY <2>1, <2>3
<1> QED BY <1>3, <1>4

\* The draft is text that follows its source.
Copies(draft, text, length) ==
  LET n == Len(draft.tokens) IN
  /\ draft.tokens \in Seq(Tokens) /\ n \in 1..length /\ draft.source + n <= Len(text)
  /\ \A i \in 1..n : draft.tokens[i] = text[draft.source + i]

LEMMA ContinuationCopies ==
  ASSUME Mirrored, NEW source \in Nat, NEW length \in Nat, NEW match,
         NEW draft, draft = Continuation(index, source, length, match), draft # NoDraft
  PROVE  draft.source = source /\ draft.match = match /\ Copies(draft, index.tokens, length)
<1>1. PICK t \in Seq(Tokens) : t = index.tokens BY DEF Mirrored
<1>2. PICK last : last = Min({source + length, Len(t)}) OBVIOUS
<1>3. last \in Nat /\ last <= source + length /\ last <= Len(t)
  <2>1. source + length \in Int /\ Len(t) \in Int /\ Len(t) \in Nat OBVIOUS
  <2> QED BY <1>2, <2>1, MinOfTwo
<1>4. PICK u : u = SubSeq(t, source + 1, last) OBVIOUS
<1>5. u \in Seq(Tokens) /\ Len(u) <= length /\ (Len(u) >= 1 => source + Len(u) <= Len(t))
      /\ \A i \in 1..Len(u) : u[i] = t[source + i]
  <2>1. CASE source + 1 <= last
    BY <1>3, <1>4, <2>1
  <2>2. CASE ~(source + 1 <= last)
    <3>1. u = << >> BY <1>3, <1>4, <2>2
    <3> QED BY <3>1
  <2> QED BY <2>1, <2>2
<1>6. PICK n \in 0..Len(u) : BeforeStop(u) = SubSeq(u, 1, n) BY <1>5, BeforeStopIsPrefix
<1>7. PICK w : w = SubSeq(u, 1, n) OBVIOUS
<1>8. w \in Seq(Tokens) /\ Len(w) = n /\ \A i \in 1..n : w[i] = u[i]
  BY <1>5, <1>7, PrefixType
<1>9. draft = IF w = << >> THEN NoDraft ELSE [tokens |-> w, match |-> match, source |-> source]
  BY <1>1, <1>2, <1>4, <1>6, <1>7 DEF Continuation
<1>10. w # << >> /\ draft.tokens = w /\ draft.match = match /\ draft.source = source
  BY <1>9
<1>11. n >= 1
  <2>1. \A r \in Seq(Tokens) : Len(r) = 0 => r = << >> OBVIOUS
  <2> QED BY <1>8, <1>10, <2>1
<1>12. \A i \in 1..n : w[i] = t[source + i]
  <2> TAKE i \in 1..n
  <2>1. i \in 1..Len(u) BY <1>5
  <2> QED BY <1>5, <1>8, <2>1
<1>13. n \in 1..length /\ source + n <= Len(t) BY <1>5, <1>11
<1> QED BY <1>1, <1>8, <1>10, <1>12, <1>13 DEF Copies

SpanCursor == [next : Nat, match : Nat, links : Nat]

\* The text goes on as it did at the span's cursor, for a key's length and two tokens more.
SpanFollows(cursor, text) ==
  cursor # NoSpan =>
    /\ cursor.match + 2 < cursor.next /\ cursor.next <= Len(text)
    /\ Alike(text, cursor.next - 1, Len(text), cursor.match + 2)

\* A draft of the index goes on from where the text ended before.
Continues(draft, text, length) ==
  /\ Copies(draft, text, length)
  /\ draft.source \in Nat /\ draft.match \in Nat /\ draft.match <= draft.source
  /\ draft.source < Len(text)
  /\ Alike(text, draft.source, Len(text), draft.match)

LEMMA KeyDraftContinues ==
  ASSUME Mirrored, NEW length \in Nat,
         NEW draft, draft = Draft(index, length, MinMatch), draft # NoDraft
  PROVE  Continues(draft, index.tokens, length)
<1>1. PICK matching : matching = {slot \in DOMAIN MatchLengths :
                     MatchLengths[slot] >= MinMatch /\ MostRecentMatch(index, slot) # 0}
  OBVIOUS
<1>2. draft = IF length = 0 \/ matching = {} THEN NoDraft
              ELSE LET slot == Min(matching)
                   IN  Continuation(index, MostRecentMatch(index, slot), length, MatchLengths[slot])
  BY <1>1 DEF Draft
<1>3. matching # {} BY <1>2
<1>4. matching \subseteq Nat BY <1>1, IndexAssumption
<1>5. PICK slot \in matching : slot = Min(matching) BY <1>3, <1>4, MinIsMember
<1>6. slot \in DOMAIN MatchLengths /\ MostRecentMatch(index, slot) # 0 BY <1>1
<1>7. PICK m : m = MatchLengths[slot] OBVIOUS
<1>8. PICK source : source = MostRecentMatch(index, slot) OBVIOUS
<1>9. m \in Nat \ {0} BY <1>6, <1>7, SlotLength
<1>10. source \in Occurrences(m) BY <1>6, <1>7, <1>8, MatchIsOccurrence
<1>11. PICK t \in Seq(Tokens) : t = index.tokens BY DEF Mirrored
<1>12. source \in m..(Len(t) - 1) /\ Suffix(t, source, m) = Suffix(t, Len(t), m)
  BY <1>10, <1>11 DEF Occurrences
<1>13. draft = Continuation(index, source, length, m) BY <1>2, <1>3, <1>5, <1>7, <1>8
<1>14. source \in Nat /\ Len(t) \in Nat BY <1>9, <1>12
<1>15. draft.source = source /\ draft.match = m /\ Copies(draft, t, length)
  BY <1>11, <1>13, <1>14, ContinuationCopies
<1>16. Alike(t, source, Len(t), m)
  <2>1. m \in Nat /\ source \in m..Len(t) /\ Len(t) \in m..Len(t) BY <1>9, <1>12, <1>14
  <2> QED BY <1>12, <2>1, SuffixesAlike
<1> QED BY <1>9, <1>11, <1>12, <1>14, <1>15, <1>16 DEF Continues

LEMMA SpanDraftContinues ==
  ASSUME Mirrored, span \in SpanCursor, SpanFollows(span, index.tokens), span # NoSpan,
         NEW length \in Nat,
         NEW draft, draft = ContinueFrom(index, span.next, length, span.match), draft # NoDraft
  PROVE  Continues(draft, index.tokens, length)
<1>1. PICK t \in Seq(Tokens) : t = index.tokens BY DEF Mirrored
<1>2. span.next \in Nat /\ span.match \in Nat /\ Len(t) \in Nat BY DEF SpanCursor
<1>3. span.match + 2 < span.next /\ span.next <= Len(t)
      /\ Alike(t, span.next - 1, Len(t), span.match + 2)
  BY <1>1 DEF SpanFollows
<1>4. draft = Continuation(index, span.next - 1, length, span.match) BY DEF ContinueFrom
<1>5. PICK source \in Nat : source = span.next - 1 BY <1>2, <1>3
<1>6. draft.source = source /\ draft.match = span.match /\ Copies(draft, t, length)
  BY <1>1, <1>4, <1>5, ContinuationCopies
<1>7. Alike(t, source, Len(t), span.match) BY <1>2, <1>3, <1>5 DEF Alike
<1> QED BY <1>1, <1>2, <1>3, <1>5, <1>6, <1>7 DEF Continues

\* A draft accepted in full, and the token chosen after it that its source goes on
\* with, leave a span that goes on.
LEMMA ChainFollows ==
  ASSUME NEW t \in Seq(Tokens), NEW length \in Nat, NEW draft, Continues(draft, t, length),
         NEW next \in Tokens, NEW u, u = t \o Append(draft.tokens, next),
         draft.source + Len(draft.tokens) + 1 <= Len(t),
         t[draft.source + Len(draft.tokens) + 1] = next,
         NEW cursor, cursor.next = draft.source + Len(draft.tokens) + 2, cursor.match = draft.match
  PROVE  SpanFollows(cursor, u)
<1>1. PICK d \in Seq(Tokens) : d = draft.tokens BY DEF Continues, Copies
<1>2. PICK n \in Nat : n = Len(d) OBVIOUS
<1>3. PICK p \in Nat : p = draft.source BY DEF Continues
<1>4. PICK m \in Nat : m = draft.match BY DEF Continues
<1>5. PICK q \in Nat : q = Len(t) OBVIOUS
<1>6. n >= 1 /\ p + n <= q /\ m <= p /\ p < q /\ p + n + 1 <= q /\ t[p + n + 1] = next
  BY <1>1, <1>2, <1>3, <1>4, <1>5 DEF Continues, Copies
<1>7. \A i \in 1..n : d[i] = t[p + i] BY <1>1, <1>2, <1>3 DEF Continues, Copies
<1>8. \A j \in 0..(m - 1) : t[p - j] = t[q - j]
  BY <1>3, <1>4, <1>5 DEF Continues, Alike
<1>9. PICK w : w = Append(d, next) OBVIOUS
<1>10. w \in Seq(Tokens) /\ Len(w) = n + 1 /\ w[n + 1] = next /\ \A i \in 1..n : w[i] = d[i]
  BY <1>2, <1>9
<1>11. u = t \o w BY <1>1, <1>9
<1>12. u \in Seq(Tokens) /\ Len(u) = q + n + 1
  <2>1. u \in Seq(Tokens) /\ Len(u) = Len(t) + Len(w) BY <1>10, <1>11, ConcatType
  <2> QED BY <1>5, <1>10, <2>1
<1>13. (\A i \in 1..q : u[i] = t[i]) /\ (\A i \in 1..(n + 1) : u[q + i] = w[i])
  BY <1>5, <1>10, <1>11
<1>14. ASSUME NEW j \in 0..(m + 1) PROVE u[p + n + 1 - j] = u[q + n + 1 - j]
  <2>1. CASE j = 0
    <3>1. p + n + 1 \in 1..q /\ n + 1 \in 1..(n + 1) BY <1>6
    <3>2. u[p + n + 1] = next BY <1>6, <1>13, <3>1
    <3>3. u[q + (n + 1)] = next BY <1>10, <1>13, <3>1
    <3>4. p + n + 1 - j = p + n + 1 /\ q + n + 1 - j = q + (n + 1) BY <2>1
    <3> QED BY <3>2, <3>3, <3>4
  <2>2. CASE j \in 1..n
    <3>1. PICK i \in 1..n : i = n + 1 - j BY <2>2
    <3>2. p + n + 1 - j = p + i /\ q + n + 1 - j = q + i BY <2>2, <3>1
    <3>3. p + i \in 1..q /\ i \in 1..(n + 1) BY <1>6
    <3>4. u[p + i] = t[p + i] /\ u[q + i] = w[i] BY <1>13, <3>3
    <3> QED BY <1>7, <1>10, <3>2, <3>4
  <2>3. CASE j > n
    <3>1. PICK k \in 0..(m - 1) : k = j - n - 1 BY <1>6, <2>3
    <3>2. p + n + 1 - j = p - k /\ q + n + 1 - j = q - k BY <2>3, <3>1
    <3>3. p - k \in 1..q /\ q - k \in 1..q BY <1>6
    <3>4. u[p - k] = t[p - k] /\ u[q - k] = t[q - k] BY <1>13, <3>3
    <3> QED BY <1>8, <3>2, <3>4
  <2>4. j = 0 \/ j \in 1..n \/ j > n OBVIOUS
  <2> QED BY <2>1, <2>2, <2>3, <2>4
<1>15. cursor.next = p + n + 2 /\ cursor.match = m BY <1>1, <1>2, <1>3, <1>4
<1>16. cursor.next - 1 = p + n + 1 /\ cursor.match + 2 - 1 = m + 1 BY <1>15
<1>17. Alike(u, cursor.next - 1, Len(u), cursor.match + 2)
  <2>1. Alike(u, p + n + 1, q + n + 1, m + 2)
    <3>1. PICK a : a = p + n + 1 OBVIOUS
    <3>2. PICK b : b = q + n + 1 OBVIOUS
    <3>3. PICK c : c = m + 2 OBVIOUS
    <3>4. ASSUME NEW j \in 0..(c - 1) PROVE u[a - j] = u[b - j]
      <4>1. j \in 0..(m + 1) BY <3>3
      <4>2. a - j = p + n + 1 - j /\ b - j = q + n + 1 - j BY <3>1, <3>2
      <4>3. u[p + n + 1 - j] = u[q + n + 1 - j] BY <1>14, <4>1
      <4> QED BY <4>2, <4>3
    <3>5. Alike(u, a, b, c) BY <3>4 DEF Alike
    <3> QED BY <3>1, <3>2, <3>3, <3>5
  <2> QED BY <1>12, <1>15, <1>16, <2>1
<1> QED BY <1>6, <1>12, <1>15, <1>17 DEF SpanFollows
-----------------------------------------------------------------------------
(***************************************************************************)
(* The inductive invariant, step by step.                                  *)
(***************************************************************************)
\* A suspension was set, from then on, for as long as the arm's window.
Timed(arm, committed) == Suspended(arm) /\ committed # 0 => arm.until <= committed + arm.window

PolicyInv ==
  /\ Mirrored /\ config \in ArmConfigs /\ generated \in Nat /\ span \in SpanCursor
  /\ history = [ngram |-> history.ngram, mtp |-> history.mtp]
  /\ ArmInv(ngram, config.ngram, history.ngram) /\ Timed(ngram, generated)
  /\ ArmInv(mtp, config.mtp, history.mtp) /\ Timed(mtp, generated)
  /\ ~BeforeTurn => SpanFollows(span, index.tokens)

LEMMA CapIsPositive ==
  ASSUME NEW n \in Nat, NEW default \in Nat \ {0}
  PROVE  CapOf(n, default) \in Nat
BY DEF CapOf

LEMMA FloorType ==
  ASSUME NEW floor \in Nat, NEW cap \in Nat
  PROVE  Min({Max({floor, 1}), cap}) \in Nat
<1>1. Max({floor, 1}) = IF floor >= 1 THEN floor ELSE 1 BY MaxOfTwo
<1>2. PICK m \in Nat : m = Max({floor, 1}) BY <1>1
<1>3. Min({m, cap}) = IF m <= cap THEN m ELSE cap BY MinOfTwo
<1> QED BY <1>2, <1>3

LEMMA ArmsType ==
  ASSUME NEW arms \in ArmConfigs
  PROVE  /\ arms.ngram \in ArmConfig /\ Paced(arms.ngram)
         /\ arms.mtp \in ArmConfig /\ Paced(arms.mtp)
<1>1. PICK o \in TurnOptions, usable \in BOOLEAN : arms = ArmsOf(o, usable) BY DEF ArmConfigs
<1>2. o \in TurnOption BY PolicyAssumption
<1>3. /\ o.ngramDraft \in Nat /\ o.mtpDraft \in Nat /\ o.ngramFloor \in Nat /\ o.mtpFloor \in Nat
      /\ o.mtpStart \in Nat /\ o.ngramBar \in Nat /\ o.mtpBar \in Nat
      /\ o.adaptive \in BOOLEAN /\ o.backoff \in BOOLEAN
  BY <1>2 DEF TurnOption
<1>4. DEFAULT_NGRAM_DRAFT_CAP \in Nat \ {0} /\ DEFAULT_MTP_DEPTH_CAP \in Nat \ {0}
  BY DEF DEFAULT_NGRAM_DRAFT_CAP, DEFAULT_MTP_DEPTH_CAP
<1>5. arms.ngram \in ArmConfig
  <2>1. PICK cap \in Nat : cap = CapOf(o.ngramDraft, DEFAULT_NGRAM_DRAFT_CAP) BY <1>3, <1>4, CapIsPositive
  <2>2. PICK floor \in Nat : floor = Min({Max({o.ngramFloor, 1}), cap}) BY <1>3, FloorType
  <2>3. arms.ngram = NgramArm(o) BY <1>1 DEF ArmsOf
  <2>4. arms.ngram = [enabled |-> EffectiveMode(o) \in {"auto", "ngram"}, floor |-> floor,
                      cap |-> cap, start |-> cap, grow |-> 2, bar |-> o.ngramBar, probe |-> 0,
                      adaptive |-> o.adaptive, backoff |-> o.backoff]
    BY <2>1, <2>2, <2>3 DEF NgramArm
  <2> QED BY <1>3, <2>4 DEF ArmConfig
<1>6. arms.mtp \in ArmConfig
  <2>1. PICK cap \in Nat : cap = CapOf(o.mtpDraft, DEFAULT_MTP_DEPTH_CAP) BY <1>3, <1>4, CapIsPositive
  <2>2. PICK floor \in Nat : floor = Min({Max({o.mtpFloor, 1}), cap}) BY <1>3, FloorType
  <2>3. arms.mtp = MtpArm(o, usable) BY <1>1 DEF ArmsOf
  <2>4. arms.mtp = [enabled |-> EffectiveMode(o) \in {"auto", "mtp"} /\ usable, floor |-> floor,
                    cap |-> cap, start |-> o.mtpStart, grow |-> 1, bar |-> o.mtpBar, probe |-> floor,
                    adaptive |-> o.adaptive, backoff |-> o.backoff]
    BY <2>1, <2>2, <2>3 DEF MtpArm
  <2> QED BY <1>3, <2>4 DEF ArmConfig
<1> QED BY <1>5, <1>6, PaceAssumption

\* Both arms of a turn that starts.
LEMMA FreshArms ==
  ASSUME NEW arms \in ArmConfigs
  PROVE  /\ ArmInv(NewArm(arms.ngram), arms.ngram, NoHistory) /\ ArmInv(NewArm(arms.mtp), arms.mtp, NoHistory)
         /\ \A n : Timed(NewArm(arms.ngram), n) /\ Timed(NewArm(arms.mtp), n)
BY ArmsType, NewArmInv DEF Timed

LEMMA NoSpanFollows == NoSpan \in SpanCursor /\ \A text : SpanFollows(NoSpan, text)
BY DEF NoSpan, SpanCursor, SpanFollows

LEMMA InitPolicyInv == PolicyInit => PolicyInv
<1> SUFFICES ASSUME PolicyInit PROVE PolicyInv OBVIOUS
<1>1. config \in ArmConfigs /\ generated = 0 /\ span = NoSpan BY DEF PolicyInit
<1>2. Mirrored
  <2>1. index = IndexOf(<< >>) BY NewIndexMirrors DEF PolicyInit
  <2>2. index.tokens = << >> BY <2>1, IndexFields
  <2>3. << >> \in Seq(Tokens) OBVIOUS
  <2> QED BY <2>1, <2>2, <2>3 DEF Mirrored
<1>3. /\ ngram = NewArm(config.ngram) /\ mtp = NewArm(config.mtp)
      /\ history = [ngram |-> NoHistory, mtp |-> NoHistory]
  BY DEF PolicyInit
<1>4. history.ngram = NoHistory /\ history.mtp = NoHistory BY <1>3
<1> QED BY <1>1, <1>2, <1>3, <1>4, FreshArms, NoSpanFollows DEF PolicyInv

LEMMA StartTurnPolicyInv == PolicyInv /\ StartTurn => PolicyInv'
<1> SUFFICES ASSUME PolicyInv, StartTurn PROVE PolicyInv' OBVIOUS
<1>1. PICK seeded \in {index, NewIndex}, prompt \in Prompts, first \in Tokens :
        /\ index' = Push(Extend(seeded, prompt), first)
        /\ generated' = IF first \in Stops \/ MaxNew = 1 THEN 0 ELSE 1
  BY DEF StartTurn
<1>2. config' \in ArmConfigs /\ span' = NoSpan /\ ngram' = NewArm(config'.ngram)
      /\ mtp' = NewArm(config'.mtp) /\ history' = [ngram |-> NoHistory, mtp |-> NoHistory]
  BY DEF StartTurn
<1>3. PICK t \in Seq(Tokens) : seeded = IndexOf(t)
  <2>1. CASE seeded = index BY <2>1 DEF PolicyInv, Mirrored
  <2>2. CASE seeded = NewIndex
    <3>1. << >> \in Seq(Tokens) OBVIOUS
    <3> QED BY <2>2, <3>1, NewIndexMirrors
  <2> QED BY <2>1, <2>2
<1>4. prompt \in Seq(Tokens) BY PolicyAssumption
<1>5. Extend(seeded, prompt) = IndexOf(t \o prompt) /\ t \o prompt \in Seq(Tokens)
  BY <1>3, <1>4, ExtendTokens
<1>6. PICK u \in Seq(Tokens) : u = Append(t \o prompt, first) BY <1>5, AppendType
<1>7. index' = IndexOf(u) BY <1>1, <1>5, <1>6, PushMirrors
<1>8. Mirrored'
  <2>1. index'.tokens = u BY <1>7, IndexFields
  <2> QED BY <1>7, <2>1 DEF Mirrored
<1>9. generated' \in Nat BY <1>1
<1>10. history'.ngram = NoHistory /\ history'.mtp = NoHistory BY <1>2
<1>11. PICK arms \in ArmConfigs : arms = config' BY <1>2
<1>12. /\ ArmInv(ngram', config'.ngram, NoHistory) /\ ArmInv(mtp', config'.mtp, NoHistory)
       /\ Timed(ngram', generated') /\ Timed(mtp', generated')
  BY <1>2, <1>11, FreshArms
<1>13. SpanFollows(span', index'.tokens) /\ span' \in SpanCursor BY <1>2, NoSpanFollows
<1> QED BY <1>2, <1>8, <1>9, <1>10, <1>12, <1>13 DEF PolicyInv

\* What an outcome commits: the outputs, or part of them and the end of the turn or
\* of a thinking block.
LEMMA OutputsCommitted ==
  ASSUME Mirrored, generated \in Nat, NEW budget \in Nat, NEW outputs \in Seq(Tokens),
         Len(outputs) >= 1, Len(outputs) <= budget + 1, NEW nextSpan,
         Emit(outputs, nextSpan) \/ ForceClosure(outputs, budget)
  PROVE  /\ Mirrored' /\ generated' \in Nat
         /\ generated' = 0 \/ generated' >= generated + Len(outputs)
         /\ \/ span' = NoSpan \/ generated' = 0
            \/ index'.tokens = index.tokens \o outputs
         /\ span' \in {nextSpan, NoSpan}
<1>1. PICK t \in Seq(Tokens) : t = index.tokens /\ index = IndexOf(t) BY DEF Mirrored
<1>2. ASSUME NEW w \in Seq(Tokens), index' = Extend(index, w)
      PROVE  Mirrored' /\ index'.tokens = t \o w
  <2>1. Extend(index, w) = IndexOf(t \o w) /\ Extend(index, w).tokens = t \o w /\ t \o w \in Seq(Tokens)
    BY <1>1, ExtendTokens
  <2> QED BY <1>2, <2>1 DEF Mirrored
<1>3. ASSUME NEW w \in Seq(Tokens) PROVE GeneratedAfter(w) \in {0, generated + Len(w)}
  BY DEF GeneratedAfter
<1>4. CASE index' = Extend(index, outputs) /\ generated' = GeneratedAfter(outputs) /\ span' = nextSpan
  <2>1. generated' \in {0, generated + Len(outputs)} BY <1>3, <1>4
  <2>2. Mirrored' /\ index'.tokens = t \o outputs BY <1>2, <1>4
  <2>3. generated' \in Nat /\ (generated' = 0 \/ generated' >= generated + Len(outputs)) BY <2>1
  <2>4. index'.tokens = index.tokens \o outputs /\ span' \in {nextSpan, NoSpan} BY <1>1, <1>4, <2>2
  <2> QED BY <2>2, <2>3, <2>4
<1>5. CASE /\ \E emitted \in 1..Len(outputs) : index' = Extend(index, SubSeq(outputs, 1, emitted))
           /\ generated' = 0 /\ span' = nextSpan
  <2>1. PICK emitted \in 1..Len(outputs) : index' = Extend(index, SubSeq(outputs, 1, emitted)) BY <1>5
  <2>2. emitted \in 0..Len(outputs) OBVIOUS
  <2>3. SubSeq(outputs, 1, emitted) \in Seq(Tokens) BY <2>2, PrefixType
  <2>4. Mirrored' BY <1>2, <2>1, <2>3
  <2> QED BY <1>5, <2>4
<1>6. CASE ForceClosure(outputs, budget)
  <2>1. PICK closing \in Tokens \ Stops, next \in Tokens :
          /\ index' = Extend(index, SubSeq(outputs, 1, budget) \o <<closing, next>>)
          /\ generated' = GeneratedAfter(SubSeq(outputs, 1, budget) \o <<closing, next>>)
    BY <1>6 DEF ForceClosure
  <2>2. budget \in 0..Len(outputs) /\ span' = NoSpan BY <1>6 DEF ForceClosure
  <2>3. SubSeq(outputs, 1, budget) \in Seq(Tokens) /\ Len(SubSeq(outputs, 1, budget)) = budget
    BY <2>2, PrefixType
  <2>4. <<closing, next>> \in Seq(Tokens) /\ Len(<<closing, next>>) = 2 OBVIOUS
  <2>5. PICK w \in Seq(Tokens) : w = SubSeq(outputs, 1, budget) \o <<closing, next>>
    BY <2>3, <2>4, ConcatType
  <2>6. Len(w) = budget + 2
    <3>1. Len(w) = Len(SubSeq(outputs, 1, budget)) + Len(<<closing, next>>) BY <2>3, <2>4, <2>5, ConcatType
    <3> QED BY <2>3, <2>4, <3>1
  <2>7. generated' \in {0, generated + Len(w)} BY <1>3, <2>1, <2>5
  <2>8. Mirrored' BY <1>2, <2>1, <2>5
  <2> QED BY <2>2, <2>6, <2>7, <2>8
<1>7. Emit(outputs, nextSpan) =>
        \/ index' = Extend(index, outputs) /\ generated' = GeneratedAfter(outputs) /\ span' = nextSpan
        \/ /\ \E emitted \in 1..Len(outputs) : index' = Extend(index, SubSeq(outputs, 1, emitted))
           /\ generated' = 0 /\ span' = nextSpan
  BY DEF Emit
<1> QED BY <1>4, <1>5, <1>6, <1>7

\* Both arms, polled.
LEMMA ArmsPolled ==
  ASSUME PolicyInv
  PROVE  /\ ArmInv(NgramPolled, config.ngram, history.ngram) /\ ArmInv(MtpPolled, config.mtp, history.mtp)
         /\ NgramAvailable => ~Suspended(NgramPolled) /\ config.ngram.enabled
         /\ MtpAvailable => ~Suspended(MtpPolled) /\ config.mtp.enabled
         /\ \A n \in Nat : n >= generated /\ ~BeforeTurn => Timed(NgramPolled, n) /\ Timed(MtpPolled, n)
         /\ Timed(NgramPolled, 0) /\ Timed(MtpPolled, 0)
         /\ NgramPolled \in Controller /\ MtpPolled \in Controller
<1>1. /\ config.ngram \in ArmConfig /\ config.mtp \in ArmConfig BY ArmsType DEF PolicyInv
<1>2. /\ ArmInv(ngram, config.ngram, history.ngram) /\ Timed(ngram, generated) /\ generated \in Nat
      /\ ArmInv(mtp, config.mtp, history.mtp) /\ Timed(mtp, generated)
  BY DEF PolicyInv
<1>3. /\ ArmInv(NgramPolled, config.ngram, history.ngram)
      /\ NgramAvailable => ~Suspended(NgramPolled) /\ config.ngram.enabled
      /\ Suspended(NgramPolled) => NgramPolled = ngram
  BY <1>1, <1>2, PolledInv DEF NgramPolled, NgramAvailable
<1>4. /\ ArmInv(MtpPolled, config.mtp, history.mtp)
      /\ MtpAvailable => ~Suspended(MtpPolled) /\ config.mtp.enabled
      /\ Suspended(MtpPolled) => MtpPolled = mtp
  BY <1>1, <1>2, PolledInv DEF MtpPolled, MtpAvailable
<1>5. ASSUME NEW arm \in Controller, Timed(arm, generated), NEW n \in Nat, n >= generated, ~BeforeTurn
      PROVE  Timed(arm, n)
  BY <1>2, <1>5 DEF Timed, Controller, BeforeTurn
<1>6. ngram \in Controller /\ mtp \in Controller BY <1>2 DEF ArmInv
<1>7. \A arm : Timed(arm, 0) BY DEF Timed
<1>8. \A arm, n : ~Suspended(arm) => Timed(arm, n) BY DEF Timed
<1>9. NgramPolled \in Controller /\ MtpPolled \in Controller BY <1>3, <1>4 DEF ArmInv
<1>10. ASSUME NEW n \in Nat, n >= generated, ~BeforeTurn PROVE Timed(NgramPolled, n) /\ Timed(MtpPolled, n)
  <2>1. Timed(ngram, n) /\ Timed(mtp, n) BY <1>2, <1>5, <1>6, <1>10
  <2> QED BY <1>3, <1>4, <1>8, <2>1
<1> QED BY <1>3, <1>4, <1>7, <1>9, <1>10

\* What the index arm drafts: only where it is available, within the budget, and
\* from where the text ended before.
LEMMA NgramDraftContinues ==
  ASSUME PolicyInv, ~BeforeTurn, NEW budget \in Nat, NEW draft, draft = NgramDraft(budget), draft # NoDraft
  PROVE  NgramAvailable /\ budget > 0 /\ Continues(draft, index.tokens, budget)
<1>1. NgramAvailable /\ budget > 0 BY DEF NgramDraft
<1>2. NgramPolled.length \in Nat BY ArmsPolled DEF Controller
<1>3. Mirrored /\ span \in SpanCursor /\ SpanFollows(span, index.tokens) BY DEF PolicyInv
<1>4. PICK most : most = Min({NgramPolled.length, budget}) OBVIOUS
<1>5. most \in Nat /\ most <= budget BY <1>2, <1>4, MinOfTwo
<1>6. ASSUME NEW length \in Nat, length <= budget, Continues(draft, index.tokens, length)
      PROVE  Continues(draft, index.tokens, budget)
  BY <1>6 DEF Continues, Copies
<1>7. CASE draft = SpanDraft(budget)
  <2>1. span # NoSpan /\ draft = ContinueFrom(index, span.next, most, span.match)
    BY <1>4, <1>7 DEF SpanDraft
  <2>2. Continues(draft, index.tokens, most) BY <1>3, <1>5, <2>1, SpanDraftContinues
  <2> QED BY <1>1, <1>5, <1>6, <2>2
<1>8. CASE draft = KeyDraft(budget)
  <2>1. PICK length : length = Max({most, 1}) OBVIOUS
  <2>2. length \in Nat /\ length <= budget
    <3>1. length = IF most >= 1 THEN most ELSE 1 BY <1>5, <2>1, MaxOfTwo
    <3> QED BY <1>1, <1>5, <3>1
  <2>3. draft = Draft(index, length, MinMatch) BY <1>4, <1>8, <2>1 DEF KeyDraft
  <2>4. Continues(draft, index.tokens, length) BY <1>3, <2>2, <2>3, KeyDraftContinues
  <2> QED BY <1>1, <1>6, <2>2, <2>4
<1>9. draft = SpanDraft(budget) \/ draft = KeyDraft(budget) BY <1>1 DEF NgramDraft
<1> QED BY <1>7, <1>8, <1>9

LEMMA BudgetType ==
  ASSUME PolicyInv, NEW budget \in Budgets
  PROVE  budget \in Nat
BY PolicyAssumption DEF PolicyInv, Budgets

LEMMA OutputsType ==
  ASSUME NEW drafts \in Seq(Tokens), NEW outputs \in Outputs(drafts)
  PROVE  /\ outputs \in Seq(Tokens) /\ Len(outputs) >= 1 /\ Len(outputs) - 1 \in 0..Len(drafts)
         /\ Len(outputs) - 1 = Len(drafts) => outputs = Append(drafts, outputs[Len(outputs)])
         /\ outputs[Len(outputs)] \in Tokens
<1>1. PICK accepted \in 0..Len(drafts), next \in Tokens : outputs = Append(SubSeq(drafts, 1, accepted), next)
  BY DEF Outputs
<1>2. SubSeq(drafts, 1, accepted) \in Seq(Tokens) /\ Len(SubSeq(drafts, 1, accepted)) = accepted
  BY PrefixType
<1>3. outputs \in Seq(Tokens) /\ Len(outputs) = accepted + 1 /\ outputs[Len(outputs)] = next
  BY <1>1, <1>2
<1>4. accepted = Len(drafts) => SubSeq(drafts, 1, accepted) = drafts OBVIOUS
<1> QED BY <1>1, <1>3, <1>4

\* The invariant after a step, from what becomes of the text and of the arms.
LEMMA StepPolicyInv ==
  ASSUME PolicyInv, config' = config, Mirrored', generated' \in Nat,
         history' = [ngram |-> history'.ngram, mtp |-> history'.mtp],
         ArmInv(ngram', config.ngram, history'.ngram), Timed(ngram', generated'),
         ArmInv(mtp', config.mtp, history'.mtp), Timed(mtp', generated'),
         span' \in SpanCursor, generated' # 0 => SpanFollows(span', index'.tokens)
  PROVE  PolicyInv'
<1>1. config' \in ArmConfigs BY DEF PolicyInv
<1>2. BeforeTurn' <=> generated' = 0 BY DEF BeforeTurn
<1> QED BY <1>1, <1>2 DEF PolicyInv

\* An arm that drafted: the step commits at least its outputs.
LEMMA ArmTimed ==
  ASSUME NEW arm \in Controller, NEW committed \in Nat,
         Suspended(arm) => arm.until = committed + arm.window,
         NEW n \in Nat, n = 0 \/ n >= committed
  PROVE  Timed(arm, n)
BY DEF Timed, Controller

LEMMA NgramStepPolicyInv == PolicyInv /\ NgramStep => PolicyInv'
<1> SUFFICES ASSUME PolicyInv, NgramStep PROVE PolicyInv' OBVIOUS
<1>1. ~BeforeTurn /\ mtp' = MtpPolled /\ config' = config BY DEF NgramStep
<1>2. PICK budget \in Budgets : \E draft \in {NgramDraft(budget)} :
        /\ draft # NoDraft
        /\ \E outputs \in Outputs(draft.tokens) :
             /\ ngram' = Observed(NgramPolled, config.ngram, Len(draft.tokens), Len(outputs) - 1,
                                  generated + Len(outputs))
             /\ history' = [history EXCEPT !.ngram =
                  Recorded(@, NgramPolled, config.ngram, Len(draft.tokens), Len(outputs) - 1)]
             /\ \/ Emit(outputs, ChainSpan(draft, Len(outputs) - 1, outputs[(Len(outputs) - 1) + 1]))
                \/ ForceClosure(outputs, budget)
  BY DEF NgramStep
<1>3. PICK draft : draft = NgramDraft(budget) OBVIOUS
<1>4. draft # NoDraft BY <1>2, <1>3
<1>5. PICK outputs \in Outputs(draft.tokens) :
        /\ ngram' = Observed(NgramPolled, config.ngram, Len(draft.tokens), Len(outputs) - 1,
                             generated + Len(outputs))
        /\ history' = [history EXCEPT !.ngram =
             Recorded(@, NgramPolled, config.ngram, Len(draft.tokens), Len(outputs) - 1)]
        /\ \/ Emit(outputs, ChainSpan(draft, Len(outputs) - 1, outputs[(Len(outputs) - 1) + 1]))
           \/ ForceClosure(outputs, budget)
  BY <1>2, <1>3
<1>6. budget \in Nat BY BudgetType
<1>7. NgramAvailable /\ Continues(draft, index.tokens, budget)
  BY <1>1, <1>3, <1>4, <1>6, NgramDraftContinues
<1>8. PICK d \in Seq(Tokens) : d = draft.tokens BY <1>7 DEF Continues, Copies
<1>9. Len(d) \in Nat \ {0} /\ Len(d) <= budget BY <1>6, <1>7, <1>8 DEF Continues, Copies
<1>10. /\ outputs \in Seq(Tokens) /\ Len(outputs) >= 1 /\ Len(outputs) - 1 \in 0..Len(d)
       /\ Len(outputs) - 1 = Len(d) => outputs = Append(d, outputs[Len(outputs)])
       /\ outputs[Len(outputs)] \in Tokens
  BY <1>8, OutputsType
<1>11. PICK accepted \in 0..Len(d) : accepted = Len(outputs) - 1 BY <1>10
<1>12. Len(outputs) = accepted + 1 /\ Len(outputs) <= budget + 1 /\ Len(outputs) \in Nat
  BY <1>6, <1>9, <1>10, <1>11
<1>13. PICK nextSpan : nextSpan = ChainSpan(draft, accepted, outputs[accepted + 1]) OBVIOUS
<1>14. Mirrored /\ generated \in Nat BY DEF PolicyInv
<1>15. Emit(outputs, nextSpan) \/ ForceClosure(outputs, budget) BY <1>5, <1>11, <1>13
<1>16. /\ Mirrored' /\ generated' \in Nat
       /\ generated' = 0 \/ generated' >= generated + Len(outputs)
       /\ \/ span' = NoSpan \/ generated' = 0
          \/ index'.tokens = index.tokens \o outputs
       /\ span' \in {nextSpan, NoSpan}
  BY <1>6, <1>10, <1>12, <1>14, <1>15, OutputsCommitted
<1>17. /\ config.ngram \in ArmConfig /\ Paced(config.ngram) /\ config.ngram.enabled
       /\ ArmInv(NgramPolled, config.ngram, history.ngram) /\ ~Suspended(NgramPolled)
       /\ ArmInv(MtpPolled, config.mtp, history.mtp)
  BY <1>7, ArmsType, ArmsPolled DEF PolicyInv
<1>18. PICK committed \in Nat : committed = generated + Len(outputs) BY <1>12, <1>14
<1>19. PICK record : record = Recorded(history.ngram, NgramPolled, config.ngram, Len(d), accepted) OBVIOUS
<1>20. ngram' = Observed(NgramPolled, config.ngram, Len(d), accepted, committed)
  BY <1>5, <1>8, <1>11, <1>18
<1>21. /\ ArmInv(ngram', config.ngram, record)
       /\ Suspended(ngram') => ngram'.until = committed + ngram'.window
  <2>1. PICK next : next = ngram' OBVIOUS
  <2>2. ArmInv(next, config.ngram, record) /\ (Suspended(next) => next.until = committed + next.window)
    BY <1>9, <1>17, <1>19, <1>20, <2>1, ObservedInv
  <2> QED BY <2>1, <2>2
<1>22. history' = [ngram |-> record, mtp |-> history.mtp]
  <2>1. history = [ngram |-> history.ngram, mtp |-> history.mtp] BY DEF PolicyInv
  <2> QED BY <1>5, <1>8, <1>11, <1>19, <2>1
<1>23. history'.ngram = record /\ history'.mtp = history.mtp BY <1>22
<1>24. Timed(ngram', generated')
  <2>1. PICK next : next = ngram' OBVIOUS
  <2>2. PICK n : n = generated' OBVIOUS
  <2>3. next \in Controller BY <1>21, <2>1 DEF ArmInv
  <2>4. Timed(next, n) BY <1>16, <1>18, <1>21, <2>1, <2>2, <2>3, ArmTimed
  <2> QED BY <2>1, <2>2, <2>4
<1>25. Timed(mtp', generated')
  <2>1. PICK n : n = generated' OBVIOUS
  <2>2. n \in Nat /\ (n = 0 \/ n >= generated) BY <1>12, <1>14, <1>16, <2>1
  <2>3. Timed(MtpPolled, n) BY <1>1, <2>2, ArmsPolled
  <2> QED BY <1>1, <2>1, <2>3
<1>a. PICK follow : follow = draft.source + Len(d) + 1 OBVIOUS
<1>b. PICK cursor : cursor = [next |-> draft.source + Len(d) + 2, match |-> draft.match,
                              links |-> span.links + 1]
  OBVIOUS
<1>c. PICK chosen : chosen = outputs[accepted + 1] OBVIOUS
<1>26. \/ nextSpan = NoSpan
       \/ /\ accepted = Len(d) /\ follow <= Len(index.tokens)
          /\ index.tokens[follow] = chosen /\ nextSpan = cursor
  <2>1. nextSpan = IF config.span /\ accepted = Len(d) /\ follow <= Len(index.tokens)
                      /\ index.tokens[follow] = chosen
                   THEN cursor ELSE NoSpan
    BY <1>8, <1>13, <1>a, <1>b, <1>c, Zenon DEF ChainSpan, After
  <2> QED BY <2>1, Zenon
<1>27. nextSpan \in SpanCursor
  <2>1. draft.source \in Nat /\ draft.match \in Nat /\ span.links \in Nat
    BY <1>7 DEF Continues, PolicyInv, SpanCursor
  <2> QED BY <1>9, <1>26, <1>b, <2>1, NoSpanFollows DEF SpanCursor
<1>28. ASSUME generated' # 0 PROVE SpanFollows(span', index'.tokens)
  <2>1. CASE span' = NoSpan BY <2>1, NoSpanFollows
  <2>2. CASE span' # NoSpan
    <3>1. index'.tokens = index.tokens \o outputs /\ span' = nextSpan BY <1>16, <1>28, <2>2
    <3>2. nextSpan # NoSpan BY <2>2, <3>1
    <3>3. PICK t \in Seq(Tokens) : t = index.tokens BY <1>14 DEF Mirrored
    <3>4. PICK next \in Tokens : next = outputs[accepted + 1] BY <1>10, <1>12
    <3>5. outputs = Append(draft.tokens, next)
      BY <1>8, <1>10, <1>11, <1>12, <1>26, <3>2, <3>4
    <3>6. PICK u : u = t \o Append(draft.tokens, next) OBVIOUS
    <3>7. /\ draft.source + Len(draft.tokens) + 1 <= Len(t)
          /\ t[draft.source + Len(draft.tokens) + 1] = next
          /\ nextSpan.next = draft.source + Len(draft.tokens) + 2 /\ nextSpan.match = draft.match
      BY <1>8, <1>26, <1>a, <1>b, <1>c, <3>2, <3>3, <3>4
    <3>8. Continues(draft, t, budget) BY <1>7, <3>3
    <3>9. SpanFollows(nextSpan, u) BY <1>6, <3>6, <3>7, <3>8, ChainFollows
    <3> QED BY <3>1, <3>3, <3>5, <3>6, <3>9
  <2> QED BY <2>1, <2>2
<1>29. span' \in SpanCursor BY <1>16, <1>27, NoSpanFollows
<1> QED BY <1>1, <1>16, <1>17, <1>21, <1>22, <1>23, <1>24, <1>25, <1>28, <1>29, StepPolicyInv

LEMMA MtpOutputsType ==
  ASSUME NEW proposed \in Nat, NEW outputs \in MtpOutputs(proposed)
  PROVE  outputs \in Seq(Tokens) /\ Len(outputs) >= 1 /\ Len(outputs) - 1 \in 0..proposed
<1>1. PICK text \in Texts(proposed, Tokens \ Stops), next \in Tokens : outputs = Append(text, next)
  BY DEF MtpOutputs, Texts
<1>2. PICK m \in 0..proposed : text \in [1..m -> Tokens \ Stops] BY <1>1 DEF Texts
<1>3. text \in Seq(Tokens) /\ Len(text) = m BY <1>2
<1> QED BY <1>1, <1>3

LEMMA MtpStepPolicyInv == PolicyInv /\ MtpStep => PolicyInv'
<1> SUFFICES ASSUME PolicyInv, MtpStep PROVE PolicyInv' OBVIOUS
<1>1. ~BeforeTurn /\ ngram' = NgramPolled /\ config' = config BY DEF MtpStep
<1>2. PICK budget \in Budgets :
        /\ MtpAvailable
        /\ \E proposed \in 1..Min({MtpPolled.length, budget}) :
           \E outputs \in MtpOutputs(proposed) :
             /\ mtp' = Observed(MtpPolled, config.mtp, proposed, Len(outputs) - 1,
                                generated + Len(outputs))
             /\ history' = [history EXCEPT !.mtp =
                              Recorded(@, MtpPolled, config.mtp, proposed, Len(outputs) - 1)]
             /\ Emit(outputs, NoSpan) \/ ForceClosure(outputs, budget)
  BY DEF MtpStep
<1>3. PICK proposed \in 1..Min({MtpPolled.length, budget}) :
           \E outputs \in MtpOutputs(proposed) :
             /\ mtp' = Observed(MtpPolled, config.mtp, proposed, Len(outputs) - 1,
                                generated + Len(outputs))
             /\ history' = [history EXCEPT !.mtp =
                              Recorded(@, MtpPolled, config.mtp, proposed, Len(outputs) - 1)]
             /\ Emit(outputs, NoSpan) \/ ForceClosure(outputs, budget)
  BY <1>2
<1>4. PICK outputs \in MtpOutputs(proposed) :
        /\ mtp' = Observed(MtpPolled, config.mtp, proposed, Len(outputs) - 1,
                           generated + Len(outputs))
        /\ history' = [history EXCEPT !.mtp =
                         Recorded(@, MtpPolled, config.mtp, proposed, Len(outputs) - 1)]
        /\ Emit(outputs, NoSpan) \/ ForceClosure(outputs, budget)
  BY <1>3
<1>5. budget \in Nat BY BudgetType
<1>6. /\ MtpPolled \in Controller /\ ~Suspended(MtpPolled) /\ config.mtp.enabled
      /\ ArmInv(NgramPolled, config.ngram, history.ngram)
      /\ ArmInv(MtpPolled, config.mtp, history.mtp)
  BY <1>2, ArmsPolled
<1>7. proposed \in Nat \ {0} /\ proposed <= budget
  <2>1. MtpPolled.length \in Nat BY <1>6 DEF Controller
  <2>2. PICK most : most = Min({MtpPolled.length, budget}) OBVIOUS
  <2>3. most \in Nat /\ most <= budget BY <1>5, <2>1, <2>2, MinOfTwo
  <2>4. proposed \in 1..most BY <1>3, <2>2, Zenon
  <2> QED BY <1>5, <2>3, <2>4
<1>8. outputs \in Seq(Tokens) /\ Len(outputs) >= 1 /\ Len(outputs) - 1 \in 0..proposed
  BY <1>7, MtpOutputsType
<1>9. PICK accepted \in 0..proposed : accepted = Len(outputs) - 1 BY <1>8
<1>10. Len(outputs) = accepted + 1 /\ Len(outputs) <= budget + 1 /\ Len(outputs) \in Nat
  BY <1>5, <1>7, <1>8, <1>9
<1>11. Mirrored /\ generated \in Nat BY DEF PolicyInv
<1>12. /\ Mirrored' /\ generated' \in Nat
       /\ generated' = 0 \/ generated' >= generated + Len(outputs)
       /\ span' \in {NoSpan, NoSpan}
  BY <1>4, <1>5, <1>8, <1>10, <1>11, OutputsCommitted
<1>13. config.mtp \in ArmConfig /\ Paced(config.mtp) BY ArmsType DEF PolicyInv
<1>14. PICK committed \in Nat : committed = generated + Len(outputs) BY <1>10, <1>11
<1>15. PICK record : record = Recorded(history.mtp, MtpPolled, config.mtp, proposed, accepted) OBVIOUS
<1>16. mtp' = Observed(MtpPolled, config.mtp, proposed, accepted, committed)
  BY <1>4, <1>9, <1>14
<1>17. /\ ArmInv(mtp', config.mtp, record)
       /\ Suspended(mtp') => mtp'.until = committed + mtp'.window
  <2>1. PICK next : next = mtp' OBVIOUS
  <2>2. ArmInv(next, config.mtp, record) /\ (Suspended(next) => next.until = committed + next.window)
    BY <1>6, <1>7, <1>13, <1>15, <1>16, <2>1, ObservedInv
  <2> QED BY <2>1, <2>2
<1>18. history' = [ngram |-> history.ngram, mtp |-> record]
  <2>1. history = [ngram |-> history.ngram, mtp |-> history.mtp] BY DEF PolicyInv
  <2> QED BY <1>4, <1>9, <1>15, <2>1
<1>19. history'.ngram = history.ngram /\ history'.mtp = record BY <1>18
<1>20. Timed(mtp', generated')
  <2>1. PICK next : next = mtp' OBVIOUS
  <2>2. PICK n : n = generated' OBVIOUS
  <2>3. next \in Controller BY <1>17, <2>1 DEF ArmInv
  <2>4. Timed(next, n) BY <1>12, <1>14, <1>17, <2>1, <2>2, <2>3, ArmTimed
  <2> QED BY <2>1, <2>2, <2>4
<1>21. Timed(ngram', generated')
  <2>1. PICK n : n = generated' OBVIOUS
  <2>2. n \in Nat /\ (n = 0 \/ n >= generated) BY <1>10, <1>11, <1>12, <2>1
  <2>3. Timed(NgramPolled, n) BY <1>1, <2>2, ArmsPolled
  <2> QED BY <1>1, <2>1, <2>3
<1>22. span' \in SpanCursor /\ SpanFollows(span', index'.tokens) BY <1>12, NoSpanFollows
<1> QED BY <1>1, <1>6, <1>12, <1>17, <1>18, <1>19, <1>20, <1>21, <1>22, StepPolicyInv

LEMMA PlainStepPolicyInv == PolicyInv /\ PlainStep => PolicyInv'
<1> SUFFICES ASSUME PolicyInv, PlainStep PROVE PolicyInv' OBVIOUS
<1>1. ~BeforeTurn /\ ngram' = NgramPolled /\ mtp' = MtpPolled /\ config' = config /\ history' = history
  BY DEF PlainStep
<1>2. PICK budget \in Budgets : \E next \in Tokens : Emit(<<next>>, NoSpan) \/ ForceClosure(<<next>>, budget)
  BY DEF PlainStep
<1>3. PICK next \in Tokens : Emit(<<next>>, NoSpan) \/ ForceClosure(<<next>>, budget) BY <1>2
<1>a. next \in Tokens BY <1>3
<1>b. <<next>> \in Seq(Tokens) BY <1>a
<1>4. PICK outputs \in Seq(Tokens) : outputs = <<next>> BY <1>b
<1>5. Len(outputs) = 1 BY <1>4
<1>6. budget \in Nat BY BudgetType
<1>7. Mirrored /\ generated \in Nat BY DEF PolicyInv
<1>8. Emit(outputs, NoSpan) \/ ForceClosure(outputs, budget) BY <1>3, <1>4
<1>9. Len(outputs) >= 1 /\ Len(outputs) <= budget + 1 BY <1>5, <1>6
<1>10. /\ Mirrored' /\ generated' \in Nat
       /\ generated' = 0 \/ generated' >= generated + Len(outputs)
       /\ span' \in {NoSpan, NoSpan}
  BY <1>6, <1>7, <1>8, <1>9, OutputsCommitted
<1>11. PICK n : n = generated' OBVIOUS
<1>12. n \in Nat /\ (n = 0 \/ n >= generated) BY <1>5, <1>7, <1>10, <1>11
<1>13. Timed(NgramPolled, n) /\ Timed(MtpPolled, n) BY <1>1, <1>12, ArmsPolled
<1>14. /\ ArmInv(NgramPolled, config.ngram, history.ngram) /\ ArmInv(MtpPolled, config.mtp, history.mtp)
  BY ArmsPolled
<1>15. span' \in SpanCursor /\ SpanFollows(span', index'.tokens) BY <1>10, NoSpanFollows
<1>16. history' = [ngram |-> history'.ngram, mtp |-> history'.mtp] BY <1>1 DEF PolicyInv
<1> QED BY <1>1, <1>10, <1>11, <1>13, <1>14, <1>15, <1>16, StepPolicyInv

LEMMA StutterPolicyInv == PolicyInv /\ UNCHANGED policyVars => PolicyInv'
BY DEF PolicyInv, policyVars, Mirrored, BeforeTurn

LEMMA NextPolicyInv == PolicyInv /\ [PolicyNext]_policyVars => PolicyInv'
<1>1. [PolicyNext]_policyVars => StartTurn \/ NgramStep \/ MtpStep \/ PlainStep \/ UNCHANGED policyVars BY DEF PolicyNext
<1> QED BY <1>1, StartTurnPolicyInv, NgramStepPolicyInv, MtpStepPolicyInv, PlainStepPolicyInv, StutterPolicyInv

LEMMA PolicyInvHolds == PolicySpec => []PolicyInv
BY InitPolicyInv, NextPolicyInv, PTL DEF PolicySpec
-----------------------------------------------------------------------------
LEMMA InvContinues == PolicyInv => DraftsContinueText
<1> SUFFICES ASSUME PolicyInv PROVE DraftsContinueText OBVIOUS
<1>1. LookupsAreExact BY MirrorLooksUpExactly DEF PolicyInv
<1>2. SpanFollowsText
  <2> SUFFICES ASSUME span # NoSpan, ~BeforeTurn
               PROVE  /\ span.match + 2 < span.next /\ span.next <= Len(index.tokens)
                      /\ Suffix(index.tokens, span.next - 1, span.match + 2)
                           = Suffix(index.tokens, Len(index.tokens), span.match + 2)
    BY DEF SpanFollowsText
  <2>1. PICK t \in Seq(Tokens) : t = index.tokens BY DEF PolicyInv, Mirrored
  <2>2. SpanFollows(span, t) /\ span \in SpanCursor BY <2>1 DEF PolicyInv
  <2>3. /\ span.match + 2 < span.next /\ span.next <= Len(t)
        /\ Alike(t, span.next - 1, Len(t), span.match + 2)
    BY <2>2 DEF SpanFollows
  <2>4. span.match \in Nat /\ span.next \in Nat /\ Len(t) \in Nat BY <2>2 DEF SpanCursor
  <2>5. PICK m \in Nat : m = span.match + 2 BY <2>4
  <2>6. PICK p \in m..Len(t) : p = span.next - 1 BY <2>3, <2>4, <2>5
  <2>7. Len(t) \in m..Len(t) BY <2>6
  <2>8. Suffix(t, p, m) = Suffix(t, Len(t), m) BY <2>3, <2>5, <2>6, <2>7, SuffixesAlike
  <2> QED BY <2>1, <2>3, <2>5, <2>6, <2>8
<1> QED BY <1>1, <1>2 DEF DraftsContinueText

\* A draft of the index, or of a span that is copied, continues an earlier occurrence
\* of the text's end, whatever keys share a hash, wherever a turn is halted or its
\* thinking is closed, and however often the index is seeded again.
THEOREM DraftsFollowText == PolicySpec => []DraftsContinueText
BY PolicyInvHolds, InvContinues, PTL

LEMMA ArmInvEarned ==
  ASSUME NEW arms \in ArmConfig, Paced(arms), NEW arm, NEW past, ArmInv(arm, arms, past),
         Timed(arm, generated)
  PROVE  ArmIsEarned(arm, arms, past)
<1>1. arm \in Controller /\ past \in History /\ Lengthened(arm, arms, past) /\ Judged(arm, arms, past)
      /\ Owned(arms, past)
  BY DEF ArmInv
<1>2. past.accepted \in Nat /\ past.rejected \in Nat /\ past.failedProbes \in Nat BY <1>1 DEF History
<1>3. TrialLength \in Nat \ {0} /\ RecoveryLength \in Nat \ {0} BY PaceAssumption
<1>4. arm.length \in Lowest(arms)..arms.cap BY <1>1 DEF Lengthened
<1>5. arms.backoff /\ past.rejected >= TrialLength => Suspended(arm) \/ arm.probing
  BY <1>1, <1>2, <1>3 DEF Judged, Resting
<1>6. ASSUME past.accepted >= RecoveryLength
      PROVE  ~Suspended(arm) /\ (arms.adaptive => arm.length = arms.cap)
  <2>1. past.accepted # 0 /\ past.accepted > 0 BY <1>2, <1>3, <1>6
  <2>2. ~Suspended(arm) BY <1>1, <2>1 DEF Judged, Resting
  <2>3. ASSUME arms.adaptive PROVE arm.length = arms.cap
    <3>1. arms.enabled BY <1>1, <2>1 DEF Owned
    <3>2. Lowest(arms) + arms.grow * RecoveryLength >= arms.cap BY <2>3, <3>1 DEF Paced
    <3>3. arms.grow * RecoveryLength <= arms.grow * past.accepted
      <4>1. arms.grow \in Nat BY DEF ArmConfig
      <4> QED BY <1>2, <1>3, <1>6, <4>1, MulMono
    <3>4. arm.length = arms.cap \/ arm.length >= Lowest(arms) + arms.grow * past.accepted
      BY <1>1, <2>3 DEF Lengthened
    <3>5. Lowest(arms) \in Nat /\ arms.cap \in Nat BY LowestType
    <3>6. arms.grow * RecoveryLength \in Int /\ arms.grow * past.accepted \in Int
      BY <1>2, <1>3 DEF ArmConfig
    <3> QED BY <1>4, <3>2, <3>3, <3>4, <3>5, <3>6
  <2> QED BY <2>2, <2>3
<1>7. ASSUME past.failedProbes > 0
      PROVE  arm.window = Min({Doubled(past.failedProbes), BackoffCap})
  <2>1. Resting(arm) /\ past.failedProbes # 0 BY <1>1, <1>2, <1>7 DEF Judged
  <2>2. arm.window = WindowAfter(past.failedProbes) BY <1>1, <2>1 DEF Judged
  <2> QED BY <2>1, <2>2 DEF WindowAfter
<1>8. Suspended(arm) => arm.until <= generated + arm.window \/ BeforeTurn BY DEF Timed, BeforeTurn
<1> QED BY <1>4, <1>5, <1>6, <1>7, <1>8 DEF ArmIsEarned

\* An arm keeps its draft within its bounds, is suspended or probed once it has been
\* rejected outright as often as the trial allows, is back at its cap once it has
\* been accepted in full as often as recovery takes, sits out twice as long with
\* every probe that fails, up to the cap, and never longer than that.
THEOREM ArmsEarnTheirDrafts == PolicySpec => []ArmsAreEarned
<1>1. PolicyInv => ArmsAreEarned
  <2> SUFFICES ASSUME PolicyInv PROVE ArmsAreEarned OBVIOUS
  <2>1. /\ config.ngram \in ArmConfig /\ Paced(config.ngram)
        /\ config.mtp \in ArmConfig /\ Paced(config.mtp)
    BY ArmsType DEF PolicyInv
  <2>2. /\ ArmInv(ngram, config.ngram, history.ngram) /\ Timed(ngram, generated)
        /\ ArmInv(mtp, config.mtp, history.mtp) /\ Timed(mtp, generated)
    BY DEF PolicyInv
  <2> QED BY <2>1, <2>2, ArmInvEarned DEF ArmsAreEarned
<1> QED BY <1>1, PolicyInvHolds, PTL
=============================================================================
