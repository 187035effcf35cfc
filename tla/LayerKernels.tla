---------------------------- MODULE LayerKernels ----------------------------
(***************************************************************************)
(* What a decoder layer computes for the rows of a pass: attention over    *)
(* its cached rows (src/src/qwen/quantized_attention.rs), the recurrence   *)
(* of a linear layer (src/src/qwen/quantized_deltanet.rs,                  *)
(* src/src/qwen/deltanet.rs) and the routed experts                        *)
(* (src/src/qwen/quantized_moe.rs, src/src/qwen/moe.rs).                   *)
(***************************************************************************)
EXTENDS QuantizedMatmul, Functions

(***************************************************************************)
(* Attention: each query head by itself, or in blocks shared by the heads  *)
(* of a group, a chunk of a pass's rows at a time through buffers that are *)
(* never cleared between chunks.  A shape is                               *)
(*   [seq, existing, queryHeads, kvHeads, headDim, threads].               *)
(***************************************************************************)
CONSTANTS
  DotLanes,        \* running sums of a dot product
  MaxGroup,        \* query heads a block can carry
  BlockingRows,    \* rows of the cache from which blocks pay (KV_BLOCKING_BYTES)
  ScoreBudget,     \* scores kept in flight
  MinPastBlock, MinColumnBlock

ASSUME KernelAssumption ==
  ScoreBudget \in Nat /\ MinPastBlock \in Nat \ {0} /\ MinColumnBlock \in Nat \ {0}

\* The norm of a query or key head, and its rotation by its position.
ConvertedNorm(vector, weight) ==
  LET scale == InverseRoot(SumOfSquares(vector))
  IN [i \in DOMAIN vector |-> Times(Times(vector[i], scale), weight[i])]

Rotated(vector, position, rotaryDim) ==
  LET half == rotaryDim \div 2
  IN [i \in DOMAIN vector |->
        CASE i < half -> Minus(Times(vector[i], Cos(position, i)),
                               Times(vector[half + i], Sin(position, i)))
          [] i \in half..(rotaryDim - 1) -> Plus(Times(vector[i], Cos(position, i - half)),
                                                 Times(vector[i - half], Sin(position, i - half)))
          [] OTHER -> vector[i]]

Scale(shape) == InverseRoot(shape.headDim)
GroupSize(shape) == shape.queryHeads \div shape.kvHeads

ScanPlan(shape) ==
  IF GroupSize(shape) \in 2..MaxGroup /\ shape.existing + shape.seq >= BlockingRows
  THEN "blocked" ELSE "per head"

\* Lane sums of the whole chunks, added to the sum of the remainder.
Dot(query, key) ==
  LET chunks == Width(query) \div DotLanes
      at(i) == Times(query[i], key[i])
      lanes == [l \in Indices(DotLanes) |->
                  Summed([c \in Indices(chunks) |-> at(c * DotLanes + l)])]
      rest == [i \in Indices(Width(query) % DotLanes) |-> at(chunks * DotLanes + i)]
  IN Accumulate(Summed(rest), lanes)

\* Where a position's row of one KV head starts.
RowBase(shape, past, kvHead) == (past * shape.kvHeads + kvHead) * shape.headDim

Score(shape, query, keys, past, kvHead) ==
  Times(Dot(query, Slice(keys, RowBase(shape, past, kvHead), shape.headDim)), Scale(shape))

NEG_INFINITY == -1
-----------------------------------------------------------------------------
(***************************************************************************)
(* One work item per token and query head.                                 *)
(***************************************************************************)
Attended(shape, scores, gate, values, kvHead) ==
  LET max == Max({scores[past] : past \in DOMAIN scores} \cup {NEG_INFINITY})
      weight == [past \in DOMAIN scores |-> Exp(Minus(scores[past], max))]
      denominator == Summed(weight)
  IN [column \in Indices(shape.headDim) |->
        Times(Summed([past \in DOMAIN scores |->
                        Times(Over(weight[past], denominator),
                              values[RowBase(shape, past, kvHead) + column])]),
              Sigmoid(gate[column]))]

HeadOutput(shape, query, gate, keys, values, kvHead, attendTo) ==
  Attended(shape, [past \in Indices(attendTo) |-> Score(shape, query, keys, past, kvHead)],
           gate, values, kvHead)

PerHeadScan(shape, queries, gates, keys, values) ==
  [i \in Indices(shape.seq * shape.queryHeads * shape.headDim) |->
     LET row == i \div shape.headDim
         token == row \div shape.queryHeads
         head == row % shape.queryHeads
     IN HeadOutput(shape, queries[token][head], gates[token][head], keys, values,
                   head \div GroupSize(shape), shape.existing + token + 1)[i % shape.headDim]]
-----------------------------------------------------------------------------
(***************************************************************************)
(* Blocks.  A plane is one token of the chunk against one KV head, with    *)
(* all query heads of its group; a chunk is [first, rows].                 *)
(***************************************************************************)
PlaneStride(shape) == (shape.existing + shape.seq) * GroupSize(shape)
RowsPerChunk(shape) ==
  Clamp(ScoreBudget \div (shape.kvHeads * PlaneStride(shape)), 1, shape.seq)
ChunkAt(shape, first) ==
  [first |-> first, rows |-> Min({RowsPerChunk(shape), shape.seq - first})]

Planes(shape, chunk) == chunk.rows * shape.kvHeads
PlaneToken(shape, chunk, plane) == chunk.first + plane \div shape.kvHeads
AttendTo(shape, chunk, plane) == shape.existing + PlaneToken(shape, chunk, plane) + 1

\* The width of a block so that the planes' blocks keep the threads busy.
Split(total, planes, threads, grain) ==
  LET parts == Max({1, DivCeil(2 * threads, Max({1, planes}))})
  IN Clamp(NextMultiple(DivCeil(total, parts), grain), grain, Max({total, grain}))

PastBlock(shape, chunk) ==
  Split(shape.existing + chunk.first + chunk.rows, Planes(shape, chunk), shape.threads, MinPastBlock)
ColumnBlock(shape, chunk) ==
  Split(shape.headDim, Planes(shape, chunk), shape.threads, MinColumnBlock)

NewProbabilities(shape) ==
  [i \in Indices(RowsPerChunk(shape) * shape.kvHeads * PlaneStride(shape)) |-> 0]
AccumulatorStride(shape) == shape.headDim * GroupSize(shape)
NewAccumulator(shape) ==
  [i \in Indices(RowsPerChunk(shape) * shape.kvHeads * AccumulatorStride(shape)) |-> 0]

\* A phase writes the attended positions of the chunk's planes in the score buffer,
\* and leaves the rest as it was.
Rewritten(shape, chunk, slot) ==
  LET plane == slot \div PlaneStride(shape)
  IN /\ plane < Planes(shape, chunk)
     /\ slot % PlaneStride(shape) < AttendTo(shape, chunk, plane) * GroupSize(shape)

\* Each block of positions is a task of its own; its slots are the group's heads.
Scores(shape, chunk, queries, keys, buffer) ==
  LET block == PastBlock(shape, chunk) * GroupSize(shape)
      score(plane, j) ==
        LET past == (j \div block) * PastBlock(shape, chunk) + ((j % block) \div GroupSize(shape))
            kvHead == plane % shape.kvHeads
            head == kvHead * GroupSize(shape) + (j % GroupSize(shape))
        IN Score(shape, queries[PlaneToken(shape, chunk, plane)][head], keys, past, kvHead)
  IN [i \in DOMAIN buffer |->
        IF Rewritten(shape, chunk, i)
        THEN score(i \div PlaneStride(shape), i % PlaneStride(shape)) ELSE buffer[i]]

Softmax(shape, chunk, buffer) ==
  LET groups == GroupSize(shape)
      of(plane, lane, past) == buffer[plane * PlaneStride(shape) + past * groups + lane]
      weights(plane, lane) ==
        LET attendTo == AttendTo(shape, chunk, plane)
            max == Max({of(plane, lane, past) : past \in Indices(attendTo)} \cup {NEG_INFINITY})
        IN [past \in Indices(attendTo) |-> Exp(Minus(of(plane, lane, past), max))]
      probability(plane, j) ==
        LET weight == weights(plane, j % groups)
        IN Over(weight[j \div groups], Summed(weight))
  IN [i \in DOMAIN buffer |->
        IF Rewritten(shape, chunk, i)
        THEN probability(i \div PlaneStride(shape), i % PlaneStride(shape)) ELSE buffer[i]]

\* Mutant: the sums of the chunk before are added to.
ClearedNever(shape, chunk, accumulator) == accumulator

Cleared(shape, chunk, accumulator) ==
  [i \in DOMAIN accumulator |->
     IF i < Planes(shape, chunk) * AccumulatorStride(shape) THEN 0 ELSE accumulator[i]]

\* Each block of columns is a task of its own, its sums kept by column and lane.
WeightedSum(shape, chunk, probabilities, values, accumulator) ==
  LET groups == GroupSize(shape)
      stride == AccumulatorStride(shape)
      block == ColumnBlock(shape, chunk) * groups
      start == Cleared(shape, chunk, accumulator)
  IN [i \in DOMAIN accumulator |->
        LET plane == i \div stride
            j == i % stride
            lane == j % groups
            column == (j \div block) * ColumnBlock(shape, chunk) + ((j % block) \div groups)
        IN IF plane >= Planes(shape, chunk) THEN start[i]
           ELSE Accumulate(start[i], [past \in Indices(AttendTo(shape, chunk, plane)) |->
                    Times(probabilities[plane * PlaneStride(shape) + past * groups + lane],
                          values[RowBase(shape, past, plane % shape.kvHeads) + column])])]

\* Back into the order of tokens, heads and columns.
Gathered(shape, chunk, accumulator, gates, result) ==
  LET width == shape.queryHeads * shape.headDim
  IN [i \in DOMAIN result |->
        LET token == i \div width
            head == (i % width) \div shape.headDim
            column == i % shape.headDim
            row == token - chunk.first
            plane == row * shape.kvHeads + head \div GroupSize(shape)
        IN IF token \notin chunk.first..(chunk.first + chunk.rows - 1) THEN result[i]
           ELSE Times(accumulator[plane * AccumulatorStride(shape) + column * GroupSize(shape)
                                  + (head % GroupSize(shape))],
                      Sigmoid(gates[token][head][column]))]
-----------------------------------------------------------------------------
(***************************************************************************)
(* The recurrence: a causal convolution over the last rows and the gated   *)
(* delta rule, one row at a time, each value head against its own block of *)
(* the state.  Heads is                                                    *)
(*   [key, value, keyDim, valueDim, kernel, tiled, interleaved]            *)
(* tiled and interleaved being the layouts a checkpoint orders its value   *)
(* heads and its beta and alpha in.                                        *)
(***************************************************************************)
KeyDim(heads) == heads.key * heads.keyDim
ValueDim(heads) == heads.value * heads.valueDim
ConvDim(heads) == 2 * KeyDim(heads) + ValueDim(heads)
Repeats(heads) == heads.value \div heads.key

NewConv(heads) == [i \in Indices(ConvDim(heads) * (heads.kernel - 1)) |-> 0]
NewRecurrent(heads) == [i \in Indices(heads.value * heads.keyDim * heads.valueDim) |-> 0]

\* The value heads a key head is repeated for.
ValueHead(heads, keyHead, repeat) ==
  IF heads.tiled THEN repeat * heads.key + keyHead ELSE keyHead * Repeats(heads) + repeat
KeyHeadOf(heads, valueHead) ==
  CHOOSE keyHead \in Indices(heads.key) :
    \E repeat \in Indices(Repeats(heads)) : ValueHead(heads, keyHead, repeat) = valueHead
RepeatOf(heads, valueHead) ==
  CHOOSE repeat \in Indices(Repeats(heads)) :
    ValueHead(heads, KeyHeadOf(heads, valueHead), repeat) = valueHead

\* The newest row is the last tap; the history moves on by one.
Convolved(input, weights, kernel, conv) ==
  [channel \in DOMAIN input |->
     Silu(Accumulate(Times(weights[channel * kernel + kernel - 1], input[channel]),
                     [tap \in Indices(kernel - 1) |-> Times(weights[channel * kernel + tap],
                                                            conv[channel * (kernel - 1) + tap])]))]
ConvAfter(input, kernel, conv) ==
  [i \in DOMAIN conv |->
     LET channel == i \div (kernel - 1)
         tap == i % (kernel - 1)
     IN IF tap = kernel - 2 THEN input[channel] ELSE conv[i + 1]]

Normalized(vector) ==
  LET scale == InverseRoot(SumOfSquares(vector)) IN [i \in DOMAIN vector |-> Times(vector[i], scale)]

\* What one row puts to the recurrence, per value head.
HeadInputs(heads, convolved, betaAlpha, scales, bias, valueHead) ==
  LET keyHead == KeyHeadOf(heads, valueHead)
      base == keyHead * 2 * Repeats(heads) + RepeatOf(heads, valueHead)
      beta == IF heads.interleaved THEN betaAlpha[base] ELSE betaAlpha[valueHead]
      alpha == IF heads.interleaved THEN betaAlpha[base + Repeats(heads)]
               ELSE betaAlpha[heads.value + valueHead]
  IN [q |-> Normalized(Slice(convolved, keyHead * heads.keyDim, heads.keyDim)),
      k |-> Normalized(Slice(convolved, KeyDim(heads) + keyHead * heads.keyDim, heads.keyDim)),
      v |-> Slice(convolved, 2 * KeyDim(heads) + valueHead * heads.valueDim, heads.valueDim),
      beta |-> Sigmoid(beta),
      decay |-> Times(scales[valueHead], Softplus(Plus(alpha, bias[valueHead])))]

\* delta_head_step: the state decays, predicts the value, is corrected by what
\* it missed, and is read.
DeltaHeadStep(heads, in, block) ==
  LET decayed == [c \in DOMAIN block |-> Times(block[c], Exp(in.decay))]
      at(i, j) == i * heads.valueDim + j
      delta == [j \in Indices(heads.valueDim) |->
                  Times(Minus(in.v[j], Summed([i \in Indices(heads.keyDim) |->
                                                 Times(decayed[at(i, j)], in.k[i])])),
                        in.beta)]
      state == [c \in DOMAIN block |->
                  Plus(decayed[c], Times(in.k[c \div heads.valueDim], delta[c % heads.valueDim]))]
  IN [state |-> state,
      output |-> [j \in Indices(heads.valueDim) |->
                    Summed([i \in Indices(heads.keyDim) |->
                              Times(Times(state[at(i, j)], in.q[i]), InverseRoot(heads.keyDim))])]]

\* One row: [conv, recurrent, output].  The heads share nothing.
DeltaRow(heads, input, betaAlpha, weights, state) ==
  LET convolved == Convolved(input, weights.conv, heads.kernel, state.conv)
      block == heads.keyDim * heads.valueDim
      step == [h \in Indices(heads.value) |->
                 DeltaHeadStep(heads,
                   HeadInputs(heads, convolved, betaAlpha, weights.scales, weights.bias, h),
                   Slice(state.recurrent, h * block, block))]
  IN [conv |-> ConvAfter(input, heads.kernel, state.conv),
      recurrent |-> [i \in DOMAIN state.recurrent |-> step[i \div block].state[i % block]],
      output |-> [i \in Indices(ValueDim(heads)) |->
                    step[i \div heads.valueDim].output[i % heads.valueDim]]]

\* rms_norm_gated, per row and value head.
GatedNorm(heads, output, gates, weight) ==
  [i \in DOMAIN output |->
     LET head == Slice(output, (i \div heads.valueDim) * heads.valueDim, heads.valueDim)
     IN Times(RmsNorm(head, weight)[i % heads.valueDim], Silu(gates[i]))]
-----------------------------------------------------------------------------
(***************************************************************************)
(* Routed experts.  One expert is [gateUp, down].                          *)
(***************************************************************************)

\* An order of all experts with none before a likelier one, if there is such an order
\* (numbers that do not compare may leave none): which it is the row alone decides.
Ranked(probability) ==
  LET orders == Injection(Indices(Width(probability)), DOMAIN probability)
      falling == {order \in orders : \A i, j \in DOMAIN order :
                    i < j => ~(probability[order[i]] < probability[order[j]])}
  IN CHOOSE order \in orders : falling # {} => order \in falling

\* top_k_routes of one row's logits: the best experts first, each with its
\* probability, which may be taken relative to those chosen.
Route(logits, count, normalize) ==
  LET max == Max({logits[e] : e \in DOMAIN logits})
      weight == [e \in DOMAIN logits |-> Exp(Minus(logits[e], max))]
      denominator == Summed(weight)
      probability == [e \in DOMAIN logits |-> Over(weight[e], denominator)]
      best == Slice(Ranked(probability), 0, count)
      chances == [i \in DOMAIN best |-> probability[best[i]]]
      sum == Summed(chances)
  IN [experts |-> best,
      weights |-> IF normalize THEN [i \in DOMAIN chances |-> Over(chances[i], sum)] ELSE chances]

\* Gate and up of a row stand side by side.
Activated(gateUp, rows) ==
  LET width == Width(gateUp) \div (2 * rows)
  IN [i \in Indices(rows * width) |->
        LET base == (i \div width) * 2 * width + (i % width)
        IN Times(Silu(gateUp[base]), gateUp[base + width])]

RunExpert(expert, inputs, rows, spread) ==
  ForwardRows(expert.down,
              Activated(ForwardRows(expert.gateUp, inputs, rows, spread), rows), rows, spread)

\* The value of each of a row's routes, when the row is alone in its pass ...
TokenMajorValue(experts, flat, routes, row, i) ==
  RunExpert(experts[routes[row].experts[i]], flat, 1, "pool")

\* ... and when the pass is grouped: the expert's rows are gathered, run on the
\* worker's own thread, and the row's is picked out.
Assigned(routes, expert) ==
  {row \in DOMAIN routes : \E i \in DOMAIN routes[row].experts : routes[row].experts[i] = expert}
GroupedValue(experts, flat, hidden, routes, row, i) ==
  LET expert == routes[row].experts[i]
      group == Assigned(routes, expert)
      place(r) == Cardinality({other \in group : other < r})
      rowAt(n) == CHOOSE r \in group : place(r) = n
      inputs == [j \in Indices(Cardinality(group) * hidden) |->
                   flat[rowAt(j \div hidden) * hidden + (j % hidden)]]
  IN Slice(RunExpert(experts[expert], inputs, Cardinality(group), "caller"),
           place(row) * hidden, hidden)

\* Weighted additions, in the order of the rows and of their routes.
RoutedExperts(experts, flat, hidden, routes) ==
  LET value(row, i) ==
        IF Width(routes) = 1 THEN TokenMajorValue(experts, flat, routes, row, i)
        ELSE GroupedValue(experts, flat, hidden, routes, row, i)
  IN [j \in DOMAIN flat |->
        LET row == j \div hidden
        IN Summed([i \in DOMAIN routes[row].experts |->
                     Times(value(row, i)[j % hidden], routes[row].weights[i])])]

\* The shared expert, as much of it as its selector lets through.  The selector's
\* product is the library's, taken to treat its rows alike.
SharedExpert(weights, flat, hidden, rows) ==
  LET shared == Forward(weights.sharedDown,
                        Activated(Forward(weights.sharedGateUp, flat, rows), rows), rows)
      selected(row) ==
        Summed([i \in Indices(hidden) |->
                  Times(flat[row * hidden + i], weights.sharedSelector[i])])
  IN [j \in DOMAIN flat |-> Times(shared[j], Sigmoid(selected(j \div hidden)))]
-----------------------------------------------------------------------------
(***************************************************************************)
(* The reference model (src/src/qwen/attention.rs, deltanet.rs, moe.rs):   *)
(* dense weights, loaded where they are used, and one way to compute each  *)
(* thing.  A projection is computed in F32 and returned in the type of its *)
(* weights.  The library's dense product adds the terms of a row in one    *)
(* order, whatever the number of rows.                                     *)
(***************************************************************************)
Rounded(dtype, x) == IF dtype = "F32" THEN x ELSE Unary("round", x)
RoundedAll(dtype, xs) == [i \in DOMAIN xs |-> Rounded(dtype, xs[i])]

Linear(matrix, xs, rows) ==
  [i \in Indices(rows * matrix.rows) |->
     LET row == i \div matrix.rows
         output == i % matrix.rows
     IN Rounded(matrix.dtype,
                Summed([c \in Indices(matrix.columns) |->
                          Times(xs[row * matrix.columns + c],
                                matrix.blocks[output * matrix.columns + c])]))]

\* The checkpoint's norm weights are stored less one.
OneCentered(weight) == [i \in DOMAIN weight |-> Plus(1, weight[i])]

ReferenceScore(shape, query, keys, past, kvHead) ==
  Times(Summed([d \in Indices(shape.headDim) |->
                  Times(query[d], keys[RowBase(shape, past, kvHead) + d])]), Scale(shape))

ReferenceScan(shape, queries, gates, keys, values) ==
  [i \in Indices(shape.seq * shape.queryHeads * shape.headDim) |->
     LET row == i \div shape.headDim
         token == row \div shape.queryHeads
         head == row % shape.queryHeads
         kvHead == head \div GroupSize(shape)
         scores == [past \in Indices(shape.existing + token + 1) |->
                      ReferenceScore(shape, queries[token][head], keys, past, kvHead)]
     IN Attended(shape, scores, gates[token][head], values, kvHead)[i % shape.headDim]]

\* A row of the joint projection holds, per key head, its query and key and its
\* value heads' values and gates.
ProjectedWidth(heads) == 2 * heads.keyDim + 2 * Repeats(heads) * heads.valueDim
ConvInput(heads, projected) ==
  LET values == Repeats(heads) * heads.valueDim
      at(keyHead, offset) == projected[keyHead * ProjectedWidth(heads) + offset]
  IN [i \in Indices(ConvDim(heads)) |->
        CASE i < KeyDim(heads) -> at(i \div heads.keyDim, i % heads.keyDim)
          [] i \in KeyDim(heads)..(2 * KeyDim(heads) - 1) ->
               at((i - KeyDim(heads)) \div heads.keyDim, heads.keyDim + (i % heads.keyDim))
          [] OTHER -> LET v == i - 2 * KeyDim(heads)
                      IN at(v \div values, 2 * heads.keyDim + (v % values))]
ValueGates(heads, projected) ==
  LET values == Repeats(heads) * heads.valueDim
  IN [i \in Indices(ValueDim(heads)) |->
        projected[(i \div values) * ProjectedWidth(heads) + 2 * heads.keyDim + values + (i % values)]]

\* The decay is stored as the logarithm of its negation.
DecayScales(logs) == [i \in DOMAIN logs |-> Unary("negative", Exp(logs[i]))]

Mlp(expert, xs, rows) ==
  LET gate == Linear(expert.gate, xs, rows)
      up == Linear(expert.up, xs, rows)
      dtype == expert.gate.dtype
  IN Linear(expert.down,
            [i \in DOMAIN gate |-> Rounded(dtype, Times(Rounded(dtype, Silu(gate[i])), up[i]))], rows)

\* Each row by itself, its experts in the order of its routes; the shared expert
\* for all of them, scaled by a selector of one output.
SparseMoe(experts, shared, selector, flat, hidden, routes) ==
  LET value == [row \in DOMAIN routes |-> [i \in DOMAIN routes[row].experts |->
                  Mlp(experts[routes[row].experts[i]], Slice(flat, row * hidden, hidden), 1)]]
      sharedOut == Mlp(shared, flat, Width(routes))
      selected == Linear(selector, flat, Width(routes))
  IN [j \in DOMAIN flat |->
        LET row == j \div hidden
        IN Plus(Summed([i \in DOMAIN routes[row].experts |->
                          Times(value[row][i][j % hidden], routes[row].weights[i])]),
                Times(sharedOut[j], Sigmoid(selected[row])))]
=============================================================================
