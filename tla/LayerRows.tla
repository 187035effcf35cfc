----------------------------- MODULE LayerRows ------------------------------
(***************************************************************************)
(* What each row of a decoder layer is by itself - a function of the file, *)
(* the row's tokens and the state before it - and how the arrays of        *)
(* DecoderLayer.tla hold such rows, in each phase of a pass: the invariant *)
(* LayerProofs.tla shows to be inductive.                                  *)
(***************************************************************************)
EXTENDS DecoderLayer

\* An array of n elements; a row of an array of rows of w.
IsArray(a, n) == a = [i \in Indices(n) |-> a[i]]
Row(a, r, w) == Slice(a, r * w, w)

-----------------------------------------------------------------------------
(***************************************************************************)
(* A matrix product, a row at a time.                                      *)
(***************************************************************************)
IsShape(m) == m.rows \in Nat /\ m.columns \in Nat /\ m.cpu.exact = TRUE
ProductAt(m, row, o) == VecDot(m, WeightRow(m, o), QuantizedRows(row))
ProductRow(m, row) == [o \in Indices(m.rows) |-> ProductAt(m, row, o)]

IsProduct(m, xs, n, product) ==
  /\ IsArray(product, n * m.rows)
  /\ \A r \in Indices(n) : \A o \in Indices(m.rows) :
       product[r * m.rows + o] = ProductAt(m, Row(xs, r, m.columns), o)

-----------------------------------------------------------------------------
(***************************************************************************)
(* Attention, a row and a query head at a time.                            *)
(***************************************************************************)
IsScan(shape) ==
  /\ shape.seq \in Nat \ {0} /\ shape.existing \in Nat /\ shape.threads \in Nat
  /\ shape.queryHeads \in Nat \ {0} /\ shape.kvHeads \in Nat \ {0} /\ shape.headDim \in Nat \ {0}
  /\ GroupSize(shape) \in Nat \ {0} /\ shape.queryHeads = shape.kvHeads * GroupSize(shape)

KvWidth(shape) == shape.kvHeads * shape.headDim
MixedWidth(shape) == shape.queryHeads * shape.headDim

\* What attention makes of a row of the pass that sees so many rows of the cache.
MixedRow(shape, query, gate, keys, values, attendTo) ==
  [j \in Indices(MixedWidth(shape)) |->
     HeadOutput(shape, query[j \div shape.headDim], gate[j \div shape.headDim], keys, values,
                (j \div shape.headDim) \div GroupSize(shape), attendTo)[j % shape.headDim]]

IsScanned(shape, queries, gates, keys, values, mixed) ==
  /\ IsArray(mixed, shape.seq * MixedWidth(shape))
  /\ \A t \in Indices(shape.seq) :
       Row(mixed, t, MixedWidth(shape))
         = MixedRow(shape, queries[t], gates[t], keys, values, shape.existing + t + 1)

-----------------------------------------------------------------------------
(***************************************************************************)
(* The blocked scan, a chunk of rows at a time.                            *)
(***************************************************************************)
IsChunk(shape, chunk) ==
  /\ chunk.first \in Indices(shape.seq) /\ chunk.rows \in 1..RowsPerChunk(shape)
  /\ chunk.first + chunk.rows <= shape.seq

\* A plane of the chunk, and a slot of it: a position seen and a head of the group.
PlaneOf(shape, row, kvHead) == row * shape.kvHeads + kvHead

SlotOf(shape, row, kvHead, past, lane) ==
  PlaneOf(shape, row, kvHead) * PlaneStride(shape) + past * GroupSize(shape) + lane

SeenBy(shape, chunk, row) == shape.existing + (chunk.first + row) + 1
BufferSize(shape) == RowsPerChunk(shape) * shape.kvHeads * PlaneStride(shape)
SumsSize(shape) == RowsPerChunk(shape) * shape.kvHeads * AccumulatorStride(shape)

\* What a slot holds after each phase.
ScoreOf(shape, chunk, queries, keys, row, kvHead, lane) ==
  [past \in Indices(SeenBy(shape, chunk, row)) |->
     Score(shape, queries[chunk.first + row][kvHead * GroupSize(shape) + lane], keys, past, kvHead)]

WeightOf(scores) ==
  [past \in DOMAIN scores |->
     Exp(Minus(scores[past], Max({scores[p] : p \in DOMAIN scores} \cup {NEG_INFINITY})))]

ChanceOf(scores) ==
  [past \in DOMAIN scores |-> Over(WeightOf(scores)[past], Summed(WeightOf(scores)))]

Holds(shape, chunk, buffer, row, kvHead, lane, terms) ==
  \A past \in Indices(SeenBy(shape, chunk, row)) :
    buffer[SlotOf(shape, row, kvHead, past, lane)] = terms[past]

Scored(shape, chunk, queries, keys, buffer) ==
  /\ IsArray(buffer, BufferSize(shape))
  /\ \A row \in Indices(chunk.rows) : \A kvHead \in Indices(shape.kvHeads) :
       \A lane \in Indices(GroupSize(shape)) :
         Holds(shape, chunk, buffer, row, kvHead, lane,
               ScoreOf(shape, chunk, queries, keys, row, kvHead, lane))

Weighed(shape, chunk, queries, keys, buffer) ==
  /\ IsArray(buffer, BufferSize(shape))
  /\ \A row \in Indices(chunk.rows) : \A kvHead \in Indices(shape.kvHeads) :
       \A lane \in Indices(GroupSize(shape)) :
         Holds(shape, chunk, buffer, row, kvHead, lane,
               ChanceOf(ScoreOf(shape, chunk, queries, keys, row, kvHead, lane)))

\* A sum's place: a column and a head of the group.
SumOf(shape, row, kvHead, column, lane) ==
  PlaneOf(shape, row, kvHead) * AccumulatorStride(shape) + column * GroupSize(shape) + lane

TermsOf(shape, chances, values, kvHead, column) ==
  [past \in DOMAIN chances |-> Times(chances[past], values[RowBase(shape, past, kvHead) + column])]

Summarized(shape, chunk, queries, keys, values, accumulator) ==
  /\ IsArray(accumulator, SumsSize(shape))
  /\ \A row \in Indices(chunk.rows) : \A kvHead \in Indices(shape.kvHeads) :
       \A lane \in Indices(GroupSize(shape)) : \A column \in Indices(shape.headDim) :
         accumulator[SumOf(shape, row, kvHead, column, lane)]
           = Summed(TermsOf(shape, ChanceOf(ScoreOf(shape, chunk, queries, keys, row, kvHead, lane)),
                            values, kvHead, column))

\* The rows of the pass up to some are as a scan leaves them.
ScannedTo(shape, queries, gates, keys, values, mixed, n) ==
  /\ IsArray(mixed, (shape.seq * shape.queryHeads) * shape.headDim)
  /\ \A t \in Indices(n) : \A h \in Indices(shape.queryHeads) :
       \A c \in Indices(shape.headDim) :
         mixed[(t * shape.queryHeads + h) * shape.headDim + c]
           = HeadOutput(shape, queries[t][h], gates[t][h], keys, values, h \div GroupSize(shape),
                        shape.existing + t + 1)[c]

\* Rows added to rows.
SumRow(x, y, w) == [j \in Indices(w) |-> Plus(x[j], y[j])]

\* An expert, a row at a time.
ActivatedRow(row, w) == [j \in Indices(w) |-> Times(Silu(row[j]), row[j + w])]

ExpertRow(expert, row) ==
  ProductRow(expert.down, ActivatedRow(ProductRow(expert.gateUp, row), expert.down.columns))

IsExpert(expert) ==
  /\ IsShape(expert.gateUp) /\ IsShape(expert.down)
  /\ expert.gateUp.rows = 2 * expert.down.columns

IsRouted(experts, hidden, routes, n) ==
  /\ routes = [r \in Indices(n) |-> routes[r]]
  /\ \A r \in Indices(n) : \A i \in DOMAIN routes[r].experts :
       LET expert == experts[routes[r].experts[i]] IN
       IsExpert(expert) /\ expert.gateUp.columns = hidden /\ expert.down.rows = hidden

\* The experts' part of a row.
RoutedRow(experts, hidden, row, route) ==
  [j \in Indices(hidden) |->
     Summed([i \in DOMAIN route.experts |->
               Times(ExpertRow(experts[route.experts[i]], row)[j], route.weights[i])])]

\* The shared expert's part of a row.
SharedRow(experts, hidden, row) ==
  LET expert == [gateUp |-> experts.sharedGateUp, down |-> experts.sharedDown]
      selected == Summed([i \in Indices(hidden) |-> Times(row[i], experts.sharedSelector[i])])
  IN [j \in Indices(hidden) |-> Times(ExpertRow(expert, row)[j], Sigmoid(selected))]

-----------------------------------------------------------------------------
(***************************************************************************)
(* The reference model's kernels, a row at a time.                         *)
(***************************************************************************)
IsDense(m) == m.rows \in Nat /\ m.columns \in Nat

LinearRow(m, row) ==
  [o \in Indices(m.rows) |->
     Rounded(m.dtype, Summed([c \in Indices(m.columns) |->
                                Times(row[c], m.blocks[o * m.columns + c])]))]

RoundedRow(dtype, row, w) == [c \in Indices(w) |-> Rounded(dtype, row[c])]

IsMlp(expert, hidden) ==
  /\ IsDense(expert.gate) /\ IsDense(expert.up) /\ IsDense(expert.down)
  /\ expert.gate.columns = hidden /\ expert.up.columns = hidden
  /\ expert.up.rows = expert.gate.rows /\ expert.down.columns = expert.gate.rows
  /\ expert.down.rows = hidden

MlpInner(expert, gate, up) ==
  [i \in DOMAIN gate |->
     Rounded(expert.gate.dtype, Times(Rounded(expert.gate.dtype, Silu(gate[i])), up[i]))]

MlpRow(expert, row) ==
  LinearRow(expert.down, MlpInner(expert, LinearRow(expert.gate, row), LinearRow(expert.up, row)))

SparseRow(experts, shared, selector, hidden, row, route) ==
  [j \in Indices(hidden) |->
     Plus(Summed([i \in DOMAIN route.experts |->
                    Times(Mlp(experts[route.experts[i]], row, 1)[j], route.weights[i])]),
          Times(MlpRow(shared, row)[j], Sigmoid(LinearRow(selector, row)[0])))]

-----------------------------------------------------------------------------
(***************************************************************************)
(* What each row of a layer is, by itself: of a file, of the row's token,  *)
(* and past the mixer of the tokens up to it and the state before it.      *)
(***************************************************************************)
\* An array of rows y[0], y[1], ...
RowsOf(a, n, w, y) == IsArray(a, n * w) /\ \A r \in Indices(n) : Row(a, r, w) = y[r]
Ref(f) == f.format = "safetensors"
Hid(f) == f.config.hidden
Typed(f) == f.tensors["embed_tokens"].dtype
LW(f) == LoadWeights(f)
RefNorm(f, row, name) == RoundedRow(Typed(f), RmsNorm(row, OneCentered(f.vectors[name])), Hid(f))

PairRow(f, token) ==
  [j \in Indices(2 * Hid(f)) |->
     IF j < Hid(f) THEN RmsNorm(WeightRow(LW(f).embedding, token), f.vectors["enorm"])[j]
     ELSE RmsNorm([i \in Indices(Hid(f)) |-> Hidden(token)[i]], f.vectors["hnorm"])[j - Hid(f)]]

XsRow(f, token) ==
  IF Ref(f) THEN WeightRow(f.tensors["embed_tokens"], token)
  ELSE IF KindOf(f) = "predictor" THEN ProductRow(Matrix(f, "eh_proj"), PairRow(f, token))
  ELSE WeightRow(LW(f).embedding, token)

InRow(f, token) ==
  IF Ref(f) THEN RefNorm(f, XsRow(f, token), "input_layernorm")
  ELSE RmsNorm(XsRow(f, token), f.vectors["attn_norm"])

\* Attention.
QueryProduct(f, row) ==
  IF Ref(f) THEN LinearRow(f.tensors["q_proj"], row) ELSE ProductRow(LW(f).mixer.query, row)

KeyProduct(f, row) ==
  IF Ref(f) THEN LinearRow(f.tensors["k_proj"], row) ELSE ProductRow(LW(f).mixer.key, row)

ValueProduct(f, row) ==
  IF Ref(f) THEN LinearRow(f.tensors["v_proj"], row) ELSE ProductRow(LW(f).mixer.value, row)

QueryNorm(f) == IF Ref(f) THEN OneCentered(f.vectors["q_norm"]) ELSE f.vectors["attn_q_norm"]
KeyNorm(f) == IF Ref(f) THEN OneCentered(f.vectors["k_norm"]) ELSE f.vectors["attn_k_norm"]
Placed(f, vector, weight, q) == Rotated(ConvertedNorm(vector, weight), q, f.config.rotaryDim)

QueriesOf(f, row, weight, q) ==
  [h \in Indices(f.config.queryHeads) |->
     Placed(f, Slice(Row(row, h, 2 * f.config.headDim), 0, f.config.headDim), weight, q)]

GatesOf(f, row) ==
  [h \in Indices(f.config.queryHeads) |->
     Slice(Row(row, h, 2 * f.config.headDim), f.config.headDim, f.config.headDim)]

CacheWidth(f) == f.config.kvHeads * f.config.headDim

KeysOf(f, row, weight, q) ==
  [j \in Indices(CacheWidth(f)) |->
     Placed(f, Row(row, j \div f.config.headDim, f.config.headDim), weight, q)[j % f.config.headDim]]

ValuesOf(f, row) ==
  [j \in Indices(CacheWidth(f)) |->
     Row(row, j \div f.config.headDim, f.config.headDim)[j % f.config.headDim]]

QueryAt(f, toks, q) == QueriesOf(f, QueryProduct(f, InRow(f, toks[q + 1])), QueryNorm(f), q)
GateAt(f, toks, q) == GatesOf(f, QueryProduct(f, InRow(f, toks[q + 1])))
KeyAt(f, toks, q) == KeysOf(f, KeyProduct(f, InRow(f, toks[q + 1])), KeyNorm(f), q)
ValueAt(f, toks, q) == ValuesOf(f, ValueProduct(f, InRow(f, toks[q + 1])))

\* The cache of the first n tokens.
CacheOf(f, toks, n) ==
  [keys |-> [i \in Indices(n * CacheWidth(f)) |->
               KeyAt(f, toks, i \div CacheWidth(f))[i % CacheWidth(f)]],
   values |-> [i \in Indices(n * CacheWidth(f)) |->
                 ValueAt(f, toks, i \div CacheWidth(f))[i % CacheWidth(f)]],
   positions |-> n]

ShapeOf(f, n, position) ==
  [seq |-> n, existing |-> position, queryHeads |-> f.config.queryHeads,
   kvHeads |-> f.config.kvHeads, headDim |-> f.config.headDim, threads |-> f.threads]

RefMixedRow(shape, query, gate, keys, values, n) ==
  [j \in Indices(MixedWidth(shape)) |->
     Attended(shape,
              [past \in Indices(n) |->
                 ReferenceScore(shape, query[j \div shape.headDim], keys, past,
                                (j \div shape.headDim) \div GroupSize(shape))],
              gate[j \div shape.headDim], values, (j \div shape.headDim) \div GroupSize(shape))
       [j % shape.headDim]]

AttentionMixed(f, toks, q) ==
  LET shape == ShapeOf(f, 1, q)
      cache == CacheOf(f, toks, q + 1)
  IN IF Ref(f)
     THEN RefMixedRow(shape, QueryAt(f, toks, q), GateAt(f, toks, q), cache.keys, cache.values, q + 1)
     ELSE MixedRow(shape, QueryAt(f, toks, q), GateAt(f, toks, q), cache.keys, cache.values, q + 1)

\* The recurrence: the rows of a token's projections, and what it does to a state.
QkvRow(f, token) ==
  IF Ref(f) THEN ConvInput(Heads(f), LinearRow(f.tensors["in_proj_qkvz"], InRow(f, token)))
  ELSE Slice(ProductRow(LW(f).mixer.qkvz[1], InRow(f, token)), 0, ConvDim(Heads(f)))

DeltaGates(f, token) ==
  IF Ref(f) THEN ValueGates(Heads(f), LinearRow(f.tensors["in_proj_qkvz"], InRow(f, token)))
  ELSE IF Len(LW(f).mixer.qkvz) = 1
  THEN Slice(ProductRow(LW(f).mixer.qkvz[1], InRow(f, token)), ConvDim(Heads(f)), ValueDim(Heads(f)))
  ELSE ProductRow(LW(f).mixer.qkvz[2], InRow(f, token))

BetaAlphaRow(f, token) ==
  IF Ref(f) THEN LinearRow(f.tensors["in_proj_ba"], InRow(f, token))
  ELSE ProductRow(LW(f).mixer.betaAlpha, InRow(f, token))

DeltaVectors(f) ==
  IF Ref(f)
  THEN [conv |-> f.vectors["conv1d"], scales |-> DecayScales(f.vectors["A_log"]),
        bias |-> f.vectors["dt_bias"]]
  ELSE [conv |-> f.vectors["ssm_conv1d"], scales |-> f.vectors["ssm_a"], bias |-> f.vectors["ssm_dt"]]

DeltaStep(f, token, before) ==
  DeltaRow(Heads(f), QkvRow(f, token), BetaAlphaRow(f, token), DeltaVectors(f), before)

DeltaMixed(f, token, before) ==
  IF Ref(f)
  THEN RoundedRow(Typed(f),
         GatedNorm(Heads(f), RoundedRow(Typed(f), DeltaStep(f, token, before).output, ValueDim(Heads(f))),
                   DeltaGates(f, token), f.vectors["linear_norm"]), ValueDim(Heads(f)))
  ELSE GatedNorm(Heads(f), DeltaStep(f, token, before).output, DeltaGates(f, token),
                 f.vectors["ssm_norm"])

\* The state after row q, and after the first n rows, of the layer fed row by row.
StateAfter(f, toks, q, before) ==
  IF KindOf(f) = "linear"
  THEN [conv |-> DeltaStep(f, toks[q + 1], before).conv,
        recurrent |-> DeltaStep(f, toks[q + 1], before).recurrent]
  ELSE CacheOf(f, toks, q + 1)

Before(f, al, q) == IF q = 0 THEN NewLayerState(f) ELSE al[q].state

After(f, toks, al, n) ==
  IF n = 0 THEN NewLayerState(f) ELSE StateAfter(f, toks, n - 1, Before(f, al, n - 1))

\* From the mixer to the output.
MixRow(f, toks, q, before) ==
  IF KindOf(f) = "linear" THEN DeltaMixed(f, toks[q + 1], before) ELSE AttentionMixed(f, toks, q)

OutputMatrix(f) == f.tensors[IF KindOf(f) = "linear" THEN "out_proj" ELSE "o_proj"]

HiddenRow(f, toks, q, before) ==
  LET x == XsRow(f, toks[q + 1])
      mixed == MixRow(f, toks, q, before)
  IN IF Ref(f) THEN RoundedRow(Typed(f), SumRow(x, LinearRow(OutputMatrix(f), mixed), Hid(f)), Hid(f))
     ELSE SumRow(x, ProductRow(LW(f).mixer.output, mixed), Hid(f))

MidRow(f, toks, q, before) ==
  IF Ref(f) THEN RefNorm(f, HiddenRow(f, toks, q, before), "post_attention_layernorm")
  ELSE RmsNorm(HiddenRow(f, toks, q, before), f.vectors["post_attention_norm"])

RouteRow(f, toks, q, before) ==
  LET row == MidRow(f, toks, q, before)
  IN Route(IF Ref(f) THEN LinearRow(f.tensors["gate"], row) ELSE ProductRow(LW(f).moe.router, row),
           f.config.expertsPerToken, f.config.normTopk)

FileMlp(f, gate, up, down) ==
  [gate |-> f.tensors[gate], up |-> f.tensors[up], down |-> f.tensors[down]]

SharedMlp(f) == FileMlp(f, "shared_gate_proj", "shared_up_proj", "shared_down_proj")
DenseMlp(f) == FileMlp(f, "gate_proj", "up_proj", "down_proj")

ExpertsRow(f, toks, q, before) ==
  LET row == MidRow(f, toks, q, before)
      route == RouteRow(f, toks, q, before)
  IN IF ~Ref(f) THEN SumRow(RoutedRow(LW(f).moe.experts, Hid(f), row, route),
                            SharedRow(LW(f).moe, Hid(f), row), Hid(f))
     ELSE IF LayerIsMoe(f.config, f.layer)
     THEN RoundedRow(Typed(f), SparseRow(f.experts, SharedMlp(f), f.tensors["shared_expert_gate"],
                                         Hid(f), row, route), Hid(f))
     ELSE MlpRow(DenseMlp(f), row)

LayerRow(f, toks, q, before) ==
  LET sum == SumRow(HiddenRow(f, toks, q, before), ExpertsRow(f, toks, q, before), Hid(f))
  IN IF Ref(f) THEN RoundedRow(Typed(f), sum, Hid(f)) ELSE sum

FinalRow(f, toks, q, before) ==
  IF Ref(f) THEN RefNorm(f, LayerRow(f, toks, q, before), "norm")
  ELSE RmsNorm(LayerRow(f, toks, q, before),
               f.vectors[IF KindOf(f) = "predictor" THEN "shared_head_norm" ELSE "output_norm"])

LogitsRow(f, row) ==
  IF Ref(f) THEN LinearRow(f.tensors[IF f.config.tied THEN "embed_tokens" ELSE "lm_head"], row)
  ELSE ProductRow(LW(f).head, row)

OutputRow(f, toks, q, before) ==
  [hidden |-> FinalRow(f, toks, q, before), logits |-> LogitsRow(f, FinalRow(f, toks, q, before))]

-----------------------------------------------------------------------------
(***************************************************************************)
(* What a file that loads is.                                              *)
(***************************************************************************)
MatrixIs(m, rowCount, columns) == IsShape(m) /\ m.rows = rowCount /\ m.columns = columns
DenseIs(m, rowCount, columns) == IsDense(m) /\ m.rows = rowCount /\ m.columns = columns

GoodConfig(f) ==
  /\ f.config.hidden \in Nat \ {0} /\ f.config.vocab \in Nat /\ f.threads \in Nat
  /\ f.config.experts \in Nat \ {0} /\ f.config.expertsPerToken \in 0..f.config.experts
  /\ f.config.queryHeads \in Nat \ {0} /\ f.config.kvHeads \in Nat \ {0}
  /\ f.config.headDim \in Nat \ {0}
  /\ \E g \in Nat \ {0} : f.config.queryHeads = g * f.config.kvHeads
  /\ Heads(f).key \in Nat /\ Heads(f).value \in Nat
  /\ Heads(f).keyDim \in Nat /\ Heads(f).valueDim \in Nat
  /\ Heads(f).key = 0 => Heads(f).value = 0
  /\ \E g \in Nat : Heads(f).key # 0 => Heads(f).value = g * Heads(f).key

GoodMixer(f) ==
  IF KindOf(f) = "linear"
  THEN LET mixer == LW(f).mixer
           h == Heads(f)
       IN /\ \/ /\ mixer.qkvz = <<mixer.qkvz[1]>> /\ Len(mixer.qkvz) = 1
                /\ MatrixIs(mixer.qkvz[1], ConvDim(h) + ValueDim(h), Hid(f))
             \/ /\ mixer.qkvz = <<mixer.qkvz[1], mixer.qkvz[2]>> /\ Len(mixer.qkvz) = 2
                /\ MatrixIs(mixer.qkvz[1], ConvDim(h), Hid(f))
                /\ MatrixIs(mixer.qkvz[2], ValueDim(h), Hid(f))
          /\ MatrixIs(mixer.betaAlpha, 2 * h.value, Hid(f))
          /\ MatrixIs(mixer.output, Hid(f), ValueDim(h))
  ELSE LET mixer == LW(f).mixer
       IN /\ MatrixIs(mixer.query, f.config.queryHeads * (2 * f.config.headDim), Hid(f))
          /\ MatrixIs(mixer.key, CacheWidth(f), Hid(f))
          /\ MatrixIs(mixer.value, CacheWidth(f), Hid(f))
          /\ MatrixIs(mixer.output, Hid(f), f.config.queryHeads * f.config.headDim)

GoodMoe(f) ==
  LET moe == LW(f).moe IN
  /\ MatrixIs(moe.router, f.config.experts, Hid(f))
  /\ IsShape(moe.sharedGateUp) /\ IsShape(moe.sharedDown)
  /\ moe.sharedGateUp.rows = 2 * moe.sharedDown.columns
  /\ moe.sharedGateUp.columns = Hid(f) /\ moe.sharedDown.rows = Hid(f)
  /\ \A e \in Indices(f.config.experts) :
       /\ IsExpert(moe.experts[e])
       /\ moe.experts[e].gateUp.columns = Hid(f) /\ moe.experts[e].down.rows = Hid(f)

GoodGguf(f) ==
  /\ MatrixIs(LW(f).embedding, f.config.vocab, Hid(f))
  /\ MatrixIs(LW(f).head, f.config.vocab, Hid(f))
  /\ KindOf(f) = "predictor" => MatrixIs(Matrix(f, "eh_proj"), Hid(f), 2 * Hid(f))
  /\ GoodMixer(f) /\ GoodMoe(f)

GoodReference(f) ==
  /\ DenseIs(f.tensors["embed_tokens"], f.config.vocab, Hid(f))
  /\ DenseIs(f.tensors["lm_head"], f.config.vocab, Hid(f))
  /\ IF KindOf(f) = "linear"
     THEN LET h == Heads(f) IN
          /\ DenseIs(f.tensors["in_proj_qkvz"], 2 * KeyDim(h) + 2 * ValueDim(h), Hid(f))
          /\ DenseIs(f.tensors["in_proj_ba"], 2 * h.value, Hid(f))
          /\ DenseIs(f.tensors["out_proj"], Hid(f), ValueDim(h))
     ELSE /\ DenseIs(f.tensors["q_proj"], f.config.queryHeads * (2 * f.config.headDim), Hid(f))
          /\ DenseIs(f.tensors["k_proj"], CacheWidth(f), Hid(f))
          /\ DenseIs(f.tensors["v_proj"], CacheWidth(f), Hid(f))
          /\ DenseIs(f.tensors["o_proj"], Hid(f), f.config.queryHeads * f.config.headDim)
  /\ IF LayerIsMoe(f.config, f.layer)
     THEN /\ DenseIs(f.tensors["gate"], f.config.experts, Hid(f))
          /\ IsMlp(SharedMlp(f), Hid(f))
          /\ DenseIs(f.tensors["shared_expert_gate"], 1, Hid(f))
     ELSE IsMlp(DenseMlp(f), Hid(f))

GoodFile(f) ==
  GoodConfig(f) /\ IF Ref(f) THEN GoodReference(f) ELSE f.format = "gguf" /\ GoodGguf(f)

XsRows(f, tokens, n) == [r \in Indices(n) |-> XsRow(f, tokens[r + 1])]
InRows(f, tokens, n) == [r \in Indices(n) |-> InRow(f, tokens[r + 1])]

-----------------------------------------------------------------------------
(***************************************************************************)
(* The projections of attention, and the rows it caches.                   *)
(***************************************************************************)
\* The heads of each token of a product; an array with rows put after its own.
HeadsTo(hs, n, heads, w, y) ==
  /\ DOMAIN hs = Indices(n)
  /\ \A t \in Indices(n) : /\ DOMAIN hs[t] = Indices(heads)
                            /\ \A h \in Indices(heads) : hs[t][h] = Row(y[t], h, w)

ExtendedTo(array, after, m, n, w, z) ==
  /\ IsArray(after, (m + n) * w)
  /\ \A r \in Indices(m) : Row(after, r, w) = Row(array, r, w)
  /\ \A r \in Indices(n) : Row(after, m + r, w) = z[r]

HeadRows(z, heads, n, kv, hd) ==
  \A t \in Indices(n) : z[t] = [j \in Indices(kv * hd) |-> heads[t][j \div hd][j % hd]]

QueryRows(f, toks, p, n) == [r \in Indices(n) |-> QueryProduct(f, InRow(f, toks[p + r + 1]))]
KeyRows(f, toks, p, n) == [r \in Indices(n) |-> KeyProduct(f, InRow(f, toks[p + r + 1]))]
ValueRows(f, toks, p, n) == [r \in Indices(n) |-> ValueProduct(f, InRow(f, toks[p + r + 1]))]

\* What the projections of a pass leave: its queries, their gates and the cache.
ProjectedTo(f, toks, p, n, projected) ==
  /\ \A t \in Indices(n) : /\ projected.queries[t] = QueryAt(f, toks, p + t)
                           /\ projected.gates[t] = GateAt(f, toks, p + t)
  /\ projected.state = CacheOf(f, toks, p + n)

MixedAlone(f, toks, n, p, t, query, gate) ==
  MixedRow(ShapeOf(f, n, p), query, gate, CacheOf(f, toks, p + n).keys,
                  CacheOf(f, toks, p + n).values, p + t + 1)
           = MixedRow(ShapeOf(f, 1, p + t), query, gate, CacheOf(f, toks, p + t + 1).keys,
                      CacheOf(f, toks, p + t + 1).values, p + t + 1)

ReferenceMixedAlone(f, toks, n, p, t, query, gate) ==
  RefMixedRow(ShapeOf(f, n, p), query, gate, CacheOf(f, toks, p + n).keys,
                     CacheOf(f, toks, p + n).values, p + t + 1)
           = RefMixedRow(ShapeOf(f, 1, p + t), query, gate, CacheOf(f, toks, p + t + 1).keys,
                         CacheOf(f, toks, p + t + 1).values, p + t + 1)

-----------------------------------------------------------------------------
(***************************************************************************)
(* The projections of the recurrence.                                      *)
(***************************************************************************)
QkvRows(f, tokens, n) == [r \in Indices(n) |-> QkvRow(f, tokens[r + 1])]
GateRows(f, tokens, n) == [r \in Indices(n) |-> DeltaGates(f, tokens[r + 1])]
BetaAlphaRows(f, tokens, n) == [r \in Indices(n) |-> BetaAlphaRow(f, tokens[r + 1])]

DeltaProjectedTo(f, tokens, n, qkv, gates, betaAlpha) ==
  /\ qkv = QkvRows(f, tokens, n) /\ betaAlpha = BetaAlphaRows(f, tokens, n)
  /\ RowsOf(gates, n, ValueDim(Heads(f)), GateRows(f, tokens, n))

-----------------------------------------------------------------------------
(***************************************************************************)
(* The rows of a pass from position p, each with the state before it.      *)
(***************************************************************************)
PassXs(f, toks, p, n) == [r \in Indices(n) |-> XsRow(f, toks[p + r + 1])]
PassMix(f, toks, al, p, n) == [r \in Indices(n) |-> MixRow(f, toks, p + r, Before(f, al, p + r))]
PassHidden(f, toks, al, p, n) == [r \in Indices(n) |-> HiddenRow(f, toks, p + r, Before(f, al, p + r))]
PassMid(f, toks, al, p, n) == [r \in Indices(n) |-> MidRow(f, toks, p + r, Before(f, al, p + r))]
PassRoute(f, toks, al, p, n) == [r \in Indices(n) |-> RouteRow(f, toks, p + r, Before(f, al, p + r))]
PassLayer(f, toks, al, p, n) == [r \in Indices(n) |-> LayerRow(f, toks, p + r, Before(f, al, p + r))]
PassFinal(f, toks, al, p, n) == [r \in Indices(n) |-> FinalRow(f, toks, p + r, Before(f, al, p + r))]

MixWidth(f) ==
  IF KindOf(f) = "linear" THEN ValueDim(Heads(f)) ELSE f.config.queryHeads * f.config.headDim

-----------------------------------------------------------------------------
(***************************************************************************)
(* The logits.                                                             *)
(***************************************************************************)
AgreesWith(logits, full) == \A j \in DOMAIN logits : logits[j] = full[j]

\* What a pass returns of its rows.
LogitsTo(f, toks, al, p, n, logits, whole) ==
  \A r \in Indices(n) :
    LET full == LogitsRow(f, FinalRow(f, toks, p + r, Before(f, al, p + r))) IN
    /\ AgreesWith(logits[r + 1], full)
    /\ whole => logits[r + 1] = full

-----------------------------------------------------------------------------
(***************************************************************************)
(* The recurrence, a row at a time.                                        *)
(***************************************************************************)
\* The tokens of a pass are those fed from position p.
TokensFrom(tokens, toks, p, n) == \A r \in Indices(n) : tokens[r + 1] = toks[p + r + 1]

PassStep(f, toks, al, p, n) ==
  [r \in Indices(n) |-> DeltaStep(f, toks[p + r + 1], Before(f, al, p + r)).output]

-----------------------------------------------------------------------------
(***************************************************************************)
(* The layer fed row by row.                                               *)
(***************************************************************************)
IsSeq(s) == \E S : s \in Seq(S)

\* What the second copy holds.
AloneIs(f, toks, al) ==
  /\ IsSeq(al) /\ Len(al) <= Len(toks)
  /\ \A q \in Indices(Len(al)) : /\ al[q + 1].state = StateAfter(f, toks, q, Before(f, al, q))
                                  /\ al[q + 1].output = OutputRow(f, toks, q, Before(f, al, q))

-----------------------------------------------------------------------------
(***************************************************************************)
(* The inductive invariant.                                                *)
(***************************************************************************)
WorkFields ==
  {"lone", "tokens", "count", "position", "state", "xs", "normed", "mixed", "routes", "queries", "gates",
   "first", "buffer", "accumulator", "qkv", "betaAlpha", "token"}

\* The pass that is asked for ends what was fed.
BaseOf(toks, pass) == Len(toks) - Len(pass.tokens)

AskedIs(f, toks, al, pass) ==
  /\ pass.tokens \in Seq(Nat) /\ Len(pass.tokens) > 0 /\ Len(pass.tokens) <= Len(toks)
  /\ TokensFrom(pass.tokens, toks, BaseOf(toks, pass), Len(pass.tokens))
  /\ pass.judged \in BOOLEAN /\ (Ref(f) => ~pass.judged)
  /\ BaseOf(toks, pass) <= Len(al)

\* The row being fed to the copy, or the pass.
WorkIs(toks, al, pass, w) ==
  /\ DOMAIN w = WorkFields
  /\ w.count \in Nat \ {0} /\ w.position \in Nat /\ w.lone \in BOOLEAN
  /\ TokensFrom(w.tokens, toks, w.position, w.count)
  /\ w.lone => w.count = 1 /\ w.position = Len(al) /\ Len(al) < Len(toks)
  /\ ~w.lone => /\ w.count = Len(pass.tokens) /\ w.position = BaseOf(toks, pass)
                /\ Len(al) = Len(toks)

\* What a row of work holds in each phase.
Fresh(f, al, w) ==
  w.state = Before(f, al, w.position) /\ w.mixed = Nothing /\ w.token = 0 /\ w.first = 0

XsIs(f, toks, w) == RowsOf(w.xs, w.count, Hid(f), PassXs(f, toks, w.position, w.count))
Entered(f, toks, w) == XsIs(f, toks, w) /\ RowsOf(w.normed, w.count, Hid(f), InRows(f, w.tokens, w.count))
Ended(f, toks, al, w) == w.state = After(f, toks, al, w.position + w.count)

ProjectedIn(f, toks, w) ==
  /\ \A t \in Indices(w.count) : /\ w.queries[t] = QueryAt(f, toks, w.position + t)
                                 /\ w.gates[t] = GateAt(f, toks, w.position + t)
  /\ w.state = CacheOf(f, toks, w.position + w.count)

ShapeIn(f, w) == ShapeOf(f, w.count, w.position)

ScanningIn(f, toks, w) ==
  /\ XsIs(f, toks, w) /\ ProjectedIn(f, toks, w)
  /\ w.first \in Indices(w.count)
  /\ ScannedTo(ShapeIn(f, w), w.queries, w.gates, w.state.keys, w.state.values, w.mixed, w.first)

ChunkIn(f, w) == ChunkAt(ShapeIn(f, w), w.first)

SteppedTo(f, toks, al, w, n) ==
  RowsOf(w.mixed, n, ValueDim(Heads(f)), PassStep(f, toks, al, w.position, n))

PhaseIs(f, toks, al, ph, w) ==
  CASE ph = "entering" -> Fresh(f, al, w)
    [] ph = "attention" -> ~Ref(f) /\ KindOf(f) # "linear" /\ Entered(f, toks, w) /\ Fresh(f, al, w)
    [] ph = "delta" -> ~Ref(f) /\ KindOf(f) = "linear" /\ Entered(f, toks, w) /\ Fresh(f, al, w)
    [] ph = "heads" -> ~Ref(f) /\ KindOf(f) # "linear" /\ XsIs(f, toks, w) /\ ProjectedIn(f, toks, w)
    [] ph = "scores" ->
         /\ ~Ref(f) /\ KindOf(f) # "linear" /\ ScanningIn(f, toks, w)
         /\ IsArray(w.buffer, BufferSize(ShapeIn(f, w))) /\ IsArray(w.accumulator, SumsSize(ShapeIn(f, w)))
    [] ph = "softmax" ->
         /\ ~Ref(f) /\ KindOf(f) # "linear" /\ ScanningIn(f, toks, w)
         /\ Scored(ShapeIn(f, w), ChunkIn(f, w), w.queries, w.state.keys, w.buffer)
         /\ IsArray(w.accumulator, SumsSize(ShapeIn(f, w)))
    [] ph = "weighted sum" ->
         /\ ~Ref(f) /\ KindOf(f) # "linear" /\ ScanningIn(f, toks, w)
         /\ Weighed(ShapeIn(f, w), ChunkIn(f, w), w.queries, w.state.keys, w.buffer)
         /\ IsArray(w.accumulator, SumsSize(ShapeIn(f, w)))
    [] ph = "gather" ->
         /\ ~Ref(f) /\ KindOf(f) # "linear" /\ ScanningIn(f, toks, w)
         /\ IsArray(w.buffer, BufferSize(ShapeIn(f, w)))
         /\ Summarized(ShapeIn(f, w), ChunkIn(f, w), w.queries, w.state.keys, w.state.values, w.accumulator)
    [] ph = "rows" ->
         /\ ~Ref(f) /\ KindOf(f) = "linear" /\ XsIs(f, toks, w) /\ w.token \in Indices(w.count)
         /\ DeltaProjectedTo(f, w.tokens, w.count, w.qkv, w.gates, w.betaAlpha)
         /\ w.state = Before(f, al, w.position + w.token) /\ SteppedTo(f, toks, al, w, w.token)
    [] ph = "gated norm" ->
         /\ ~Ref(f) /\ KindOf(f) = "linear" /\ XsIs(f, toks, w) /\ Ended(f, toks, al, w)
         /\ RowsOf(w.gates, w.count, ValueDim(Heads(f)), GateRows(f, w.tokens, w.count))
         /\ SteppedTo(f, toks, al, w, w.count)
    [] ph = "output" ->
         /\ ~Ref(f) /\ XsIs(f, toks, w) /\ Ended(f, toks, al, w)
         /\ RowsOf(w.mixed, w.count, MixWidth(f), PassMix(f, toks, al, w.position, w.count))
    [] ph = "route" ->
         /\ ~Ref(f) /\ Ended(f, toks, al, w)
         /\ RowsOf(w.xs, w.count, Hid(f), PassHidden(f, toks, al, w.position, w.count))
         /\ RowsOf(w.normed, w.count, Hid(f), PassMid(f, toks, al, w.position, w.count))
    [] ph = "experts" ->
         /\ ~Ref(f) /\ Ended(f, toks, al, w)
         /\ RowsOf(w.xs, w.count, Hid(f), PassHidden(f, toks, al, w.position, w.count))
         /\ RowsOf(w.normed, w.count, Hid(f), PassMid(f, toks, al, w.position, w.count))
         /\ w.routes = PassRoute(f, toks, al, w.position, w.count)
    [] ph = "reference attention" ->
         Ref(f) /\ KindOf(f) # "linear" /\ Entered(f, toks, w) /\ Fresh(f, al, w)
    [] ph = "reference delta" -> Ref(f) /\ KindOf(f) = "linear" /\ Entered(f, toks, w) /\ Fresh(f, al, w)
    [] ph = "reference scan" -> Ref(f) /\ KindOf(f) # "linear" /\ XsIs(f, toks, w) /\ ProjectedIn(f, toks, w)
    [] ph = "reference rows" ->
         /\ Ref(f) /\ KindOf(f) = "linear" /\ XsIs(f, toks, w) /\ w.token \in Indices(w.count)
         /\ DeltaProjectedTo(f, w.tokens, w.count, w.qkv, w.gates, w.betaAlpha)
         /\ w.state = Before(f, al, w.position + w.token) /\ SteppedTo(f, toks, al, w, w.token)
    [] ph = "reference gated norm" ->
         /\ Ref(f) /\ KindOf(f) = "linear" /\ XsIs(f, toks, w) /\ Ended(f, toks, al, w)
         /\ RowsOf(w.gates, w.count, ValueDim(Heads(f)), GateRows(f, w.tokens, w.count))
         /\ SteppedTo(f, toks, al, w, w.count)
    [] ph = "reference output" ->
         /\ Ref(f) /\ XsIs(f, toks, w) /\ Ended(f, toks, al, w)
         /\ RowsOf(w.mixed, w.count, MixWidth(f), PassMix(f, toks, al, w.position, w.count))
    [] ph = "reference route" ->
         /\ Ref(f) /\ Ended(f, toks, al, w)
         /\ RowsOf(w.xs, w.count, Hid(f), PassHidden(f, toks, al, w.position, w.count))
         /\ RowsOf(w.normed, w.count, Hid(f), PassMid(f, toks, al, w.position, w.count))
    [] ph = "reference experts" ->
         /\ Ref(f) /\ Ended(f, toks, al, w)
         /\ RowsOf(w.xs, w.count, Hid(f), PassHidden(f, toks, al, w.position, w.count))
         /\ RowsOf(w.normed, w.count, Hid(f), PassMid(f, toks, al, w.position, w.count))
         /\ LayerIsMoe(f.config, f.layer) => w.routes = PassRoute(f, toks, al, w.position, w.count)
    [] ph = "final norm" ->
         /\ Ended(f, toks, al, w)
         /\ RowsOf(w.xs, w.count, Hid(f), PassLayer(f, toks, al, w.position, w.count))
    [] ph = "head" ->
         /\ Ended(f, toks, al, w)
         /\ RowsOf(w.normed, w.count, Hid(f), PassFinal(f, toks, al, w.position, w.count))

WorkPhases ==
  {"entering", "attention", "delta", "heads", "scores", "softmax", "weighted sum", "gather", "rows",
   "gated norm", "output", "route", "experts", "reference attention", "reference delta",
   "reference scan", "reference rows", "reference gated norm", "reference output", "reference route",
   "reference experts", "final norm", "head"}

\* The snapshots taken of a pass that is judged.
SlotsTaken(ph, w) ==
  CASE ph \in {"taken", "entering", "delta"} -> 0
    [] ph = "rows" -> IF w.lone THEN 0 ELSE w.token + 1
    [] ph \in WorkPhases \ {"entering", "delta", "rows"} -> IF w.lone THEN 0 ELSE w.count

SlotsAre(f, toks, al, pass, sl, n) ==
  pass.judged /\ KindOf(f) = "linear" =>
    /\ DOMAIN sl = Indices(Len(pass.tokens))
    /\ \A r \in Indices(n) : sl[r] = Before(f, al, BaseOf(toks, pass) + r)

\* What a pass showed of the last rows.
ShownIs(toks, al, sh) ==
  /\ IsSeq(sh) /\ Len(sh) <= Len(toks)
  /\ \A i \in 1..Len(sh) :
       LET lone == al[Len(toks) - Len(sh) + i].output
       IN sh[i].hidden = lone.hidden /\ AgreesWith(sh[i].logits, lone.logits)

Loaded ==
  /\ GoodFile(file) /\ (~Ref(file) => weights = LW(file))
  /\ fed \in Seq(Nat) /\ AloneIs(file, fed, alone)

Asking ==
  AskedIs(file, fed, alone, asked) /\ rows = Before(file, alone, BaseOf(fed, asked))

Whole == Len(alone) = Len(fed) /\ rows = Before(file, alone, Len(fed)) /\ ShownIs(fed, alone, shown)
ClosedInv == phase = "closed" /\ fed = << >> /\ shown = << >> /\ alone = << >>
IdleInv == phase = "idle" /\ Loaded /\ Whole
TakenInv == phase = "taken" /\ Loaded /\ Asking /\ SlotsAre(file, fed, alone, asked, slots, 0)

WorkInv ==
  /\ phase \in WorkPhases /\ Loaded /\ Asking /\ WorkIs(fed, alone, asked, work)
  /\ PhaseIs(file, fed, alone, phase, work)
  /\ SlotsAre(file, fed, alone, asked, slots, SlotsTaken(phase, work))

JudgeInv ==
  /\ phase = "judge" /\ Loaded /\ Whole /\ AskedIs(file, fed, alone, asked) /\ asked.judged
  /\ Len(shown) = Len(asked.tokens)
  /\ SlotsAre(file, fed, alone, asked, slots, Len(asked.tokens))

LayerInv == ClosedInv \/ IdleInv \/ TakenInv \/ WorkInv \/ JudgeInv
=============================================================================
