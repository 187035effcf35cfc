---------------------------- MODULE DecoderLayer ----------------------------
(***************************************************************************)
(* One decoder layer (src/src/qwen/quantized_layer.rs) with its numbers,   *)
(* between the embedding and the head (src/src/qwen/quantized_model.rs) or *)
(* as the predictor block (src/src/qwen/quantized_mtp.rs): loading its     *)
(* weights, then passes of any width over its state, a phase of the        *)
(* arithmetic at a time, and rollbacks.  TargetState has the same passes   *)
(* over all layers, with what can fail in them; there a layer's state is   *)
(* the sequence of tokens it has consumed, which rests on what is shown    *)
(* here: the state and the output of a row depend on the rows up to it and *)
(* not on the passes they came in.  A checkpoint in safetensors runs on    *)
(* the reference model (src/src/qwen/model.rs, src/src/loader.rs) instead: *)
(* a prefill of any width, then a row at a time.                           *)
(*                                                                         *)
(* To say so, each row is also given to a second copy of the layer, alone  *)
(* in its pass and attending head by head (alone).                         *)
(***************************************************************************)
EXTENDS LayerKernels, SequencesExt

CONSTANTS
  Files,         \* what a server may be started on, and the layer to follow:
                 \* [format, json, layer, threads, cpu, tensors, vectors, experts],
                 \* and where a checkpoint is in shards, [index, shards]
  Hidden(_),     \* the target's row a predictor is given with a token
  DraftVocab,    \* rows of the head its drafts are scored against
  RowPasses,     \* the tokens of the passes to consider
  MaxRowsFed     \* bound: rows the layer has consumed

VARIABLES
  file,     \* the file and host the server runs on, with its config, or NoFile
  weights,  \* what is loaded of it
  phase,    \* where the layer is
  fed,      \* the tokens consumed
  rows,     \* the layer's state: [keys, values, positions] or [conv, recurrent]
  shown,    \* what the latest pass returned of the rows still there
  slots,    \* the snapshots of the pass under way, by row
  asked,    \* the pass under way: [tokens, judged, logits]
  work,     \* what it has computed
  alone     \* for each row, the state and output of the layer fed row by row

layerVars == <<file, weights, phase, fed, rows, shown, slots, asked, work, alone>>

NoFile == [layer |-> -1]
Nothing == << >>

(***************************************************************************)
(* The configuration.                                                      *)
(***************************************************************************)
Defaults ==
  [modelType |-> "qwen3_next", act |-> "silu", gate |-> TRUE, normTopk |-> TRUE,
   mtpLayers |-> 0, dedicated |-> FALSE, sparseStep |-> 1, interval |-> 4,
   layerTypes |-> << >>, mlpOnly |-> {}, tied |-> FALSE]

\* from_json: the part about text, where the model is also about something else; a
\* dense layer is as wide as an expert unless it says otherwise.
FromJson(json) ==
  LET text == IF "text" \in DOMAIN json THEN json.text ELSE json
  IN Amended(text, Amended([dense |-> text.intermediate], Defaults))

IsMultipleOf(n, m) == IF m = 0 THEN n = 0 ELSE n % m = 0

Valid(c) ==
  /\ c.modelType \in {"qwen3_next", "qwen3_5_moe_text"} /\ c.act = "silu" /\ c.gate
  /\ \A n \in {c.vocab, c.hidden, c.layers, c.queryHeads, c.kvHeads, c.headDim, c.experts,
               c.expertsPerToken} : n > 0
  /\ IsMultipleOf(c.queryHeads, c.kvHeads) /\ IsMultipleOf(c.valueHeads, c.keyHeads)
  /\ c.expertsPerToken <= c.experts
  /\ c.sparseStep > 0 /\ c.interval > 0 /\ c.kernel > 0
  /\ c.rotaryDim > 0 /\ IsMultipleOf(c.rotaryDim, 2)
  /\ c.layerTypes # << >> => Len(c.layerTypes) = c.layers
  /\ c.mtpLayers <= 1 /\ ~c.dedicated
  /\ \A layer \in c.mlpOnly : layer < c.layers

LayerType(c, layer) ==
  IF c.layerTypes # << >> THEN c.layerTypes[layer + 1]
  ELSE IF IsMultipleOf(layer + 1, c.interval) THEN "full" ELSE "linear"

LayerIsMoe(c, layer) ==
  layer \notin c.mlpOnly /\ c.experts > 0 /\ IsMultipleOf(layer + 1, c.sparseStep)

\* The predictor is numbered after the layers.
KindOf(f) == IF f.layer = f.config.layers THEN "predictor" ELSE LayerType(f.config, f.layer)

(***************************************************************************)
(* Loading.                                                                *)
(***************************************************************************)
Heads(f) ==
  [key |-> f.config.keyHeads, value |-> f.config.valueHeads, keyDim |-> f.config.keyDim,
   valueDim |-> f.config.valueDim, kernel |-> f.config.kernel,
   tiled |-> f.format = "gguf" /\ f.config.modelType = "qwen3_5_moe_text",
   interleaved |-> f.format = "safetensors" \/ "ssm_ba" \in DOMAIN f.tensors]

ExecutableDtypes == {"Q4K", "Q5K", "Q6K", "Q8_0", "F32", "BF16"}
IsMatrix(tensor, rowCount, columns) ==
  tensor.dtype \in ExecutableDtypes /\ tensor.rows = rowCount /\ tensor.columns = columns
Shaped(f, name, rowCount, columns) ==
  name \in DOMAIN f.tensors /\ IsMatrix(f.tensors[name], rowCount, columns)
Sized(f, name, n) == name \in DOMAIN f.vectors /\ Width(f.vectors[name]) = n
SameDtype(f, first, second) == f.tensors[first].dtype = f.tensors[second].dtype

\* A build without fused multiply-adds is refused.
RequireExactKernels(f) == f.cpu.exact

AttentionLoads(f) ==
  LET c == f.config IN
  /\ Shaped(f, "attn_q", c.queryHeads * c.headDim * 2, c.hidden)
  /\ Shaped(f, "attn_k", c.kvHeads * c.headDim, c.hidden)
  /\ Shaped(f, "attn_v", c.kvHeads * c.headDim, c.hidden)
  /\ Shaped(f, "attn_output", c.hidden, c.queryHeads * c.headDim)
  /\ Sized(f, "attn_q_norm", c.headDim) /\ Sized(f, "attn_k_norm", c.headDim)

\* Beta and alpha are one projection, or two of one type that are joined.
DeltaLoads(f) ==
  LET c == f.config
      h == Heads(f)
  IN /\ Shaped(f, "attn_qkv", ConvDim(h), c.hidden) /\ Shaped(f, "attn_gate", ValueDim(h), c.hidden)
     /\ IF h.interleaved THEN Shaped(f, "ssm_ba", 2 * h.value, c.hidden)
        ELSE /\ Shaped(f, "ssm_beta", h.value, c.hidden) /\ Shaped(f, "ssm_alpha", h.value, c.hidden)
             /\ SameDtype(f, "ssm_beta", "ssm_alpha")
     /\ Shaped(f, "ssm_out", c.hidden, ValueDim(h))
     /\ Sized(f, "ssm_a", h.value) /\ Sized(f, "ssm_dt", h.value) /\ Sized(f, "ssm_norm", h.valueDim)

\* A part of every expert, stored as one tensor.
ExpertTensor(f, part, rowCount, columns) ==
  /\ DOMAIN f.experts = Indices(f.config.experts)
  /\ \A e \in DOMAIN f.experts : IsMatrix(f.experts[e][part], rowCount, columns)

\* An expert's gate and up are one matrix, so of one type.
ExpertPair(f) ==
  /\ ExpertTensor(f, "gate", f.config.intermediate, f.config.hidden)
  /\ ExpertTensor(f, "up", f.config.intermediate, f.config.hidden)
  /\ \A e \in DOMAIN f.experts : f.experts[e].gate.dtype = f.experts[e].up.dtype

\* The shared expert's width is its own as far as loading goes (see Experts).
MoeLoads(f) ==
  LET c == f.config IN
  /\ c.expertsPerToken \in 1..c.experts
  /\ Shaped(f, "ffn_gate_inp", c.experts, c.hidden)
  /\ ExpertPair(f) /\ ExpertTensor(f, "down", c.hidden, c.intermediate)
  /\ "ffn_gate_shexp" \in DOMAIN f.tensors
  /\ \E width \in {f.tensors["ffn_gate_shexp"].rows} :
       /\ Shaped(f, "ffn_gate_shexp", width, c.hidden)
       /\ Shaped(f, "ffn_up_shexp", width, c.hidden)
       /\ Shaped(f, "ffn_down_shexp", c.hidden, width)
  /\ SameDtype(f, "ffn_gate_shexp", "ffn_up_shexp")
  /\ Sized(f, "ffn_gate_inp_shexp", c.hidden)

LayerLoads(f) ==
  /\ Sized(f, "attn_norm", f.config.hidden) /\ Sized(f, "post_attention_norm", f.config.hidden)
  /\ IF KindOf(f) = "linear" THEN DeltaLoads(f) ELSE AttentionLoads(f)
  /\ MoeLoads(f)

PredictorLoads(f) ==
  LET c == f.config IN
  /\ c.mtpLayers = 1 /\ ~c.dedicated
  /\ \A norm \in {"enorm", "hnorm", "shared_head_norm"} : Sized(f, norm, c.hidden)
  /\ Shaped(f, "eh_proj", c.hidden, 2 * c.hidden)

ModelLoads(f) ==
  LET c == f.config IN
  /\ RequireExactKernels(f)
  /\ Shaped(f, "token_embd", c.vocab, c.hidden) /\ f.tensors["token_embd"].dtype # "BF16"
  /\ LayerLoads(f)
  /\ Sized(f, "output_norm", c.hidden) /\ Shaped(f, "output", c.vocab, c.hidden)
  /\ KindOf(f) = "predictor" => PredictorLoads(f)

\* A checkpoint in safetensors is the shards its index lists, or a single file.
Discovered(f) == IF "index" \in DOMAIN f THEN f.index ELSE {"model"}
Inventory(f) == UNION {f.shards[shard] : shard \in Discovered(f)}

Dense(tensor, rowCount, columns) ==
  /\ tensor.rows = rowCount /\ tensor.columns = columns
  /\ tensor.dtype \in {"BF16", "F16", "F32"}
Expect(f, name, rowCount, columns) ==
  name \in Inventory(f) /\ Dense(f.tensors[name], rowCount, columns)
ExpectVector(f, name, n) == name \in Inventory(f) /\ Sized(f, name, n)

RequiredMixer(f) ==
  LET c == f.config
      h == Heads(f)
  IN IF KindOf(f) = "linear"
     THEN /\ Expect(f, "in_proj_qkvz", 2 * KeyDim(h) + 2 * ValueDim(h), c.hidden)
          /\ Expect(f, "in_proj_ba", 2 * h.value, c.hidden)
          /\ ExpectVector(f, "conv1d", ConvDim(h) * h.kernel)
          /\ ExpectVector(f, "dt_bias", h.value) /\ ExpectVector(f, "A_log", h.value)
          /\ ExpectVector(f, "linear_norm", h.valueDim)
          /\ Expect(f, "out_proj", c.hidden, ValueDim(h))
     ELSE /\ Expect(f, "q_proj", c.queryHeads * c.headDim * 2, c.hidden)
          /\ Expect(f, "k_proj", c.kvHeads * c.headDim, c.hidden)
          /\ Expect(f, "v_proj", c.kvHeads * c.headDim, c.hidden)
          /\ Expect(f, "o_proj", c.hidden, c.queryHeads * c.headDim)
          /\ ExpectVector(f, "q_norm", c.headDim) /\ ExpectVector(f, "k_norm", c.headDim)

RequiredMlp(f, gate, up, down, width) ==
  /\ Expect(f, gate, width, f.config.hidden) /\ Expect(f, up, width, f.config.hidden)
  /\ Expect(f, down, f.config.hidden, width)

RequiredExperts(f) ==
  LET c == f.config IN
  /\ "experts" \in Inventory(f) /\ DOMAIN f.experts = Indices(c.experts)
  /\ \A e \in DOMAIN f.experts :
       /\ Dense(f.experts[e].gate, c.intermediate, c.hidden)
       /\ Dense(f.experts[e].up, c.intermediate, c.hidden)
       /\ Dense(f.experts[e].down, c.hidden, c.intermediate)

RequiredTensors(f) ==
  LET c == f.config IN
  /\ Expect(f, "embed_tokens", c.vocab, c.hidden) /\ Expect(f, "lm_head", c.vocab, c.hidden)
  /\ \A norm \in {"norm", "input_layernorm", "post_attention_layernorm"} :
       ExpectVector(f, norm, c.hidden)
  /\ RequiredMixer(f)
  /\ IF LayerIsMoe(c, f.layer)
     THEN /\ Expect(f, "gate", c.experts, c.hidden)
          /\ RequiredExperts(f)
          /\ RequiredMlp(f, "shared_gate_proj", "shared_up_proj", "shared_down_proj",
                         c.sharedIntermediate)
          /\ Expect(f, "shared_expert_gate", 1, c.hidden)
     ELSE RequiredMlp(f, "gate_proj", "up_proj", "down_proj", c.dense)

CheckpointOpens(f) ==
  /\ Discovered(f) # {} /\ Discovered(f) \subseteq DOMAIN f.shards
  /\ RequiredTensors(f)

MatrixOf(f, tensor) ==
  [dtype |-> tensor.dtype, rows |-> tensor.rows, columns |-> tensor.columns,
   blocks |-> tensor.blocks, cpu |-> f.cpu]
Matrix(f, name) == MatrixOf(f, f.tensors[name])
Joined(f, first, second) == ConcatenateRows(Matrix(f, first), Matrix(f, second))

AttentionWeights(f) ==
  [query |-> Matrix(f, "attn_q"), key |-> Matrix(f, "attn_k"), value |-> Matrix(f, "attn_v"),
   output |-> Matrix(f, "attn_output")]

\* The projections of the convolution's input and of the gates are one product
\* where their types agree.
DeltaWeights(f) ==
  [qkvz |-> IF SameDtype(f, "attn_qkv", "attn_gate")
            THEN <<Joined(f, "attn_qkv", "attn_gate")>>
            ELSE <<Matrix(f, "attn_qkv"), Matrix(f, "attn_gate")>>,
   betaAlpha |-> IF Heads(f).interleaved THEN Matrix(f, "ssm_ba")
                 ELSE Joined(f, "ssm_beta", "ssm_alpha"),
   output |-> Matrix(f, "ssm_out")]

MoeWeights(f) ==
  [router |-> Matrix(f, "ffn_gate_inp"),
   sharedGateUp |-> Joined(f, "ffn_gate_shexp", "ffn_up_shexp"),
   sharedDown |-> Matrix(f, "ffn_down_shexp"),
   sharedSelector |-> f.vectors["ffn_gate_inp_shexp"],
   experts |-> [e \in Indices(f.config.experts) |->
                  [gateUp |-> ConcatenateRows(MatrixOf(f, f.experts[e].gate),
                                              MatrixOf(f, f.experts[e].up)),
                   down |-> MatrixOf(f, f.experts[e].down)]]]

NewLayerState(f) ==
  IF KindOf(f) = "linear" THEN [conv |-> NewConv(Heads(f)), recurrent |-> NewRecurrent(Heads(f))]
  ELSE [keys |-> << >>, values |-> << >>, positions |-> 0]

\* Drafts are scored against the whole head where no part of it is asked for.
DraftRows(f) ==
  IF DraftVocab = 0 THEN f.config.vocab ELSE Min({DraftVocab, f.config.vocab})

LayerInit ==
  /\ file = NoFile /\ weights = Nothing /\ phase = "closed"
  /\ fed = << >> /\ rows = Nothing /\ shown = << >> /\ slots = << >>
  /\ asked = Nothing /\ work = Nothing /\ alone = << >>

LoadWeights(f) ==
  [mixer |-> IF KindOf(f) = "linear" THEN DeltaWeights(f) ELSE AttentionWeights(f),
   moe |-> MoeWeights(f),
   embedding |-> Matrix(f, "token_embd"), head |-> Matrix(f, "output"),
   draftHead |-> LeadingRows(Matrix(f, "output"), DraftRows(f))]

Opened(f) == Amended([config |-> FromJson(f.json)], f)

\* Numbers in a configuration and sizes in a file are unsigned; a pass has a row.
Numbers(c) ==
  {c.vocab, c.hidden, c.layers, c.queryHeads, c.kvHeads, c.headDim, c.keyHeads, c.valueHeads, c.keyDim,
   c.valueDim, c.experts, c.expertsPerToken, c.intermediate, c.sharedIntermediate, c.dense}
IsTyped(f) ==
  /\ f.format \in {"gguf", "safetensors"} /\ f.threads \in Nat /\ Numbers(f.config) \subseteq Nat
  /\ \A name \in DOMAIN f.tensors : f.tensors[name].rows \in Nat /\ f.tensors[name].columns \in Nat
  /\ f.format = "gguf" => f.cpu.exact \in BOOLEAN

ASSUME LayerAssumption ==
  /\ \A f \in Files : IsTyped(Opened(f))
  /\ DraftVocab \in Nat /\ RowPasses \subseteq Seq(Nat) \ {<< >>}

\* A file that does not load ends the start.  The reference model loads a weight
\* each time it uses it.
Open(f) ==
  /\ phase = "closed"
  /\ \E opened \in {Opened(f)} :
       /\ Valid(opened.config)
       /\ IF opened.format = "gguf" THEN ModelLoads(opened) ELSE CheckpointOpens(opened)
       /\ file' = opened
       /\ weights' = IF opened.format = "gguf" THEN LoadWeights(opened) ELSE Nothing
       /\ rows' = NewLayerState(opened)
  /\ phase' = "idle"
  /\ UNCHANGED <<fed, shown, slots, asked, work, alone>>

(***************************************************************************)
(* A pass, and each of its rows alone before it.                           *)
(***************************************************************************)
rigid == <<file, weights, fed, rows, shown, asked, alone>>
Working(in) == phase = in /\ UNCHANGED rigid
IsReference == file.format = "safetensors"

\* A pass that verifies drafts returns the logits of every row, another one of the
\* last; a predictor scores its drafts, one at a time, against a part of the
\* vocabulary, and nothing where it only catches up.
LogitRows(tokens, judged) ==
  CASE KindOf(file) # "predictor" -> IF judged THEN {"all"} ELSE {"last"}
    [] KindOf(file) = "predictor" /\ Len(tokens) = 1 -> {"drafts", "none"}
    [] OTHER -> {"none"}

\* A verification pass is judged, and reserves a slot per row for a linear layer;
\* a predictor's drafts may be taken back too.
Ask(tokens, judged) ==
  /\ phase = "idle" /\ ~IsReference /\ Len(fed) + Len(tokens) <= MaxRowsFed
  /\ judged => Len(tokens) > 1 \/ KindOf(file) = "predictor"
  /\ \E logits \in LogitRows(tokens, judged) :
       asked' = [tokens |-> tokens, judged |-> judged, logits |-> logits]
  /\ fed' = fed \o tokens
  /\ slots' = [r \in Indices(IF judged /\ KindOf(file) = "linear" THEN Len(tokens) ELSE 0) |->
                 NewLayerState(file)]
  /\ phase' = "taken"
  /\ UNCHANGED <<file, weights, rows, shown, work, alone>>

\* The reference model's passes: a prefill starts from a new state, a decode step
\* follows it.
Prefill(tokens) ==
  /\ phase = "idle" /\ IsReference /\ Len(tokens) <= MaxRowsFed
  /\ asked' = [tokens |-> tokens, judged |-> FALSE, logits |-> "all"]
  /\ rows' = NewLayerState(file)
  /\ fed' = tokens /\ alone' = << >> /\ shown' = << >>
  /\ phase' = "taken"
  /\ UNCHANGED <<file, weights, slots, work>>

Decode(token) ==
  /\ phase = "idle" /\ IsReference /\ fed # << >> /\ Len(fed) < MaxRowsFed
  /\ asked' = [tokens |-> <<token>>, judged |-> FALSE, logits |-> "all"]
  /\ fed' = Append(fed, token)
  /\ phase' = "taken"
  /\ UNCHANGED <<file, weights, rows, shown, slots, work, alone>>

StateAlone == IF alone = << >> THEN NewLayerState(file) ELSE Last(alone).state

\* gguf_rms_norm of each row of a pass.
NormedRows(xs, count, weight) ==
  LET hidden == file.config.hidden
      row == [r \in Indices(count) |-> RmsNorm(Slice(xs, r * hidden, hidden), weight)]
  IN [i \in DOMAIN xs |-> row[i \div hidden][i % hidden]]

NewWork(lone, tokens, position, state) ==
  [lone |-> lone, tokens |-> tokens, count |-> Len(tokens), position |-> position, state |-> state,
   xs |-> Nothing, normed |-> Nothing, mixed |-> Nothing, routes |-> Nothing,
   queries |-> Nothing, gates |-> Nothing, first |-> 0, buffer |-> Nothing, accumulator |-> Nothing,
   qkv |-> Nothing, betaAlpha |-> Nothing, token |-> 0]

TakeUp ==
  /\ Working("taken") /\ UNCHANGED slots
  /\ work' = IF Len(alone) < Len(fed)
             THEN NewWork(TRUE, <<fed[Len(alone) + 1]>>, Len(alone), StateAlone)
             ELSE NewWork(FALSE, asked.tokens, Len(fed) - Len(asked.tokens), rows)
  /\ phase' = "entering"

\* The tokens' rows of the embedding.
Embeddings ==
  LET hidden == file.config.hidden
  IN [i \in Indices(work.count * hidden) |->
        WeightRow(weights.embedding, work.tokens[i \div hidden + 1])[i % hidden]]
TargetHidden ==
  LET hidden == file.config.hidden
  IN [i \in Indices(work.count * hidden) |-> Hidden(work.tokens[i \div hidden + 1])[i % hidden]]

\* A predictor's row is its token and the target's row before it, normed,
\* side by side and projected.
Paired(embeddings, hiddens) ==
  LET hidden == file.config.hidden
  IN [i \in Indices(2 * work.count * hidden) |->
        LET row == i \div (2 * hidden)
            column == i % (2 * hidden)
        IN IF column < hidden THEN embeddings[row * hidden + column]
           ELSE hiddens[row * hidden + column - hidden]]

PredictorInput ==
  LET embeddings == NormedRows(Embeddings, work.count, file.vectors["enorm"])
      hiddens == NormedRows(TargetHidden, work.count, file.vectors["hnorm"])
  IN Forward(Matrix(file, "eh_proj"), Paired(embeddings, hiddens), work.count)

Enter ==
  /\ Working("entering") /\ ~IsReference /\ UNCHANGED slots
  /\ \E xs \in {IF KindOf(file) = "predictor" THEN PredictorInput ELSE Embeddings} :
       work' = [work EXCEPT !.xs = xs,
                            !.normed = NormedRows(xs, work.count, file.vectors["attn_norm"])]
  /\ phase' = IF KindOf(file) = "linear" THEN "delta" ELSE "attention"

Product(matrix) == Forward(matrix, work.normed, work.count)

(***************************************************************************)
(* Attention.                                                              *)
(***************************************************************************)
Shape ==
  [seq |-> work.count, existing |-> work.position, queryHeads |-> file.config.queryHeads,
   kvHeads |-> file.config.kvHeads, headDim |-> file.config.headDim, threads |-> file.threads]

\* The heads of each token, as rows of heads of a product.
TokenHeads(product, heads, width) ==
  [token \in Indices(work.count) |->
     [head \in Indices(heads) |-> Slice(product, (token * heads + head) * width, width)]]

Positioned(vector, weight, token) ==
  Rotated(ConvertedNorm(vector, weight), work.position + token, file.config.rotaryDim)

Extended(array, heads) ==
  LET width == file.config.headDim
      perToken == file.config.kvHeads * width
  IN Concatenated(array, [i \in Indices(work.count * perToken) |->
                            heads[i \div perToken][(i % perToken) \div width][i % width]])

\* A query head's product holds the query and its gate.  The rows are cached
\* before the scan, at the position the cache has to be at.
Projected(query, key, value, queryNorm, keyNorm) ==
  LET c == file.config
      projected == TokenHeads(query, c.queryHeads, 2 * c.headDim)
      keys == TokenHeads(key, c.kvHeads, c.headDim)
      values == TokenHeads(value, c.kvHeads, c.headDim)
      rotated == [token \in DOMAIN keys |-> [head \in DOMAIN keys[token] |->
                    Positioned(keys[token][head], keyNorm, token)]]
  IN [queries |-> [token \in DOMAIN projected |-> [head \in DOMAIN projected[token] |->
                     Positioned(Slice(projected[token][head], 0, c.headDim), queryNorm, token)]],
      gates |-> [token \in DOMAIN projected |-> [head \in DOMAIN projected[token] |->
                   Slice(projected[token][head], c.headDim, c.headDim)]],
      state |-> [keys |-> Extended(work.state.keys, rotated),
                 values |-> Extended(work.state.values, values),
                 positions |-> work.position + work.count]]

ProjectAttention ==
  LET mixer == weights.mixer
  IN /\ Working("attention") /\ UNCHANGED slots
     /\ work.state.positions = work.position
     /\ \E projected \in {Projected(Product(mixer.query), Product(mixer.key), Product(mixer.value),
                                     file.vectors["attn_q_norm"], file.vectors["attn_k_norm"])} :
          work' = [work EXCEPT
                     !.queries = projected.queries, !.gates = projected.gates,
                     !.state = projected.state,
                     !.buffer = NewProbabilities(Shape), !.accumulator = NewAccumulator(Shape),
                     !.mixed = [i \in Indices(work.count * Shape.queryHeads * Shape.headDim) |-> 0]]
     /\ phase' = IF ~work.lone /\ ScanPlan(Shape) = "blocked" THEN "scores" ELSE "heads"

ScanHeads ==
  /\ Working("heads") /\ UNCHANGED slots
  /\ work' = [work EXCEPT !.mixed = PerHeadScan(Shape, work.queries, work.gates,
                                                work.state.keys, work.state.values)]
  /\ phase' = "output"

Chunk == ChunkAt(Shape, work.first)

ScanScores ==
  /\ Working("scores") /\ UNCHANGED slots
  /\ work' = [work EXCEPT !.buffer = Scores(Shape, Chunk, work.queries, work.state.keys, @)]
  /\ phase' = "softmax"

ScanSoftmax ==
  /\ Working("softmax") /\ UNCHANGED slots
  /\ work' = [work EXCEPT !.buffer = Softmax(Shape, Chunk, @)]
  /\ phase' = "weighted sum"

ScanWeightedSum ==
  /\ Working("weighted sum") /\ UNCHANGED slots
  /\ work' = [work EXCEPT !.accumulator =
                WeightedSum(Shape, Chunk, work.buffer, work.state.values, @)]
  /\ phase' = "gather"

ScanGather ==
  /\ Working("gather") /\ UNCHANGED slots
  /\ work' = [work EXCEPT !.mixed = Gathered(Shape, Chunk, work.accumulator, work.gates, @),
                          !.first = @ + Chunk.rows]
  /\ phase' = IF work.first + Chunk.rows = work.count THEN "output" ELSE "scores"

(***************************************************************************)
(* The recurrence.                                                         *)
(***************************************************************************)
Storing == asked.judged /\ ~work.lone

ProjectDelta ==
  LET h == Heads(file)
      products == [m \in DOMAIN weights.mixer.qkvz |-> Product(weights.mixer.qkvz[m])]
      width == Width(products[1]) \div work.count
      gate(token, i) == IF Len(products) = 1 THEN products[1][token * width + ConvDim(h) + i]
                        ELSE products[2][token * ValueDim(h) + i]
      betaAlpha == Product(weights.mixer.betaAlpha)
  IN /\ Working("delta")
     /\ work' = [work EXCEPT
                   !.qkv = [token \in Indices(work.count) |->
                              Slice(products[1], token * width, ConvDim(h))],
                   !.gates = [i \in Indices(work.count * ValueDim(h)) |->
                                gate(i \div ValueDim(h), i % ValueDim(h))],
                   !.betaAlpha = [token \in Indices(work.count) |->
                                    Slice(betaAlpha, token * 2 * h.value, 2 * h.value)]]
     /\ slots' = IF Storing THEN [slots EXCEPT ![0] = work.state] ELSE slots
     /\ phase' = "rows"

\* The state after a row is stored as the one before the next.
ConsumeRow ==
  LET vectors == [conv |-> file.vectors["ssm_conv1d"], scales |-> file.vectors["ssm_a"],
                  bias |-> file.vectors["ssm_dt"]]
      step == DeltaRow(Heads(file), work.qkv[work.token], work.betaAlpha[work.token], vectors,
                       work.state)
      after == [conv |-> step.conv, recurrent |-> step.recurrent]
  IN /\ Working("rows")
     /\ work' = [work EXCEPT !.state = after, !.mixed = Concatenated(@, step.output),
                             !.token = @ + 1]
     /\ slots' = IF Storing /\ work.token + 1 < work.count
                 THEN [slots EXCEPT ![work.token + 1] = after] ELSE slots
     /\ phase' = IF work.token + 1 = work.count THEN "gated norm" ELSE "rows"

NormDelta ==
  /\ Working("gated norm") /\ UNCHANGED slots
  /\ work' = [work EXCEPT !.mixed = GatedNorm(Heads(file), @, work.gates, file.vectors["ssm_norm"])]
  /\ phase' = "output"

(***************************************************************************)
(* The rest of the layer.                                                  *)
(***************************************************************************)
Output ==
  LET projected == Forward(weights.mixer.output, work.mixed, work.count)
      hidden == [i \in DOMAIN work.xs |-> Plus(work.xs[i], projected[i])]
  IN /\ Working("output") /\ UNCHANGED slots
     /\ work' = [work EXCEPT !.xs = hidden,
                   !.normed = NormedRows(hidden, work.count, file.vectors["post_attention_norm"])]
     /\ phase' = "route"

RouteRows ==
  LET c == file.config
      logits == Product(weights.moe.router)
  IN /\ Working("route") /\ UNCHANGED slots
     /\ work' = [work EXCEPT !.routes = [row \in Indices(work.count) |->
                               Route(Slice(logits, row * c.experts, c.experts),
                                     c.expertsPerToken, c.normTopk)]]
     /\ phase' = "experts"

\* A shared expert of another width than the routed ones is refused here.
Experts ==
  LET hidden == file.config.hidden
      routed == RoutedExperts(weights.moe.experts, work.normed, hidden, work.routes)
      shared == SharedExpert(weights.moe, work.normed, hidden, work.count)
  IN /\ Working("experts") /\ UNCHANGED slots
     /\ weights.moe.sharedDown.columns = file.config.intermediate
     /\ work' = [work EXCEPT !.xs =
                   [i \in DOMAIN work.xs |-> Plus(work.xs[i], Plus(routed[i], shared[i]))]]
     /\ phase' = "final norm"

(***************************************************************************)
(* The same layer in the reference model.                                  *)
(***************************************************************************)
TensorOf(name) == file.tensors[name]
DenseProduct(name) == Linear(TensorOf(name), work.normed, work.count)
HiddenType == TensorOf("embed_tokens").dtype

\* rms_norm, in the type of its rows.
ReferenceNorm(xs, name) ==
  RoundedAll(HiddenType, NormedRows(xs, work.count, OneCentered(file.vectors[name])))

ReferenceEnter ==
  LET hidden == file.config.hidden
      xs == [i \in Indices(work.count * hidden) |->
               WeightRow(TensorOf("embed_tokens"), work.tokens[i \div hidden + 1])[i % hidden]]
  IN /\ Working("entering") /\ IsReference /\ UNCHANGED slots
     /\ work' = [work EXCEPT !.xs = xs, !.normed = ReferenceNorm(xs, "input_layernorm")]
     /\ phase' = IF KindOf(file) = "linear" THEN "reference delta" ELSE "reference attention"

ReferenceProject ==
  /\ Working("reference attention") /\ UNCHANGED slots
  /\ work.state.positions = work.position
  /\ \E projected \in {Projected(DenseProduct("q_proj"), DenseProduct("k_proj"), DenseProduct("v_proj"),
                                  OneCentered(file.vectors["q_norm"]),
                                  OneCentered(file.vectors["k_norm"]))} :
       work' = [work EXCEPT !.queries = projected.queries, !.gates = projected.gates,
                            !.state = projected.state]
  /\ phase' = "reference scan"

ReferenceAttend ==
  /\ Working("reference scan") /\ UNCHANGED slots
  /\ work' = [work EXCEPT !.mixed = ReferenceScan(Shape, work.queries, work.gates,
                                                  work.state.keys, work.state.values)]
  /\ phase' = "reference output"

ReferenceDelta ==
  LET h == Heads(file)
      qkvz == DenseProduct("in_proj_qkvz")
      betaAlpha == DenseProduct("in_proj_ba")
      width == h.key * ProjectedWidth(h)
      projected(token) == Slice(qkvz, token * width, width)
  IN /\ Working("reference delta") /\ UNCHANGED slots
     /\ work' = [work EXCEPT
                   !.qkv = [token \in Indices(work.count) |-> ConvInput(h, projected(token))],
                   !.gates = [i \in Indices(work.count * ValueDim(h)) |->
                                ValueGates(h, projected(i \div ValueDim(h)))[i % ValueDim(h)]],
                   !.betaAlpha = [token \in Indices(work.count) |->
                                    Slice(betaAlpha, token * 2 * h.value, 2 * h.value)]]
     /\ phase' = "reference rows"

ReferenceRow ==
  LET vectors == [conv |-> file.vectors["conv1d"], scales |-> DecayScales(file.vectors["A_log"]),
                  bias |-> file.vectors["dt_bias"]]
      step == DeltaRow(Heads(file), work.qkv[work.token], work.betaAlpha[work.token], vectors,
                       work.state)
  IN /\ Working("reference rows") /\ UNCHANGED slots
     /\ work' = [work EXCEPT !.state = [conv |-> step.conv, recurrent |-> step.recurrent],
                             !.mixed = Concatenated(@, step.output), !.token = @ + 1]
     /\ phase' = IF work.token + 1 = work.count THEN "reference gated norm" ELSE "reference rows"

ReferenceGatedNorm ==
  /\ Working("reference gated norm") /\ UNCHANGED slots
  /\ work' = [work EXCEPT !.mixed =
                RoundedAll(HiddenType, GatedNorm(Heads(file), RoundedAll(HiddenType, @), work.gates,
                                                 file.vectors["linear_norm"]))]
  /\ phase' = "reference output"

\* Rows are added to rows of their own type only.
ReferenceOutput ==
  LET output == TensorOf(IF KindOf(file) = "linear" THEN "out_proj" ELSE "o_proj")
      projected == Linear(output, work.mixed, work.count)
      hidden == [i \in DOMAIN work.xs |-> Rounded(HiddenType, Plus(work.xs[i], projected[i]))]
  IN /\ Working("reference output") /\ UNCHANGED slots
     /\ output.dtype = HiddenType
     /\ work' = [work EXCEPT !.xs = hidden,
                             !.normed = ReferenceNorm(hidden, "post_attention_layernorm")]
     /\ phase' = "reference route"

ReferenceRoute ==
  LET c == file.config
      logits == DenseProduct("gate")
  IN /\ Working("reference route") /\ UNCHANGED slots
     /\ work' = [work EXCEPT !.routes =
                   IF ~LayerIsMoe(c, file.layer) THEN << >>
                   ELSE [row \in Indices(work.count) |->
                           Route(Slice(logits, row * c.experts, c.experts),
                                 c.expertsPerToken, c.normTopk)]]
     /\ phase' = "reference experts"

MlpOf(gate, up, down) == [gate |-> TensorOf(gate), up |-> TensorOf(up), down |-> TensorOf(down)]

ReferenceExperts ==
  LET c == file.config
      forwarded ==
        IF LayerIsMoe(c, file.layer)
        THEN RoundedAll(HiddenType,
               SparseMoe(file.experts, MlpOf("shared_gate_proj", "shared_up_proj", "shared_down_proj"),
                         TensorOf("shared_expert_gate"), work.normed, c.hidden, work.routes))
        ELSE Mlp(MlpOf("gate_proj", "up_proj", "down_proj"), work.normed, work.count)
  IN /\ Working("reference experts") /\ UNCHANGED slots
     /\ work' = [work EXCEPT !.xs =
                   [i \in DOMAIN work.xs |-> Rounded(HiddenType, Plus(work.xs[i], forwarded[i]))]]
     /\ phase' = "final norm"

(***************************************************************************)
(* The end of a pass.                                                      *)
(***************************************************************************)
FinalNorm ==
  LET norm == IF KindOf(file) = "predictor" THEN "shared_head_norm" ELSE "output_norm"
  IN /\ Working("final norm") /\ UNCHANGED slots
     /\ work' = [work EXCEPT !.normed = IF IsReference THEN ReferenceNorm(work.xs, "norm")
                   ELSE NormedRows(work.xs, work.count, file.vectors[norm])]
     /\ phase' = "head"

\* The embedding is the head too where the configuration says so.
ReferenceLogits == DenseProduct(IF file.config.tied THEN "embed_tokens" ELSE "lm_head")

\* The logits of a pass's rows, where they are wanted.
Logits ==
  LET hidden == file.config.hidden
      ofAll(matrix, product) ==
        [r \in 1..work.count |-> Slice(product, (r - 1) * matrix.rows, matrix.rows)]
      last == Slice(work.normed, (work.count - 1) * hidden, hidden)
      wanted == IF work.lone THEN "all" ELSE asked.logits
  IN CASE IsReference -> ofAll(TensorOf("lm_head"), ReferenceLogits)
       [] ~IsReference /\ wanted = "all" -> ofAll(weights.head, Product(weights.head))
       [] ~IsReference /\ wanted = "drafts" -> ofAll(weights.draftHead, Product(weights.draftHead))
       [] ~IsReference /\ wanted = "last" ->
            [r \in 1..work.count |-> IF r = work.count THEN Forward(weights.head, last, 1) ELSE Nothing]
       [] OTHER -> [r \in 1..work.count |-> Nothing]

LmHead ==
  LET hidden == file.config.hidden IN
  /\ phase = "head"
  /\ \E logits \in {Logits} :
       LET output == [r \in 1..work.count |->
                        [hidden |-> Slice(work.normed, (r - 1) * hidden, hidden),
                         logits |-> logits[r]]]
       IN IF work.lone
          THEN /\ alone' = Append(alone, [state |-> work.state, output |-> output[1]])
               /\ phase' = "taken" /\ UNCHANGED <<rows, shown, asked>>
          ELSE /\ rows' = work.state /\ shown' = output
               /\ IF asked.judged THEN phase' = "judge" /\ UNCHANGED asked
                  ELSE phase' = "idle" /\ asked' = Nothing
               /\ UNCHANGED alone
  /\ work' = Nothing
  /\ UNCHANGED <<file, weights, fed, slots>>

\* QuantizedAttentionState::truncate.
Truncate(state, positions) ==
  LET kept(array) == Slice(array, 0, positions * (Width(array) \div state.positions))
  IN IF positions = 0 THEN NewLayerState(file)
     ELSE [keys |-> kept(state.keys), values |-> kept(state.values), positions |-> positions]

\* The rows past those kept are rolled back, all of them if the pass failed after
\* this layer.
Judged ==
  /\ phase = "judge"
  /\ \E kept \in 0..Len(asked.tokens) :
       LET before == Len(fed) - Len(asked.tokens) IN
       /\ rows' = CASE kept = Len(asked.tokens) -> rows
                    [] kept < Len(asked.tokens) /\ KindOf(file) # "linear" ->
                         Truncate(rows, before + kept)
                    [] OTHER -> slots[kept]
       /\ fed' = SubSeq(fed, 1, before + kept)
       /\ alone' = SubSeq(alone, 1, before + kept)
       /\ shown' = SubSeq(shown, 1, kept)
  /\ slots' = << >> /\ asked' = Nothing /\ phase' = "idle"
  /\ UNCHANGED <<file, weights, work>>

\* A new state for another text.
StartOver ==
  /\ phase = "idle" /\ fed # << >> /\ ~IsReference
  /\ rows' = NewLayerState(file)
  /\ fed' = << >> /\ alone' = << >> /\ shown' = << >>
  /\ UNCHANGED <<file, weights, phase, slots, asked, work>>

LayerNext ==
  \/ \E f \in Files : Open(f)
  \/ \E tokens \in RowPasses, judged \in BOOLEAN : Ask(tokens, judged)
  \/ \E tokens \in RowPasses : Prefill(tokens) \/ (\E token \in DOMAIN tokens : Decode(tokens[token]))
  \/ TakeUp \/ Enter
  \/ ProjectAttention \/ ScanHeads \/ ScanScores \/ ScanSoftmax \/ ScanWeightedSum \/ ScanGather
  \/ ProjectDelta \/ ConsumeRow \/ NormDelta
  \/ Output \/ RouteRows \/ Experts
  \/ ReferenceEnter \/ ReferenceProject \/ ReferenceAttend
  \/ ReferenceDelta \/ ReferenceRow \/ ReferenceGatedNorm
  \/ ReferenceOutput \/ ReferenceRoute \/ ReferenceExperts
  \/ FinalNorm \/ LmHead \/ Judged \/ StartOver

LayerSpec == LayerInit /\ [][LayerNext]_layerVars
-----------------------------------------------------------------------------
\* Between passes the state and the outputs are bit for bit those of the layer
\* fed its rows one by one, scanning head by head, and the logits those of the
\* whole head as far as they were asked for: the passes' widths, the kernels they
\* were sent to, tiles, chunks, blocks and threads, and what was rolled back, leave
\* no trace (quantized_attention.rs:605, deltanet.rs:116, gguf.rs:1043).
RowsStandAlone ==
  phase = "idle" =>
    /\ rows = StateAlone
    /\ \A i \in DOMAIN shown :
         LET lone == alone[Len(fed) - Len(shown) + i].output IN
         /\ shown[i].hidden = lone.hidden
         /\ \A j \in DOMAIN shown[i].logits : shown[i].logits[j] = lone.logits[j]
=============================================================================
