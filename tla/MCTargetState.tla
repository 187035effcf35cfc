--------------------------- MODULE MCTargetState ---------------------------
(* Small instances of TargetState.tla - a linear layer before and after the
   full-attention one, as in the model's repeating block - and of one layer with
   its numbers, DecoderLayer.tla; a behaviour is about one of the two. *)
EXTENDS TargetState, DecoderLayer

MCToken == {0, 1}
MCKind == <<"linear", "full", "linear">>
MCPasses == {<<0>>, <<1, 0>>, <<0, 1, 1>>}
MCForeign == {<<1>>}

(***************************************************************************)
(* Numbers: remainders of a prime, with a sum and a product that commute   *)
(* and are not associative.                                                *)
(***************************************************************************)
Prime == 32749
MCUnary(f, x) ==
  LET k == CASE f = "exp" -> 3 [] f = "sigmoid" -> 5 [] f = "silu" -> 7 [] f = "softplus" -> 11
             [] f = "inverse root" -> 13 [] f = "root mean" -> 17 [] f = "quantize" -> 19
             [] f = "negative" -> 23 [] f = "round" -> 29
  IN ((k * x) + (((x + k) * (x + k)) % Prime) + k) % Prime
MCBinary(op, x, y) ==
  CASE op = "+" -> (3 * (x + y) + x * y + 1) % Prime
    [] op = "*" -> (7 * (x + y) + x * y + 2) % Prime
    [] op = "-" -> (5 * x + 11 * y + x * y + 3) % Prime
    [] op = "/" -> (13 * x + 3 * y + x * y + 4) % Prime
    [] op = "block" -> (17 * x + 29 * y + x * y + 5) % Prime
    [] op = "mins" -> (7 * x + 41 * y + x * y + 8) % Prime
    [] op = "cos" -> (19 * x + 31 * y + 6) % Prime
    [] op = "sin" -> (23 * x + 37 * y + 7) % Prime

Weight(seed, i) == (1009 * seed + 211 * i + 31 * i * i) % Prime
MCHidden(token) == [i \in 0..1 |-> Weight(90 + token, i)]

MCConfig ==
  [hidden |-> 2, queryHeads |-> 4, kvHeads |-> 2, headDim |-> 3, rotaryDim |-> 2,
   keyHeads |-> 2, valueHeads |-> 4, keyDim |-> 2, valueDim |-> 1, kernel |-> 3,
   experts |-> 3, expertsPerToken |-> 2, intermediate |-> 1,
   sharedIntermediate |-> 2, vocab |-> 3, layers |-> 1]

Tensor(seed, dtype, rowCount, columns) ==
  [dtype |-> dtype, rows |-> rowCount, columns |-> columns,
   blocks |-> [i \in Indices(rowCount * columns) |-> Weight(seed, i)]]
Vector(seed, n) == [i \in Indices(n) |-> Weight(seed, i)]

FullTensors(dtype, outDtype) ==
  [name \in {"attn_q", "attn_k", "attn_v", "attn_output"} |->
     CASE name = "attn_q" -> Tensor(1, dtype, 24, 2)
       [] name = "attn_k" -> Tensor(2, dtype, 6, 2)
       [] name = "attn_v" -> Tensor(3, outDtype, 6, 2)
       [] name = "attn_output" -> Tensor(4, outDtype, 2, 12)]
LinearTensors(dtype, gateDtype) ==
  [name \in {"attn_qkv", "attn_gate", "ssm_out"} |->
     CASE name = "attn_qkv" -> Tensor(5, dtype, 12, 2)
       [] name = "attn_gate" -> Tensor(6, gateDtype, 4, 2)
       [] name = "ssm_out" -> Tensor(7, dtype, 2, 4)]
InterleavedTensor == [name \in {"ssm_ba"} |-> Tensor(8, "Q8_0", 8, 2)]
GroupedTensors == [name \in {"ssm_beta", "ssm_alpha"} |->
                     Tensor(IF name = "ssm_beta" THEN 9 ELSE 10, "Q8_0", 4, 2)]
OtherTensors ==
  [name \in {"ffn_gate_inp", "ffn_gate_shexp", "ffn_up_shexp", "ffn_down_shexp", "token_embd",
             "output", "eh_proj"} |->
     CASE name = "ffn_gate_inp" -> Tensor(11, "F32", 3, 2)
       [] name = "ffn_gate_shexp" -> Tensor(12, "Q8_0", 1, 2)
       [] name = "ffn_up_shexp" -> Tensor(13, "Q8_0", 1, 2)
       [] name = "ffn_down_shexp" -> Tensor(14, "Q8_0", 2, 1)
       [] name = "token_embd" -> Tensor(15, "Q4K", 3, 2)
       [] name = "output" -> Tensor(16, "Q6K", 3, 2)
       [] name = "eh_proj" -> Tensor(17, "Q5K", 2, 4)]
MCVectors ==
  [name \in {"attn_norm", "post_attention_norm", "attn_q_norm", "attn_k_norm", "ssm_conv1d",
             "ssm_a", "ssm_dt", "ssm_norm", "ffn_gate_inp_shexp", "output_norm", "enorm",
             "hnorm", "shared_head_norm"} |->
     CASE name = "attn_norm" -> Vector(20, 2) [] name = "post_attention_norm" -> Vector(21, 2)
       [] name = "attn_q_norm" -> Vector(22, 3) [] name = "attn_k_norm" -> Vector(23, 3)
       [] name = "ssm_conv1d" -> Vector(24, 36) [] name = "ssm_a" -> Vector(25, 4)
       [] name = "ssm_dt" -> Vector(26, 4) [] name = "ssm_norm" -> Vector(27, 1)
       [] name = "ffn_gate_inp_shexp" -> Vector(28, 2) [] name = "output_norm" -> Vector(29, 2)
       [] name = "enorm" -> Vector(60, 2) [] name = "hnorm" -> Vector(61, 2)
       [] name = "shared_head_norm" -> Vector(62, 2)]
MCExperts ==
  [e \in 0..2 |-> [gate |-> Tensor(30 + e, "Q4K", 1, 2), up |-> Tensor(40 + e, "Q4K", 1, 2),
                   down |-> Tensor(50 + e, "Q5K", 2, 1)]]

File(json, layer, tensors) ==
  [format |-> "gguf", json |-> json @@ MCConfig, layer |-> layer, threads |-> 3, cpu |-> [exact |-> TRUE, fused |-> TRUE],
   tensors |-> tensors @@ OtherTensors, vectors |-> MCVectors, experts |-> MCExperts]
Full(json, layer) == File(json, layer, FullTensors("Q4K", "Q6K"))

ReferenceTensors(dtype) ==
  [name \in {"embed_tokens", "lm_head", "q_proj", "k_proj", "v_proj", "o_proj", "in_proj_qkvz",
             "in_proj_ba", "out_proj", "gate", "shared_gate_proj", "shared_up_proj",
             "shared_down_proj", "shared_expert_gate", "gate_proj", "up_proj", "down_proj"} |->
     CASE name = "embed_tokens" -> Tensor(15, dtype, 3, 2) [] name = "lm_head" -> Tensor(16, dtype, 3, 2)
       [] name = "q_proj" -> Tensor(1, dtype, 24, 2) [] name = "k_proj" -> Tensor(2, dtype, 6, 2)
       [] name = "v_proj" -> Tensor(3, dtype, 6, 2) [] name = "o_proj" -> Tensor(4, dtype, 2, 12)
       [] name = "in_proj_qkvz" -> Tensor(5, dtype, 16, 2) [] name = "in_proj_ba" -> Tensor(8, dtype, 8, 2)
       [] name = "out_proj" -> Tensor(7, dtype, 2, 4) [] name = "gate" -> Tensor(11, dtype, 3, 2)
       [] name \in {"shared_gate_proj", "shared_up_proj"} -> Tensor(12, dtype, 2, 2)
       [] name = "shared_down_proj" -> Tensor(14, dtype, 2, 2)
       [] name = "shared_expert_gate" -> Tensor(28, dtype, 1, 2)
       [] name \in {"gate_proj", "up_proj"} -> Tensor(17, dtype, 1, 2)
       [] name = "down_proj" -> Tensor(18, dtype, 2, 1)]
ReferenceVectors ==
  [name \in {"norm", "input_layernorm", "post_attention_layernorm", "q_norm", "k_norm", "conv1d",
             "dt_bias", "A_log", "linear_norm"} |->
     CASE name = "norm" -> Vector(29, 2) [] name = "input_layernorm" -> Vector(20, 2)
       [] name = "post_attention_layernorm" -> Vector(21, 2) [] name = "q_norm" -> Vector(22, 3)
       [] name = "k_norm" -> Vector(23, 3) [] name = "conv1d" -> Vector(24, 36)
       [] name = "dt_bias" -> Vector(26, 4) [] name = "A_log" -> Vector(25, 4)
       [] name = "linear_norm" -> Vector(27, 1)]
ReferenceNames ==
  DOMAIN ReferenceTensors("F32") \cup DOMAIN ReferenceVectors \cup {"experts"}
Reference(json, dtype) ==
  [format |-> "safetensors", json |-> json @@ MCConfig, layer |-> 0, threads |-> 3,
   tensors |-> ReferenceTensors(dtype), vectors |-> ReferenceVectors,
   experts |-> [e \in 0..2 |-> [gate |-> Tensor(30 + e, dtype, 1, 2), up |-> Tensor(40 + e, dtype, 1, 2),
                                down |-> Tensor(50 + e, dtype, 2, 1)]],
   shards |-> [shard \in {"model"} |-> ReferenceNames]]
Sharded == [shard \in {"first", "second"} |->
              IF shard = "first" THEN {"experts"} ELSE ReferenceNames \ {"experts"}]

\* Both kinds of layer, with and without the fused kernels, in both layouts of a
\* linear one, and a predictor; a build, a file and a configuration that must
\* not start; the same for the reference model, one checkpoint in shards, of
\* which another misses one.
MCFiles ==
  {Full([interval |-> 1], 0),
   [File([interval |-> 1, normTopk |-> FALSE], 0, FullTensors("Q5K", "Q8_0"))
      EXCEPT !.cpu.fused = FALSE, !.threads = 1],
   Full([mtpLayers |-> 1], 1),
   File([layerTypes |-> <<"linear">>], 0, LinearTensors("Q4K", "Q4K") @@ InterleavedTensor),
   [File([modelType |-> "qwen3_5_moe_text"], 0, LinearTensors("Q6K", "Q8_0") @@ GroupedTensors)
      EXCEPT !.json = [text |-> @]],
   [Full([interval |-> 1], 0) EXCEPT !.cpu.exact = FALSE],
   Full([interval |-> 1, headDim |-> 4], 0),
   Full([interval |-> 1, kvHeads |-> 3], 0),
   [index |-> {"first", "second"}, shards |-> Sharded] @@ Reference([interval |-> 1], "BF16"),
   Reference([mlpOnly |-> {0}, tied |-> TRUE], "F32"),
   [index |-> {"first", "third"}, shards |-> Sharded] @@ Reference([interval |-> 1], "BF16")}
MCRowPasses == {<<0>>, <<1, 0>>, <<0, 1, 1>>, <<1, 1, 0, 1>>}

VARIABLE subject
MCInit ==
  /\ subject \in {"layers", "one layer"}
  /\ Init /\ LayerInit
MCNext ==
  /\ \/ subject = "layers" /\ Next /\ UNCHANGED layerVars
     \/ subject = "one layer" /\ LayerNext /\ UNCHANGED vars
  /\ UNCHANGED subject
MCSpec == MCInit /\ [][MCNext]_<<subject, vars, layerVars>>
=============================================================================
