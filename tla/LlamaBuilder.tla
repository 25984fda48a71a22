---------------------------- MODULE LlamaBuilder ----------------------------
(***************************************************************************)
(* The graph of a dense Llama model: ModelGraphBuilder::BuildLlamaDense    *)
(* (src/model/model_graph_builder.cpp) over the helpers of                 *)
(* src/graph/graph_op_builder.cpp.                                         *)
(*                                                                         *)
(* The builder is a list of steps, each a call of one helper: [op, inputs, *)
(* weight, outputs, layer], where inputs and outputs are the names of the  *)
(* builder's local variables and weight is the binding of the weight value *)
(* the helper adds.  A graph is [ok, values, nodes, at]: values are        *)
(* [kind, binding, spec], nodes [op, inputs, outputs], and at maps local   *)
(* variables to values.  ok is FALSE once a helper returned an error: the  *)
(* steps that follow are not taken.  A binding is <<role, layer, slot>>.   *)
(***************************************************************************)
EXTENDS Integers, Sequences, SequencesExt

CONSTANT SizeBits  \* width of uint64_t

LOCAL I == INSTANCE TensorInference WITH query <- 0, Applications <- {}, Extents <- {}

(* The graph's shape symbols *)
SeqLen == -2
KvLen == -3

Global(role) == <<role, 0, "">>
OfLayer(layer, slot) == <<"layer", layer, slot>>

-----------------------------------------------------------------------------
(* graph_op_builder.cpp *)

EmptyGraph == [ok |-> TRUE, values |-> <<>>, nodes |-> <<>>, at |-> <<>>]
Abort(g) == [g EXCEPT !.ok = FALSE]

SpecOf(g, name) == g.values[g.at[name]].spec
Specs(g, names) == [i \in 1..Len(names) |-> SpecOf(g, names[i])]

Names(names, first) == [n \in ToSet(names) |-> first + CHOOSE i \in 1..Len(names) : names[i] = n]

AddValue(g, kind, binding, spec, name) ==
  [g EXCEPT !.values = Append(@, [kind |-> kind, binding |-> binding, spec |-> spec]),
            !.at = Names(<<name>>, Len(g.values)) @@ @]

AddInput(g, spec, name) == AddValue(g, "input", Global(name), spec, name)
AddState(g, spec, layer, slot) == AddValue(g, "state", OfLayer(layer, slot), spec, slot)

(* ModelGraph::AddNode: the outputs have the specs that inference finds; a *)
(* state keeps the binding of the cache that the node updates.             *)
Outputs(g, s, inferred) ==
  [i \in 1..Len(inferred.outputs) |->
     IF s.op = "KVCacheUpdate"
     THEN [kind |-> "state", binding |-> g.values[g.at[s.inputs[i + 2]]].binding,
           spec |-> inferred.outputs[i]]
     ELSE [kind |-> "activation", binding |-> Global(s.op), spec |-> inferred.outputs[i]]]

Attach(g, s, inputs, inferred) ==
  IF ~inferred.ok THEN Abort(g)
  ELSE [g EXCEPT !.values = @ \o Outputs(g, s, inferred),
                 !.nodes = Append(@, [op |-> s.op,
                                      inputs |-> [i \in 1..Len(inputs) |-> g.at[inputs[i]]],
                                      outputs |-> [i \in 1..Len(s.outputs) |-> Len(g.values) + i]]),
                 !.at = Names(s.outputs, Len(g.values)) @@ @]

AddNode(g, s, inputs, params) ==
  Attach(g, s, inputs, I!InferOperator(s.op, params, Specs(g, inputs)))

(* AddLinear, AddRmsNorm and AddEmbedding first add the weight: its last   *)
(* dimension is the input's, except for an embedding.                      *)
WeightShape(s, x, view) ==
  CASE s.op = "Linear" -> <<view.shape[1], Last(x.shape)>>
    [] s.op = "RmsNorm" -> <<Last(x.shape)>>
    [] s.op = "Embedding" -> <<view.shape[1], view.shape[2]>>

WeightAllowed(s, x, view) ==
  /\ s.op \in {"Linear", "RmsNorm"} => x.shape # <<>> /\ I!PositiveIfStatic(Last(x.shape))
  /\ s.op = "Linear" => view.shape[1] > 0
  /\ s.op = "Embedding" => view.shape[1] > 0 /\ view.shape[2] > 0

AddWeighted(g, s, x, view) ==
  IF ~WeightAllowed(s, x, view) THEN Abort(g)
  ELSE AddNode(AddValue(g, "weight", s.weight, I!Spec(view.dtype, WeightShape(s, x, view)), "weight"),
               s, Append(s.inputs, "weight"), 0)

(* What the other helpers check before they add their node.                *)
HelperAllows(g, s) ==
  CASE s.op = "Add" -> SpecOf(g, s.inputs[1]).dtype = SpecOf(g, s.inputs[2]).dtype
    [] s.op = "SiluMul" -> SpecOf(g, s.inputs[1]) = SpecOf(g, s.inputs[2])
    [] s.op = "KVCacheUpdate" ->
         \A i \in 3..4 : g.values[g.at[s.inputs[i]]].kind = "state"
    [] OTHER -> TRUE

AddPlain(g, s, params) == IF HelperAllows(g, s) THEN AddNode(g, s, s.inputs, params) ELSE Abort(g)

-----------------------------------------------------------------------------
(* model_graph_builder.cpp *)

Linear(x, weight, out) == [op |-> "Linear", inputs |-> <<x>>, weight |-> weight, outputs |-> <<out>>]
RmsNorm(x, weight, out) == [op |-> "RmsNorm", inputs |-> <<x>>, weight |-> weight, outputs |-> <<out>>]
Plain(op, inputs, outputs) ==
  [op |-> op, inputs |-> inputs, weight |-> Global("none"), outputs |-> outputs]
CacheState(layer, slot) ==
  [op |-> "State", inputs |-> <<>>, weight |-> OfLayer(layer, slot), outputs |-> <<slot>>]

BuildAttentionBlock(l) ==
  <<RmsNorm("hidden", OfLayer(l, "input_norm"), "normed"),
    Linear("normed", OfLayer(l, "q"), "q"),
    Linear("normed", OfLayer(l, "k"), "k"),
    Linear("normed", OfLayer(l, "v"), "v"),
    Plain("RoPE", <<"q", "k", "position_ids">>, <<"rope.q", "rope.k">>),
    Plain("KVCacheUpdate", <<"rope.k", "v", "k_cache", "v_cache">>, <<"k_out", "v_out">>),
    Plain("Attention", <<"rope.q", "k_out", "v_out">>, <<"attn">>),
    Linear("attn", OfLayer(l, "o"), "o_proj"),
    Plain("Add", <<"hidden", "o_proj">>, <<"hidden">>)>>

BuildMlpBlock(l) ==
  <<RmsNorm("hidden", OfLayer(l, "post_norm"), "normed"),
    Linear("normed", OfLayer(l, "gate"), "gate"),
    Linear("normed", OfLayer(l, "up"), "up"),
    Plain("SiluMul", <<"gate", "up">>, <<"act">>),
    Linear("act", OfLayer(l, "down"), "down"),
    Plain("Add", <<"hidden", "down">>, <<"hidden">>)>>

BuildDecoderLayer(l) ==
  <<CacheState(l, "k_cache"), CacheState(l, "v_cache")>>
  \o BuildAttentionBlock(l) \o BuildMlpBlock(l)

Steps(layers) ==
  <<[op |-> "Embedding", inputs |-> <<"token_ids">>, weight |-> Global("embed"),
     outputs |-> <<"hidden">>]>>
  \o FlattenSeq([l \in 1..layers |-> BuildDecoderLayer(l - 1)])
  \o <<RmsNorm("hidden", Global("norm"), "final"),
       Linear("final", Global("lm_head"), "logits"),
       Plain("Argmax", <<"logits">>, <<"output">>)>>

(* The view a weight binding stands for: a model without lm_head ties it   *)
(* to the embedding.                                                       *)
ViewOf(weights, binding) ==
  IF binding = Global("lm_head") /\ binding \notin DOMAIN weights
  THEN weights[Global("embed")] ELSE weights[binding]

HeadDim(config) ==
  IF config.head_dim # 0 THEN config.head_dim
  ELSE config.hidden_size \div config.num_attention_heads

MakeParams(config) ==
  [head_dim |-> HeadDim(config), num_attention_heads |-> config.num_attention_heads,
   num_key_value_heads |-> config.num_key_value_heads, axis |-> -1,
   valid |-> /\ config.max_position_embeddings > 0 /\ config.rope.theta > 0
             /\ IF config.rope.type = "none" THEN config.rope.factor = <<>>
                ELSE config.rope.factor # <<>> /\ config.rope.factor[1] > 0]

KVCacheTensorSpec(config) ==
  I!Spec(IF config.hint = "undefined" THEN "f32" ELSE config.hint,
         <<config.num_key_value_heads, KvLen, HeadDim(config)>>)

Take(g, s, config, weights) ==
  CASE ~g.ok -> g
    [] g.ok /\ s.op = "State" -> AddState(g, KVCacheTensorSpec(config), s.weight[2], s.weight[3])
    [] g.ok /\ s.op \in {"Linear", "RmsNorm", "Embedding"} ->
         AddWeighted(g, s, SpecOf(g, s.inputs[1]), ViewOf(weights, s.weight))
    [] OTHER -> AddPlain(g, s, MakeParams(config))

(* valid says what the validator decided, that runs first with RoPE        *)
(* scaling allowed; of the scaling types only two have a meaning here.     *)
BuildLlamaDense(valid, config, weights) ==
  IF ~valid \/ config.rope.type \notin {"none", "linear"} THEN Abort(EmptyGraph)
  ELSE FoldLeft(LAMBDA g, s : Take(g, s, config, weights),
                AddInput(AddInput(EmptyGraph, I!Spec("i64", <<SeqLen>>), "token_ids"),
                         I!Spec("i64", <<SeqLen>>), "position_ids"),
                Steps(config.num_hidden_layers))
=============================================================================
