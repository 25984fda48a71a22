----------------------------- MODULE ModelGraph -----------------------------
(***************************************************************************)
(* The operator registry and the computation graph built on it.            *)
(*                                                                         *)
(* The registry has the port layout and traits of each operator            *)
(* (operator_schema.cpp) and the inference of its output specs from its    *)
(* input specs (InferOperator and the detail::Infer* functions of          *)
(* src/operators).  A tensor spec is [dtype, shape].  Every tensor of the  *)
(* model is a matrix whose trailing (feature) axes are fixed and agree, so *)
(* a shape keeps the row axis only: sequence length for activations,       *)
(* capacity for caches.  The data types are one float type of each width   *)
(* the operators tell apart and the integer type of token ids.  OpParams   *)
(* are well formed.  MatMul, Reshape, Permute and Argmax change the axes   *)
(* that are left out and are not in this registry.                         *)
(*                                                                         *)
(* The graph (graph.cpp, graph_types.h) has values, nodes, the checked     *)
(* construction of AddNode, the whole-graph validation and the             *)
(* topological order that optimisation and lowering start from.            *)
(*                                                                         *)
(* A graph is a record [nodes, values, inputs, outputs].  Ids are          *)
(* positions in the two sequences, counted from 1; 0 stands for the        *)
(* nullopt of an optional id or layer.  A value is                         *)
(*   [payload, binding, spec, producer]                                    *)
(* with payload one of "none" (monostate), "input", "weight", "const",     *)
(* "state" and "act".  One binding record [kind, slot, layer] serves the   *)
(* three binding types of the code:                                        *)
(*   weight   kind = semantic role or "none", slot = parameter slot        *)
(*   state    kind = "kv", "decode" or "streaming", slot = "key"/"value"   *)
(*   const    kind = "inline" or "named", slot = what the bytes hold       *)
(* A node is [op, layer, inputs, outputs, checks].  Names, quantization    *)
(* and op params are carried along unread by this code and left out.       *)
(***************************************************************************)
EXTENDS Shapes, FiniteSets

-----------------------------------------------------------------------------
(* Data types and operators *)

Floats == {"f32", "bf16"}
Integral == {"i64"}

OpTypes == {"Embedding", "RmsNorm", "Linear", "RoPE", "Softmax", "Reorder",
            "Add", "SiluMul", "Silu", "ElementwiseMul",
            "KVCacheUpdate", "Attention"}

-----------------------------------------------------------------------------
(* Schemas *)

InputPorts(op) ==
  CASE op = "Embedding" -> <<"input", "weight">>
    [] op \in {"RmsNorm", "Linear"} -> <<"act", "weight">>
    [] op = "RoPE" -> <<"act", "act", "input">>
    [] op \in {"Softmax", "Reorder", "Silu"} -> <<"act">>
    [] op \in {"Add", "SiluMul", "ElementwiseMul"} -> <<"act", "act">>
    [] op = "KVCacheUpdate" -> <<"act", "act", "state", "state">>
    [] op = "Attention" -> <<"act", "state", "state">>

OutputPorts(op) ==
  CASE op = "RoPE" -> <<"act", "act">>
    [] op = "KVCacheUpdate" -> <<"state", "state">>
    [] OTHER -> <<"act">>

(* Ports whose spec does not take part in spec derivation.                 *)
ContributesSpec(op, i) ==
  ~(op = "KVCacheUpdate" /\ i \in {3, 4}) /\ ~(op = "Attention" /\ i \in {2, 3})

HasSideEffects(op) == op = "KVCacheUpdate"
HasStatefulOutput(op) == \E i \in DOMAIN OutputPorts(op) : OutputPorts(op)[i] = "state"
IsCompileTimeEvaluable(op) == op \in {"Add", "SiluMul", "Silu", "ElementwiseMul"}

-----------------------------------------------------------------------------
(* Inference: [ok, outputs, checks], checks being the deferred constraints *)
(* as tuples <<kind, input port, ...>>.                                    *)

Failed == [ok |-> FALSE, outputs |-> <<>>, checks |-> {}]
Inferred(outputs, checks) == [ok |-> TRUE, outputs |-> outputs, checks |-> checks]
If(guard, result) == IF guard THEN result ELSE Failed

(* Add, ElementwiseMul and SiluMul: the output follows the left operand's  *)
(* data type.  Only ElementwiseMul takes operands of two float types.      *)
InferBroadcast(dtype, b) ==
  If(b.ok, Inferred(<<[dtype |-> dtype, shape |-> b.shape]>>,
                    {<<"broadcast", axes[1], axes[2]>> : axes \in b.deferred_axes}))

InferBinary(op, l, r) ==
  If(/\ op \in {"Add", "SiluMul"} => l.dtype = r.dtype
     /\ {l.dtype, r.dtype} \subseteq (IF op = "Add" THEN Floats \cup Integral ELSE Floats),
     InferBroadcast(l.dtype, InferBroadcastShape(l.shape, r.shape)))

(* Silu, Softmax, RmsNorm, Linear and Reorder keep the rows of the input.  *)
InferRowwise(op, x) ==
  If(op # "Reorder" => x.dtype \in Floats, Inferred(<<x>>, {}))

InferEmbedding(ids, weight) ==
  If(ids.dtype \in Integral /\ weight.dtype \in Floats,
     Inferred(<<[dtype |-> weight.dtype, shape |-> ids.shape]>>, {}))

SequenceLength(x) == x.shape[1]
Positive(x) == ~IsStatic(SequenceLength(x)) \/ SequenceLength(x) > 0
PositiveCheck(x) == IF IsStatic(SequenceLength(x)) THEN {} ELSE {<<"positive", 1, 1>>}

(* Reconciling two sequence lengths: refused when both are static and      *)
(* differ, deferred to the run time when they are not known to be equal.   *)
Reconcilable(x, y) ==
  \/ AreProvablyEqual(SequenceLength(x), SequenceLength(y))
  \/ ~(IsStatic(SequenceLength(x)) /\ IsStatic(SequenceLength(y)))
EqualCheck(x, y, port) ==
  IF AreProvablyEqual(SequenceLength(x), SequenceLength(y)) THEN {}
  ELSE {<<"equal", 1, port>>}

InferRoPE(q, k, positions) ==
  If(/\ q.dtype \in Floats /\ k.dtype = q.dtype /\ positions.dtype \in Integral
     /\ Positive(q) /\ Reconcilable(q, k) /\ Reconcilable(q, positions),
     Inferred(<<q, k>>,
              PositiveCheck(q) \cup EqualCheck(q, k, 2) \cup EqualCheck(q, positions, 3)))

InferKVCacheUpdate(k, v, k_cache, v_cache) ==
  If(/\ k.dtype \in Floats
     /\ v.dtype = k.dtype /\ k_cache.dtype = k.dtype /\ v_cache.dtype = k.dtype
     /\ AreProvablyEqual(SequenceLength(k), SequenceLength(v))
     /\ Positive(k)
     /\ AreProvablyEqual(SequenceLength(k_cache), SequenceLength(v_cache))
     /\ Positive(k_cache)
     /\ IsStatic(SequenceLength(k)) /\ IsStatic(SequenceLength(k_cache)) =>
          SequenceLength(k) <= SequenceLength(k_cache),
     Inferred(<<k_cache, v_cache>>, {}))

InferAttention(q, k_cache, v_cache) ==
  If(/\ q.dtype \in Floats /\ k_cache.dtype = q.dtype /\ v_cache.dtype = q.dtype
     /\ AreProvablyEqual(SequenceLength(k_cache), SequenceLength(v_cache))
     /\ Positive(q)
     /\ SequenceLength(k_cache) # 0,
     Inferred(<<q>>, PositiveCheck(q)))

(* The dispatch, with the input-count check every Infer* starts with.      *)
InferOperator(op, s) ==
  IF Len(s) # Len(InputPorts(op)) THEN Failed
  ELSE CASE op \in {"Add", "SiluMul", "ElementwiseMul"} -> InferBinary(op, s[1], s[2])
         [] op = "Embedding" -> InferEmbedding(s[1], s[2])
         [] op = "RoPE" -> InferRoPE(s[1], s[2], s[3])
         [] op = "KVCacheUpdate" -> InferKVCacheUpdate(s[1], s[2], s[3], s[4])
         [] op = "Attention" -> InferAttention(s[1], s[2], s[3])
         [] op \in {"RmsNorm", "Linear"} ->
              If(s[2].dtype \in Floats, InferRowwise(op, s[1]))
         [] OTHER -> InferRowwise(op, s[1])

-----------------------------------------------------------------------------
(* Construction *)

NoBinding == [kind |-> "none", slot |-> <<"none">>, layer |-> 0]
EmptyGraph == [nodes |-> <<>>, values |-> <<>>, inputs |-> <<>>, outputs |-> <<>>]

Value(payload, binding, spec, producer) ==
  [payload |-> payload, binding |-> binding, spec |-> spec, producer |-> producer]

NodeIds(g) == DOMAIN g.nodes
ValueIds(g) == DOMAIN g.values

AddValue(g, value) == [g EXCEPT !.values = Append(@, value)]

AddInput(g, spec) ==
  [AddValue(g, Value("input", NoBinding, spec, 0)) EXCEPT
     !.inputs = Append(@, Len(g.values) + 1)]
AddWeight(g, spec, binding) == AddValue(g, Value("weight", binding, spec, 0))
AddConstant(g, spec, binding) == AddValue(g, Value("const", binding, spec, 0))
AddState(g, spec, binding) == AddValue(g, Value("state", binding, spec, 0))
MarkOutput(g, v) == [g EXCEPT !.outputs = Append(@, v)]

-----------------------------------------------------------------------------
(* Payloads and bindings *)

(* An activation port also takes a constant. *)
PayloadMatchesPort(payload, kind) ==
  payload = kind \/ (kind = "act" /\ payload = "const")

ScaleRoles == {"InputNorm", "PostAttentionNorm", "FinalNorm"}
ModelRoles == {"TokenEmbedding", "FinalNorm", "LmHead"}
SlotForTransformerRole(role) ==
  IF role = "TokenEmbedding" THEN <<"embedding_table">>
  ELSE IF role \in ScaleRoles THEN <<"scale">> ELSE <<"kernel">>
TransformerRoleRequiresLayer(role) == role \notin ModelRoles

ExpectedWeightSlotForOp(op) ==
  CASE op = "Embedding" -> <<"embedding_table">>
    [] op = "RmsNorm" -> <<"scale">>
    [] op = "Linear" -> <<"kernel">>

(* ValidateWeightBindingSelfConsistency *)
WeightBindingOk(b) ==
  b.kind # "none" =>
    /\ b.slot = SlotForTransformerRole(b.kind)
    /\ TransformerRoleRequiresLayer(b.kind) <=> b.layer # 0

(* RequireStateSlot, RequireStateLayerMatchesNode, SameStateCollection *)
HasStateSlot(b, slot) == b.kind = "kv" /\ b.slot = <<slot>>
StateLayerIs(b, layer) == b.kind = "kv" /\ layer # 0 /\ b.layer = layer
SameStateCollection(a, b) == a.kind = "kv" /\ b.kind = "kv" /\ a.layer = b.layer

(* ValidateStateBindingsForNode; the bindings of the outputs come from the *)
(* declarations in AddNode and from the stored values in Validate.         *)
StateBindingsOk(g, op, layer, inputs, out_bindings) ==
  LET In(i) == g.values[inputs[i]].binding
      Pair(k, v) ==
        /\ HasStateSlot(k, "key") /\ StateLayerIs(k, layer)
        /\ HasStateSlot(v, "value") /\ StateLayerIs(v, layer)
        /\ SameStateCollection(k, v)
  IN  /\ op = "KVCacheUpdate" =>
           /\ Pair(In(3), In(4))
           /\ out_bindings[1] = In(3)
           /\ out_bindings[2] = In(4)
      /\ op = "Attention" => Pair(In(2), In(3))

-----------------------------------------------------------------------------
(* AddNode: every check before any change, then one commit. *)

(* An output declared without a payload is an activation. *)
Normalized(desc) ==
  IF desc.payload = "none" THEN [desc EXCEPT !.payload = "act"] ELSE desc

ValidateAddNodePorts(g, op, inputs, descs) ==
  /\ Len(inputs) = Len(InputPorts(op))
  /\ Len(descs) = Len(OutputPorts(op))
  /\ \A i \in DOMAIN inputs :
       /\ inputs[i] \in ValueIds(g)
       /\ PayloadMatchesPort(g.values[inputs[i]].payload, InputPorts(op)[i])
  /\ \A i \in DOMAIN descs :
       PayloadMatchesPort(Normalized(descs[i]).payload, OutputPorts(op)[i])

WeightSlotOk(g, op, inputs) ==
  \A i \in DOMAIN inputs : InputPorts(op)[i] = "weight" =>
    g.values[inputs[i]].binding.slot = ExpectedWeightSlotForOp(op)

ValidateAddNodeBindings(g, op, layer, inputs, descs) ==
  /\ \A i \in DOMAIN inputs : InputPorts(op)[i] = "weight" =>
       WeightBindingOk(g.values[inputs[i]].binding)
  /\ WeightSlotOk(g, op, inputs)
  /\ StateBindingsOk(g, op, layer, inputs, [i \in DOMAIN descs |-> descs[i].binding])

InputSpecs(g, inputs) == [i \in DOMAIN inputs |-> g.values[inputs[i]].spec]

StageAddNodeOutputs(node, descs, specs) ==
  [i \in DOMAIN descs |->
     Value(Normalized(descs[i]).payload, descs[i].binding, specs[i], node)]

AddInferredNode(g, op, layer, inputs, descs, inference) ==
  IF inference.ok
  THEN [ok |-> TRUE,
        graph |->
          [g EXCEPT
             !.values = @ \o StageAddNodeOutputs(Len(g.nodes) + 1, descs, inference.outputs),
             !.nodes = Append(@,
               [op |-> op, layer |-> layer, inputs |-> inputs,
                outputs |-> SubSeq(<<Len(g.values) + 1, Len(g.values) + 2>>, 1, Len(descs)),
                checks |-> inference.checks])]]
  ELSE [ok |-> FALSE, graph |-> g]

AddNode(g, op, layer, inputs, descs) ==
  IF /\ ValidateAddNodePorts(g, op, inputs, descs)
     /\ ValidateAddNodeBindings(g, op, layer, inputs, descs)
  THEN AddInferredNode(g, op, layer, inputs, descs, InferOperator(op, InputSpecs(g, inputs)))
  ELSE [ok |-> FALSE, graph |-> g]

-----------------------------------------------------------------------------
(* TopologicalOrder: Kahn's algorithm with a first-in first-out queue.     *)
(* The outgoing edges of a node are listed by consumer index, so one pop   *)
(* makes ready, in index order, the nodes whose last dependency it was.    *)

CarriesProducerDependency(value) ==
  value.payload = "act" \/ (value.payload = "state" /\ value.producer # 0)

Dependencies(g, n) ==
  {g.values[v].producer : v \in {w \in {g.nodes[n].inputs[i] : i \in DOMAIN g.nodes[n].inputs} :
                                   CarriesProducerDependency(g.values[w])}}

Ascending(g, P(_)) == SelectSeq([i \in NodeIds(g) |-> i], P)

KahnStep(g, s) ==
  LET done == {s.order[i] : i \in DOMAIN s.order} \cup {Head(s.ready)}
  IN  [order |-> Append(s.order, Head(s.ready)),
       ready |-> Tail(s.ready) \o
         Ascending(g, LAMBDA n : /\ Head(s.ready) \in Dependencies(g, n)
                                 /\ Dependencies(g, n) \subseteq done)]

KahnRun(g) ==
  LET run[k \in 0..Len(g.nodes)] ==
        IF k = 0
        THEN [order |-> <<>>, ready |-> Ascending(g, LAMBDA n : Dependencies(g, n) = {})]
        ELSE LET s == run[k - 1]
             IN  IF s.ready = <<>> THEN s ELSE KahnStep(g, s)
  IN  run[Len(g.nodes)]

TopologicalOrder(g) ==
  [ok |-> Len(KahnRun(g).order) = Len(g.nodes), order |-> KahnRun(g).order]

-----------------------------------------------------------------------------
(* ValidateAndTopologicalOrder *)

OutputsOk(g) ==
  \A i \in DOMAIN g.outputs :
    /\ g.outputs[i] \in ValueIds(g)
    /\ g.values[g.outputs[i]].payload \in {"act", "const"}
    /\ g.values[g.outputs[i]].payload = "act" => g.values[g.outputs[i]].producer # 0

ListsOutput(g, n, v) == \E i \in DOMAIN g.nodes[n].outputs : g.nodes[n].outputs[i] = v

(* ValidateValueSelfConsistency *)
ValueOk(g, v) ==
  LET x == g.values[v]
  IN  CASE x.payload = "none" -> FALSE
        [] x.payload = "act" -> x.producer \in NodeIds(g) /\ ListsOutput(g, x.producer, v)
        [] x.payload = "state" ->
             x.producer # 0 => x.producer \in NodeIds(g) /\ ListsOutput(g, x.producer, v)
        [] x.payload = "weight" -> x.producer = 0 /\ WeightBindingOk(x.binding)
        [] OTHER -> x.producer = 0

(* The replay of a stored node: arity, payloads, slots, the specs and the  *)
(* runtime checks inference derives now against the stored ones.           *)
DerivesStored(g, node, derived) ==
  /\ derived.ok
  /\ \A i \in DOMAIN node.outputs : g.values[node.outputs[i]].spec = derived.outputs[i]
  /\ node.checks = derived.checks

NodeOk(g, n) ==
  LET node == g.nodes[n]
  IN  /\ Len(node.inputs) = Len(InputPorts(node.op))
      /\ Len(node.outputs) = Len(OutputPorts(node.op))
      /\ \A i \in DOMAIN node.inputs :
           /\ node.inputs[i] \in ValueIds(g)
           /\ PayloadMatchesPort(g.values[node.inputs[i]].payload, InputPorts(node.op)[i])
      /\ WeightSlotOk(g, node.op, node.inputs)
      /\ \A i \in DOMAIN node.outputs :
           /\ node.outputs[i] \in ValueIds(g)
           /\ g.values[node.outputs[i]].producer = n
           /\ PayloadMatchesPort(g.values[node.outputs[i]].payload, OutputPorts(node.op)[i])
      /\ DerivesStored(g, node, InferOperator(node.op, InputSpecs(g, node.inputs)))
      /\ \A i \in DOMAIN node.outputs, j \in DOMAIN node.inputs :
           node.outputs[i] # node.inputs[j]
      /\ StateBindingsOk(g, node.op, node.layer, node.inputs,
           [i \in DOMAIN node.outputs |-> g.values[node.outputs[i]].binding])

Validate(g) ==
  /\ \A i \in DOMAIN g.inputs : g.inputs[i] \in ValueIds(g)
  /\ OutputsOk(g)
  /\ \A v \in ValueIds(g) : ValueOk(g, v)
  /\ \A n \in NodeIds(g) : NodeOk(g, n)
  /\ TopologicalOrder(g).ok

=============================================================================
