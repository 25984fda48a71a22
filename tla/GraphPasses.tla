---------------------------- MODULE GraphPasses -----------------------------
(***************************************************************************)
(* The three optimisation passes of the default pipeline, each a function  *)
(* of the rewrite session it is given: constant folding, SiLU-multiply     *)
(* fusion and dead code elimination.  A pass returns [ok, session].        *)
(***************************************************************************)
EXTENDS RewriteSession

(* Live nodes in topological order (GetTopologicalOrder). *)
LiveOrder(s) == SelectSeq(s.order, LAMBDA n : IsNodeLive(s, n))
Outputs(s, n) == s.graph.nodes[n].outputs

(* Run a step over a list, up to the first failure. *)
ForEach(s, list, Step(_, _)) ==
  FoldLeft(LAMBDA acc, x : IF acc.ok THEN Step(acc.session, x) ELSE acc, Done(s), list)

-----------------------------------------------------------------------------
(* ConstantFoldingPass *)

(* GetValueOutputMetadata, as far as folding reads it. *)
ConstantDesc(s, v) ==
  IF IsSessionConstant(s, v) THEN s.meta[v - SourceCount(s)]
  ELSE [const |-> s.graph.values[v].payload = "const",
        spec |-> s.graph.values[v].spec, binding |-> s.graph.values[v].binding]

(* HasInlineConstantBytes: inline data, for a shape known at compile time. *)
HasInlineConstantBytes(desc) ==
  /\ desc.const /\ desc.binding.kind = "inline"
  /\ \A i \in DOMAIN desc.spec.shape : IsStatic(desc.spec.shape[i])

AllInputsAreInlineConstantValues(s, inputs) ==
  \A v \in Range(inputs) : HasInlineConstantBytes(ConstantDesc(s, v))

(* ConstEvaluator::Plan, the same for the four evaluators: no broadcasting *)
(* and one data type.                                                      *)
Plan(s, inputs, outputs) ==
  \A v \in Range(inputs), o \in Range(outputs) :
    ConstantDesc(s, v).spec = s.graph.values[o].spec

Foldable(s, n, view) ==
  /\ IsCompileTimeEvaluable(view.op)
  /\ AllInputsAreInlineConstantValues(s, view.inputs)
  /\ Plan(s, view.inputs, Outputs(s, n))

(* The evaluated bytes of output i, under the name of the term they are    *)
(* the value of.                                                           *)
FoldedBinding(s, view, i) ==
  [kind |-> "inline", layer |-> 0,
   slot |-> Apply(view.op, i, Map(LAMBDA v : ConstantDesc(s, v).binding.slot, view.inputs))]

FoldNode(s, n, view) ==
  LET FoldOutput(session, i) ==
        LET out == Outputs(s, n)[i]
            added == AddSessionConstant(session, s.graph.values[out].spec, FoldedBinding(s, view, i))
        IN  ReplaceValue(added, out, ValueCount(added))
  IN  ForEach(s, [i \in DOMAIN Outputs(s, n) |-> i], FoldOutput)

(* Run: nodes in skip are those whose size, budget or evaluation declines  *)
(* (Unimplemented or Overflow), which leaves the node as it is.            *)
FoldIfConstant(s, n, view) ==
  IF Foldable(s, n, view) THEN FoldNode(s, n, view) ELSE Done(s)

ConstantFolding(s, skip) ==
  ForEach(s, LiveOrder(s),
          LAMBDA session, n : IF n \in skip THEN Done(session)
                              ELSE FoldIfConstant(session, n, GetNodeView(session, n)))

-----------------------------------------------------------------------------
(* SiluMulFusionPass *)

NoPattern == [found |-> FALSE]

\* Mutant: gate and up are taken for each other.
MatchProductSwapped(s, silu, mul, view) ==
  LET silu_out == Outputs(s, silu)[1]
      up == IF view.inputs[1] = silu_out THEN view.inputs[2] ELSE view.inputs[1]
  IN  IF /\ view.op = "ElementwiseMul"
         /\ view.layer = s.graph.nodes[silu].layer
         /\ up # silu_out
      THEN [found |-> TRUE, old |-> <<silu, mul>>, out |-> Outputs(s, mul)[1],
            inputs |-> <<up, GetNodeView(s, silu).inputs[1]>>, layer |-> view.layer]
      ELSE NoPattern

(* The product of silu_out and something else, seen in the live view. *)
MatchProduct(s, silu, mul, view) ==
  LET silu_out == Outputs(s, silu)[1]
      up == IF view.inputs[1] = silu_out THEN view.inputs[2] ELSE view.inputs[1]
  IN  IF /\ view.op = "ElementwiseMul"
         /\ view.layer = s.graph.nodes[silu].layer
         /\ up # silu_out
      THEN [found |-> TRUE, old |-> <<silu, mul>>, out |-> Outputs(s, mul)[1],
            inputs |-> <<GetNodeView(s, silu).inputs[1], up>>, layer |-> view.layer]
      ELSE NoPattern

MatchConsumers(s, silu, consumers) ==
  IF Len(consumers) = 1
  THEN MatchProduct(s, silu, consumers[1], GetNodeView(s, consumers[1])) ELSE NoPattern

FindSiluMulPattern(s, silu) ==
  LET silu_out == Outputs(s, silu)[1]
  IN  IF /\ IsNodeLive(s, silu)
         /\ IsValueLive(s, silu_out) /\ ~IsGraphOutput(s, silu_out)
         /\ GetResolvedValue(s, silu_out) = silu_out
      THEN MatchConsumers(s, silu, FindConsumers(s, silu_out))
      ELSE NoPattern

(* TryFuseSilu: emit the fused node in place of the two, yielding the      *)
(* value of the product.                                                   *)
SubmitYielded(session, yielded) ==
  IF yielded.ok THEN BuilderCommit(session, yielded.builder) ELSE Refused(session)

YieldProduct(emitted, fused, out) ==
  SubmitYielded(emitted.session, BuilderYield(emitted.session, emitted.builder, fused, out))

Fuse(s, p) ==
  IF p.found
  THEN LET out == s.graph.values[p.out]
       IN  YieldProduct(BuilderEmit(s, NewBuilder(p.old), "SiluMul", p.layer, p.inputs,
                                    <<[payload |-> out.payload, binding |-> out.binding]>>),
                        ValueCount(s) + 1, p.out)
  ELSE Done(s)

TryFuseSilu(s, silu) == Fuse(s, FindSiluMulPattern(s, silu))

SiluMulFusion(s) ==
  ForEach(s, SelectSeq([n \in NodeIds(s.graph) |-> n],
               LAMBDA n : s.graph.nodes[n].op = "Silu" /\ IsNodeLive(s, n)),
          TryFuseSilu)

-----------------------------------------------------------------------------
(* DeadCodeEliminationPass *)

\* Mutant: effects are not looked at.
AnyOpRemovable(op) == op \in OpTypes

IsDceRemovableOp(op) == ~HasSideEffects(op) /\ ~HasStatefulOutput(op)

(* An output that was replaced is dead for its producer. *)
AreAllOutputsDead(s, n) ==
  \A v \in Range(Outputs(s, n)) :
    GetResolvedValue(s, v) = v => ~IsGraphOutput(s, v) /\ ~HasLiveConsumers(s, v)

RemoveIfDead(s, n) ==
  IF IsDceRemovableOp(GetNodeView(s, n).op) /\ AreAllOutputsDead(s, n) THEN RemoveNode(s, n)
  ELSE Done(s)

RemoveDeadNodesOnce(s) == ForEach(s, Reverse(LiveOrder(s)), RemoveIfDead)

(* Sweeps repeat while one removes something. *)
RECURSIVE Sweep(_, _)
Sweep(live, swept) ==
  IF ~swept.ok \/ LiveOrder(swept.session) = live THEN swept
  ELSE Sweep(LiveOrder(swept.session), RemoveDeadNodesOnce(swept.session))

DeadCodeElimination(s) == Sweep(LiveOrder(s), RemoveDeadNodesOnce(s))

-----------------------------------------------------------------------------
(***************************************************************************)
(* LowerModelGraph and ResolveStateAliases (graph_lowering.cpp): the plan  *)
(* of a graph is its nodes in topological order with the values each step  *)
(* reads and writes, the data types kernels are selected by, and the pairs *)
(* of cache values that must share storage.                                *)
(***************************************************************************)
(* The first port of a kind that takes part in spec derivation. *)
FirstPort(op, kind) ==
  LET ports == {i \in DOMAIN InputPorts(op) : InputPorts(op)[i] = kind /\ ContributesSpec(op, i)}
  IN  IF ports = {} THEN 0 ELSE Min(ports)

(* MaybeSetSelectorDTypes, MaybeSetActivationDTypeFromOutputs; an operator *)
(* with neither kind of port has the default type.                         *)
ActDType(g, node) ==
  LET in == FirstPort(node.op, "act")
      outs == {i \in DOMAIN OutputPorts(node.op) : OutputPorts(node.op)[i] = "act"}
  IN  IF in # 0 THEN g.values[node.inputs[in]].spec.dtype
      ELSE IF outs # {} THEN g.values[node.outputs[Min(outs)]].spec.dtype
      ELSE "default"

WeightDType(g, node) ==
  LET in == FirstPort(node.op, "weight")
  IN  IF in # 0 THEN g.values[node.inputs[in]].spec.dtype ELSE ActDType(g, node)

LowerStep(g, n) ==
  LET node == g.nodes[n]
  IN  [node |-> n, op |-> node.op, reads |-> node.inputs, writes |-> node.outputs,
       constants |-> {i \in DOMAIN node.inputs : g.values[node.inputs[i]].payload = "const"},
       act_dtype |-> ActDType(g, node), weight_dtype |-> WeightDType(g, node),
       checks |-> node.checks]

(* AddKVCacheLoweringTimeAliases *)
Aliases(g, n) ==
  LET node == g.nodes[n]
  IN  IF node.op # "KVCacheUpdate" THEN <<>>
      ELSE <<[input |-> node.inputs[3], output |-> node.outputs[1]],
             [input |-> node.inputs[4], output |-> node.outputs[2]]>>

LowerModelGraph(g) ==
  LET order == TopologicalOrder(g).order
  IN  [ok |-> Validate(g),
       steps |-> [i \in DOMAIN order |-> LowerStep(g, order[i])],
       state_aliases |-> FlattenSeq([i \in DOMAIN order |-> Aliases(g, order[i])]),
       model_inputs |-> g.inputs, model_outputs |-> g.outputs]


(* ResolveStateAliases: each pair becomes a step and two ports of it, the  *)
(* first step that mentions both values; ordered by step.                  *)
Mentions(step, alias) == alias.input \in Range(step.reads) /\ alias.output \in Range(step.writes)

ResolveAlias(lowered, alias) ==
  LET s == SelectInSeq(lowered.steps, LAMBDA step : Mentions(step, alias))
  IN  [step |-> s,
       input_port |-> SelectInSeq(lowered.steps[s].reads, LAMBDA v : v = alias.input),
       output_port |-> SelectInSeq(lowered.steps[s].writes, LAMBDA v : v = alias.output)]

ResolveStateAliases(lowered) ==
  IF \E i \in DOMAIN lowered.state_aliases :
       ~\E s \in DOMAIN lowered.steps : Mentions(lowered.steps[s], lowered.state_aliases[i])
  THEN [ok |-> FALSE, aliases |-> <<>>]
  ELSE [ok |-> TRUE,
        aliases |-> SortSeq([i \in DOMAIN lowered.state_aliases |->
                               ResolveAlias(lowered, lowered.state_aliases[i])],
                            LAMBDA a, b : a.step < b.step)]

=============================================================================
