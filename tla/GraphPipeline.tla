--------------------------- MODULE GraphPipeline ----------------------------
(***************************************************************************)
(* CompileModelGraph: a client builds a graph, the pass manager optimises  *)
(* it in rewrite sessions, committing a checkpoint every few passes, and   *)
(* the result is lowered (graph.cpp, graph_pass_manager.cpp,               *)
(* graph_compiler.cpp, graph_lowering.cpp).                                *)
(*                                                                         *)
(* Sessions are used without their caches, which GraphRewrite shows never  *)
(* to differ from what they stand for.                                     *)
(***************************************************************************)
EXTENDS GraphPasses

CONSTANTS Starts,     \* [graph, nodes, ops]: graphs a client starts from, the bound
                      \* on the nodes it adds and their operators
          MaxDeclined,\* bound on the nodes whose evaluation declines
          Contexts    \* PassContexts: [opt_level, folding, fusion, dce, checkpoint_every]

VARIABLES phase, graph, room, ctx, passes, session, saved, lowered

vars == <<phase, graph, room, ctx, passes, session, saved, lowered>>

(* BuildDefaultOptPipeline *)
Pipeline(level) ==
  CASE level = 0 -> <<>>
    [] level = 1 -> <<"fold", "dce">>
    [] OTHER -> <<"fold", "fuse", "dce">>

NoContext == [opt_level |-> 0, folding |-> FALSE, fusion |-> FALSE, dce |-> FALSE,
              checkpoint_every |-> 0]
NoPlan == [ok |-> FALSE, steps |-> <<>>, aliases |-> <<>>]

Init ==
  /\ \E p \in Starts : graph = p.graph /\ room = [nodes |-> p.nodes, ops |-> p.ops]
  /\ phase = "build" /\ ctx = NoContext /\ passes = <<>>
  /\ session = OpenSession(EmptyGraph) /\ saved = FALSE /\ lowered = NoPlan

-----------------------------------------------------------------------------
(* Building.  The operators that touch a cache belong to its layer. *)

LayerOf(op) == IF HasStatefulOutput(op) \/ op = "Attention" THEN 1 ELSE 0
Declared(op, inputs) ==
  IF HasStatefulOutput(op)
  THEN <<[payload |-> "state", binding |-> graph.values[inputs[3]].binding],
         [payload |-> "state", binding |-> graph.values[inputs[4]].binding]>>
  ELSE [i \in DOMAIN OutputPorts(op) |-> [payload |-> "none", binding |-> NoBinding]]

(* Values whose payload fits the port: what a client would try to connect. *)
Candidates(op) ==
  LET Fits(port) == {v \in ValueIds(graph) : PayloadMatchesPort(graph.values[v].payload, port)}
      Extend(done, port) == {Append(in, v) : in \in done, v \in Fits(port)}
  IN  IF phase = "build" /\ room.nodes > 0
      THEN FoldLeft(Extend, {<<>>}, InputPorts(op)) ELSE {}

BuildNode(op, inputs) ==
  /\ phase = "build"
  /\ LET added == AddNode(graph, op, LayerOf(op), inputs, Declared(op, inputs))
     IN  added.ok /\ graph' = added.graph
  /\ room' = [room EXCEPT !.nodes = @ - 1]
  /\ UNCHANGED <<phase, ctx, passes, session, saved, lowered>>

(* GraphPassManager::Run starts: the outputs are marked, the graph is      *)
(* validated and a session is opened on it.                                *)
StartRun(outputs, c) ==
  LET marked == FoldLeft(MarkOutput, graph, outputs)
  IN  /\ phase = "build" /\ room.nodes = 0
      /\ graph' = marked /\ ctx' = c /\ passes' = Pipeline(c.opt_level)
      /\ phase' = IF Validate(marked) THEN "run" ELSE "failed"
      /\ session' = OpenSession(marked) /\ saved' = FALSE
      /\ UNCHANGED <<room, lowered>>

-----------------------------------------------------------------------------
(* Running.  A pass that is switched off does nothing. *)

RunPass(pass, skip) ==
  CASE pass = "fold" /\ ctx.folding -> ConstantFolding(session, skip)
    [] pass = "fuse" /\ ctx.fusion -> SiluMulFusion(session)
    [] pass = "dce" /\ ctx.dce -> DeadCodeElimination(session)
    [] OTHER -> Done(session)

Checkpoint(ran) ==
  ctx.checkpoint_every # 0 /\ ran % ctx.checkpoint_every = 0

(* A session that is saved goes on as a new one on the committed graph. *)
Reopen(committed) ==
  [ok |-> committed.status = "ok", session |-> OpenSession(committed.graph)]
Save(due, outcome) ==
  IF outcome.ok /\ due THEN Reopen(Commit(outcome.session)) ELSE outcome

(* One turn of the loop: the pass, and the commit if it is a checkpoint;   *)
(* the next session is opened on the snapshot.                             *)
Proceed(outcome, next) ==
  /\ phase' = IF outcome.ok THEN next ELSE "failed"
  /\ session' = outcome.session

PassStep(skip) ==
  /\ phase = "run" /\ passes # <<>>
  /\ saved' = Checkpoint(Len(Pipeline(ctx.opt_level)) - Len(passes) + 1)
  /\ Proceed(Save(saved', RunPass(Head(passes), skip)), "run")
  /\ passes' = Tail(passes)
  /\ UNCHANGED <<graph, room, ctx, lowered>>

(* The trailing commit, left out after a checkpoint. *)
FinishRun ==
  /\ phase = "run" /\ passes = <<>>
  /\ Proceed(Save(~saved, Done(session)), "optimized")
  /\ UNCHANGED <<graph, room, ctx, passes, saved, lowered>>

Planned(plan) ==
  LET resolved == ResolveStateAliases(plan)
  IN  /\ phase' = IF plan.ok /\ resolved.ok THEN "lowered" ELSE "failed"
      /\ lowered' = [ok |-> plan.ok, steps |-> plan.steps, aliases |-> resolved.aliases]

Lower ==
  /\ phase = "optimized"
  /\ Planned(LowerModelGraph(session.graph))
  /\ UNCHANGED <<graph, room, ctx, passes, session, saved>>

(* The outputs of a model: the last activation, perhaps after another. *)
OutputChoices ==
  LET ok == {v \in ValueIds(graph) : graph.values[v].payload = "act" /\ phase = "build" /\ room.nodes = 0}
  IN  {IF v = Max(ok) THEN <<v>> ELSE <<v, Max(ok)>> : v \in ok}

(* Nodes constant folding declines to evaluate. *)
Declined ==
  {skip \in SUBSET {n \in NodeIds(session.graph) :
                      /\ phase = "run" /\ passes # <<>> /\ Head(passes) = "fold" /\ ctx.folding
                      /\ IsCompileTimeEvaluable(session.graph.nodes[n].op)} :
     Cardinality(skip) <= MaxDeclined}

Next ==
  \/ \E op \in room.ops : \E inputs \in Candidates(op) : BuildNode(op, inputs)
  \/ \E outputs \in OutputChoices, c \in Contexts : StartRun(outputs, c)
  \/ \E skip \in Declined : PassStep(skip)
  \/ FinishRun
  \/ Lower

Spec == Init /\ [][Next]_vars

-----------------------------------------------------------------------------
(* Properties *)

Optimized == phase \in {"optimized", "lowered"}

(* CompileModelGraph preserves the model: the optimised graph has the same *)
(* outputs, in order, each computing the term of the original with its     *)
(* data type and a shape that unifies with the original's, whatever was    *)
(* folded, fused, removed and checkpointed on the way.  Without fusion it   *)
(* cannot fail on a graph that AddNode accepted: folding and dead code      *)
(* elimination never leave a session Commit refuses.                        *)
OptimizedEquivalent ==
  /\ phase = "failed" => ctx.opt_level >= 2 /\ ctx.fusion
  /\ Optimized =>
    /\ Len(session.graph.outputs) = Len(graph.outputs)
    /\ \A i \in DOMAIN graph.outputs :
         LET old == graph.outputs[i]
             new == session.graph.outputs[i]
         IN  /\ Term(session.graph, new) = Term(graph, old)
             /\ session.graph.values[new].spec.dtype = graph.values[old].spec.dtype
             /\ Unifiable(graph.values[old].spec.shape, session.graph.values[new].spec.shape)

Effects(g) ==
  {Term(g, v) : v \in {u \in ValueIds(g) : g.values[u].payload = "state" /\ g.values[u].producer # 0}}
CountOf(g, op) == Cardinality({n \in NodeIds(g) : g.nodes[n].op = op})

Used(g, v) == v \in Range(g.outputs) \/ \E n \in NodeIds(g) : v \in Range(g.nodes[n].inputs)

(* Dead code elimination never drops, duplicates or rewires a cache        *)
(* update, read or not: the optimised graph performs the same updates.     *)
(* After it nothing else is computed in vain: an original node without     *)
(* effects has an output something uses.  A fused node may stay although   *)
(* its product is unused, since the pass visits the nodes of the source    *)
(* graph only.                                                             *)
EliminationExact ==
  Optimized =>
    /\ Effects(session.graph) = Effects(graph)
    /\ CountOf(session.graph, "KVCacheUpdate") = CountOf(graph, "KVCacheUpdate")
    /\ ctx.opt_level >= 1 /\ ctx.dce =>
         \A n \in NodeIds(session.graph) :
           LET node == session.graph.nodes[n]
           IN  IsDceRemovableOp(node.op) /\ node.op # "SiluMul" =>
                 \E v \in Range(node.outputs) : Used(session.graph, v)


(* model_graph_design_v2.md on the fusion pass: the graph after fusion     *)
(* passes Validate() and can still be lowered.  So no run of the pipeline  *)
(* on a valid graph fails.                                                 *)
FusionKeepsCommittable == phase # "failed"

-----------------------------------------------------------------------------
(* The graphs that are checked: over an embedding, an inline constant and  *)
(* one layer's key and value caches.                                       *)

Rows == -2
Tensor(dtype, d) == [dtype |-> dtype, shape |-> <<d>>]
Table == [kind |-> "TokenEmbedding", slot |-> <<"embedding_table">>, layer |-> 0]
Inline == [kind |-> "inline", slot |-> <<"k">>, layer |-> 0]
Scale == [kind |-> "FinalNorm", slot |-> <<"scale">>, layer |-> 0]
Kernel == [kind |-> "LmHead", slot |-> <<"kernel">>, layer |-> 0]
Cache(slot) == [kind |-> "kv", slot |-> <<slot>>, layer |-> 1]

(* values: 1 ids, 2 table, perhaps 3 a constant, then the embedding *)
Embedded(g) ==
  AddNode(g, "Embedding", 0, <<1, 2>>, <<[payload |-> "none", binding |-> NoBinding]>>).graph
Tables == AddWeight(AddInput(EmptyGraph, Tensor("i64", Rows)), Tensor("f32", 4), Table)
Base(constant) == AddConstant(Tables, constant, Inline)

Activated(g, v) ==
  AddNode(g, "Silu", 0, <<v>>, <<[payload |-> "none", binding |-> NoBinding]>>).graph

(* 4 key cache, 5 value cache, 6 embedding, 7 its activation *)
MCCaches ==
  Activated(Embedded(AddState(AddState(Base(Tensor("f32", 1)), Tensor("f32", 4), Cache("key")),
                              Tensor("f32", 4), Cache("value"))), 6)
(* 4 embedding; the constant is of the other float type *)
MCMixed == Embedded(Base(Tensor("bf16", 1)))
(* 4 embedding, 5 the activation of the constant *)
MCConstant == Activated(Embedded(Base(Tensor("f32", 1))), 3)
(* 3 embedding *)
MCPlain == Embedded(Tables)

(* 4 scale, 5 kernel, 6 embedding *)
MCWeights ==
  Embedded(AddWeight(AddWeight(Base(Tensor("f32", 1)), Tensor("f32", 4), Scale), Tensor("f32", 4), Kernel))

From(g, nodes, ops) == [graph |-> g, nodes |-> nodes, ops |-> ops]
Gating == {"Silu", "ElementwiseMul"}
MCFusable == {From(MCPlain, 3, Gating)}
MCStarts ==
  MCFusable \cup
  {From(MCCaches, 2, Gating \cup {"KVCacheUpdate", "Attention"}), From(MCMixed, 2, Gating),
   From(MCConstant, 2, Gating),
   From(MCWeights, 2, {"RmsNorm", "Linear", "RoPE", "Softmax", "Reorder", "Add"})}

Context(level, fold, fuse, dce, every) ==
  [opt_level |-> level, folding |-> fold, fusion |-> fuse, dce |-> dce, checkpoint_every |-> every]
MCContexts ==
  {Context(1, TRUE, FALSE, TRUE, 0), Context(2, TRUE, TRUE, TRUE, 0), Context(2, FALSE, TRUE, TRUE, 2)}
MCDefault == {Context(2, TRUE, TRUE, TRUE, 0)}

=============================================================================
