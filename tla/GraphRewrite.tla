---------------------------- MODULE GraphRewrite ----------------------------
(***************************************************************************)
(* A client of one rewrite session: it mutates the session, directly and   *)
(* through a subgraph builder, in any order, queries it in between, which  *)
(* fills the two caches, and commits once.                                 *)
(***************************************************************************)
EXTENDS RewriteSession

CONSTANTS Graph,       \* the source graph of the session
          OldNodes,    \* groups of nodes a client replaces
          EmitOps,     \* operators of emitted and replacement nodes
          MaxWork,     \* bound on the work of a session: an edit counts 2,
                       \* a query or a step of the builder 1
          MaxLocals    \* bound on the values that exist only in the session

VARIABLES session, builder, work, result

vars == <<session, builder, work, result>>

NoResult == [status |-> "none", graph |-> EmptyGraph, to |-> <<>>]
CanSpend(cost) == result = NoResult /\ work + cost <= MaxWork

(* What a client may name: activations and constants of the source graph   *)
(* and the values of the session.                                          *)
Nodes == NodeIds(session.graph)
Produced == {v \in ValueIds(session.graph) : session.graph.values[v].producer # 0}
Readable == {v \in 1..ValueCount(session) :
               IsSource(session, v) => session.graph.values[v].payload \in {"act", "const"}}
Slots == {p \in Nodes \X (1..4) : p[2] \in DOMAIN session.graph.nodes[p[1]].inputs}
Operands(op) == [DOMAIN InputPorts(op) -> Readable]
Activation == [payload |-> "act", binding |-> NoBinding]

Init ==
  /\ session = OpenSession(Graph)
  /\ builder = NewBuilder(<<>>)
  /\ work = 0
  /\ result = NoResult

-----------------------------------------------------------------------------
(* A client edit: the session the operation returns, taken or refused. *)
Edit(outcome) ==
  /\ session' = outcome.session
  /\ work' = work + 2
  /\ UNCHANGED <<builder, result>>

Drop(n) == CanSpend(2) /\ Edit(RemoveNode(session, n))

Redirect(n, i, v) == CanSpend(2) /\ Edit(RedirectInput(session, n, i, v))

Replace(v, w) == CanSpend(2) /\ Edit(ReplaceValue(session, v, w))

Substitute(old, op, inputs, target) ==
  /\ CanSpend(2)
  /\ Edit(ReplaceSubgraph(session, old,
       <<[op |-> op, layer |-> 0, inputs |-> inputs,
          outputs |-> <<[desc |-> Activation, replaces |-> target]>>]>>))

Constant(spec) ==
  /\ CanSpend(2) /\ Len(session.meta) < MaxLocals
  /\ Edit(Done(AddSessionConstant(session, spec,
                 [kind |-> "inline", slot |-> <<"folded">>, layer |-> 0])))

-----------------------------------------------------------------------------
(* SubgraphBuilder; its first emission is preceded by its construction. *)

EmitNode(old, op, inputs) ==
  /\ CanSpend(1) /\ Len(session.meta) < MaxLocals
  /\ builder.nodes # <<>> => builder.old = old
  /\ LET b == IF builder.nodes = <<>> THEN NewBuilder(old) ELSE builder
         e == BuilderEmit(session, b, op, 0, inputs, <<Activation>>)
     IN  session' = e.session /\ builder' = e.builder
  /\ work' = work + 1
  /\ UNCHANGED result

YieldValue(internal, target) ==
  /\ CanSpend(1) /\ IsVirtual(session, internal)
  /\ LET y == BuilderYield(session, builder, internal, target)
     IN  y.ok /\ builder' = y.builder
  /\ work' = work + 1
  /\ UNCHANGED <<session, result>>

Took(outcome) == session' = outcome.session /\ builder' = outcome.builder

SubmitBuilder ==
  /\ CanSpend(1) /\ builder.nodes # <<>>
  /\ Took(BuilderCommit(session, builder))
  /\ work' = work + 1
  /\ UNCHANGED result

-----------------------------------------------------------------------------
(* Queries.  GetResolvedValue caches the chain it walks; FindConsumers and *)
(* HasLiveConsumers resolve their argument and make sure of the index.     *)

QueryResolved(v) ==
  /\ CanSpend(1)
  /\ session' = CacheResolutions(session, {v})
  /\ work' = work + 1
  /\ UNCHANGED <<builder, result>>

QueryConsumers(v) ==
  /\ CanSpend(1) /\ NonVirtual(session, v)
  /\ session' = EnsureConsumerCache(CacheResolutions(session, {v}))
  /\ work' = work + 1
  /\ UNCHANGED <<builder, result>>

CommitSession ==
  /\ CanSpend(0)
  /\ result' = Commit(session)
  /\ UNCHANGED <<session, builder, work>>

Next ==
  \/ \E n \in Nodes : Drop(n)
  \/ \E slot \in Slots, v \in Readable : Redirect(slot[1], slot[2], v)
  \/ \E v \in Produced, w \in Readable : Replace(v, w)
  \/ \E old \in OldNodes, op \in EmitOps, target \in Produced : \E inputs \in Operands(op) :
       Substitute(old, op, inputs, target)
  \/ \E spec \in {session.graph.values[v].spec : v \in Produced} : Constant(spec)
  \/ \E old \in OldNodes, op \in EmitOps : \E inputs \in Operands(op) : EmitNode(old, op, inputs)
  \/ \E internal \in Readable, target \in Produced : YieldValue(internal, target)
  \/ SubmitBuilder
  \/ \E v \in Produced : QueryResolved(v) \/ QueryConsumers(v)
  \/ CommitSession

Spec == Init /\ [][Next]_vars

-----------------------------------------------------------------------------
(* Properties *)

(* The end of a chain, from the recorded replacements alone. *)
Follow(s, V) ==
  V \cup {s.replaced[v] : v \in {u \in V : IsSource(s, u) /\ s.replaced[u] # 0}}
Ends(s, v) ==
  LET reach[k \in 0..SourceCount(s)] == IF k = 0 THEN {v} ELSE Follow(s, reach[k - 1])
  IN  {u \in reach[SourceCount(s)] : ~IsSource(s, u) \/ s.replaced[u] = 0}

Uncached(s) == [s EXCEPT !.resolved = [v \in DOMAIN @ |-> 0], !.consumers = NoCache]

(* Path compression and the memoised consumer index never answer for an    *)
(* older state of the session: whatever GetResolvedValue has cached is the *)
(* one end of the value's present replacement chain, which is never        *)
(* cyclic, and a cached index is the one EnsureConsumerCache would build.  *)
CachesExact ==
  /\ \A v \in ValueIds(session.graph) :
       /\ Cardinality(Ends(session, v)) = 1
       /\ session.resolved[v] # 0 => Ends(session, v) = {session.resolved[v]}
  /\ session.consumers.valid => session.consumers = ConsumerIndex(Uncached(session))

(* A committed graph computes what the session showed: every value that    *)
(* was carried over denotes in the new graph the term its session view     *)
(* denotes, and the outputs are the resolved outputs, in order.            *)
(* graph_rewrite.h: "When this returns Ok, Commit() will not fail on       *)
(* unmappable replacement inputs."  Nor does it trip over an inactive      *)
(* rewrite, an unsupported external value or a value mapped twice.         *)
CommitFaithful ==
  /\ result.status \notin {"replacement input", "inactive", "mapped", "external"}
  /\ result.status = "ok" =>
    /\ \A v \in DOMAIN result.to : result.to[v] # 0 =>
         Term(result.graph, result.to[v]) = ViewTerm(session, v)
    /\ Len(result.graph.outputs) = Len(session.graph.outputs)
    /\ \A i \in DOMAIN result.graph.outputs :
         result.graph.outputs[i] = result.to[GetResolvedValue(session, session.graph.outputs[i])]

ConsumedIn(g, v) == \E n \in NodeIds(g) : v \in Range(g.nodes[n].inputs)

(* The queries a pass decides on foretell the commit: IsValueLive holds of *)
(* exactly the source values that are carried over, HasLiveConsumers of    *)
(* exactly the values some committed node reads, and a session constant is *)
(* carried over exactly when something refers to it.                       *)
QueriesForetell ==
  result.status = "ok" =>
    /\ \A v \in ValueIds(session.graph) : IsValueLive(session, v) <=> result.to[v] # 0
    /\ \A v \in DOMAIN result.to : NonVirtual(session, v) /\ GetResolvedValue(session, v) = v =>
         (HasLiveConsumers(session, v) <=>
            result.to[v] # 0 /\ ConsumedIn(result.graph, result.to[v]))
    /\ \A v \in DOMAIN result.to : IsSessionConstant(session, v) =>
         (result.to[v] # 0 <=>
            \/ HasLiveConsumers(session, v)
            \/ \E o \in Range(session.graph.outputs) : GetResolvedValue(session, o) = v)

-----------------------------------------------------------------------------
(* The graph that is checked: a gated product over an embedding, with a    *)
(* constant nothing reads yet.                                             *)

Rows == -2
Ids == [dtype |-> "i64", shape |-> <<Rows>>]
Float == [dtype |-> "f32", shape |-> <<4>>]
Table == [kind |-> "TokenEmbedding", slot |-> <<"embedding_table">>, layer |-> 0]
Inline == [kind |-> "inline", slot |-> <<"k">>, layer |-> 0]
Act == <<[payload |-> "none", binding |-> NoBinding]>>

Then(g, op, inputs) == AddNode(g, op, 0, inputs, Act).graph

(* values: 1 ids, 2 table, 3 constant, 4 embedding *)
Prefix ==
  Then(AddConstant(AddWeight(AddInput(EmptyGraph, Ids), Float, Table),
                   [Float EXCEPT !.shape = <<1>>], Inline), "Embedding", <<1, 2>>)

(* 5 silu, 6 the gated product *)
MCGraph == MarkOutput(Then(Then(Prefix, "Silu", <<4>>), "ElementwiseMul", <<5, 4>>), 6)

MCOldNodes == {<<3>>, <<2, 3>>}

=============================================================================
