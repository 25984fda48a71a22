--------------------------- MODULE RewriteSession ---------------------------
(***************************************************************************)
(* GraphRewriteSession and SubgraphBuilder (graph_rewrite.{h,cpp}): edits  *)
(* recorded over an immutable source graph, queries that see the graph     *)
(* through them, and Commit, which emits a new graph.                      *)
(*                                                                         *)
(* A session is a record, one field per member of the class:               *)
(*   graph      the source graph                                           *)
(*   order      its topological order, which the code computes on each use *)
(*   meta       session_value_metadata_: the values that exist only in     *)
(*              the session, ids following those of the source graph;      *)
(*              [const, spec, binding], const = FALSE for a virtual value  *)
(*   rewrites   [old, reps, active, exposes]; exposes marks the mirror     *)
(*              that RedirectInput makes of a node that stays visible      *)
(*   rewrite_of node_to_rewrite_, 0 for an untouched node                  *)
(*   replaced   value_replacements_, 0 for none                            *)
(*   resolved   resolved_value_cache_, 0 for an empty entry                *)
(*   consumers  consumer_cache_; every change of the generation counter    *)
(*              also drops the cache, so the counter itself is left out    *)
(* A replacement node is [op, layer, inputs, outputs], an output being     *)
(* [desc, replaces] with replaces = 0 for none.  A mutation returns        *)
(* [ok, session]; one that is refused changes nothing but the resolutions  *)
(* it has cached.                                                          *)
(***************************************************************************)
EXTENDS ModelGraph, SequencesExt

(* The image of a sequence. *)
Map(Op(_), seq) == <<>> \o [i \in DOMAIN seq |-> Op(seq[i])]

NoSpec == [dtype |-> "none", shape |-> <<>>]
NoCache == [valid |-> FALSE, original |-> <<>>, replacement |-> <<>>]

OpenSession(g) ==
  [graph |-> g, order |-> TopologicalOrder(g).order, meta |-> <<>>, rewrites |-> <<>>,
   rewrite_of |-> [n \in NodeIds(g) |-> 0],
   replaced |-> [v \in ValueIds(g) |-> 0],
   resolved |-> [v \in ValueIds(g) |-> 0],
   consumers |-> NoCache]

Done(session) == [ok |-> TRUE, session |-> session]
Refused(session) == [ok |-> FALSE, session |-> session]

-----------------------------------------------------------------------------
(* ClassifyValue *)

SourceCount(s) == Len(s.graph.values)
ValueCount(s) == SourceCount(s) + Len(s.meta)
IsSource(s, v) == v \in ValueIds(s.graph)
IsSessionConstant(s, v) == v - SourceCount(s) \in DOMAIN s.meta /\ s.meta[v - SourceCount(s)].const
IsVirtual(s, v) == v - SourceCount(s) \in DOMAIN s.meta /\ ~s.meta[v - SourceCount(s)].const
IsKnown(s, v) == v \in 1..ValueCount(s)
NonVirtual(s, v) == IsSource(s, v) \/ IsSessionConstant(s, v)

-----------------------------------------------------------------------------
(* GetResolvedValue: the end of the replacement chain.  The walk stops at  *)
(* a cached entry, and every entry it has walked over is cached.           *)

StopsAt(s, v) == ~IsSource(s, v) \/ s.resolved[v] # 0 \/ s.replaced[v] = 0

RECURSIVE ChainWalk(_, _, _)
ChainWalk(s, v, depth) ==
  <<v>> \o (IF depth = 0 \/ StopsAt(s, v) THEN <<>>
            ELSE ChainWalk(s, s.replaced[v], depth - 1))

GetResolvedValue(s, v) ==
  LET end == Last(ChainWalk(s, v, SourceCount(s)))
  IN  IF IsSource(s, end) /\ s.resolved[end] # 0 THEN s.resolved[end] ELSE end

WalkedOver(s, v) ==
  {u \in Range(ChainWalk(s, v, SourceCount(s) - 1)) : IsSource(s, u) /\ s.resolved[u] = 0}

(* The session after the values of V have been resolved. *)
CacheResolutions(s, V) ==
  LET walked == UNION {WalkedOver(s, v) : v \in V}
  IN  [s EXCEPT !.resolved =
         [u \in DOMAIN @ |-> IF u \in walked THEN GetResolvedValue(s, u) ELSE @[u]]]

-----------------------------------------------------------------------------
(* Queries over the live view *)

IsNodeLive(s, n) ==
  \/ s.rewrite_of[n] = 0
  \/ LET r == s.rewrites[s.rewrite_of[n]]
     IN  r.active /\ r.exposes /\ r.old = <<n>> /\ Len(r.reps) = 1

(* BuildMirrorReplacement *)
Mirror(g, n) ==
  [op |-> g.nodes[n].op, layer |-> g.nodes[n].layer, inputs |-> g.nodes[n].inputs,
   outputs |-> [i \in DOMAIN g.nodes[n].outputs |->
     LET v == g.nodes[n].outputs[i]
     IN  [desc |-> [payload |-> g.values[v].payload, binding |-> g.values[v].binding],
          replaces |-> v]]]

(* The wiring of a live node: the mirror's if it has one. *)
Wiring(s, n) ==
  IF s.rewrite_of[n] = 0 THEN Mirror(s.graph, n) ELSE s.rewrites[s.rewrite_of[n]].reps[1]

(* GetNodeView: the wiring with its inputs resolved. *)
ResolveInputs(s, rep) ==
  [rep EXCEPT !.inputs = [i \in DOMAIN @ |-> GetResolvedValue(s, @[i])]]
GetNodeView(s, n) == ResolveInputs(s, Wiring(s, n))

Targets(rep) == {rep.outputs[i].replaces : i \in DOMAIN rep.outputs} \ {0}
Binds(rewrite, v) == \E k \in DOMAIN rewrite.reps : v \in Targets(rewrite.reps[k])
ActiveRewrites(s) == {r \in DOMAIN s.rewrites : s.rewrites[r].active}

IsValueLive(s, v) ==
  \/ IsSessionConstant(s, v)
  \/ /\ IsSource(s, v)
     /\ LET producer == s.graph.values[v].producer
        IN  producer = 0 \/ IsNodeLive(s, producer)
            \/ \E r \in ActiveRewrites(s) : Binds(s.rewrites[r], v)

IsGraphOutput(s, v) == v \in Range(s.graph.outputs)

(* EnsureConsumerCache: for every value the live nodes that read it, in    *)
(* topological order, and how often replacement nodes read it.             *)
ConsumerIndex(s) ==
  LET Reads(rep) == [i \in DOMAIN rep.inputs |-> GetResolvedValue(s, rep.inputs[i])]
      uses == UNION {{<<r, k, i>> : k \in DOMAIN s.rewrites[r].reps, i \in 1..4} :
                       r \in {q \in ActiveRewrites(s) : ~s.rewrites[q].exposes}}
      Rep(u) == s.rewrites[u[1]].reps[u[2]]
  IN  [valid |-> TRUE,
       original |-> [v \in 1..ValueCount(s) |->
         SelectSeq(s.order, LAMBDA n : IsNodeLive(s, n) /\ v \in Range(Reads(Wiring(s, n))))],
       replacement |-> [v \in 1..ValueCount(s) |->
         Cardinality({u \in uses : /\ u[3] \in DOMAIN Rep(u).inputs
                                   /\ GetResolvedValue(s, Rep(u).inputs[u[3]]) = v})]]

Index(s) == IF s.consumers.valid THEN s.consumers ELSE ConsumerIndex(s)

(* The session after a query has made sure of the index: every input of a  *)
(* live or a replacement node has been resolved on the way.                *)
EnsureConsumerCache(s) ==
  LET live == {n \in NodeIds(s.graph) : IsNodeLive(s, n)}
      read == UNION ({Range(Wiring(s, n).inputs) : n \in live} \cup
                     UNION {{Range(s.rewrites[r].reps[k].inputs) : k \in DOMAIN s.rewrites[r].reps} :
                              r \in {q \in ActiveRewrites(s) : ~s.rewrites[q].exposes}})
  IN  IF s.consumers.valid THEN s
      ELSE [CacheResolutions(s, read) EXCEPT !.consumers = ConsumerIndex(s)]

FindConsumers(s, v) ==
  IF NonVirtual(s, v) THEN Index(s).original[GetResolvedValue(s, v)] ELSE <<>>

\* Mutant: reads of replacement nodes are not counted.
ReadByOriginals(index, v) == index.original[v] # <<>>

ReadSomewhere(index, v) == index.original[v] # <<>> \/ index.replacement[v] > 0
HasLiveConsumers(s, v) ==
  NonVirtual(s, v) /\ ReadSomewhere(Index(s), GetResolvedValue(s, v))

-----------------------------------------------------------------------------
(* Values of the session *)

InvalidateConsumerCache(s) == [s EXCEPT !.consumers = NoCache]

AllocateVirtualValue(s) ==
  InvalidateConsumerCache([s EXCEPT
    !.meta = Append(@, [const |-> FALSE, spec |-> NoSpec, binding |-> NoBinding])])

AddSessionConstant(s, spec, binding) ==
  InvalidateConsumerCache([s EXCEPT
    !.meta = Append(@, [const |-> TRUE, spec |-> spec, binding |-> binding])])

(* ResolveValueSpec: NoSpec for a virtual value nothing has produced yet;  *)
(* specs are the specs of the virtual values seen so far.                  *)
ResolveValueSpec(s, v, specs) ==
  IF IsSource(s, v) THEN s.graph.values[v].spec
  ELSE IF IsSessionConstant(s, v) THEN s.meta[v - SourceCount(s)].spec
  ELSE IF v \in DOMAIN specs THEN specs[v] ELSE NoSpec

NoVirtuals == [v \in {} |-> NoSpec]

-----------------------------------------------------------------------------
(* Checks on replacement nodes *)

ValidateReplacementNode(s, rep) ==
  \A v \in Range(rep.inputs) \cup Targets(rep) : IsKnown(s, v)

(* A target that is not virtual is an output of an old node, and is bound  *)
(* once in the whole group.                                                *)
ValidateReplacementTargets(s, old, reps) ==
  LET replaceable == UNION {Range(s.graph.nodes[old[i]].outputs) : i \in DOMAIN old}
      bindings == UNION {{<<k, j>> : j \in DOMAIN reps[k].outputs} : k \in DOMAIN reps}
      Target(b) == reps[b[1]].outputs[b[2]].replaces
      real == {b \in bindings : Target(b) # 0 /\ ~IsVirtual(s, Target(b))}
  IN  /\ Range(old) \subseteq NodeIds(s.graph)
      /\ \A b \in real : Target(b) \in replaceable
      /\ \A b, c \in real : Target(b) = Target(c) => b = c

(* ValidateReplacementSemantics: inference replayed over the group, the    *)
(* virtual values taking the specs it derives.  A replaced value keeps its *)
(* data type, and its shape unifies with the derived one.  The inputs read *)
(* on the way are resolved, which fills the resolution cache.              *)
OutputsFit(s, specs, rep, derived) ==
  LET Target(j) == rep.outputs[j].replaces
      virtual == {j \in DOMAIN rep.outputs : Target(j) # 0 /\ IsVirtual(s, Target(j))}
      real == {j \in DOMAIN rep.outputs : Target(j) # 0} \ virtual
      Fits(j) == LET spec == ResolveValueSpec(s, Target(j), NoVirtuals)
                 IN  /\ derived.outputs[j].dtype = spec.dtype
                     /\ Unifiable(spec.shape, derived.outputs[j].shape)
      produced == [v \in {Target(j) : j \in virtual} |->
                     derived.outputs[CHOOSE j \in virtual : Target(j) = v]]
  IN  IF /\ derived.ok
         /\ \A j \in virtual : /\ Target(j) \notin DOMAIN specs
                               /\ \A i \in virtual : Target(i) = Target(j) => i = j
         /\ \A j \in real : Fits(j)
      THEN [ok |-> TRUE, specs |-> specs @@ produced, session |-> s]
      ELSE [ok |-> FALSE, specs |-> specs, session |-> s]

ReplayOn(s, specs, rep, in) ==
  LET read == {rep.inputs[i] : i \in {k \in DOMAIN in : \A j \in 1..(k - 1) : in[j] # NoSpec}}
  IN  IF NoSpec \in Range(in)
      THEN [ok |-> FALSE, specs |-> specs, session |-> CacheResolutions(s, read)]
      ELSE OutputsFit(CacheResolutions(s, read), specs, rep, InferOperator(rep.op, in))

ReplayOne(s, specs, rep) ==
  IF /\ Len(rep.inputs) = Len(InputPorts(rep.op))
     /\ Len(rep.outputs) = Len(OutputPorts(rep.op))
  THEN ReplayOn(s, specs, rep,
                [i \in DOMAIN rep.inputs |->
                   ResolveValueSpec(s, GetResolvedValue(s, rep.inputs[i]), specs)])
  ELSE [ok |-> FALSE, specs |-> specs, session |-> s]

ValidateReplacementSemantics(s, reps) ==
  FoldLeft(LAMBDA acc, rep : IF acc.ok THEN ReplayOne(acc.session, acc.specs, rep) ELSE acc,
           [ok |-> TRUE, specs |-> NoVirtuals, session |-> s], reps)

-----------------------------------------------------------------------------
(* Mutations *)

(* DeactivateRewrite, for a set of rewrites: all their nodes become        *)
(* untouched again.                                                        *)
Deactivate(s, R) ==
  [s EXCEPT !.rewrites = [r \in DOMAIN @ |-> [@[r] EXCEPT !.active = @ /\ r \notin R]],
            !.rewrite_of = [n \in DOMAIN @ |-> IF @[n] \in R THEN 0 ELSE @[n]]]

(* Every rewrite that covers one of the old nodes is given up. *)
RecordRewrite(s, old, reps) ==
  LET covering == {s.rewrite_of[old[i]] : i \in DOMAIN old} \ {0}
      entry == [old |-> old, reps |-> reps, active |-> TRUE, exposes |-> FALSE]
  IN  InvalidateConsumerCache([Deactivate(s, covering) EXCEPT
        !.rewrites = Append(@, entry),
        !.rewrite_of = [n \in Range(old) |-> Len(s.rewrites) + 1] @@ @])

RecordReplayed(old, reps, replay) ==
  IF replay.ok THEN Done(RecordRewrite(replay.session, old, reps)) ELSE Refused(replay.session)

ReplaceSubgraph(s, old, reps) ==
  IF /\ old # <<>>
     /\ \A k \in DOMAIN reps : ValidateReplacementNode(s, reps[k])
     /\ ValidateReplacementTargets(s, old, reps)
  THEN RecordReplayed(old, reps, ValidateReplacementSemantics(s, reps))
  ELSE Refused(s)

RemoveNode(s, n) == ReplaceSubgraph(s, <<n>>, <<>>)

(* The first redirect of a node records a mirror of it, later ones change  *)
(* the mirror in place; a node that was replaced cannot be redirected.     *)
RedirectInput(s, n, i, v) ==
  LET spec == ResolveValueSpec(s, GetResolvedValue(s, v), NoVirtuals)
      mirror == [Mirror(s.graph, n) EXCEPT !.inputs[i] = v]
      r == s.rewrite_of[n]
      read == CacheResolutions(s, {v})
  IN  IF ~NonVirtual(s, v) \/ i \notin DOMAIN s.graph.nodes[n].inputs THEN Refused(s)
      ELSE IF \/ spec.dtype # s.graph.values[s.graph.nodes[n].inputs[i]].spec.dtype
              \/ ~IsNodeLive(s, n)
      THEN Refused(read)
      ELSE IF r # 0
      THEN Done(InvalidateConsumerCache([read EXCEPT !.rewrites[r].reps[1].inputs[i] = v]))
      ELSE Done(InvalidateConsumerCache([read EXCEPT
             !.rewrites = Append(@, [old |-> <<n>>, reps |-> <<mirror>>, active |-> TRUE, exposes |-> TRUE]),
             !.rewrite_of[n] = Len(s.rewrites) + 1]))

(* The chain of the new value, without the cache: the code walks it again. *)
ChainReaches(s, v, target) ==
  LET at[k \in 0..SourceCount(s)] ==
        IF k = 0 THEN v
        ELSE IF IsSource(s, at[k - 1]) /\ s.replaced[at[k - 1]] # 0
             THEN s.replaced[at[k - 1]] ELSE at[k - 1]
  IN  \E k \in 1..SourceCount(s) : at[k] = target

\* Mutant: only the entry of the replaced value is dropped.
ReplaceValueKeepsCache(s, old, new) ==
  IF ~IsSource(s, old) \/ ~NonVirtual(s, new) THEN Refused(s)
  ELSE IF old = new THEN Done(s)
  ELSE IF ChainReaches(s, new, old) THEN Refused(s)
  ELSE Done(InvalidateConsumerCache([s EXCEPT !.replaced[old] = new, !.resolved[old] = 0]))

ReplaceValue(s, old, new) ==
  IF ~IsSource(s, old) \/ ~NonVirtual(s, new) THEN Refused(s)
  ELSE IF old = new THEN Done(s)
  ELSE IF ChainReaches(s, new, old) THEN Refused(s)
  ELSE Done(InvalidateConsumerCache([s EXCEPT
         !.replaced[old] = new, !.resolved = [v \in DOMAIN @ |-> 0]]))

-----------------------------------------------------------------------------
(* ValidateEdits *)

(* A value is replaced by one of its data type whose shape unifies. *)
ValidateValueReplacements(s) ==
  \A v \in {u \in DOMAIN s.replaced : s.replaced[u] # 0} :
    LET old == s.graph.values[v].spec
        new == ResolveValueSpec(s, GetResolvedValue(s, v), NoVirtuals)
    IN  /\ NonVirtual(s, s.replaced[v])
        /\ new.dtype = old.dtype
        /\ Unifiable(old.shape, new.shape)

(* A virtual value is produced once in all active rewrites, and earlier in *)
(* the rewrite that reads it.                                              *)
ValidateVirtualValues(s) ==
  LET slots == UNION {UNION {{<<r, k, j>> : j \in DOMAIN s.rewrites[r].reps[k].outputs} :
                               k \in DOMAIN s.rewrites[r].reps} : r \in ActiveRewrites(s)}
      Target(o) == s.rewrites[o[1]].reps[o[2]].outputs[o[3]].replaces
      virtual == {o \in slots : Target(o) # 0 /\ IsVirtual(s, Target(o))}
  IN  /\ \A o, p \in virtual : Target(o) = Target(p) => o = p
      /\ \A r \in ActiveRewrites(s) : \A k \in DOMAIN s.rewrites[r].reps :
           \A v \in Range(s.rewrites[r].reps[k].inputs) : IsVirtual(s, v) =>
             \E o \in virtual : o[1] = r /\ o[2] < k /\ Target(o) = v

(* Commit emits a rewrite at the first of its old nodes. *)
Position(s, n) == CHOOSE p \in DOMAIN s.order : s.order[p] = n
EmissionPoint(s, r) == Min({Position(s, n) : n \in Range(s.rewrites[r].old)})

(* ValidateReplacementInputAvailability: whatever a replacement node reads *)
(* is emitted before it.                                                   *)
Available(s, r, k, v) ==
  LET producer == s.graph.values[v].producer
      q == s.rewrite_of[producer]
      here == EmissionPoint(s, r)
  IN  \/ ~IsSource(s, v)
      \/ producer = 0
      \/ q = 0 /\ Position(s, producer) < here
      \/ /\ q # 0 /\ Binds(s.rewrites[q], v)
         /\ IF q = r THEN \E i \in 1..(k - 1) : v \in Targets(s.rewrites[r].reps[i])
            ELSE EmissionPoint(s, q) < here

ValidateReplacementInputAvailability(s) ==
  \A r \in ActiveRewrites(s) : \A k \in DOMAIN s.rewrites[r].reps :
    \A v \in Range(s.rewrites[r].reps[k].inputs) :
      Available(s, r, k, GetResolvedValue(s, v))

ValidateEdits(s) ==
  /\ ValidateValueReplacements(s)
  /\ \A r \in ActiveRewrites(s) :
       /\ \A k \in DOMAIN s.rewrites[r].reps : ValidateReplacementNode(s, s.rewrites[r].reps[k])
       /\ ValidateReplacementTargets(s, s.rewrites[r].old, s.rewrites[r].reps)
  /\ ValidateVirtualValues(s)
  /\ \A r \in ActiveRewrites(s) : ValidateReplacementSemantics(s, s.rewrites[r].reps).ok
  /\ ValidateReplacementInputAvailability(s)

-----------------------------------------------------------------------------
(* Commit.  The three value maps of the code are one function "to" from    *)
(* the ids of the session to ids of the new graph, 0 for none; status      *)
(* names the step that failed.                                             *)

(* CopyExternalValues: every value of the source that no node produces,    *)
(* and the session constants something still refers to.                    *)
Referenced(s, v) ==
  /\ IsSessionConstant(s, v)
  /\ \/ \E o \in Range(s.graph.outputs) : GetResolvedValue(s, o) = v
     \/ HasLiveConsumers(s, v)

CopyValues(s, kept) ==
  LET Copy(v) == IF IsSource(s, v) THEN s.graph.values[v]
                 ELSE LET c == s.meta[v - SourceCount(s)] IN Value("const", c.binding, c.spec, 0)
      copied == Map(Copy, kept)
      inputs == SelectSeq([i \in DOMAIN kept |-> i], LAMBDA i : copied[i].payload = "input")
  IN  [status |-> IF \E i \in DOMAIN copied : copied[i].payload \in {"none", "act"}
                  THEN "external" ELSE "ok",
       graph |-> [EmptyGraph EXCEPT !.values = copied, !.inputs = inputs],
       to |-> [v \in 1..ValueCount(s) |->
                 IF v \in Range(kept) THEN CHOOSE i \in DOMAIN kept : kept[i] = v ELSE 0]]

CopyExternalValues(s) ==
  CopyValues(s, SelectSeq([v \in 1..ValueCount(s) |-> v],
                  LAMBDA v : IF IsSource(s, v) THEN s.graph.values[v].producer = 0
                             ELSE Referenced(s, v)))

(* One replacement node of EmitRewrite, and EmitOriginalNode, which emits  *)
(* the mirror of the node: map the resolved inputs, add the node, map the  *)
(* values it takes over.                                                   *)
TakeOver(s, c, rep, added) ==
  LET Output(v) == CHOOSE j \in DOMAIN rep.outputs : rep.outputs[j].replaces = v
  IN  IF ~added.ok THEN [c EXCEPT !.status = "node"]
      ELSE IF \E v \in Targets(rep) : c.to[v] # 0 \/ IsSessionConstant(s, v)
      THEN [c EXCEPT !.status = "mapped"]
      ELSE [c EXCEPT !.graph = added.graph,
                     !.to = [v \in Targets(rep) |-> Len(c.graph.values) + Output(v)] @@ @]

EmitWith(s, c, rep, inputs, failure) ==
  IF 0 \in Range(inputs) THEN [c EXCEPT !.status = failure]
  ELSE TakeOver(s, c, rep, AddNode(c.graph, rep.op, rep.layer, inputs,
                                   Map(LAMBDA output : output.desc, rep.outputs)))

\* Mutant: the inputs are mapped without being resolved.
EmitUnresolved(s, c, rep, failure) ==
  IF c.status # "ok" THEN c
  ELSE EmitWith(s, c, rep, Map(LAMBDA v : c.to[v], rep.inputs), failure)

Emit(s, c, rep, failure) ==
  IF c.status # "ok" THEN c
  ELSE EmitWith(s, c, rep, Map(LAMBDA v : c.to[GetResolvedValue(s, v)], rep.inputs), failure)

(* What is emitted when source node n comes up in topological order: the   *)
(* node, or its rewrite if n is the first of the nodes the rewrite covers. *)
Emission(s, n) ==
  IF s.rewrite_of[n] = 0 THEN <<Mirror(s.graph, n)>>
  ELSE IF Position(s, n) = EmissionPoint(s, s.rewrite_of[n])
  THEN s.rewrites[s.rewrite_of[n]].reps ELSE <<>>

EmitAt(s, c, n) ==
  LET r == s.rewrite_of[n]
      failure == IF r = 0 THEN "original input" ELSE "replacement input"
  IN  IF r # 0 /\ ~s.rewrites[r].active THEN [c EXCEPT !.status = "inactive"]
      ELSE FoldLeft(LAMBDA acc, rep : Emit(s, acc, rep, failure), c, Emission(s, n))

MarkCommittedOutputs(s, c) ==
  LET outputs == Map(LAMBDA v : c.to[GetResolvedValue(s, v)], s.graph.outputs)
  IN  IF c.status # "ok" THEN c
      ELSE IF 0 \in Range(outputs) THEN [c EXCEPT !.status = "output"]
      ELSE [c EXCEPT !.graph.outputs = outputs]

ValidateCommitted(c) ==
  IF c.status = "ok" /\ ~Validate(c.graph) THEN [c EXCEPT !.status = "invalid"] ELSE c

Commit(s) ==
  IF ValidateEdits(s)
  THEN ValidateCommitted(MarkCommittedOutputs(s,
         FoldLeft(LAMBDA c, n : EmitAt(s, c, n), CopyExternalValues(s), s.order)))
  ELSE [status |-> "edits", graph |-> EmptyGraph, to |-> <<>>]

-----------------------------------------------------------------------------
(* SubgraphBuilder: [old, nodes, aliases]; aliases maps a virtual value    *)
(* that was yielded to the source value it took over.                      *)

NewBuilder(old) == [old |-> old, nodes |-> <<>>, aliases |-> [v \in {} |-> 0]]

Normalize(aliases, v) == IF v \in DOMAIN aliases THEN aliases[v] ELSE v

(* Emit: one fresh virtual value per output. *)
BuilderEmit(s, b, op, layer, inputs, descs) ==
  LET session == FoldLeft(LAMBDA acc, d : AllocateVirtualValue(acc), s, descs)
      node == [op |-> op, layer |-> layer,
               inputs |-> [i \in DOMAIN inputs |-> Normalize(b.aliases, inputs[i])],
               outputs |-> [j \in DOMAIN descs |->
                              [desc |-> descs[j], replaces |-> ValueCount(s) + j]]]
  IN  [session |-> session, builder |-> [b EXCEPT !.nodes = Append(@, node)]]

(* Yield binds an emitted value to an output of an old node, also in the   *)
(* nodes emitted so far that read it.                                      *)
BuilderYield(s, b, internal, target) ==
  LET rename(v) == IF v = internal THEN target ELSE v
      Renamed(node) ==
        [node EXCEPT !.inputs = [i \in DOMAIN @ |-> rename(@[i])],
                     !.outputs = [j \in DOMAIN @ |-> [@[j] EXCEPT !.replaces = rename(@)]]]
  IN  IF /\ \E n \in Range(b.old) : ListsOutput(s.graph, n, target)
         /\ internal \notin DOMAIN b.aliases
         /\ \E k \in DOMAIN b.nodes : internal \in Targets(b.nodes[k])
      THEN [ok |-> TRUE,
            builder |-> [b EXCEPT !.nodes = [k \in DOMAIN @ |-> Renamed(@[k])],
                                  !.aliases = (internal :> target) @@ @]]
      ELSE [ok |-> FALSE, builder |-> b]

(* Commit: the group is submitted, and the builder cleared if it is taken. *)
NormalizeInputs(b) ==
  [b EXCEPT !.nodes = [k \in DOMAIN @ |->
     [@[k] EXCEPT !.inputs = [i \in DOMAIN @ |-> Normalize(b.aliases, @[i])]]]]

Submitted(b, outcome) ==
  [ok |-> outcome.ok, session |-> outcome.session,
   builder |-> IF outcome.ok THEN NewBuilder(b.old) ELSE b]

BuilderCommit(s, b) ==
  Submitted(NormalizeInputs(b), ReplaceSubgraph(s, b.old, NormalizeInputs(b).nodes))

-----------------------------------------------------------------------------
(***************************************************************************)
(* What a value of a graph computes, as a term over the inputs, weights,   *)
(* constants and states.  Two values that denote the same term hold the    *)
(* same tensor in every run; the tag of a term comes first.                *)
(***************************************************************************)
(* The only identities used: SiluMul is the product of Silu of its first   *)
(* operand and the second, and a product does not depend on the order.     *)
Product(a, b) == <<"mul", {a, b}>>

Apply(op, i, args) ==
  CASE op = "ElementwiseMul" -> Product(args[1], args[2])
    [] op = "Silu" -> <<"silu", args[1]>>
    [] op = "SiluMul" -> Product(<<"silu", args[1]>>, args[2])
    [] OTHER -> <<op, i, args>>

(* A constant denotes the term its bytes are the value of. *)
Leaf(g, v) ==
  CASE g.values[v].payload = "input" -> <<"input", CHOOSE i \in DOMAIN g.inputs : g.inputs[i] = v>>
    [] g.values[v].payload = "const" -> g.values[v].binding.slot
    [] OTHER -> <<g.values[v].payload, g.values[v].binding>>

OutputIndex(outputs, v) == CHOOSE i \in DOMAIN outputs : outputs[i] = v

RECURSIVE Term(_, _)
Term(g, v) ==
  LET producer == g.values[v].producer
      node == g.nodes[producer]
  IN  IF producer = 0 THEN Leaf(g, v)
      ELSE Apply(node.op, OutputIndex(node.outputs, v),
                 [i \in DOMAIN node.inputs |-> Term(g, node.inputs[i])])

(* The same for a value of a session, seen through its edits: the node     *)
(* that produces it is a replacement that binds it, or else the original.  *)
Producers(s, v) ==
  {s.rewrites[r].reps[k] : <<r, k>> \in
     {<<r, k>> \in UNION {{r} \X DOMAIN s.rewrites[r].reps : r \in ActiveRewrites(s)} :
        v \in Targets(s.rewrites[r].reps[k])}}

RECURSIVE ViewTerm(_, _)
ViewTerm(s, v) ==
  LET rep == IF Producers(s, v) # {} THEN CHOOSE p \in Producers(s, v) : TRUE
             ELSE Mirror(s.graph, s.graph.values[v].producer)
      targets == [j \in DOMAIN rep.outputs |-> rep.outputs[j].replaces]
  IN  IF IsSessionConstant(s, v) THEN s.meta[v - SourceCount(s)].binding.slot
      ELSE IF IsSource(s, v) /\ s.graph.values[v].producer = 0 THEN Leaf(s.graph, v)
      ELSE Apply(rep.op, OutputIndex(targets, v),
                 [i \in DOMAIN rep.inputs |-> ViewTerm(s, GetResolvedValue(s, rep.inputs[i]))])

=============================================================================
