-------------------------- MODULE TensorInference ---------------------------
(***************************************************************************)
(* Shape inference on whole shapes: the detail::Infer* functions of        *)
(* src/operators and the evaluation of the constraints they defer          *)
(* (shape_constraint_evaluator.cpp), with the concrete broadcasting of     *)
(* broadcast.cpp that the kernels run.                                     *)
(*                                                                         *)
(* A spec is [dtype, shape] with the dimensions of Shapes; every shape is  *)
(* ranked.  A constraint names dimensions as <<port, axis>>, port i being  *)
(* input i and port 0 the (only) output that a constraint refers to.       *)
(* uint64_t is SizeBits wide here, int64_t one bit less.                   *)
(***************************************************************************)
EXTENDS Shapes, SequencesExt

CONSTANTS SizeBits,     \* width of uint64_t
          Applications, \* operator applications, the shapes of whose inputs grow
          Extents       \* the extents a dimension can have at run time

VARIABLE query

-----------------------------------------------------------------------------
(* Data types the operators accept *)

Half == {"f32", "f16", "bf16"}
Narrow == Half \cup {"fp8"}
kAddSupportedDTypes == {"f32", "f64", "bf16", "i32", "i64"}
kMatMulSupportedDTypes == Narrow \cup {"i8"}
kLinearSupportedActivationDTypes == Narrow
kLinearSupportedWeightDTypes == Narrow \cup {"i8", "i4"}
kRmsNormSupportedDTypes == Narrow
kSiluMulSupportedDTypes == Narrow
kSiluSupportedDTypes == Narrow
kEmbeddingSupportedTokenIdDTypes == {"i32", "i64", "u32"}
kEmbeddingSupportedWeightDTypes == Half
kElementwiseMulSupportedDTypes == Half
kArgmaxSupportedDTypes == Half
kSoftmaxSupportedDTypes == Half
kRoPESupportedDTypes == Half
kKVCacheUpdateSupportedDTypes == Half
kAttentionSupportedDTypes == Half

-----------------------------------------------------------------------------
(* Constraints and their evaluation.  Shapes holds the shape of each port. *)

DimEqual(l, r) == [kind |-> "equal", lhs |-> <<l>>, rhs |-> <<r>>]
DimBroadcastable(l, r) == [kind |-> "broadcastable", lhs |-> <<l>>, rhs |-> <<r>>]
DimPositive(d) == [kind |-> "positive", lhs |-> <<d>>, rhs |-> <<>>]
Axes(port, shape) == [i \in 1..Len(shape) |-> <<port, i>>]
VolumeEqual(in, out) == [kind |-> "volume", lhs |-> Axes(1, in), rhs |-> Axes(0, out)]

Resolve(dims, inputs, output) ==
  [i \in 1..Len(dims) |->
     IF dims[i][1] = 0 THEN output[dims[i][2]] ELSE inputs[dims[i][1]][dims[i][2]]]

(* The checked product of static extents, multiplied from the left: -1     *)
(* when some prefix of it does not fit uint64_t.                           *)
Overflowed == -1
Product(dims) ==
  FoldLeft(LAMBDA p, d : IF p = Overflowed \/ p * d >= 2 ^ SizeBits
                         THEN Overflowed ELSE p * d, 1, dims)

AllStatic(dims) == \A i \in 1..Len(dims) : IsStatic(dims[i])
Decided(holds) == IF holds THEN "satisfied" ELSE "violated"

(* The symbolic tier.  Identical dimensions satisfy a constraint, two      *)
(* Unknown ones included.                                                  *)
EvaluateSymbolicDimEqual(a, b) ==
  IF a = b THEN "satisfied" ELSE IF IsStatic(a) /\ IsStatic(b) THEN "violated" ELSE "deferred"
EvaluateSymbolicDimBroadcastable(a, b) ==
  IF 1 \in {a, b} THEN "satisfied" ELSE EvaluateSymbolicDimEqual(a, b)
EvaluateSymbolicDimPositive(d) == IF IsStatic(d) THEN Decided(d > 0) ELSE "deferred"
EvaluateSymbolicVolume(l, r) ==
  IF l = r THEN "satisfied"
  ELSE IF ~AllStatic(l) \/ ~AllStatic(r) THEN "deferred"
  ELSE IF Overflowed \in {Product(l), Product(r)} THEN "deferred"
  ELSE Decided(Product(l) = Product(r))

EvaluateSymbolic(c, inputs, output) ==
  LET l == Resolve(c.lhs, inputs, output)
      r == Resolve(c.rhs, inputs, output)
  IN  CASE c.kind = "positive" -> EvaluateSymbolicDimPositive(l[1])
        [] c.kind = "equal" -> EvaluateSymbolicDimEqual(l[1], r[1])
        [] c.kind = "broadcastable" -> EvaluateSymbolicDimBroadcastable(l[1], r[1])
        [] c.kind = "volume" -> EvaluateSymbolicVolume(l, r)

(* The run-time tier: every dimension is concrete.  A volume that          *)
(* overflows stops the process (AM_CHECK).                                 *)
EvaluateRuntimeVolume(l, r) ==
  IF Overflowed \in {Product(l), Product(r)} THEN "aborted"
  ELSE Decided(Product(l) = Product(r))

EvaluateRuntime(c, inputs, output) ==
  LET l == Resolve(c.lhs, inputs, output)
      r == Resolve(c.rhs, inputs, output)
  IN  CASE c.kind = "positive" -> Decided(l[1] > 0)
        [] c.kind = "equal" -> Decided(l = r)
        [] c.kind = "broadcastable" -> Decided(l = r \/ 1 \in {l[1], r[1]})
        [] c.kind = "volume" -> EvaluateRuntimeVolume(l, r)

ValidateShapeConstraints(checks, inputs, output) ==
  \A c \in checks : EvaluateRuntime(c, inputs, output) = "satisfied"

-----------------------------------------------------------------------------
(* Inference results *)

Failed == [ok |-> FALSE, outputs |-> <<>>, checks |-> {}]
Inferred(outputs, checks) == [ok |-> TRUE, outputs |-> outputs, checks |-> checks]
If(guard, result) == IF guard THEN result ELSE Failed
Spec(dtype, shape) == [dtype |-> dtype, shape |-> shape]
Rank(s) == Len(s.shape)
LastDim(s) == s.shape[Rank(s)]

(* Two dimensions that must be equal: refused when both are static and     *)
(* differ, checked at run time unless they are known to be equal.          *)
Compatible(a, b) == AreProvablyEqual(a, b) \/ ~(IsStatic(a) /\ IsStatic(b))
\* Mutant: what cannot be decided yet is not left to the run time.
EqualChecksDropped(a, b, l, r) == {}

EqualChecks(a, b, l, r) == IF AreProvablyEqual(a, b) THEN {} ELSE {DimEqual(l, r)}

PositiveIfStatic(d) == IsStatic(d) => d > 0
PositiveChecks(d, at) == IF IsStatic(d) THEN {} ELSE {DimPositive(at)}

-----------------------------------------------------------------------------
(* Linear, RmsNorm and Embedding *)

InferLinear(x, w) ==
  If(/\ Rank(x) >= 1 /\ Rank(w) = 2
     /\ x.dtype \in kLinearSupportedActivationDTypes
     /\ w.dtype \in kLinearSupportedWeightDTypes
     /\ Compatible(LastDim(x), w.shape[2]),
     Inferred(<<Spec(x.dtype, Front(x.shape) \o <<w.shape[1]>>)>>,
              EqualChecks(LastDim(x), w.shape[2], <<1, Rank(x)>>, <<2, 2>>)))

InferRmsNorm(x, w) ==
  If(/\ {x.dtype, w.dtype} \subseteq kRmsNormSupportedDTypes
     /\ Rank(x) >= 1 /\ PositiveIfStatic(LastDim(x))
     /\ Rank(w) = 1 /\ Compatible(LastDim(x), w.shape[1]),
     Inferred(<<x>>, PositiveChecks(LastDim(x), <<1, Rank(x)>>)
                     \cup EqualChecks(LastDim(x), w.shape[1], <<1, Rank(x)>>, <<2, 1>>)))

InferEmbedding(ids, w) ==
  If(/\ ids.dtype \in kEmbeddingSupportedTokenIdDTypes
     /\ w.dtype \in kEmbeddingSupportedWeightDTypes
     /\ Rank(ids) >= 1 /\ Rank(w) = 2
     /\ PositiveIfStatic(w.shape[1]) /\ PositiveIfStatic(w.shape[2]),
     Inferred(<<Spec(w.dtype, ids.shape \o <<w.shape[2]>>)>>,
              PositiveChecks(w.shape[1], <<2, 1>>) \cup PositiveChecks(w.shape[2], <<2, 2>>)))

-----------------------------------------------------------------------------
(* Operators that broadcast *)

BroadcastChecks(b) == {DimBroadcastable(<<1, a[1]>>, <<2, a[2]>>) : a \in b.deferred_axes}

InferBroadcast(l, r, b) == If(b.ok, Inferred(<<Spec(l.dtype, b.shape)>>, BroadcastChecks(b)))

InferAdd(l, r) ==
  If(l.dtype = r.dtype /\ l.dtype \in kAddSupportedDTypes,
     InferBroadcast(l, r, InferBroadcastShape(l.shape, r.shape)))

InferSiluMul(gate, up) ==
  If(gate.dtype = up.dtype /\ gate.dtype \in kSiluMulSupportedDTypes,
     InferBroadcast(gate, up, InferBroadcastShape(gate.shape, up.shape)))

InferElementwiseMul(l, r) ==
  If({l.dtype, r.dtype} \subseteq kElementwiseMulSupportedDTypes,
     InferBroadcast(l, r, InferBroadcastShape(l.shape, r.shape)))

(* The right operand's inner and outer axes, swapped by transpose_rhs.     *)
ResolveRhsAxes(transpose_rhs, rank) ==
  IF transpose_rhs THEN [inner |-> rank, outer |-> rank - 1]
  ELSE [inner |-> rank - 1, outer |-> rank]

MakeBatchShape(s) == SubSeq(s, 1, Len(s) - 2)

InferMatMul(transpose_rhs, l, r) ==
  IF {l.dtype, r.dtype} \subseteq kMatMulSupportedDTypes /\ Rank(l) >= 2 /\ Rank(r) >= 2
  THEN LET axes == ResolveRhsAxes(transpose_rhs, Rank(r))
           inner == r.shape[axes.inner]
           batch == InferBroadcastShape(MakeBatchShape(l.shape), MakeBatchShape(r.shape))
       IN  If(batch.ok /\ Compatible(LastDim(l), inner),
              Inferred(<<Spec(l.dtype, batch.shape \o <<l.shape[Rank(l) - 1], r.shape[axes.outer]>>)>>,
                       EqualChecks(LastDim(l), inner, <<1, Rank(l)>>, <<2, axes.inner>>)
                       \cup BroadcastChecks(batch)))
  ELSE Failed

-----------------------------------------------------------------------------
(* Operators that keep or rearrange the axes of their input *)

InferSilu(x) == If(x.dtype \in kSiluSupportedDTypes, Inferred(<<x>>, {}))
InferSoftmax(x) == If(x.dtype \in kSoftmaxSupportedDTypes, Inferred(<<x>>, {}))
InferReorder(x) == Inferred(<<x>>, {})

InferArgmax(axis, x) ==
  LET a == IF axis < 0 THEN axis + Rank(x) ELSE axis
  IN  If(/\ x.dtype \in kArgmaxSupportedDTypes /\ a \in 0..(Rank(x) - 1),
         Inferred(<<Spec("i64", SubSeq(x.shape, 1, a) \o SubSeq(x.shape, a + 2, Rank(x)))>>, {}))

InferPermute(permutation, x) ==
  If(/\ IsInjective(permutation) /\ Len(permutation) = Rank(x)
     /\ \A i \in 1..Len(permutation) : permutation[i] \in 0..(Rank(x) - 1),
     Inferred(<<Spec(x.dtype, [i \in 1..Len(permutation) |-> x.shape[permutation[i] + 1]])>>, {}))

(* A target dimension is <<"literal", n>>, <<"input", axis>> or <<"infer">>. *)
Literal(n) == <<"literal", n>>
Input(axis) == <<"input", axis>>
Infer == <<"infer", 0>>

TargetShape(target, shape) ==
  [i \in 1..Len(target) |->
     CASE target[i][1] = "literal" -> target[i][2]
       [] target[i][1] = "input" -> shape[target[i][2] + 1]
       [] target[i][1] = "infer" -> Unknown]

(* The inferred dimension is computed when everything else is static: a    *)
(* quotient that must exist, be whole and fit int64_t.                     *)
TryResolveInferDim(shape, out, i) ==
  LET rest == RemoveAt(out, i)
      volume == Product(shape)
      others == Product(rest)
      quotient == volume \div others
  IN  IF ~AllStatic(shape) \/ ~AllStatic(rest) THEN [ok |-> TRUE, shape |-> out]
      ELSE IF Overflowed \in {volume, others} \/ others = 0 THEN [ok |-> FALSE, shape |-> out]
      ELSE [ok |-> volume % others = 0 /\ quotient < 2 ^ (SizeBits - 1),
            shape |-> [out EXCEPT ![i] = quotient]]

InferMarkers(target) == {i \in 1..Len(target) : target[i] = Infer}

ResolvedTarget(target, shape) ==
  LET out == TargetShape(target, shape)
  IN  IF InferMarkers(target) = {} THEN [ok |-> TRUE, shape |-> out]
      ELSE TryResolveInferDim(shape, out, CHOOSE i \in InferMarkers(target) : TRUE)

CheckedReshape(x, out) ==
  LET volumes == VolumeEqual(x.shape, out)
      result == EvaluateSymbolic(volumes, <<x.shape>>, out)
  IN  CASE result = "satisfied" -> Inferred(<<Spec(x.dtype, out)>>, {})
        [] result = "violated" -> Failed
        [] result = "deferred" -> If(~(AllStatic(x.shape) /\ AllStatic(out)),
                                     Inferred(<<Spec(x.dtype, out)>>, {volumes}))

InferReshape(target, x) ==
  IF /\ \A i \in 1..Len(target) :
          /\ target[i][1] = "literal" => target[i][2] >= 0
          /\ target[i][1] = "input" => target[i][2] < Rank(x)
     /\ \A i, j \in InferMarkers(target) : i = j
     /\ ResolvedTarget(target, x.shape).ok
  THEN CheckedReshape(x, ResolvedTarget(target, x.shape).shape)
  ELSE Failed

-----------------------------------------------------------------------------
(* RoPE, KVCacheUpdate and Attention.  theta, the scaling factor and the   *)
(* position limit are valid or not: p.valid.                               *)

ValidateRoPEParams(p) ==
  /\ p.head_dim > 0 /\ p.num_attention_heads > 0 /\ p.num_key_value_heads > 0
  /\ p.head_dim % 2 = 0 /\ p.valid
  /\ p.num_attention_heads * p.head_dim < 2 ^ (SizeBits - 1)
  /\ p.num_key_value_heads * p.head_dim < 2 ^ (SizeBits - 1)

StaticWidth(d, width) == IsStatic(d) => d = width

ValidateRoPEDTypes(q, k, positions) ==
  q.dtype \in kRoPESupportedDTypes /\ k.dtype = q.dtype /\ positions.dtype = "i64"

ValidateRoPEShapes(p, q, k, positions) ==
  /\ Rank(q) = 2 /\ Rank(k) = 2 /\ Rank(positions) = 1
  /\ StaticWidth(q.shape[2], p.num_attention_heads * p.head_dim)
  /\ StaticWidth(k.shape[2], p.num_key_value_heads * p.head_dim)
  /\ PositiveIfStatic(q.shape[1])
  /\ Compatible(q.shape[1], k.shape[1]) /\ Compatible(q.shape[1], positions.shape[1])

InferRoPE(p, q, k, positions) ==
  If(/\ ValidateRoPEParams(p) /\ ValidateRoPEDTypes(q, k, positions)
     /\ ValidateRoPEShapes(p, q, k, positions),
     Inferred(<<q, k>>, PositiveChecks(q.shape[1], <<1, 1>>)
                        \cup EqualChecks(q.shape[1], k.shape[1], <<1, 1>>, <<2, 1>>)
                        \cup EqualChecks(q.shape[1], positions.shape[1], <<1, 1>>, <<3, 1>>)))

ProvablySameShape(s, t) ==
  Len(s) = Len(t) /\ \A i \in 1..Len(s) : AreProvablyEqual(s[i], t[i])

ValidateKVCacheUpdateDTypes(k, v, k_cache, v_cache) ==
  k.dtype \in kKVCacheUpdateSupportedDTypes /\ {v.dtype, k_cache.dtype, v_cache.dtype} = {k.dtype}

ValidateKVCacheUpdateShapes(k, v, k_cache, v_cache) ==
  /\ Rank(k) = 2 /\ Rank(k_cache) = 3
  /\ ProvablySameShape(k.shape, v.shape) /\ ProvablySameShape(k_cache.shape, v_cache.shape)
  /\ \A d \in ToSet(k.shape) \cup ToSet(k_cache.shape) : PositiveIfStatic(d)
  /\ IsStatic(k.shape[1]) /\ IsStatic(k_cache.shape[2]) => k.shape[1] <= k_cache.shape[2]
  /\ IsStatic(k_cache.shape[1]) /\ IsStatic(k_cache.shape[3]) =>
       StaticWidth(k.shape[2], k_cache.shape[1] * k_cache.shape[3])

InferKVCacheUpdate(k, v, k_cache, v_cache) ==
  If(/\ ValidateKVCacheUpdateDTypes(k, v, k_cache, v_cache)
     /\ ValidateKVCacheUpdateShapes(k, v, k_cache, v_cache),
     Inferred(<<k_cache, v_cache>>, {}))

ValidateAttentionParams(p) ==
  /\ p.num_attention_heads > 0 /\ p.num_key_value_heads > 0 /\ p.head_dim > 0
  /\ p.num_attention_heads % p.num_key_value_heads = 0
  /\ p.num_attention_heads * p.head_dim < 2 ^ (SizeBits - 1)

ValidateAttentionDTypes(q, k_cache, v_cache) ==
  q.dtype \in kAttentionSupportedDTypes /\ {k_cache.dtype, v_cache.dtype} = {q.dtype}

ValidateAttentionShapes(p, q, k_cache, v_cache) ==
  /\ Rank(q) = 2 /\ Rank(k_cache) = 3
  /\ StaticWidth(q.shape[2], p.num_attention_heads * p.head_dim)
  /\ StaticWidth(k_cache.shape[1], p.num_key_value_heads)
  /\ StaticWidth(k_cache.shape[3], p.head_dim)
  /\ ProvablySameShape(k_cache.shape, v_cache.shape)
  /\ PositiveIfStatic(q.shape[1]) /\ k_cache.shape[2] # 0

InferAttention(p, q, k_cache, v_cache) ==
  If(/\ ValidateAttentionParams(p) /\ ValidateAttentionDTypes(q, k_cache, v_cache)
     /\ ValidateAttentionShapes(p, q, k_cache, v_cache),
     Inferred(<<q>>, PositiveChecks(q.shape[1], <<1, 1>>)))

-----------------------------------------------------------------------------
(* The dispatch.  An application is [op, params, inputs].                  *)

InferOperator(op, p, s) ==
  CASE op = "Linear" -> InferLinear(s[1], s[2])
    [] op = "RmsNorm" -> InferRmsNorm(s[1], s[2])
    [] op = "Embedding" -> InferEmbedding(s[1], s[2])
    [] op = "Add" -> InferAdd(s[1], s[2])
    [] op = "SiluMul" -> InferSiluMul(s[1], s[2])
    [] op = "ElementwiseMul" -> InferElementwiseMul(s[1], s[2])
    [] op = "MatMul" -> InferMatMul(p.transpose_rhs, s[1], s[2])
    [] op = "Argmax" -> InferArgmax(p.axis, s[1])
    [] op = "Permute" -> InferPermute(p.permutation, s[1])
    [] op = "Reshape" -> InferReshape(p.target_shape, s[1])
    [] op = "RoPE" -> InferRoPE(p, s[1], s[2], s[3])
    [] op = "KVCacheUpdate" -> InferKVCacheUpdate(s[1], s[2], s[3], s[4])
    [] op = "Attention" -> InferAttention(p, s[1], s[2], s[3])
    [] op = "Silu" -> InferSilu(s[1])
    [] op = "Softmax" -> InferSoftmax(s[1])
    [] op = "Reorder" -> InferReorder(s[1])

(* BroadcastShapes: the concrete broadcasting of two run-time shapes.      *)
BroadcastShapes(s, t) ==
  LET rank == OutputRank(s, t)
      Dim(u, i) == IF Implicit(u, rank, i) THEN 1 ELSE u[Axis(u, rank, i)]
  IN  [ok    |-> \A i \in 1..rank : Dim(s, i) = 1 \/ Dim(t, i) \in {1, Dim(s, i)},
       shape |-> [i \in 1..rank |-> IF Dim(s, i) = 1 THEN Dim(t, i) ELSE Dim(s, i)]]

-----------------------------------------------------------------------------
(* Run-time shapes a symbolic shape stands for: a symbol has one value     *)
(* wherever it appears, every Unknown a value of its own.                  *)

Symbols == {d \in UNION {ToSet(query.inputs[i].shape) : i \in 1..Len(query.inputs)} : d < Unknown}

ExtentsOf(d, value) ==
  IF IsStatic(d) THEN {d} ELSE IF IsUnknown(d) THEN Extents ELSE {value[d]}
Instances(shape, value) ==
  FoldLeft(LAMBDA acc, d : {Append(c, e) : c \in acc, e \in ExtentsOf(d, value)}, {<<>>}, shape)
RuntimeInputs(inputs, value) ==
  FoldLeft(LAMBDA acc, s : {Append(c, e) : c \in acc, e \in Instances(s.shape, value)},
           {<<>>}, inputs)

AsSpecs(inputs, concrete) ==
  [i \in 1..Len(inputs) |-> Spec(inputs[i].dtype, concrete[i])]

(* What the kernels compute on run-time shapes: the concrete broadcasting  *)
(* for the operators that broadcast, else inference on static shapes.      *)
RuntimeResult(q, concrete) ==
  LET inferred == InferOperator(q.op, q.params, AsSpecs(q.inputs, concrete))
  IN  IF q.op \in {"Add", "SiluMul", "ElementwiseMul"}
      THEN LET b == BroadcastShapes(concrete[1], concrete[2])
           IN  [ok |-> b.ok, shapes |-> <<b.shape>>]
      ELSE [ok |-> inferred.ok,
            shapes |-> [i \in 1..Len(inferred.outputs) |-> inferred.outputs[i].shape]]

-----------------------------------------------------------------------------
(* A query is an application [op, params, inputs, ranks, dims] whose input *)
(* shapes grow, one dimension of dims at a time, up to the given ranks.    *)

Init == query \in Applications

Next ==
  \E i \in 1..Len(query.inputs) :
    /\ Rank(query.inputs[i]) < query.ranks[i]
    /\ \E d \in query.dims : query' = [query EXCEPT !.inputs[i].shape = Append(@, d)]

Inference == InferOperator(query.op, query.params, query.inputs)

(* The widths that RoPE and Attention leave to the kernels are static.     *)
WidthsStatic ==
  \A i \in CASE query.op = "RoPE" -> {1, 2} [] query.op = "Attention" -> {1} [] OTHER -> {} :
    Rank(query.inputs[i]) = 2 => IsStatic(query.inputs[i].shape[2])

ExactFor(sym, value) ==
  \A concrete \in RuntimeInputs(query.inputs, value) :
    LET result == RuntimeResult(query, concrete)
    IN  /\ (sym.ok /\ ValidateShapeConstraints(sym.checks, concrete, <<>>)) = result.ok
        /\ result.ok => \A o \in 1..Len(result.shapes) :
                          result.shapes[o] \in Instances(sym.outputs[o].shape, value)

(* Symbolic inference, InferOperator, and the checks it defers to the run  *)
(* time (ValidateShapeConstraints in the layer runner) together accept     *)
(* exactly the run-time shapes that the concrete operator accepts, and the *)
(* inferred output spec stands for the shape the operator really produces. *)
DeferredChecksExact ==
  query.op # "Reshape" /\ WidthsStatic =>
    \A value \in [Symbols -> Extents] : ExactFor(Inference, value)

ReshapeSound(sym, value) ==
  \A concrete \in RuntimeInputs(query.inputs, value) :
    \A out \in Instances(sym.outputs[1].shape, value) :
      LET volumes == {Product(concrete[1]), Product(out)}
      IN  Overflowed \notin volumes =>
            (ValidateShapeConstraints(sym.checks, concrete, out)
               <=> Product(concrete[1]) = Product(out))

(* A reshape that InferReshape accepts runs if and only if it keeps the    *)
(* number of elements, whether the proof was made on symbols, by computing *)
(* the inferred dimension, or left to the run time.  The dimensions of the *)
(* input are static or symbols: EvaluateSymbolicVolumeConstraint takes an  *)
(* Unknown dimension for equal to any other and drops the check.           *)
ReshapeKeepsVolume ==
  query.op = "Reshape" /\ Inference.ok /\ Unknown \notin ToSet(query.inputs[1].shape)
    => \A value \in [Symbols -> Extents] : ReshapeSound(Inference, value)
=============================================================================
