--------------------------- MODULE MCComputations ---------------------------
(***************************************************************************)
(* The parts of the system that compute and keep no shared state: the size *)
(* classes of the allocator, the inference of tensor shapes and the solver *)
(* behind it, the JSON reader of the model files, and the loading of a     *)
(* model directory up to the graph built from it.  A behaviour exercises   *)
(* the one that unit names; the others stay as they were initialised.      *)
(***************************************************************************)
EXTENDS HfLoading

CONSTANTS RequestBits, PageNumBits, Extents, NumSymbols, Bindable,
          kMaxSkipDepth, MaxTokens

VARIABLES unit, request, query, solver, worlds

ASSUME Widths == RequestBits > 16 /\ SizeBits < RequestBits

-----------------------------------------------------------------------------
(* Model directories: a small Llama, and what can be wrong with one.       *)
Field(k, v) == [key |-> k, ok |-> TRUE, value |-> v]
Rope(theta, factor, type) == [theta |-> theta, factor |-> factor, type |-> type]

\* hidden 4, two heads of 2, one key-value head, intermediate 6, vocabulary 3
BaseFields ==
  <<Field("model_type", "llama"), Field("hidden_size", 4), Field("intermediate_size", 6),
    Field("num_hidden_layers", 1), Field("num_attention_heads", 2),
    Field("num_key_value_heads", 1), Field("vocab_size", 3),
    Field("max_position_embeddings", 8), Field("rms_norm_eps", 1),
    Field("torch_dtype", "bfloat16")>>

Tensor(name, dtype, shape) == [name |-> name, dtype |-> dtype, shape |-> shape, offsets |-> <<>>]
BaseTensors ==
  [i \in 1..9 |->
     Tensor(OfLayer(0, LayerSlots[i]), "bf16",
            CASE i \in {1, 4} -> <<4, 4>> [] i \in {2, 3} -> <<2, 4>> [] i \in {5, 6} -> <<6, 4>>
              [] i = 7 -> <<4, 6>> [] OTHER -> <<4>>)]
  \o <<Tensor(Global("embed"), "bf16", <<3, 4>>), Tensor(Global("norm"), "bf16", <<4>>),
       Tensor(Global("lm_head"), "bf16", <<3, 4>>)>>

\* Offsets one after the other, as a writer lays them out.
Size(t) == FoldLeft(LAMBDA p, d : p * d, IF t.dtype \in DOMAIN nbytes THEN nbytes[t.dtype] ELSE 1, t.shape)
LayOut(ts) ==
  FoldLeft(LAMBDA acc, t : [at |-> acc.at + Size(t),
                            entries |-> Append(acc.entries, [t EXCEPT !.offsets = <<acc.at, acc.at + Size(t)>>])],
           [at |-> 0, entries |-> <<>>], ts)
FileOf(laid) ==
  [kind |-> "regular", contained |-> TRUE, size |-> 8 + 4 + laid.at, header_length |-> 4,
   readable |-> TRUE, metadata |-> FALSE, entries |-> laid.entries]
File(ts) == FileOf(LayOut(ts))

Assigned(ts) == [i \in 1..Len(ts) |-> [name |-> ts[i].name, shard |-> IF i <= 6 THEN "s1" ELSE "s2"]]
Layout(fields, ts, sharded) ==
  [root |-> "directory", config |-> "regular",
   single |-> IF sharded THEN "absent" ELSE "regular",
   index |-> IF sharded THEN "regular" ELSE "absent",
   fields |-> fields, weight_map |-> IF sharded THEN Assigned(ts) ELSE <<>>,
   files |-> IF sharded
             THEN [s \in {"s1", "s2"} |-> IF s = "s1" THEN File(SubSeq(ts, 1, 6))
                                          ELSE File(SubSeq(ts, 7, Len(ts)))]
             ELSE [s \in {"model"} |-> File(ts)]]

ConfigEdits ==
  {<<>>} \cup {<<f>> : f \in
    {Field("num_hidden_layers", 2), Field("num_key_value_heads", 2), Field("num_key_value_heads", 0),
     Field("num_attention_heads", 4), Field("num_attention_heads", 3), Field("num_attention_heads", 1), Field("hidden_size", 0),
     Field("intermediate_size", 3), Field("head_dim", 2), Field("head_dim", 3),
     Field("vocab_size", 4), Field("hidden_act", "tanh"), Field("hidden_act", "gelu"),
     Field("tie_word_embeddings", TRUE), Field("attention_bias", TRUE), Field("model_type", "bert"),
     Field("dtype", "float16"), Field("dtype", "auto"), Field("dtype", "int8"), Field("dtype", "float32"),
     Field("rope_theta", 0), Field("rope_scaling", Rope(<<>>, <<>>, "none")),
     Field("rope_scaling", Rope(<<5>>, <<2>>, "linear")), Field("extra", 0),
     [Field("vocab_size", 0) EXCEPT !.ok = FALSE]}}

Without(ts, i) == SubSeq(ts, 1, i - 1) \o SubSeq(ts, i + 1, Len(ts))
TensorEdits(ts) ==
  {ts} \cup {Without(ts, i) : i \in {1, 8, 10, 11, 12}}
       \cup {[ts EXCEPT ![i].dtype = d] : i \in {2, 9, 12}, d \in {"f32", "i8", "x"}}
       \cup {[i \in 1..Len(ts) |-> [ts[i] EXCEPT !.dtype = d]] : d \in {"f32", "f16"}}
       \cup {[ts EXCEPT ![i].shape = Reverse(@)] : i \in {2, 5, 7, 10}}
       \cup {[ts EXCEPT ![i].shape = s] : i \in {3, 11}, s \in {<<>>, <<0>>, <<4, 4>>, <<8>>, <<-1, 4>>}}
       \cup {Append(ts, Tensor(n, "bf16", <<2>>)) :
               n \in {<<"other", 0, "inv_freq">>, <<"other", 0, "bias">>, OfLayer(1, "q"), OfLayer(-1, "q"),
                      OfLayer(0, "inv_freq"), OfLayer(0, "q"), OfLayer(0, "experts")}}
       \cup {Append(ts, Tensor(<<"other", 0, "empty">>, "bf16", <<0>>)),
             <<Tensor(<<"other", 0, "empty">>, "bf16", <<0>>)>> \o ts}

\* Damage to the files themselves.
FileEdits(dir, s) ==
  LET f == dir.files[s]
      Put(g) == [dir EXCEPT !.files[s] = g]
      e == f.entries[1]
  IN  {Put([f EXCEPT !.size = @ + 1]), Put([f EXCEPT !.size = @ - 1]), Put([f EXCEPT !.size = 7]),
       Put([f EXCEPT !.header_length = 30]), Put([f EXCEPT !.header_length = 20, !.size = 20]), Put([f EXCEPT !.readable = FALSE]),
       Put([f EXCEPT !.kind = "symlink"]), Put([f EXCEPT !.contained = FALSE]),
       Put([f EXCEPT !.entries = <<>>]), Put([f EXCEPT !.entries = <<>>, !.metadata = TRUE]),
       Put([f EXCEPT !.entries = <<>>, !.size = 12]),
       Put([f EXCEPT !.entries = Append(@, e)]),
       Put([f EXCEPT !.entries[1].offsets = <<>>]),
       Put([f EXCEPT !.entries[2].offsets = e.offsets]), Put([f EXCEPT !.entries[3].offsets = f.entries[2].offsets]),
       Put([f EXCEPT !.entries[1].offsets = f.entries[2].offsets, !.entries[2].offsets = e.offsets]),
       Put([f EXCEPT !.entries[1].offsets = <<e.offsets[2], e.offsets[1]>>]),
       Put([f EXCEPT !.entries[1].shape = <<4, 64>>]),
       Put([f EXCEPT !.entries[1].shape = <<64, 32>>, !.entries[1].offsets = <<0, 0>>]),
       Put([f EXCEPT !.entries = Reverse(@)])}
PathEdits(dir) ==
  {[dir EXCEPT !.root = "absent"], [dir EXCEPT !.config = "symlink"], [dir EXCEPT !.config = "absent"],
   [dir EXCEPT !.index = "other"], [dir EXCEPT !.single = "regular", !.index = "regular"],
   [dir EXCEPT !.single = "absent", !.index = "absent"]}
IndexEdits(dir) ==
  IF dir.weight_map = <<>> THEN {}
  ELSE {[dir EXCEPT !.weight_map[1].shard = x] : x \in {"s2", "s3", "no_file_name"}}
       \cup {[dir EXCEPT !.weight_map = Tail(@)], [dir EXCEPT !.weight_map = <<>>],
             [dir EXCEPT !.weight_map = Append(@, @[1])],
             [dir EXCEPT !.weight_map = Append(@, [name |-> OfLayer(1, "q"), shard |-> "s1"])],
             \* the same tensor in both shards
             [dir EXCEPT !.files["s2"] = File(Append(SubSeq(BaseTensors, 7, 12), BaseTensors[1]))]}

Base(sharded) == Layout(BaseFields, BaseTensors, sharded)
Edited(sharded) ==
  FileEdits(Base(sharded), IF sharded THEN "s2" ELSE "model") \cup PathEdits(Base(sharded)) \cup IndexEdits(Base(sharded))
Dirs ==
  {Layout(BaseFields \o c, ts, sharded) : c \in ConfigEdits, ts \in TensorEdits(BaseTensors), sharded \in BOOLEAN}
  \cup Edited(TRUE) \cup Edited(FALSE)

-----------------------------------------------------------------------------
(* Operator applications: parameters, the data types of the inputs, their  *)
(* ranks and the dimensions to choose from.                                *)
Ops == INSTANCE TensorInference WITH Applications <- {}
Of(t) == Ops!Spec(t, <<>>)
App(op, p, inputs, ranks, dims) == [op |-> op, params |-> p, inputs |-> inputs, ranks |-> ranks, dims |-> dims]
Cache == Ops!Spec("f32", <<1, 2, 2>>)
Heads == [head_dim |-> 2, num_attention_heads |-> 2, num_key_value_heads |-> 1, valid |-> TRUE]
Apps ==
  {App("Add", <<>>, <<Of("f32"), Of("f32")>>, <<2, 2>>, {1, 2, -1, -2, -3})}
  \cup {App("MatMul", [transpose_rhs |-> t], <<Of("f32"), Of("f16")>>, r, {2, -1, -2}) : t \in BOOLEAN, r \in {<<3, 2>>, <<2, 3>>}}
  \cup {App("Linear", <<>>, <<Of("f32"), Of("bf16")>>, <<2, 2>>, {0, 2, -1, -2}),
        App("RmsNorm", <<>>, <<Of("f32"), Of("bf16")>>, <<2, 1>>, {0, 2, 4, -1, -2}),
        App("Embedding", <<>>, <<Of("i64"), Of("bf16")>>, <<1, 2>>, {0, 2, -1, -2, -3}),
        App("RoPE", Heads, <<Of("f32"), Of("f32"), Of("i64")>>, <<2, 2, 1>>, {2, 4, -1, -2}),
        App("Attention", Heads, <<Of("f32"), Cache, Cache>>, <<2, 3, 3>>, {0, 1, 4, -1, -2})}
  \cup {App("Argmax", [axis |-> a], <<Of("f32")>>, <<3>>, {0, 2, -1, -2}) : a \in {-2, -1, 0, 1}}
  \cup {App("Permute", [permutation |-> p], <<Of("f32")>>, <<3>>, {2, -1, -2}) : p \in {<<1, 0>>, <<1, 2, 0>>, <<0, 0>>}}
  \cup {App("Reshape", [target_shape |-> t], <<Of("f32")>>, <<3>>, {0, 2, 4, -1, -2}) :
          t \in {<<>>, <<Ops!Infer>>, <<Ops!Literal(2), Ops!Infer>>, <<Ops!Input(0), Ops!Infer>>, <<Ops!Infer, Ops!Infer>>, <<Ops!Literal(4), Ops!Literal(2)>>,
                 <<Ops!Input(1), Ops!Input(0)>>, <<Ops!Input(0), Ops!Input(0)>>, <<Ops!Input(0), Ops!Literal(4), Ops!Infer>>}}

Sizes == INSTANCE SizeClass WITH SizeBits <- RequestBits
Inference == INSTANCE TensorInference WITH Applications <- Apps
Solver == INSTANCE SymbolSolver
Json == INSTANCE HfJson

PartsInit ==
  \/ unit = "size" /\ Sizes!Init /\ query = <<>> /\ solver = <<>> /\ worlds = {} /\ load = <<>>
  \/ unit = "inference" /\ Inference!Init /\ request = 0 /\ solver = <<>> /\ worlds = {} /\ load = <<>>
  \/ unit = "solver" /\ Solver!Init /\ request = 0 /\ query = <<>> /\ load = <<>>
  \/ unit = "json" /\ Json!Init /\ request = 0 /\ solver = <<>> /\ worlds = {} /\ load = <<>>
  \/ unit = "loading" /\ Init /\ request = 0 /\ query = <<>> /\ solver = <<>> /\ worlds = {}

PartsNext ==
  /\ UNCHANGED unit
  /\ \/ unit = "size" /\ Sizes!Next /\ UNCHANGED <<query, solver, worlds, load>>
     \/ unit = "inference" /\ Inference!Next /\ UNCHANGED <<request, solver, worlds, load>>
     \/ unit = "solver" /\ Solver!Next /\ UNCHANGED <<request, query, load>>
     \/ unit = "json" /\ Json!Next /\ UNCHANGED <<request, solver, worlds, load>>
     \/ unit = "loading" /\ Next /\ UNCHANGED <<request, query, solver, worlds>>

PartsSpec == PartsInit /\ [][PartsNext]_<<unit, request, query, solver, worlds, load>>

-----------------------------------------------------------------------------
(***************************************************************************)
(* size_class.h, Span::Init and am_malloc: every size goes to the smallest *)
(* class that holds it, the span of a class has room for its bitmap, its   *)
(* objects and two batches, and a request obtains at least its bytes or    *)
(* null, also where AlignUp wraps.                                         *)
(***************************************************************************)
SizesServed ==
  unit = "size" => Sizes!RoundUpIsLeast /\ Sizes!LayoutFits /\ Sizes!ServedEnough

(***************************************************************************)
(* Shape inference on symbols together with the checks it defers to the    *)
(* run time accepts exactly the shapes the operator accepts, and a reshape *)
(* exactly when it keeps the number of elements (InferOperator,            *)
(* shape_constraint_evaluator.cpp).                                        *)
(***************************************************************************)
InferenceExact ==
  unit = "inference" => Inference!DeferredChecksExact /\ Inference!ReshapeKeepsVolume

(***************************************************************************)
(* SymbolConstraintSolver answers "equal" or "different" exactly when the  *)
(* equations it accepted force it, and refuses exactly the equations that  *)
(* contradict them (AddEqual, EvaluateEqual).                              *)
(***************************************************************************)
SolverExact == unit = "solver" => Solver!SolverExact

(***************************************************************************)
(* hf_json_reader.cpp: on any text, each of the parsers and SkipValue      *)
(* accepts exactly the texts that begin with one value of its kind, and    *)
(* stops right behind that value.                                          *)
(***************************************************************************)
ReadsOneValue == unit = "json" => Json!ReadsOneValue


=============================================================================
