----------------------------- MODULE HfLoading ------------------------------
(***************************************************************************)
(* Loading a Hugging Face model directory, ModelLoader::Load               *)
(* (src/model/model_loader.cpp): the directory reader, the safetensors     *)
(* files and their index, the validator, the weight resolver and the       *)
(* prepacking of the linear weights (src/model/formats/hf and src/model).  *)
(* The loaded model is then handed to ModelGraphBuilder (LlamaBuilder).    *)
(*                                                                         *)
(* JSON documents are modelled by their fields; HfJson models the reader   *)
(* that finds them, and a document that it cannot read is ill-formed.      *)
(* A tensor name is <<role, layer, slot>>: <<"embed", 0, "">>,             *)
(* <<"layer", 0, "q">>; role "other" with a slot that says which pattern   *)
(* the name contains.  Layer -1 is an index that is no number.             *)
(*                                                                         *)
(* A directory is                                                          *)
(*   [root, config, single, index : what is at the path,                   *)
(*    fields : the fields of config.json, in order,                        *)
(*    weight_map : the entries of the index, in order,                     *)
(*    files : the safetensors files]                                       *)
(* and a safetensors file                                                  *)
(*   [kind, contained, size, header_length, readable, metadata, entries]   *)
(* where an entry is [name, dtype, shape, offsets], offsets being <<>> if  *)
(* the field is missing.                                                   *)
(***************************************************************************)
EXTENDS LlamaBuilder, FiniteSets

CONSTANTS Directories,    \* the model directories
          kMaxHeaderSize, \* largest safetensors header
          AddressBits     \* width of uint64_t in sizes of tensors and files

VARIABLE load  \* [dir, stage, config, table, resolved, sidecar, graph]

Overflow == -1
CheckedProduct(factors) ==
  FoldLeft(LAMBDA p, d : IF p = Overflow \/ p * d >= 2 ^ AddressBits THEN Overflow ELSE p * d,
           1, factors)

-----------------------------------------------------------------------------
(* HfDirectoryReader: the files of the directory *)

RequiredFile(path) == path = "regular"
OptionalFile(path) == path \in {"regular", "absent"}

InspectDirectory(dir) ==
  /\ dir.root = "directory"
  /\ RequiredFile(dir.config)
  /\ OptionalFile(dir.single) /\ OptionalFile(dir.index)
  /\ Cardinality({p \in {"single", "index"} : dir[p] = "regular"}) = 1

-----------------------------------------------------------------------------
(* ConfigJsonParser.  A field is [key, ok, value]; ok is FALSE if the      *)
(* value has not the type that the key asks for.                           *)

HfRopeConfig == [theta |-> 10, factor |-> <<>>, type |-> "none"]
HfModelConfig ==
  [model_type |-> "", hidden_size |-> 0, intermediate_size |-> 0, num_hidden_layers |-> 0,
   num_attention_heads |-> 0, num_key_value_heads |-> 0, vocab_size |-> 0,
   max_position_embeddings |-> 0, head_dim |-> 0, rms_norm_eps |-> 0, hidden_act |-> "silu",
   tie_word_embeddings |-> FALSE, attention_bias |-> FALSE, mlp_bias |-> FALSE,
   hint_name |-> "", hint |-> "undefined", rope |-> HfRopeConfig]

(* Optional numbers are sequences.  rope_scaling replaces the factor and   *)
(* the type even if it does not mention them, the theta only if it does.   *)
ParseRopeConfig(rope, value) ==
  [theta |-> IF value.theta # <<>> THEN value.theta[1] ELSE rope.theta,
   factor |-> value.factor, type |-> value.type]

ParseTorchDType(name) ==
  CASE name \in {"float32", "float"} -> "f32"
    [] name \in {"float16", "half"} -> "f16"
    [] name = "bfloat16" -> "bf16"
    [] name \in {"float64", "double"} -> "f64"
    [] name = "int8" -> "i8"
    [] name = "int4" -> "i4"
    [] OTHER -> "undefined"

ParseField(config, field) ==
  CASE field.key \in {"rope_scaling", "rope_parameters"} ->
         [config EXCEPT !.rope = ParseRopeConfig(@, field.value)]
    [] field.key = "rope_theta" -> [config EXCEPT !.rope.theta = field.value]
    [] field.key \in {"torch_dtype", "dtype"} ->
         [config EXCEPT !.hint_name = field.value, !.hint = ParseTorchDType(field.value)]
    [] field.key \in DOMAIN config \ {"rope", "hint", "hint_name"} ->
         [config EXCEPT ![field.key] = field.value]
    [] OTHER -> config

ApplyDefaults(config) ==
  IF config.num_key_value_heads > 0 THEN config
  ELSE [config EXCEPT !.num_key_value_heads = config.num_attention_heads]

ParseConfig(fields) == ApplyDefaults(FoldLeft(ParseField, HfModelConfig, fields))

-----------------------------------------------------------------------------
(* HfModelValidator::ValidateConfig *)

RequirePositive(c, field) == c[field] > 0
IsSupportedActivation(act) == act \in {"silu", "gelu", "relu"}
HasRopeScaling(rope) == rope.factor # <<>> \/ rope.type # "none"

HeadsDivide(c) ==
  /\ c.hidden_size % c.num_attention_heads = 0
  /\ c.head_dim \in {0, c.hidden_size \div c.num_attention_heads}
  /\ c.num_attention_heads % c.num_key_value_heads = 0
  /\ c.num_key_value_heads <= c.num_attention_heads

DenseHint(c) ==
  /\ ~(c.hint_name \notin {"", "auto"} /\ c.hint = "undefined")
  /\ c.hint \in {"undefined", "f32", "f16", "bf16"}

ValidateConfig(c, allow_rope_scaling) ==
  /\ c.model_type = "llama"
  /\ \A f \in {"hidden_size", "intermediate_size", "num_hidden_layers", "num_attention_heads",
               "num_key_value_heads", "vocab_size", "max_position_embeddings", "rms_norm_eps"} :
       RequirePositive(c, f)
  /\ c.rope.theta > 0
  /\ HeadsDivide(c)
  /\ c.intermediate_size >= c.hidden_size
  /\ IsSupportedActivation(c.hidden_act)
  /\ ~c.attention_bias /\ ~c.mlp_bias
  /\ HasRopeScaling(c.rope) =>
       /\ allow_rope_scaling /\ c.rope.type # "none"
       /\ c.rope.factor # <<>> /\ c.rope.factor[1] > 0
  /\ DenseHint(c)

-----------------------------------------------------------------------------
(* HfSafetensorsFile *)

nbytes == [bool |-> 1, u8 |-> 1, i8 |-> 1, fp8 |-> 1, i16 |-> 2, f16 |-> 2, bf16 |-> 2,
           i32 |-> 4, f32 |-> 4, i64 |-> 8, f64 |-> 8]

ParseTensorEntry(e, data_size) ==
  /\ e.dtype \in DOMAIN nbytes
  /\ e.offsets # <<>>
  /\ e.offsets[1] <= e.offsets[2] /\ e.offsets[2] <= data_size
  /\ \A i \in 1..Len(e.shape) : e.shape[i] >= 0
  /\ CheckedProduct(Append(e.shape, nbytes[e.dtype])) = e.offsets[2] - e.offsets[1]

Begin(e) == e.offsets[1]
End(e) == e.offsets[2]

(* The entries in the order of their first byte.  The sort is not stable:  *)
(* entries that begin together come in either order.                       *)
Sorted(entries, reversed) ==
  SortSeq(IF reversed THEN Reverse(entries) ELSE entries, LAMBDA a, b : Begin(a) < Begin(b))


(* The entries follow each other without gaps from the first byte of the   *)
(* data to its last.  With no entry but some data the code reads the last  *)
(* element of an empty vector: lucky says what it finds there.             *)
Covers(sorted, data_size, lucky) ==
  IF sorted = <<>> THEN data_size = 0 \/ lucky
  ELSE /\ Begin(sorted[1]) = 0
       /\ \A i \in 2..Len(sorted) : Begin(sorted[i]) = End(sorted[i - 1])
       /\ End(Last(sorted)) = data_size

DataSize(file) == file.size - 8 - file.header_length

ParseHeader(file, reversed, lucky) ==
  \/ file.entries = <<>> /\ ~file.metadata
  \/ /\ \A i, j \in 1..Len(file.entries) :
          i # j => file.entries[i].name # file.entries[j].name
     /\ \A i \in 1..Len(file.entries) : ParseTensorEntry(file.entries[i], DataSize(file))
     /\ Covers(Sorted(file.entries, reversed), DataSize(file), lucky)

OpenSafetensors(file, reversed, lucky) ==
  /\ file.kind = "regular"
  /\ file.size >= 8
  /\ file.header_length <= kMaxHeaderSize
  /\ 8 + file.header_length <= file.size
  /\ file.readable
  /\ ParseHeader(file, reversed, lucky)

(* RawWeightView: bytes of a file, in a type and a shape.                  *)
View(shard, e) ==
  [shard |-> shard, data |-> Begin(e), bytes |-> End(e) - Begin(e), dtype |-> e.dtype,
   shape |-> e.shape]

NamesIn(file) == {file.entries[i].name : i \in 1..Len(file.entries)}
EntryOf(file, name) == SelectSeq(file.entries, LAMBDA e : e.name = name)[1]

-----------------------------------------------------------------------------
(* HfSafetensorsIndex and the two layouts of the weights *)

ValidateShardFilename(shard) == shard # "no_file_name"

ParseWeightMap(weight_map) ==
  /\ \A i \in 1..Len(weight_map) : ValidateShardFilename(weight_map[i].shard)
  /\ \A i, j \in 1..Len(weight_map) : i # j => weight_map[i].name # weight_map[j].name

ParseIndex(weight_map) == ParseWeightMap(weight_map) /\ weight_map # <<>>

Listed(weight_map) == {weight_map[i].name : i \in 1..Len(weight_map)}
ShardOf(weight_map, name) == SelectSeq(weight_map, LAMBDA w : w.name = name)[1].shard
UniqueShardFilenames(weight_map) == {weight_map[i].shard : i \in 1..Len(weight_map)}

LoadSingleFile(dir, reversed, lucky) ==
  LET file == dir.files["model"]
  IN  [ok |-> OpenSafetensors(file, reversed, lucky),
       names |-> NamesIn(file), shard |-> [n \in NamesIn(file) |-> "model"]]

EnsureShardFileExists(dir, shard) == shard \in DOMAIN dir.files
ValidateShardPathIsContained(dir, shard) == dir.files[shard].contained

LoadShard(dir, shard, reversed, lucky) ==
  /\ EnsureShardFileExists(dir, shard)
  /\ ValidateShardPathIsContained(dir, shard)
  /\ OpenSafetensors(dir.files[shard], reversed, lucky)
  /\ NamesIn(dir.files[shard]) \subseteq Listed(dir.weight_map)
  /\ \A name \in NamesIn(dir.files[shard]) : ShardOf(dir.weight_map, name) = shard

LoadSharded(dir, reversed, lucky) ==
  LET map == dir.weight_map
      shards == UniqueShardFilenames(map)
      ok == /\ ParseIndex(map)
            /\ \A s \in shards : LoadShard(dir, s, reversed, lucky)
            /\ UNION {NamesIn(dir.files[s]) : s \in shards} = Listed(map)
  IN  [ok |-> ok, names |-> Listed(map), shard |-> [n \in Listed(map) |-> ShardOf(map, n)]]

Table(dir, source) ==
  [n \in source.names |-> View(source.shard[n], EntryOf(dir.files[source.shard[n]], n))]

-----------------------------------------------------------------------------
(* HfModelValidator::ValidateWeightSet and ValidateResolvedModel *)

LayerSlots == <<"q", "k", "v", "o", "gate", "up", "down", "input_norm", "post_norm">>
NormSlots == {"input_norm", "post_norm"}
LinearSlots == ToSet(LayerSlots) \ NormSlots

RequiredNames(c) ==
  {Global("embed"), Global("norm")}
  \cup {OfLayer(l, s) : l \in 0..(c.num_hidden_layers - 1), s \in ToSet(LayerSlots)}
KnownNames(c) == RequiredNames(c) \cup {Global("lm_head")}

IsNorm(name) == name = Global("norm") \/ (name[1] = "layer" /\ name[3] \in NormSlots)

(* Names that contain a pattern of an unsupported feature.                 *)
DetectUnsupportedTensors(names) ==
  \A n \in names : n[3] \notin {"experts", "bias", "lora", "qweight"}

ValidateLayerIndexCompleteness(names, c) ==
  \A n \in names : n[1] = "layer" => n[2] # -1 /\ n[2] < c.num_hidden_layers

ValidateWeightViewIntegrity(v) ==
  /\ v.shape # <<>> /\ \A i \in 1..Len(v.shape) : v.shape[i] > 0
  /\ CheckedProduct(Append(v.shape, nbytes[v.dtype])) = v.bytes

ValidateWeightDType(v) == v.dtype \in {"f32", "f16", "bf16"}


UniformLinearDType(names, table) ==
  \A m, n \in {w \in names : ~IsNorm(w)} : table[m].dtype = table[n].dtype

ValidateLmHeadRequirement(c, names) == Global("lm_head") \in names \/ c.tie_word_embeddings

ValidateWeightSet(c, table) ==
  LET names == DOMAIN table
      known == KnownNames(c) \cap names
  IN  /\ DetectUnsupportedTensors(names)
      /\ ValidateLayerIndexCompleteness(names, c)
      /\ RequiredNames(c) \subseteq names
      /\ \A n \in known : /\ ValidateWeightViewIntegrity(table[n])
                          /\ ValidateWeightDType(table[n])
                          /\ Len(table[n].shape) = IF IsNorm(n) THEN 1 ELSE 2
      /\ UniformLinearDType(known, table)
      /\ ValidateLmHeadRequirement(c, names)

ResolveWeights(c, table) == [n \in KnownNames(c) \cap DOMAIN table |-> table[n]]

ExpectedShape(c, name) ==
  LET hidden == c.hidden_size
      kv_hidden == c.num_key_value_heads * (hidden \div c.num_attention_heads)
  IN  CASE IsNorm(name) -> <<hidden>>
        [] name[1] \in {"embed", "lm_head"} -> <<c.vocab_size, hidden>>
        [] name[3] \in {"q", "o"} -> <<hidden, hidden>>
        [] name[3] \in {"k", "v"} -> <<kv_hidden, hidden>>
        [] name[3] \in {"gate", "up"} -> <<c.intermediate_size, hidden>>
        [] name[3] = "down" -> <<hidden, c.intermediate_size>>

ValidateResolvedModel(c, resolved) ==
  /\ \A n \in DOMAIN resolved :
       resolved[n].shape = ExpectedShape(c, n) /\ ValidateWeightDType(resolved[n])
  /\ Global("lm_head") \in DOMAIN resolved \/ c.tie_word_embeddings
  /\ UniformLinearDType(DOMAIN resolved, resolved)

-----------------------------------------------------------------------------
(* WeightPrepackPlanner, CpuWeightPrepacker and BackendSidecar.  A sidecar *)
(* maps [op_type, weight_dtype] to the view that was packed; the other     *)
(* members of a selector are the same for every request.                   *)

BuildRequests(c, resolved) ==
  [i \in 1..(7 * c.num_hidden_layers) |->
     OfLayer((i - 1) \div 7, LayerSlots[((i - 1) % 7) + 1])]
  \o (IF Global("lm_head") \in DOMAIN resolved THEN <<Global("lm_head")>> ELSE <<>>)

MakePackedSelector(view) == [op_type |-> "Linear", weight_dtype |-> view.dtype]

Store(sidecar, selector, view) ==
  [ok |-> selector \notin DOMAIN sidecar.packed,
   packed |-> sidecar.packed @@ (selector :> view)]

PrepackAndStore(resolved, requests) ==
  FoldLeft(LAMBDA s, name :
             LET selector == MakePackedSelector(resolved[name])
             IN  IF ~s.ok \/ selector \in DOMAIN s.packed THEN s
                 ELSE Store(s, selector, resolved[name]),
           [ok |-> TRUE, packed |-> <<>>], requests)

-----------------------------------------------------------------------------
(* ModelLoader::Load, step by step, and the graph of the loaded model      *)

Step(from, ok, next) ==
  /\ load.stage = from
  /\ load' = IF ok THEN next ELSE [load EXCEPT !.stage = "failed"]

Init ==
  load \in [dir : Directories, stage : {"open"}, config : {HfModelConfig}, table : {<<>>},
            resolved : {<<>>}, sidecar : {<<>>}, graph : {EmptyGraph}]

Open == Step("open", InspectDirectory(load.dir), [load EXCEPT !.stage = "config"])

Configure ==
  Step("config", \A i \in 1..Len(load.dir.fields) : load.dir.fields[i].ok,
       [load EXCEPT !.stage = "validate", !.config = ParseConfig(load.dir.fields)])

Validate == Step("validate", ValidateConfig(load.config, FALSE), [load EXCEPT !.stage = "read"])

ReadFrom(source) ==
  Step("read", source.ok, [load EXCEPT !.stage = "check", !.table = Table(load.dir, source)])

LoadRawWeightTable ==
  /\ load.stage = "read"
  /\ \E reversed, lucky \in BOOLEAN :
       ReadFrom(IF load.dir.single = "regular" THEN LoadSingleFile(load.dir, reversed, lucky)
                ELSE LoadSharded(load.dir, reversed, lucky))

CheckWeights ==
  Step("check", ValidateWeightSet(load.config, load.table), [load EXCEPT !.stage = "resolve"])

Resolve ==
  LET resolved == ResolveWeights(load.config, load.table)
  IN  Step("resolve", ValidateResolvedModel(load.config, resolved),
           [load EXCEPT !.stage = "prepack", !.resolved = resolved, !.table = <<>>])

(* CpuWeightPrepacker::Pack copies the weights into a buffer of their      *)
(* size, which may not be had.                                             *)
Pack(allocated, stored) ==
  Step("prepack", allocated /\ stored.ok,
       [load EXCEPT !.stage = "loaded", !.sidecar = stored.packed])

Prepack ==
  /\ load.stage = "prepack"
  /\ \E allocated \in BOOLEAN :
       Pack(allocated, PrepackAndStore(load.resolved, BuildRequests(load.config, load.resolved)))

Valid == ValidateConfig(load.config, TRUE) /\ ValidateResolvedModel(load.config, load.resolved)

Build ==
  /\ load.stage = "loaded"
  /\ load' = [load EXCEPT !.stage = "built",
                          !.graph = BuildLlamaDense(Valid, load.config, load.resolved)]

Next == \/ Open \/ Configure \/ Validate \/ LoadRawWeightTable
        \/ CheckWeights \/ Resolve \/ Prepack \/ Build

-----------------------------------------------------------------------------
Bytes(v) == v.data..(v.data + v.bytes - 1)
Apart(v, w) == v.shard = w.shard => Bytes(v) \cap Bytes(w) = {}

(* Whatever the files, their index and the configuration say, a model that *)
(* Load returns has every weight of every layer, in the shape that the     *)
(* configuration asks for; the bytes of each lie in the data of the file   *)
(* that the index names, and no two weights share a byte.                  *)
WeightsApart ==
  load.stage \in {"loaded", "built"} =>
    /\ RequiredNames(load.config) \subseteq DOMAIN load.resolved
    /\ \A n \in DOMAIN load.resolved :
         LET v == load.resolved[n]
         IN  /\ v.bytes = FoldLeft(LAMBDA p, d : p * d, nbytes[v.dtype], v.shape)
             /\ v.data + v.bytes <= DataSize(load.dir.files[v.shard])
             /\ n \in NamesIn(load.dir.files[v.shard])
             /\ \A m \in DOMAIN load.resolved \ {n} : Apart(v, load.resolved[m])

(* The prepacking never meets weights that are already stored, and after   *)
(* it every linear operator finds packed weights for its selector: with    *)
(* the uniform data type that the validator demands, one entry.            *)
EveryLinearServed ==
  load.stage = "loaded" =>
    /\ \A r \in ToSet(BuildRequests(load.config, load.resolved)) :
         MakePackedSelector(load.resolved[r]) \in DOMAIN load.sidecar
    /\ Cardinality(DOMAIN load.sidecar) = 1

GraphWeights == {i \in 1..Len(load.graph.values) : load.graph.values[i].kind = "weight"}

(* What Load does not check and the graph needs: rotary embeddings pair    *)
(* the elements of a head, the caches have the type of the activations,    *)
(* and Add has no float16 variant.                                         *)
Buildable ==
  LET dtype == load.resolved[Global("embed")].dtype
  IN  /\ HeadDim(load.config) % 2 = 0
      /\ dtype = IF load.config.hint = "undefined" THEN "f32" ELSE load.config.hint
      /\ dtype # "f16"

(* BuildLlamaDense takes every loaded model that is Buildable, and only    *)
(* those: the shapes that the validator accepted are the ones that shape   *)
(* inference needs in each of the nodes.  In the graph every weight of the *)
(* model is bound exactly once, with the spec that the loaded weight has.  *)
LoadedModelsBuild ==
  load.stage = "built" =>
    /\ load.graph.ok = Buildable
    /\ load.graph.ok =>
         /\ Len(load.graph.nodes) = 15 * load.config.num_hidden_layers + 4
         /\ {load.graph.values[i].binding : i \in GraphWeights}
              = RequiredNames(load.config) \cup {Global("lm_head")}
         /\ \A i, j \in GraphWeights :
              i # j => load.graph.values[i].binding # load.graph.values[j].binding
         /\ \A i \in GraphWeights :
              LET value == load.graph.values[i]
                  v == ViewOf(load.resolved, value.binding)
              IN  value.spec = [dtype |-> v.dtype, shape |-> v.shape]
=============================================================================
