---------------------------- MODULE MCContainers ----------------------------
(***************************************************************************)
(* The containers of the library, each on its own: the two hash tables of  *)
(* flat_hash_map.hpp and bytell_hash_map.hpp, the copy-on-write maps of    *)
(* map.h and map_v1.h, the strings of amstring and of container/string,    *)
(* and the searches in strings.  They share no state; a behaviour          *)
(* exercises the one that unit names, and the three variables are its.     *)
(***************************************************************************)
EXTENDS HashPolicies, FiniteSets

CONSTANTS
  Keys, LoadFactors, Requests, min_lookups, num_jump_distances, MinGrow, LoadFactor,
  kThreshold, kNumOffsetDists, kSlotsPerBlock, Sizes,
  kSmallCapacity, kMinHeapCapacity, LargeCapacityThreshold, PageChars, SizeBits,
  ProbeBits, local_capacity_, IncFactor, Chars, Capacities, CowCapacities, Counts,
  Alphabet, MaxText, MaxPattern, kMaxNaiveCandidates, MinHybridPattern, MinHybridText

VARIABLES unit, table, hash, view

Elements == {[key |-> k, value |-> k] : k \in Keys} \cup {[key |-> 1, value |-> 0]}

(***************************************************************************)
(* Hash functions: all keys in one bucket; some together in the last       *)
(* bucket, the others spread; spread by a prime; two neighbouring buckets. *)
(***************************************************************************)
Setups ==
  {[policy |-> "fibonacci", hash |-> [k \in Keys |-> 5]],
   [policy |-> "fibonacci", hash |-> [k \in Keys |-> IF k < 3 THEN 31 ELSE 16 + 3 * k]],
   [policy |-> "prime", hash |-> [k \in Keys |-> 11 * k]],
   [policy |-> "power_of_two", hash |-> [k \in Keys |-> IF k < 4 THEN 4 ELSE 5]]}

(* Of the maps: two keys that collide, and four that wrap around. *)
Hashes == {[k \in 1 .. 2 |-> 1], [k \in 1 .. 4 |-> IF k % 2 = 0 THEN 1 ELSE 62]}

Texts == {<<>>, <<1, 2, 1>>}

ASSUME LayoutAssumption ==
  /\ kSmallCapacity < 2 ^ (ProbeBits - 2)
  /\ kSmallCapacity < kMinHeapCapacity
  /\ ProbeBits < SizeBits

Flat == INSTANCE RobinHoodTable WITH want <- view
Bytell == INSTANCE BytellTable WITH want <- view
Dense == INSTANCE DenseMap WITH want <- view, Setups <- Hashes
V1 == INSTANCE MapV1 WITH want <- view, Setups <- Hashes
Am == INSTANCE Strings WITH core <- table, mode <- hash, want <- view
Cow == INSTANCE CowStrings WITH core <- table, want <- view, Capacities <- CowCapacities
Searches == INSTANCE StringSearch WITH query <- table

Init ==
  \/ unit = "flat" /\ Flat!Init
  \/ unit = "bytell" /\ Bytell!Init
  \/ unit = "dense" /\ Dense!Init
  \/ unit = "v1" /\ V1!Init
  \/ unit = "amstring" /\ Am!Init
  \/ unit = "cow" /\ Cow!Init /\ hash = <<>>
  \/ unit = "search" /\ Searches!Init /\ hash = <<>> /\ view = <<>>

(* The second map is used with the two keys that collide only. *)
TwoMaps(idle) ==
  Cardinality(DOMAIN hash) = 2 \/ (table'.obj["b"] = idle /\ ~table'.shared)

(* One string is edited, the other takes part in the transfers. *)
AmNext ==
  /\ Am!Edit("a") \/ Am!Constructs("b") \/ Am!Transfers("a", "b")
  /\ Len(view'["a"]) <= 3 /\ view'["b"] \in Texts
  /\ Am!CapacityOf(table'.str["a"]) <= 5 /\ Am!CapacityOf(table'.str["b"]) <= 3

CowNext ==
  /\ Cow!Edit("a") \/ Cow!Resizes("b") \/ Cow!Transfers("a", "b") \/ Cow!Transfers("b", "a")
  /\ Len(view'["a"]) <= 4 /\ Len(view'["b"]) <= 2
  /\ Cow!Capacity(table', "a") <= 6 /\ Cow!Capacity(table', "b") <= 4

Next ==
  /\ UNCHANGED unit
  /\ \/ unit = "flat" /\ Flat!Next
     \/ unit = "bytell" /\ Bytell!Next
     \/ unit = "dense" /\ Dense!Next /\ TwoMaps(Dense!Small(<<>>))
     \/ unit = "v1" /\ V1!Next /\ TwoMaps(V1!MapImpl(0))
     \/ unit = "amstring" /\ AmNext /\ UNCHANGED hash
     \/ unit = "cow" /\ CowNext /\ UNCHANGED hash
     \/ unit = "search" /\ Searches!Next /\ UNCHANGED <<hash, view>>

vars == <<unit, table, hash, view>>
Spec == Init /\ [][Next]_vars

-----------------------------------------------------------------------------


(***************************************************************************)
(* Search and iteration agree in every table.  The chains that find        *)
(* follows and the list the iterators of map.h and map_v1.h follow hold    *)
(* the same slots once each (TryInsertOrUpdate, IterListRemove, EraseImpl, *)
(* MoveChain).  The iterators of the hash tables visit what find finds,    *)
(* once, and the iterator that erase returns goes on with the elements not *)
(* yet visited, although the erasure moved others into the hole            *)
(* (convertible_to_iterator in both headers).                              *)
(***************************************************************************)
IterationExact ==
  /\ unit = "flat" => Flat!FoundIsVisited(table) /\ Flat!EraseResumes(table)
  /\ unit = "bytell" => Bytell!FoundIsVisited(table) /\ Bytell!EraseResumes(table)
  /\ unit = "dense" => \A m \in Dense!Dense(table) : Dense!IndexMatchesList(m)
  /\ unit = "v1" => \A m \in V1!Tables(table) : V1!IndexMatchesList(m)

(***************************************************************************)
(* Each string holds what the operations on it say: amstring in either     *)
(* layout and with the source inside the string itself, String although it *)
(* shares its implementation with its copies (core.hpp replace_range,      *)
(* string.cpp replace_aux and COW).                                        *)
(***************************************************************************)
StringsAreValues ==
  /\ unit = "amstring" => Am!StringsAreValues
  /\ unit = "cow" => Cow!CopiesAreValues

(***************************************************************************)
(* amstring: a heap block has one owner, that owner's allocator and        *)
(* capacity, and is given back once, with the count it was obtained with   *)
(* (DestroyHeapIfNeeded, Reallocate, move assignment between allocators).  *)
(***************************************************************************)
BlocksExact == unit = "amstring" => Am!BlocksExact

=============================================================================
