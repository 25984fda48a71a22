---------------------------- MODULE BytellTable ----------------------------
(***************************************************************************)
(* ska::bytell_hash_map and bytell_hash_set, include/container/            *)
(* bytell_hash_map.hpp.  The elements whose hash asks for one slot form a  *)
(* chain that starts in that slot (a direct hit); every slot has a control *)
(* byte that says what it holds and which of a table of jump distances     *)
(* leads to the next slot of its chain.  The blocks of BlockSize slots are *)
(* layout only: a slot is named by its index.                              *)
(***************************************************************************)
EXTENDS HashPolicies, FiniteSets, TLC

CONSTANTS
  Keys,
  Elements,             \* the [key, value] pairs the program inserts
  Setups,               \* the [policy, hash] pairs considered
  num_jump_distances,   \* 126 in the code
  MinGrow,              \* the least size grow() asks for, 10 in the code
  LoadFactor,           \* _max_load_factor, 0.9375 in the code, in percent
  Requests              \* arguments of rehash and reserve

VARIABLES
  table,                \* one sherwood_v8_table
  hash,                 \* its hash function
  want                  \* what the calls so far say it holds

jump_distances == <<0, 1, 2, 3, 4, 5, 6, 7, 8, 9, 10, 11, 12, 13, 14, 15, 21, 28, 36, 45, 55>>

(* control_bytes and data of a slot; a reserved slot has no element.       *)
Empty == [control |-> "empty", jump |-> 0]
Reserved == [control |-> "reserved", jump |-> 0]
DirectHit(kv, j) == [control |-> "direct_hit", jump |-> j, key |-> kv.key, value |-> kv.value]
ListEntry(kv) == [control |-> "list_entry", jump |-> 0, key |-> kv.key, value |-> kv.value]
is_direct_hit(slot) == slot.control = "direct_hit"
Occupied(slot) == slot.control \in {"direct_hit", "list_entry"}

NewTable(policy) ==
  [slots |-> [i \in 0 .. 1 |-> Empty], num_slots_minus_one |-> 0, num_elements |-> 0, policy |-> policy]

reset_to_empty_state(t) ==
  [t EXCEPT !.slots = [i \in 0 .. 1 |-> Empty], !.num_slots_minus_one = 0]

bucket_count(t) == IF t.num_slots_minus_one = 0 THEN 0 ELSE t.num_slots_minus_one + 1
num_buckets_for_reserve(n) == CeilDiv(n * 100, LoadFactor)
is_full(t) ==
  \/ t.num_slots_minus_one = 0
  \/ (t.num_elements + 1) * 100 > (t.num_slots_minus_one + 1) * LoadFactor

Home(t, k) == index_for_hash(t.policy, hash[k], t.num_slots_minus_one)
Jump(t, i, j) == keep_in_range(t.policy, i + jump_distances[j + 1], t.num_slots_minus_one)
Follow(t, i) == Jump(t, i, t.slots[i].jump)
has_next(t, i) == t.slots[i].jump # 0

(* The chain from slot i on.                                               *)
RECURSIVE Chain(_, _)
Chain(t, i) == <<i>> \o IF has_next(t, i) THEN Chain(t, Follow(t, i)) ELSE <<>>

(* find: the slot, or -1 for end().                                        *)
find(t, k) ==
  IF ~is_direct_hit(t.slots[Home(t, k)]) THEN -1
  ELSE LET hits == SelectSeq(Chain(t, Home(t, k)), LAMBDA i : t.slots[i].key = k) IN
       IF hits = <<>> THEN -1 ELSE hits[1]

find_parent_block(t, i) ==
  LET chain == Chain(t, Home(t, t.slots[i].key)) IN
  chain[CHOOSE n \in 1 .. Len(chain) - 1 : chain[n + 1] = i]

(* The first jump from slot i to an empty slot, 0 if there is none.        *)
find_free_index(t, i) ==
  LET free == {j \in 1 .. num_jump_distances - 1 : t.slots[Jump(t, i, j)] = Empty} IN
  IF free = {} THEN 0 ELSE Least(free)

Store(t, i, slot) == [t EXCEPT !.slots[i] = slot]
set_next(t, i, j) == [t EXCEPT !.slots[i].jump = j]
Link(t, parent, j, kv) == set_next(Store(t, Jump(t, parent, j), ListEntry(kv)), parent, j)

(* The loop of emplace_direct_hit: the elements of a foreign chain from    *)
(* slot i on are moved, each to a free slot reached from the one before.   *)
(* "done" is FALSE when there is no such slot.                             *)
RECURSIVE MoveChain(_, _, _, _, _)
MoveChain(t, block, i, parent, j) ==
  LET moved == Link(t, parent, j, t.slots[i])
      free == Jump(t, parent, j)
      freed == Store(Store(moved, i, Empty), block, Reserved)
      j2 == find_free_index(freed, free)
  IN IF ~has_next(t, i) THEN [done |-> TRUE, table |-> Store(moved, i, Empty)]
     ELSE IF j2 = 0 THEN [done |-> FALSE, table |-> freed]
     ELSE MoveChain(freed, block, Follow(t, i), free, j2)

RECURSIVE Emplace(_, _), Rehash(_, _), EmplaceAll(_, _)

Grow(t) == Rehash(t, Larger(MinGrow, 2 * bucket_count(t)))

emplace_direct_hit(t, i, kv) ==
  IF is_full(t) THEN Emplace(Grow(t), kv)
  ELSE IF t.slots[i] = Empty THEN [Store(t, i, DirectHit(kv, 0)) EXCEPT !.num_elements = @ + 1]
  ELSE LET parent == find_parent_block(t, i)
           j == find_free_index(t, parent)
           moved == MoveChain(t, i, i, parent, j)
       IN IF j = 0 THEN Emplace(Grow(t), kv)
          ELSE IF ~moved.done THEN Emplace(Grow(moved.table), kv)
          ELSE [Store(moved.table, i, DirectHit(kv, 0)) EXCEPT !.num_elements = @ + 1]

emplace_new_key(t, parent, kv) ==
  LET j == find_free_index(t, parent) IN
  IF is_full(t) \/ j = 0 THEN Emplace(Grow(t), kv)
  ELSE [Link(t, parent, j, kv) EXCEPT !.num_elements = @ + 1]

Emplace(t, kv) ==
  LET home == Home(t, kv.key) IN
  IF ~is_direct_hit(t.slots[home]) THEN emplace_direct_hit(t, home, kv)
  ELSE IF find(t, kv.key) # -1 THEN t
  ELSE LET chain == Chain(t, home) IN emplace_new_key(t, chain[Len(chain)], kv)

EmplaceAll(t, kvs) ==
  IF kvs = <<>> THEN t ELSE EmplaceAll(Emplace(t, Head(kvs)), Tail(kvs))

(* The elements in slots lo .. hi, in ascending or descending order: a     *)
(* rehash goes up, the iterators go down.                                  *)
Slots(t) == 0 .. t.num_slots_minus_one
Upward(t) == SelectSeq([n \in 1 .. Cardinality(Slots(t)) |-> t.slots[n - 1]], Occupied)
From(t, i) == SelectSeq([n \in 1 .. i + 1 |-> t.slots[i + 1 - n]], LAMBDA s : s # Empty)
begin(t) == IF bucket_count(t) = 0 THEN -1 ELSE t.num_slots_minus_one
Iteration(t) == From(t, begin(t))

Rehash(t, num_items) ==
  LET wanted == Larger(num_items, num_buckets_for_reserve(t.num_elements))
      slots == next_size_over(t.policy, wanted)
  IN IF wanted = 0 THEN reset_to_empty_state(t)
     ELSE IF slots = t.num_slots_minus_one + 1 THEN t
     ELSE EmplaceAll([t EXCEPT !.slots = [i \in 0 .. slots - 1 |-> Empty],
                               !.num_slots_minus_one = slots - 1,
                               !.num_elements = 0],
                     Upward(t))

rehash_for_other_container(t, other) ==
  Rehash(t, Smaller(num_buckets_for_reserve(other.num_elements), bucket_count(other)))

(* erase(it): the last element of the chain takes the place.               *)
EraseAt(t, i) ==
  LET chain == Chain(t, i)
      last == chain[Len(chain)]
      previous == chain[Len(chain) - 1]
      filled == [t EXCEPT !.slots[i] = [@ EXCEPT !.key = t.slots[last].key, !.value = t.slots[last].value]]
      cut == IF has_next(t, i) THEN set_next(Store(filled, last, Empty), previous, 0)
             ELSE IF is_direct_hit(t.slots[i]) THEN Store(t, i, Empty)
             ELSE set_next(Store(t, i, Empty), find_parent_block(t, i), 0)
  IN [cut EXCEPT !.num_elements = @ - 1]

\* Mutant: a slot that erase has refilled is passed over.
ResumeBelow(t, i) ==
  LET below == {j \in 0 .. i - 1 : t.slots[j] # Empty} IN
  IF below = {} THEN -1 ELSE CHOOSE j \in below : \A l \in below : l <= j

(* Where the iterator that erase returns stands.                           *)
Resume(t, i) ==
  IF t.slots[i] # Empty THEN i
  ELSE LET below == {j \in 0 .. i - 1 : t.slots[j] # Empty} IN
       IF below = {} THEN -1 ELSE CHOOSE j \in below : \A l \in below : l <= j

Depth(t, i) == LET chain == Chain(t, Home(t, t.slots[i].key)) IN CHOOSE n \in 1 .. Len(chain) : chain[n] = i

clear_table(t) == IF t.num_slots_minus_one = 0 THEN t
                  ELSE [t EXCEPT !.slots = [i \in DOMAIN @ |-> Empty], !.num_elements = 0]

(* The slots of a range are erased deepest in its chain first, so that the *)
(* element moved into the gap is never one of the range; the order of      *)
(* slots of one depth is left to the sort.                                 *)
RECURSIVE EraseDeepest(_, _)
EraseDeepest(t, range) ==
  IF range = {} THEN t
  ELSE LET i == CHOOSE x \in range : \A y \in range : Depth(t, x) >= Depth(t, y) IN
       EraseDeepest(EraseAt(t, i), range \ {i})

EraseRange(t, b, e) ==
  LET range == {i \in e + 1 .. b : t.slots[i] # Empty}
      rest == EraseDeepest(t, range)
  IN IF b = e THEN [table |-> t, next |-> b]
     ELSE IF range = {i \in Slots(t) : t.slots[i] # Empty} /\ Cardinality(range) > 1
     THEN [table |-> clear_table(t), next |-> e]
     ELSE [table |-> rest, next |-> Resume(rest, b)]

Iterators(t) == {i \in Slots(t) : t.slots[i] # Empty} \cup {-1}

-----------------------------------------------------------------------------
Init ==
  \E s \in Setups : hash = s.hash /\ table = NewTable(s.policy) /\ want = <<>>

Insert(kv) ==
  table' = Emplace(table, kv)

insert_or_assign(kv) ==
  LET i == find(table, kv.key) IN
  table' = IF i = -1 THEN Emplace(table, kv) ELSE [table EXCEPT !.slots[i].value = kv.value]

EraseKey(k) ==
  LET i == find(table, k) IN
  table' = IF i = -1 THEN table ELSE EraseAt(table, i)

(* erase(begin, end) for two iterators, begin before end.                  *)
EraseBetween(b, e) ==
  /\ b >= e
  /\ table' = EraseRange(table, b, e).table

rehash(n) ==
  table' = Rehash(table, n)

reserve(n) ==
  table' = IF num_buckets_for_reserve(n) > bucket_count(table)
           THEN Rehash(table, num_buckets_for_reserve(n)) ELSE table

clear ==
  table' = clear_table(table)

shrink_to_fit ==
  table' = rehash_for_other_container(table, table)

(* The program goes on with a copy and drops the original.                 *)
CopyTable ==
  table' = EmplaceAll(rehash_for_other_container(NewTable(table.policy), table), Iteration(table))

(* The table is moved from: swap_pointers with a table just constructed.   *)
MoveAway ==
  table' = NewTable(table.policy)

(* What is left of the contents wanted without the keys K. *)
Less(K) == [k \in DOMAIN want \ K |-> want[k]]
KeysOf(kvs) == {kvs[i].key : i \in DOMAIN kvs}

Next ==
  /\ UNCHANGED hash
  /\ \/ \E kv \in Elements : Insert(kv) /\ want' = want @@ kv.key :> kv.value
     \/ \E kv \in Elements : insert_or_assign(kv) /\ want' = kv.key :> kv.value @@ want
     \/ \E k \in Keys : EraseKey(k) /\ want' = Less({k})
     \/ \E b, e \in Iterators(table) :
          EraseBetween(b, e) /\ want' = Less(KeysOf(From(table, b)) \ KeysOf(From(table, e)))
     \/ (clear \/ MoveAway) /\ want' = Less(DOMAIN want)
     \/ UNCHANGED want /\ \E n \in Requests : rehash(n) \/ reserve(n)
     \/ UNCHANGED want /\ (shrink_to_fit \/ CopyTable)

Spec == Init /\ [][Next]_<<table, hash, want>>

-----------------------------------------------------------------------------
Contents(t) ==
  LET place == [k \in Keys |-> find(t, k)] IN
  [k \in {x \in Keys : place[x] # -1} |-> t.slots[place[k]].value]
Pairs(kvs) == {<<kvs[i].key, kvs[i].value>> : i \in DOMAIN kvs}

(* find and the iterators agree: no reserved slot is left behind, every    *)
(* element visited is found under its key, none is visited twice, and      *)
(* size() counts them.                                                     *)
FoundIsVisited(t) ==
  LET seen == Iteration(t)
      found == Contents(t) IN
  /\ \A i \in DOMAIN seen : Occupied(seen[i])
  /\ Len(seen) = t.num_elements
  /\ Cardinality(Pairs(seen)) = Len(seen)
  /\ Pairs(seen) = {<<k, found[k]>> : k \in DOMAIN found}

(* Erasing through an iterator, or a range of them, removes exactly those  *)
(* elements, and the iterator returned still passes over every element     *)
(* that followed.                                                          *)
EraseResumes(t) ==
  \A b, e \in Iterators(t) :
    b > e =>
      LET r == EraseRange(t, b, e)
          one == EraseAt(t, b)
      IN /\ FoundIsVisited(r.table)
         /\ Pairs(Iteration(r.table)) = Pairs(Iteration(t)) \ (Pairs(From(t, b)) \ Pairs(From(t, e)))
         /\ Pairs(From(t, e)) \subseteq Pairs(From(r.table, r.next))
         /\ Pairs(Tail(From(t, b))) \subseteq Pairs(From(one, Resume(one, b)))
=============================================================================
