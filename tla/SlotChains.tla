----------------------------- MODULE SlotChains -----------------------------
(***************************************************************************)
(* The hash table that DenseMapObj (include/container/map.h) and MapImpl   *)
(* (map_v1.h) both are: the elements whose hash asks for one slot form a   *)
(* chain from that slot, and a doubly linked list through all elements     *)
(* keeps insertion order.  The two classes have the same Cursor, list and  *)
(* insertion code; the blocks of 16 slots are layout only: a slot is named *)
(* by its index.                                                           *)
(***************************************************************************)
EXTENDS HashPolicies, FiniteSets, TLC

CONSTANT kNumOffsetDists   \* 126 in the code

VARIABLES
  hash,                    \* the hash of each key, already multiplied by FibonacciHash
  want                     \* the pairs each variable of the program should hold

Handles == {"a", "b"}      \* two variables of a map type

None == -1                 \* kInvalidIndex; end()
kIncFactor == 2
NextProbePosOffset == [i \in 0 .. 125 |-> IF i < 16 THEN i ELSE ((i - 10) * (i - 9)) \div 2]

(* A slot: its metadata (what it is, and which probe offset leads to the   *)
(* next slot of its chain) and its entry.                                  *)
EmptySlot == [meta |-> "empty", off |-> 0]
ProtectedSlot == [meta |-> "protected", off |-> 0]
Entry(meta, kv) ==
  [meta |-> meta, off |-> 0, key |-> kv.key, value |-> kv.value, prev |-> None, next |-> None]

RECURSIVE Blank(_)
Blank(n) == IF n = 0 THEN <<>> ELSE Append(Blank(n - 1), EmptySlot)

(* Slot i is cell[i + 1].                                                  *)
Create(n) ==
  [kind |-> "dense", slots |-> next_power_of_two(n), cell |-> Blank(next_power_of_two(n)),
   size |-> 0, head |-> None, tail |-> None]

At(d, i) == d.cell[i + 1]
Put(d, i, slot) == [d EXCEPT !.cell[i + 1] = slot]
SetNextSlotOffsetIndex(d, i, off) == [d EXCEPT !.cell[i + 1].off = off]
Home(d, k) == index_for_hash("fibonacci", hash[k], d.slots - 1)
IsHead(d, i) == At(d, i).meta = "head"
IsSlotEmpty(d, i) == At(d, i).meta = "empty"
HasNextSlot(d, i) == At(d, i).off # 0
Probe(d, i, off) == (i + NextProbePosOffset[off]) % d.slots
Occupied(d) == {i \in 0 .. d.slots - 1 : At(d, i).meta \in {"head", "body"}}
IsFull(d) == d.size + 1 > (d.slots * 3) \div 4

RECURSIVE Chain(_, _)
Chain(d, i) == <<i>> \o IF HasNextSlot(d, i) THEN Chain(d, Probe(d, i, At(d, i).off)) ELSE <<>>
Last(chain) == chain[Len(chain)]

Search(d, k) ==
  IF ~IsHead(d, Home(d, k)) THEN None
  ELSE LET hits == SelectSeq(Chain(d, Home(d, k)), LAMBDA i : At(d, i).key = k) IN
       IF hits = <<>> THEN None ELSE hits[1]

FindPrevSlot(d, i) ==
  LET chain == Chain(d, Home(d, At(d, i).key)) IN
  chain[CHOOSE n \in 1 .. Len(chain) - 1 : chain[n + 1] = i]

(* The first probe offset from slot i to an empty slot, 0 if there is none. *)
GetNextEmptySlot(d, i) ==
  LET free == {o \in 1 .. kNumOffsetDists - 1 : IsSlotEmpty(d, Probe(d, i, o))} IN
  IF free = {} THEN 0 ELSE Least(free)

IterListPushBack(d, i) ==
  LET linked == [d EXCEPT !.cell[i + 1].prev = d.tail, !.cell[i + 1].next = None, !.tail = i] IN
  IF d.head = None /\ d.tail = None THEN [linked EXCEPT !.head = i]
  ELSE [linked EXCEPT !.cell[d.tail + 1].next = i]

IterListRemove(d, i) ==
  LET e == At(d, i)
      front == IF i = d.head THEN [d EXCEPT !.head = e.next] ELSE [d EXCEPT !.cell[e.prev + 1].next = e.next]
  IN IF i = d.tail THEN [front EXCEPT !.tail = e.prev] ELSE [front EXCEPT !.cell[e.next + 1].prev = e.prev]

IterListReplace(d, src, dst) ==
  LET e == At(d, src)
      moved == [d EXCEPT !.cell[dst + 1].prev = e.prev, !.cell[dst + 1].next = e.next]
      front == IF src = d.head THEN [moved EXCEPT !.head = dst] ELSE [moved EXCEPT !.cell[e.prev + 1].next = dst]
  IN IF src = d.tail THEN [front EXCEPT !.tail = dst] ELSE [front EXCEPT !.cell[e.next + 1].prev = dst]

(* The rest of a foreign chain, from slot r on, is moved behind slot prev, *)
(* each element to an empty slot found from the one before; the first slot *)
(* freed is protected meanwhile.  "done" is FALSE when a probe finds none. *)
RECURSIVE MoveChain(_, _, _, _)
MoveChain(d, target, r, prev) ==
  LET off == GetNextEmptySlot(d, prev)
      empty == Probe(d, prev, off)
      copied == IterListReplace(Put(d, empty, Entry("body", At(d, r))), r, empty)
      freed == Put(copied, r, IF r = target THEN ProtectedSlot ELSE EmptySlot)
      linked == SetNextSlotOffsetIndex(freed, prev, off)
  IN IF off = 0 THEN [done |-> FALSE, obj |-> d]
     ELSE IF ~HasNextSlot(d, r) THEN [done |-> TRUE, obj |-> linked]
     ELSE MoveChain(linked, target, Probe(d, r, At(d, r).off), empty)

TryAllocateListHead(d, target) == MoveChain(d, target, target, FindPrevSlot(d, target))

(* The result: the object, and the slot of the key or None when the table  *)
(* has to grow.  at is where the key was found, home where it hashes to.   *)
Added(d, i) == [obj |-> IterListPushBack([d EXCEPT !.size = @ + 1], i), pos |-> i]
Failed(d) == [obj |-> d, pos |-> None]

Headed(spared, kv, home) ==
  IF spared.done THEN Added(Put(spared.obj, home, Entry("head", kv)), home) ELSE Failed(spared.obj)

Chained(d, kv, tail, off) ==
  IF off = 0 THEN Failed(d)
  ELSE LET empty == Probe(d, tail, off) IN
       Added(SetNextSlotOffsetIndex(Put(d, empty, Entry("body", kv)), tail, off), empty)

Placed(d, kv, assign, at, home) ==
  CASE at # None /\ assign ->
         [obj |-> IterListPushBack(IterListRemove([d EXCEPT !.cell[at + 1].value = kv.value], at), at), pos |-> at]
    [] at # None /\ ~assign -> [obj |-> d, pos |-> at]
    [] at = None /\ IsSlotEmpty(d, home) -> Added(Put(d, home, Entry("head", kv)), home)
    [] at = None /\ ~IsSlotEmpty(d, home) /\ IsFull(d) -> Failed(d)
    [] at = None /\ At(d, home).meta \in {"body", "protected"} /\ ~IsFull(d) ->
         Headed(TryAllocateListHead(d, home), kv, home)
    [] at = None /\ IsHead(d, home) /\ ~IsFull(d) ->
         LET tail == Last(Chain(d, home)) IN Chained(d, kv, tail, GetNextEmptySlot(d, tail))

TryInsertOrUpdate(d, kv, assign) == Placed(d, kv, assign, Search(d, kv.key), Home(d, kv.key))

(* The iterators: forward from slot i, backward from slot i.               *)
RECURSIVE Forward(_, _), Backward(_, _)
Forward(d, i) == IF i = None THEN <<>> ELSE <<i>> \o Forward(d, At(d, i).next)
Backward(d, i) == IF i = None THEN <<>> ELSE Append(Backward(d, At(d, i).prev), i)

Pair(e) == [key |-> e.key, value |-> e.value]
Listed(d) ==
  LET order == Forward(d, d.head) IN <<>> \o [n \in 1 .. Len(order) |-> Pair(At(d, order[n]))]

(* A rehash takes what each insertion leaves, whether it succeeded or not. *)
RECURSIVE InsertAll(_, _, _)
InsertAll(d, kvs, assign) ==
  IF kvs = <<>> THEN d ELSE InsertAll(TryInsertOrUpdate(d, Head(kvs), assign).obj, Tail(kvs), assign)

(* Erasing: the last element of the chain moves into the slot.  The        *)
(* iterator returned was advanced before the move.                         *)
EraseSlot(d, i) ==
  LET chain == Chain(d, i)
      last == Last(chain)
      unlinked == IterListRemove(d, i)
      replaced == IterListReplace(unlinked, last, i)
      filled == [replaced EXCEPT !.cell[i + 1].key = At(d, last).key, !.cell[i + 1].value = At(d, last).value]
      cut == IF HasNextSlot(d, i)
             THEN SetNextSlotOffsetIndex(Put(filled, last, EmptySlot), chain[Len(chain) - 1], 0)
             ELSE Put(IterListRemove(IF IsHead(d, i) THEN d ELSE SetNextSlotOffsetIndex(d, FindPrevSlot(d, i), 0), i),
                      i, EmptySlot)
  IN [obj |-> [cut EXCEPT !.size = @ - 1], next |-> At(d, i).next]

-----------------------------------------------------------------------------
(* find, the two directions of iteration and size() agree: the chains hold *)
(* exactly the elements of the list, each under its own key, and no slot   *)
(* stays protected.                                                        *)
IndexMatchesList(d) ==
  LET order == Forward(d, d.head) IN
  /\ order = Backward(d, d.tail)
  /\ Len(order) = d.size
  /\ {order[n] : n \in DOMAIN order} = {i \in 0 .. d.slots - 1 : ~IsSlotEmpty(d, i)}
  /\ \A n \in DOMAIN order : Search(d, At(d, order[n]).key) = order[n]

-----------------------------------------------------------------------------
(***************************************************************************)
(* want: the pairs each variable holds if the calls do what they say.  The *)
(* first pair given for a key stays unless the call assigns.  Of a range   *)
(* erased only the first element is foreseen, and that nothing outside the *)
(* variable goes: the iterator erase steps with can be stale.              *)
(***************************************************************************)
Gets(h, pairs) == want' = [want EXCEPT ![h] = pairs]
Given(h, kv, assign) ==
  Gets(h, IF assign THEN kv.key :> kv.value @@ want[h] ELSE want[h] @@ kv.key :> kv.value)
Loses(h, K) == Gets(h, [k \in DOMAIN want[h] \ K |-> want[h][k]])
KeysOf(kvs) == {kvs[i].key : i \in DOMAIN kvs}
Holds(kvs, pairs) ==
  /\ Len(kvs) = Cardinality(DOMAIN pairs)
  /\ {<<kvs[i].key, kvs[i].value>> : i \in DOMAIN kvs} = {<<k, pairs[k]>> : k \in DOMAIN pairs}
=============================================================================
