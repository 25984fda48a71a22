------------------------------ MODULE DenseMap ------------------------------
(***************************************************************************)
(* Map, SmallMapObj and DenseMapObj of include/container/map.h: an array   *)
(* of up to kThreshold pairs that becomes a hash table.  Two Map variables *)
(* may share an object, which is copied on write.                          *)
(***************************************************************************)
EXTENDS SlotChains

CONSTANTS
  Elements,          \* the [key, value] pairs the program inserts
  Setups,            \* the hash functions considered, each over the keys used with it
  kThreshold,        \* 4 in the code
  Sizes              \* arguments of Map(n)

VARIABLE
  table              \* the two variables: the object of each, and whether it is one object

-----------------------------------------------------------------------------
(* SmallMapObj: the pairs in insertion order; an index counts from 0.      *)
Small(kvs) == [kind |-> "small", items |-> kvs]

SmallFind(m, k) ==
  LET hits == {i \in DOMAIN m.items : m.items[i].key = k} IN
  IF hits = {} THEN Len(m.items) ELSE Least(hits) - 1

SmallInsertImpl(m, kv, assign) ==
  LET i == SmallFind(m, kv.key) IN
  IF i = Len(m.items) THEN Small(Append(m.items, kv))
  ELSE IF assign THEN [m EXCEPT !.items[i + 1].value = kv.value] ELSE m

SmallEraseImpl(m, i) ==
  [obj |-> Small(SubSeq(m.items, 1, i) \o SubSeq(m.items, i + 2, Len(m.items))), next |-> i]

-----------------------------------------------------------------------------
Regrown(first, kv, assign) ==
  IF first.pos # None THEN first.obj
  ELSE TryInsertOrUpdate(InsertAll(Create(first.obj.slots * kIncFactor), Listed(first.obj), assign), kv, assign).obj

DenseInsertImpl(d, kv, assign) == Regrown(TryInsertOrUpdate(d, kv, assign), kv, assign)

(* MapObj::insert: a small map that is full becomes a dense one.           *)
RECURSIVE DenseFrom(_, _)
DenseFrom(d, kvs) == IF kvs = <<>> THEN d ELSE DenseFrom(DenseInsertImpl(d, Head(kvs), FALSE), Tail(kvs))

InsertInto(m, kv, assign) ==
  IF m.kind = "dense" THEN DenseInsertImpl(m, kv, assign)
  ELSE IF Len(m.items) < kThreshold THEN SmallInsertImpl(m, kv, assign)
  ELSE DenseInsertImpl(DenseFrom(Create(Len(m.items) * kIncFactor), m.items), kv, assign)

EraseImpl(m, i) == IF m.kind = "small" THEN SmallEraseImpl(m, i) ELSE EraseSlot(m, i)

find(m, k) == IF m.kind = "small" THEN SmallFind(m, k) ELSE Search(m, k)
end(m) == IF m.kind = "small" THEN Len(m.items) ELSE None
begin(m) == IF m.kind = "small" THEN 0 ELSE m.head
contains(m, k) == find(m, k) # end(m)
Positions(m) == IF m.kind = "small" THEN 0 .. Len(m.items) - 1 ELSE Occupied(m)
Iteration(m) == IF m.kind = "small" THEN m.items ELSE Listed(m)

(* erase(first, last) erases as often as first is before last, each time   *)
(* where the erase before ended; an iterator at an empty slot fails the    *)
(* check of GetEntry, and the call ends there.                             *)
RECURSIVE EraseRange(_, _, _)
EraseRange(m, i, n) ==
  IF n = 0 \/ i \notin Positions(m) THEN m
  ELSE LET r == EraseImpl(m, i) IN EraseRange(r.obj, r.next, n - 1)

NewMap(n) == IF n <= kThreshold THEN Small(<<>>) ELSE Create(n)

-----------------------------------------------------------------------------
(* A moved-from Map holds a null pointer until it is assigned or cleared.  *)
Null == [kind |-> "null", items |-> <<>>]
Usable(h) == table.obj[h] # Null

(* The object of h is written in place: a variable sharing it sees that.   *)
Write(t, h, m) ==
  [t EXCEPT !.obj = IF t.shared THEN [g \in Handles |-> m] ELSE [@ EXCEPT ![h] = m]]
Rebind(t, h, m) == [t EXCEPT !.obj[h] = m, !.shared = FALSE]

COW(t) == [t EXCEPT !.shared = FALSE]

Init ==
  /\ hash \in Setups
  /\ table = [obj |-> [h \in Handles |-> Small(<<>>)], shared |-> FALSE]
  /\ want = [h \in Handles |-> <<>>]

insert_impl(h, kv, assign) ==
  /\ Usable(h)
  /\ table' = IF ~assign /\ contains(table.obj[h], kv.key) THEN table
              ELSE Write(COW(table), h, InsertInto(table.obj[h], kv, assign))

(* m[k] = v: operator[] finds or inserts, the proxy then writes the slot.  *)
AssignAt(m, i, v) ==
  IF m.kind = "small" THEN [m EXCEPT !.items[i + 1].value = v] ELSE [m EXCEPT !.cell[i + 1].value = v]
FindAndAssign(m, kv) == AssignAt(m, find(m, kv.key), kv.value)

AssignProxy(h, kv) ==
  LET m == table.obj[h] IN
  /\ Usable(h)
  /\ table' = Write(COW(table), h,
                    FindAndAssign(IF contains(m, kv.key) THEN m ELSE InsertInto(m, kv, FALSE), kv))

EraseKey(h, k) ==
  /\ Usable(h)
  /\ table' = IF ~contains(table.obj[h], k) THEN table
              ELSE Write(COW(table), h, EraseImpl(table.obj[h], find(table.obj[h], k)).obj)

EraseFrom(h, k, n) ==
  /\ Usable(h)
  /\ contains(table.obj[h], k)
  /\ table' = Write(COW(table), h, EraseRange(table.obj[h], find(table.obj[h], k), n))

clear(h) ==
  table' = Rebind(table, h, Small(<<>>))

Construct(h, n) ==
  table' = Rebind(table, h, NewMap(n))

(* Map(first, last), and the assignment of a list.                         *)
RECURSIVE SmallFrom(_, _)
SmallFrom(m, kvs) == IF kvs = <<>> THEN m ELSE SmallFrom(SmallInsertImpl(m, Head(kvs), FALSE), Tail(kvs))

AssignList(h, kvs) ==
  table' = Rebind(table, h, IF Len(kvs) <= kThreshold THEN SmallFrom(Small(<<>>), kvs)
                            ELSE DenseFrom(Create(Len(kvs)), kvs))

CopyAssign(h, g) ==
  /\ h # g
  /\ table' = [obj |-> [x \in Handles |-> table.obj[g]], shared |-> TRUE]

MoveAssign(h, g) ==
  /\ h # g
  /\ table' = [obj |-> [table.obj EXCEPT ![h] = table.obj[g], ![g] = Null], shared |-> FALSE]

swap ==
  table' = [table EXCEPT !.obj = [a |-> table.obj["b"], b |-> table.obj["a"]]]

Values(t) == [h \in Handles |-> Iteration(IF t.obj[h] = Null THEN Small(<<>>) ELSE t.obj[h])]

Next ==
  /\ UNCHANGED hash
  /\ \/ \E h \in Handles, kv \in {e \in Elements : e.key \in DOMAIN hash} :
          \/ \E assign \in BOOLEAN : insert_impl(h, kv, assign) /\ Given(h, kv, assign)
          \/ AssignProxy(h, kv) /\ Given(h, kv, TRUE)
          \/ (AssignList(h, <<kv>>) \/ AssignList(h, <<kv, kv>>)) /\ Gets(h, kv.key :> kv.value)
     \/ \E h \in Handles, k \in DOMAIN hash :
          \/ (EraseKey(h, k) \/ EraseFrom(h, k, 1)) /\ Loses(h, {k})
          \/ EraseFrom(h, k, 2) /\ Loses(h, {k} \cup (DOMAIN want[h] \ KeysOf(Values(table')[h])))
     \/ \E h \in Handles : (clear(h) \/ \E n \in Sizes : Construct(h, n)) /\ Gets(h, <<>>)
     \/ \E h, g \in Handles : CopyAssign(h, g) /\ Gets(h, want[g])
     \/ \E h, g \in Handles : MoveAssign(h, g) /\ want' = [want EXCEPT ![h] = want[g], ![g] = <<>>]
     \/ swap /\ want' = [a |-> want["b"], b |-> want["a"]]

Spec == Init /\ [][Next]_<<table, hash, want>>

-----------------------------------------------------------------------------

Dense(t) == {m \in {t.obj[h] : h \in Handles} : m.kind = "dense"}
=============================================================================
