------------------------------- MODULE MapV1 -------------------------------
(***************************************************************************)
(* MapV1 and MapImpl of include/container/map_v1.h: a hash table from the  *)
(* first element on, shared by copies until one of them is modified.       *)
(* Unlike Map, operator[], at and the iterators hand out references into   *)
(* the table without making it unique first.                               *)
(***************************************************************************)
EXTENDS SlotChains

CONSTANTS
  Elements,          \* the [key, value] pairs the program inserts
  Setups,            \* the hash functions considered, each over the keys used with it
  kSlotsPerBlock,    \* the least table, 16 in the code
  Sizes              \* arguments of MapV1(n)

VARIABLE
  table              \* the two variables: the MapImpl of each, and whether it is one object

(* A moved-from MapV1, or one built from an empty list, has no MapImpl;    *)
(* every use but an assignment or clear would dereference the null.        *)
Null == [kind |-> "null"]
Usable(h) == table.obj[h] # Null

MapImpl(n) == Create(Larger(n, kSlotsPerBlock))

insert(d, kv, assign) ==
  LET first == TryInsertOrUpdate(d, kv, assign) IN
  IF first.pos # None THEN first.obj
  ELSE TryInsertOrUpdate(InsertAll(Create(d.slots * kIncFactor), Listed(first.obj), assign), kv, assign).obj

RECURSIVE FromList(_, _)
FromList(d, kvs) == IF kvs = <<>> THEN d ELSE FromList(insert(d, Head(kvs), FALSE), Tail(kvs))

contains(d, k) == Search(d, k) # None

(* erase(first, last): what is done with an iterator at a slot already     *)
(* emptied is undefined (it reads past the probe offsets); the call is     *)
(* followed up to there.                                                   *)
RECURSIVE EraseRange(_, _, _)
EraseRange(d, i, n) ==
  IF n = 0 \/ i \notin Occupied(d) THEN d
  ELSE LET r == EraseSlot(d, i) IN EraseRange(r.obj, r.next, n - 1)

-----------------------------------------------------------------------------
Write(t, h, d) ==
  [t EXCEPT !.obj = IF t.shared THEN [g \in Handles |-> d] ELSE [@ EXCEPT ![h] = d]]
Rebind(t, h, d) == [t EXCEPT !.obj[h] = d, !.shared = FALSE]

(* CopyFrom copies the table slot by slot.                                 *)
COW(t) == [t EXCEPT !.shared = FALSE]

Init ==
  /\ hash \in Setups
  /\ table = [obj |-> [h \in Handles |-> MapImpl(0)], shared |-> FALSE]
  /\ want = [h \in Handles |-> <<>>]

insert_(h, kv, assign) ==
  /\ Usable(h)
  /\ table' = IF ~assign /\ contains(table.obj[h], kv.key) THEN table
              ELSE Write(COW(table), h, insert(table.obj[h], kv, assign))

(* m[k] = v: a key that is there is written without COW().                 *)
AssignSubscript(h, kv) ==
  LET d == table.obj[h]
      Assigned(e) == [e EXCEPT !.cell[Search(e, kv.key) + 1].value = kv.value]
  IN /\ Usable(h)
     /\ table' = IF contains(d, kv.key) THEN Write(table, h, Assigned(d))
                 ELSE Write(COW(table), h, Assigned(insert(d, kv, FALSE)))

(* erase(key), and erase(first, last) over n elements from key k on.       *)
EraseFrom(h, k, n) ==
  /\ Usable(h)
  /\ table' = IF ~contains(table.obj[h], k) THEN table
              ELSE Write(COW(table), h, EraseRange(table.obj[h], Search(table.obj[h], k), n))

clear(h) ==
  table' = Rebind(table, h, Create(kSlotsPerBlock))

Construct(h, n) ==
  table' = Rebind(table, h, MapImpl(n))

AssignList(h, kvs) ==
  table' = Rebind(table, h, IF kvs = <<>> THEN Null ELSE FromList(MapImpl(Len(kvs)), kvs))

CopyAssign(h, g) ==
  /\ h # g
  /\ table' = [obj |-> [x \in Handles |-> table.obj[g]], shared |-> table.obj[g] # Null]

MoveAssign(h, g) ==
  /\ h # g
  /\ table' = [obj |-> [table.obj EXCEPT ![h] = table.obj[g], ![g] = Null], shared |-> FALSE]

swap ==
  table' = [table EXCEPT !.obj = [a |-> table.obj["b"], b |-> table.obj["a"]]]

Values(t) == [h \in Handles |-> IF t.obj[h] = Null THEN <<>> ELSE Listed(t.obj[h])]

(* A key assigned through operator[] changes in the copies that share it.  *)
Referred(h, kv) ==
  IF table.shared /\ kv.key \in DOMAIN want[h]
  THEN want' = [g \in Handles |-> kv.key :> kv.value @@ want[g]]
  ELSE Given(h, kv, TRUE)

Next ==
  /\ UNCHANGED hash
  /\ \/ \E h \in Handles, kv \in {e \in Elements : e.key \in DOMAIN hash} :
          \/ \E assign \in BOOLEAN : insert_(h, kv, assign) /\ Given(h, kv, assign)
          \/ AssignSubscript(h, kv) /\ Referred(h, kv)
          \/ AssignList(h, <<kv>>) /\ Gets(h, kv.key :> kv.value)
     \/ \E h \in Handles, k \in DOMAIN hash :
          \/ EraseFrom(h, k, 1) /\ Loses(h, {k})
          \/ EraseFrom(h, k, 2) /\ Loses(h, {k} \cup (DOMAIN want[h] \ KeysOf(Values(table')[h])))
     \/ \E h \in Handles :
          (clear(h) \/ AssignList(h, <<>>) \/ \E n \in Sizes : Construct(h, n)) /\ Gets(h, <<>>)
     \/ \E h, g \in Handles : CopyAssign(h, g) /\ Gets(h, want[g])
     \/ \E h, g \in Handles : MoveAssign(h, g) /\ want' = [want EXCEPT ![h] = want[g], ![g] = <<>>]
     \/ swap /\ want' = [a |-> want["b"], b |-> want["a"]]

Spec == Init /\ [][Next]_<<table, hash, want>>

-----------------------------------------------------------------------------
Tables(t) == {t.obj[h] : h \in Handles} \ {Null}
=============================================================================
