--------------------------- MODULE HugePageCache ---------------------------
(***************************************************************************)
(* The lock-free cache of 2 MiB mappings in page_allocator.cpp.            *)
(*                                                                         *)
(* A fixed array of slots is threaded through two Treiber stacks, the free *)
(* slots and the used slots.  Each stack head is one 64-bit atomic that    *)
(* packs a slot index and a tag; every successful compare-exchange         *)
(* increments the tag.  Get pops a used slot, reads its page and pushes    *)
(* the slot on the free stack; Put does the converse.  One action is one   *)
(* access to shared memory.                                                *)
(***************************************************************************)
EXTENDS Naturals, FiniteSets, TLC

CONSTANTS
  Threads,    \* the threads that call Get and Put
  Pages,      \* 2 MiB mappings the kernel can hand out
  kCapacity,  \* number of slots
  kInvalid,   \* the index that stands for "no slot"
  NULL,       \* nullptr
  MaxTag      \* bound: the largest tag a head reaches (2^48 - 1 in the code)

(* static_assert(kCapacity > 0 && kCapacity < kInvalid) *)
ASSUME CapacityAssumption ==
  /\ kCapacity \in Nat \ {0}
  /\ kInvalid \in Nat
  /\ kCapacity < kInvalid

ASSUME MaxTagAssumption == MaxTag \in Nat

ASSUME NameAssumption ==
  /\ NULL \notin Pages
  /\ Threads \cap {"free", "used"} = {}

Slots == 0 .. (kCapacity - 1)
Index == Slots \cup {kInvalid}
Stacks == {"free", "used"}
HeadWord == [index : Index, tag : 0 .. MaxTag]

(* Mutant: the tag is not carried along. *)
PackUntagged(i, tag) == [index |-> i, tag |-> 0]

(* kTagMask keeps 48 bits: a tag beyond MaxTag would wrap to 0. *)
Pack(i, tag) == [index |-> i, tag |-> tag % (MaxTag + 1)]

VARIABLES
  head,   \* head[k]: free_head_ and used_head_
  next,   \* next[s]: Slot::next
  ptr,    \* ptr[s]: Slot::ptr
  pc,     \* pc[t]: the next shared access of thread t
  op,     \* op[t]: the operation thread t is in
  old,    \* old[t]: old_val of the compare-exchange loop
  nxt,    \* nxt[t]: the successor Pop read
  index,  \* index[t]: the slot the operation has popped
  page,   \* page[t]: the argument of Put or the result of Get
  own,    \* own[t]: the pages thread t holds outside the cache
  os,     \* the pages that are not mapped
  where   \* history variable: the stack or the thread that has slot s

vars == <<head, next, ptr, pc, op, old, nxt, index, page, own, os, where>>

(* The successor of slot s in the free stack of the constructor. *)
Link(s) == IF s = kCapacity - 1 THEN kInvalid ELSE s + 1

(***************************************************************************)
(* The constructor links all slots into the free stack.                    *)
(***************************************************************************)
Init ==
  /\ head = [k \in Stacks |-> Pack(IF k = "free" THEN 0 ELSE kInvalid, 0)]
  /\ next = [s \in Slots |-> Link(s)]
  /\ ptr = [s \in Slots |-> NULL]
  /\ pc = [t \in Threads |-> "idle"]
  /\ op = [t \in Threads |-> "none"]
  /\ old = [t \in Threads |-> [index |-> kInvalid, tag |-> 0]]
  /\ nxt = [t \in Threads |-> kInvalid]
  /\ index = [t \in Threads |-> kInvalid]
  /\ page = [t \in Threads |-> NULL]
  /\ own = [t \in Threads |-> {}]
  /\ os = Pages
  /\ where = [s \in Slots |-> "free"]

(* Get pops the used stack and pushes the free one, Put the converse. *)
PopStack(t) == IF op[t] = "get" THEN "used" ELSE "free"
PushStack(t) == IF op[t] = "get" THEN "free" ELSE "used"

-----------------------------------------------------------------------------
(***************************************************************************)
(* The callers.  SystemAlloc maps a page when Get misses; SystemFree       *)
(* unmaps a page when Put refuses it; ReleaseAllForTesting unmaps what Get *)
(* returns.                                                                *)
(***************************************************************************)
Map(t, p) ==
  /\ pc[t] = "idle" /\ p \in os
  /\ own' = [own EXCEPT ![t] = @ \cup {p}]
  /\ os' = os \ {p}
  /\ UNCHANGED <<head, next, ptr, pc, op, old, nxt, index, page, where>>

Unmap(t, p) ==
  /\ pc[t] = "idle" /\ p \in own[t]
  /\ own' = [own EXCEPT ![t] = @ \ {p}]
  /\ os' = os \cup {p}
  /\ UNCHANGED <<head, next, ptr, pc, op, old, nxt, index, page, where>>

(* Bound: an operation starts only while the tags last for all of them. *)
TagsLast ==
  \A k \in Stacks :
    head[k].tag + Cardinality({t \in Threads : pc[t] # "idle"}) < MaxTag

CallGet(t) ==
  /\ pc[t] = "idle" /\ TagsLast
  /\ pc' = [pc EXCEPT ![t] = "pop_load"]
  /\ op' = [op EXCEPT ![t] = "get"]
  /\ UNCHANGED <<head, next, ptr, old, nxt, index, page, own, os, where>>

CallPut(t, p) ==
  /\ pc[t] = "idle" /\ TagsLast /\ p \in own[t]
  /\ pc' = [pc EXCEPT ![t] = "pop_load"]
  /\ op' = [op EXCEPT ![t] = "put"]
  /\ page' = [page EXCEPT ![t] = p]
  /\ own' = [own EXCEPT ![t] = @ \ {p}]
  /\ UNCHANGED <<head, next, ptr, old, nxt, index, os, where>>

-----------------------------------------------------------------------------
(***************************************************************************)
(* Pop.  The test for an empty stack is on the value just observed, by the *)
(* first load or by a failed compare-exchange.                             *)
(***************************************************************************)
PopObserve(t) ==
  LET h == head[PopStack(t)] IN
  /\ old' = [old EXCEPT ![t] = h]
  /\ IF h.index = kInvalid
     THEN \* Get returns nullptr; Put returns false and the caller keeps p
          /\ pc' = [pc EXCEPT ![t] = "idle"]
          /\ op' = [op EXCEPT ![t] = "none"]
          /\ own' = [own EXCEPT ![t] = IF op[t] = "put" THEN @ \cup {page[t]} ELSE @]
          /\ page' = [page EXCEPT ![t] = NULL]
     ELSE /\ pc' = [pc EXCEPT ![t] = "pop_next"]
          /\ UNCHANGED <<op, own, page>>
  /\ UNCHANGED <<head, next, ptr, nxt, index, os, where>>

PopLoad(t) == pc[t] = "pop_load" /\ PopObserve(t)

PopNext(t) ==
  /\ pc[t] = "pop_next"
  /\ nxt' = [nxt EXCEPT ![t] = next[old[t].index]]
  /\ pc' = [pc EXCEPT ![t] = "pop_cas"]
  /\ UNCHANGED <<head, next, ptr, op, old, index, page, own, os, where>>

PopCas(t) ==
  LET k == PopStack(t) IN
  /\ pc[t] = "pop_cas"
  /\ head[k] = old[t]
  /\ old[t].tag < MaxTag
  /\ head' = [head EXCEPT ![k] = Pack(nxt[t], old[t].tag + 1)]
  /\ index' = [index EXCEPT ![t] = old[t].index]
  /\ where' = [where EXCEPT ![old[t].index] = t]
  /\ pc' = [pc EXCEPT ![t] = "access"]
  /\ UNCHANGED <<next, ptr, op, old, nxt, page, own, os>>

(* compare_exchange_weak may also fail when the values are equal. *)
PopCasFail(t) == pc[t] = "pop_cas" /\ PopObserve(t)

(* Get reads slots_[index].ptr, Put writes it: neither access is atomic. *)
Access(t) ==
  /\ pc[t] = "access"
  /\ IF op[t] = "get"
     THEN /\ page' = [page EXCEPT ![t] = ptr[index[t]]]
          /\ UNCHANGED ptr
     ELSE /\ ptr' = [ptr EXCEPT ![index[t]] = page[t]]
          /\ UNCHANGED page
  /\ pc' = [pc EXCEPT ![t] = "push_load"]
  /\ UNCHANGED <<head, next, op, old, nxt, index, own, os, where>>

-----------------------------------------------------------------------------
(***************************************************************************)
(* Push.                                                                   *)
(***************************************************************************)
PushObserve(t) ==
  /\ old' = [old EXCEPT ![t] = head[PushStack(t)]]
  /\ pc' = [pc EXCEPT ![t] = "push_next"]
  /\ UNCHANGED <<head, next, ptr, op, nxt, index, page, own, os, where>>

PushLoad(t) == pc[t] = "push_load" /\ PushObserve(t)

PushNext(t) ==
  /\ pc[t] = "push_next"
  /\ next' = [next EXCEPT ![index[t]] = old[t].index]
  /\ pc' = [pc EXCEPT ![t] = "push_cas"]
  /\ UNCHANGED <<head, ptr, op, old, nxt, index, page, own, os, where>>

(* The successful compare-exchange ends the operation: Get returns its page. *)
PushCas(t) ==
  LET k == PushStack(t) IN
  /\ pc[t] = "push_cas"
  /\ head[k] = old[t]
  /\ old[t].tag < MaxTag
  /\ head' = [head EXCEPT ![k] = Pack(index[t], old[t].tag + 1)]
  /\ where' = [where EXCEPT ![index[t]] = k]
  /\ own' = [own EXCEPT ![t] = IF op[t] = "get" THEN @ \cup {page[t]} ELSE @]
  /\ page' = [page EXCEPT ![t] = NULL]
  /\ index' = [index EXCEPT ![t] = kInvalid]
  /\ op' = [op EXCEPT ![t] = "none"]
  /\ pc' = [pc EXCEPT ![t] = "idle"]
  /\ UNCHANGED <<next, ptr, old, nxt, os>>

PushCasFail(t) == pc[t] = "push_cas" /\ PushObserve(t)

-----------------------------------------------------------------------------
Step(t) ==
  \/ PopLoad(t) \/ PopNext(t) \/ PopCas(t) \/ PopCasFail(t)
  \/ Access(t)
  \/ PushLoad(t) \/ PushNext(t) \/ PushCas(t) \/ PushCasFail(t)

Next ==
  \E t \in Threads :
    \/ CallGet(t)
    \/ \E p \in Pages : Map(t, p) \/ Unmap(t, p) \/ CallPut(t, p)
    \/ Step(t)

Spec == Init /\ [][Next]_vars

Symmetry == Permutations(Threads) \cup Permutations(Pages)

-----------------------------------------------------------------------------
TypeOK ==
  /\ head \in [Stacks -> HeadWord]
  /\ next \in [Slots -> Index]
  /\ ptr \in [Slots -> Pages \cup {NULL}]
  /\ pc \in [Threads -> {"idle", "pop_load", "pop_next", "pop_cas", "access",
                        "push_load", "push_next", "push_cas"}]
  /\ op \in [Threads -> {"none", "get", "put"}]
  /\ old \in [Threads -> HeadWord]
  /\ nxt \in [Threads -> Index]
  /\ index \in [Threads -> Index]
  /\ page \in [Threads -> Pages \cup {NULL}]
  /\ own \in [Threads -> SUBSET Pages]
  /\ os \in SUBSET Pages
  /\ where \in [Slots -> Stacks \cup Threads]

(* The pages the cache has: those of the slots linked into the used stack. *)
Stock == {ptr[s] : s \in {r \in Slots : where[r] = "used"}}

(* The page an operation of thread t has in its hands. *)
InTransit(t) ==
  IF op[t] = "put" THEN {page[t]}
  ELSE IF op[t] = "get" /\ index[t] # kInvalid
       THEN IF pc[t] = "access" THEN {ptr[index[t]]} ELSE {page[t]}
       ELSE {}

Holds(t) == own[t] \cup InTransit(t)

(***************************************************************************)
(* A mapping has one owner: no 2 MiB page is handed by Get to two threads, *)
(* is handed out while it is still cached, or is unmapped while somebody   *)
(* can still use it.                                                       *)
(***************************************************************************)
UniqueOwner ==
  /\ \A t, u \in Threads : t # u => Holds(t) \cap Holds(u) = {}
  /\ \A t \in Threads : Holds(t) \cap (os \cup Stock) = {}
  /\ os \cap Stock = {}
  /\ \A r, s \in Slots :
       where[r] = "used" /\ where[s] = "used" /\ ptr[r] = ptr[s] => r = s

(* Every page is somewhere: none is dropped between Pop and Push. *)
NoPageLost ==
  Pages \subseteq os \cup Stock \cup UNION {Holds(t) : t \in Threads}

(***************************************************************************)
(* The cache implements an atomic bounded pool of pages: Get takes effect  *)
(* when it unlinks the used slot, Put when it links it.                    *)
(***************************************************************************)
Pool == INSTANCE PagePool WITH
          Capacity <- kCapacity,
          held <- [t \in Threads |-> Holds(t)],
          stock <- Stock

ImplementsPool == Pool!Spec

=============================================================================
