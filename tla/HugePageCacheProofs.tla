------------------------ MODULE HugePageCacheProofs ------------------------
(***************************************************************************)
(* For any number of threads, slots and pages, and as long as no tag wraps,*)
(* the huge page cache never gives a page two owners, loses none and       *)
(* implements an atomic bounded pool.                                      *)
(*                                                                         *)
(* The argument: a slot that is off the stacks is written by the one       *)
(* operation that popped it (Owned); the linked slots form chains without  *)
(* sharing (Linked); and a snapshot of a head whose tag is still the       *)
(* current one is the current head, with the successor that was read for   *)
(* it still in place (Snapshots).                                          *)
(***************************************************************************)
EXTENDS HugePageCache, FiniteSetTheorems, TLAPS

Popping == {"pop_next", "pop_cas"}
Pushing == {"push_next", "push_cas"}
Holding == {"access", "push_load", "push_next", "push_cas"}

(* The linked slots of one stack: closed under next, no slot has two       *)
(* predecessors, and the head has none.                                    *)
Linked ==
  /\ \A k \in Stacks : head[k].index # kInvalid => where[head[k].index] = k
  /\ \A s \in Slots :
       where[s] \in Stacks /\ next[s] # kInvalid =>
         /\ where[next[s]] = where[s]
         /\ next[s] # head[where[s]].index
  /\ \A r, s \in Slots :
       where[r] \in Stacks /\ where[r] = where[s] /\ next[r] = next[s]
         /\ next[r] # kInvalid => r = s

(* A slot is off the stacks exactly while one operation holds it. *)
Owned ==
  /\ \A t \in Threads : pc[t] = "idle" <=> op[t] = "none"
  /\ \A t \in Threads : index[t] # kInvalid <=> pc[t] \in Holding
  /\ \A t \in Threads, s \in Slots : where[s] = t <=> index[t] = s

(* What thread t may conclude from a compare-exchange that succeeds. *)
Snapshots ==
  \A t \in Threads :
    /\ pc[t] \in Popping =>
         /\ old[t].index # kInvalid
         /\ old[t].tag <= head[PopStack(t)].tag
         /\ old[t].tag = head[PopStack(t)].tag => old[t] = head[PopStack(t)]
    /\ pc[t] \in Pushing =>
         /\ old[t].tag <= head[PushStack(t)].tag
         /\ old[t].tag = head[PushStack(t)].tag => old[t] = head[PushStack(t)]
    /\ pc[t] = "pop_cas" /\ old[t] = head[PopStack(t)] => nxt[t] = next[old[t].index]
    /\ pc[t] = "push_cas" => next[index[t]] = old[t].index

(* Where the pages in use are recorded. *)
Recorded ==
  /\ \A s \in Slots : where[s] = "used" => ptr[s] \in Pages
  /\ \A t \in Threads :
       /\ op[t] = "put" => page[t] \in Pages
       /\ op[t] = "put" /\ index[t] # kInvalid /\ pc[t] # "access" => ptr[index[t]] = page[t]
       /\ op[t] = "get" /\ pc[t] = "access" => ptr[index[t]] \in Pages
       /\ op[t] = "get" /\ index[t] # kInvalid /\ pc[t] # "access" => page[t] \in Pages

(* A page an operation is moving is not among those its thread still uses. *)
Apart == \A t \in Threads : own[t] \cap InTransit(t) = {}

IInv == TypeOK /\ Linked /\ Owned /\ Snapshots /\ Recorded /\ UniqueOwner /\ Apart

-----------------------------------------------------------------------------
LEMMA SlotFacts ==
  /\ Slots \subseteq Nat
  /\ kInvalid \notin Slots
  /\ Stacks \cap Threads = {}
  /\ 0 \in Slots
BY CapacityAssumption, NameAssumption DEF Slots, Stacks

(* A tag below the bound is stored as it is. *)
LEMMA PackFacts ==
  ASSUME NEW i, NEW tag \in 0 .. MaxTag
  PROVE  Pack(i, tag) = [index |-> i, tag |-> tag]
<1>1. tag % (MaxTag + 1) = tag
  BY MaxTagAssumption, SMT
<1> QED
  BY Zenon, <1>1 DEF Pack

LEMMA InitInv == Init => IInv
<1> SUFFICES ASSUME Init PROVE IInv
  OBVIOUS
<1> USE SlotFacts, CapacityAssumption, MaxTagAssumption, NameAssumption
<1>0. head = [k \in Stacks |-> [index |-> IF k = "free" THEN 0 ELSE kInvalid, tag |-> 0]]
  BY PackFacts DEF Init, Link
<1>1. TypeOK
  BY <1>0 DEF Init, Link, TypeOK, HeadWord, Index, Stacks, Slots
<1>2. Linked
  <2>1. /\ \A s \in Slots : where[s] = "free" /\ next[s] \in Index /\ next[s] # 0
        /\ \A s \in Slots : next[s] # kInvalid => next[s] = s + 1 /\ next[s] \in Slots
    BY DEF Init, Link, Index, Slots
  <2>2. head["free"].index = 0 /\ head["used"].index = kInvalid
    BY Zenon, <1>0 DEF Stacks
  <2>3. \A k \in Stacks : head[k].index # kInvalid => where[head[k].index] = k
    BY Zenon, <2>1, <2>2 DEF Stacks
  <2>4. \A s \in Slots : where[s] \in Stacks /\ next[s] # kInvalid =>
          where[next[s]] = where[s] /\ next[s] # head[where[s]].index
    BY Zenon, <2>1, <2>2
  <2>5. \A r, s \in Slots :
          where[r] \in Stacks /\ where[r] = where[s] /\ next[r] = next[s]
            /\ next[r] # kInvalid => r = s
    BY <2>1 DEF Slots
  <2> QED
    BY <2>3, <2>4, <2>5, Zenon DEF Linked
<1>3. Owned
  BY Zenon DEF Init, Link, Owned, Holding, Stacks
<1>4. Snapshots
  BY Zenon DEF Init, Link, Snapshots, Popping, Pushing
<1>5. Recorded
  BY Zenon DEF Init, Link, Recorded
<1>6. UniqueOwner
  BY ZenonT(40) DEF Init, Link, UniqueOwner, Holds, InTransit, Stock
<1>7. Apart
  BY Zenon DEF Init, Link, Apart, InTransit
<1> QED
  BY Zenon, <1>1, <1>2, <1>3, <1>4, <1>5, <1>6, <1>7 DEF IInv

(* An operation past its Pop has a slot of its own. *)
LEMMA HoldingFacts ==
  ASSUME IInv
  PROVE  \A t \in Threads :
           /\ index[t] \in Index
           /\ pc[t] \in Holding => /\ index[t] \in Slots
                                  /\ where[index[t]] = t
                                  /\ op[t] \in {"get", "put"}
           /\ \A u \in Threads : u # t /\ index[t] \in Slots => index[u] # index[t]
<1> TAKE t \in Threads
<1>1. index[t] \in Index /\ op[t] \in {"none", "get", "put"}
  BY Zenon DEF IInv, TypeOK
<1>2. pc[t] \in Holding => index[t] \in Slots /\ where[index[t]] = t
  BY Zenon, <1>1 DEF IInv, Owned, Index
<1>3. pc[t] \in Holding => op[t] \in {"get", "put"}
  BY Zenon, <1>1 DEF IInv, Owned, Holding
<1>4. \A u \in Threads : u # t /\ index[t] \in Slots => index[u] # index[t]
  BY DEF IInv, Owned
<1> QED
  BY Zenon, <1>1, <1>2, <1>3, <1>4

LEMMA MapInv ==
  ASSUME IInv, NEW t \in Threads, NEW p \in Pages, Map(t, p) \/ Unmap(t, p)
  PROVE  IInv'
<1> USE SlotFacts
<1>1. TypeOK'
  BY DEF IInv, TypeOK, Map, Unmap
<1>2. Linked' /\ Owned' /\ Snapshots' /\ Recorded'
  BY DEF IInv, Linked, Owned, Snapshots, Recorded, Map, Unmap, PopStack, PushStack
<1>3. UniqueOwner' /\ Apart'
  <2>1. InTransit(t) = {}
    BY Zenon DEF IInv, Owned, Map, Unmap, InTransit
  <2>2. Stock' = Stock
    BY Zenon DEF Map, Unmap, Stock
  <2>3. \A u \in Threads : InTransit(u)' = InTransit(u)
    BY Zenon DEF Map, Unmap, InTransit
  <2>4. Apart'
    BY <2>1, <2>3 DEF IInv, TypeOK, Apart, Map, Unmap
  <2>5. UniqueOwner'
    BY <2>1, <2>2, <2>3 DEF IInv, TypeOK, UniqueOwner, Map, Unmap, Holds
  <2> QED
    BY Zenon, <2>4, <2>5
<1> QED
  BY Zenon, <1>1, <1>2, <1>3 DEF IInv

LEMMA CallInv ==
  ASSUME IInv, NEW t \in Threads, NEW p, CallGet(t) \/ (p \in Pages /\ CallPut(t, p))
  PROVE  IInv'
<1> USE SlotFacts, NameAssumption
<1>1. TypeOK'
  BY DEF IInv, TypeOK, CallGet, CallPut
<1>2. Linked'
  BY DEF IInv, Linked, CallGet, CallPut
<1>3. Owned'
  BY DEF IInv, TypeOK, Owned, Holding, CallGet, CallPut
<1>4. Snapshots'
  BY DEF IInv, TypeOK, Snapshots, CallGet, CallPut, PopStack, PushStack, Popping, Pushing
<1>5. Recorded'
  BY DEF IInv, TypeOK, Owned, Recorded, Holding, CallGet, CallPut
<1>6. UniqueOwner'
  <2>1. Stock' = Stock
    BY DEF CallGet, CallPut, Stock
  <2>2. \A u \in Threads : Holds(u)' = Holds(u)
    BY DEF IInv, TypeOK, Owned, Holding, CallGet, CallPut, Holds, InTransit
  <2> QED
    BY Zenon, <2>1, <2>2 DEF IInv, UniqueOwner, CallGet, CallPut
<1>20. Apart'
  BY DEF IInv, TypeOK, Owned, Holding, Apart, CallGet, CallPut, InTransit
<1> QED
  BY ZenonT(40), <1>1, <1>2, <1>3, <1>4, <1>5, <1>6, <1>20 DEF IInv

LEMMA PopObserveInv ==
  ASSUME IInv, NEW t \in Threads, PopLoad(t) \/ PopCasFail(t)
  PROVE  IInv'
<1> USE SlotFacts, NameAssumption
<1>0. PopObserve(t) /\ pc[t] \in {"pop_load", "pop_cas"} /\ PopStack(t) \in Stacks
  BY Zenon DEF PopLoad, PopCasFail, PopStack, Stacks
<1>1. TypeOK'
  BY <1>0 DEF IInv, TypeOK, PopObserve, Recorded
<1>2. Linked'
  BY Zenon, <1>0 DEF IInv, Linked, PopObserve
<1>3. Owned'
  BY <1>0 DEF IInv, TypeOK, Owned, Holding, PopObserve
<1>4. Snapshots'
  <2>1. \A u \in Threads \ {t} : PopStack(u)' = PopStack(u) /\ PushStack(u)' = PushStack(u)
    BY <1>0 DEF IInv, TypeOK, PopObserve, PopStack, PushStack
  <2>2. pc'[t] = "pop_next" => PopStack(t)' = PopStack(t) /\ old'[t] = head[PopStack(t)]
                                 /\ old'[t].index # kInvalid
    BY <1>0 DEF IInv, TypeOK, PopObserve, PopStack
  <2>3. pc'[t] \in {"pop_next", "idle"} /\ UNCHANGED <<head, next, nxt, index>>
    BY <1>0 DEF IInv, TypeOK, PopObserve
  <2>4. \A u \in Threads \ {t} : pc'[u] = pc[u] /\ old'[u] = old[u]
    BY <1>0 DEF IInv, TypeOK, PopObserve
  <2> QED
    BY <1>0, <2>1, <2>2, <2>3, <2>4 DEF IInv, TypeOK, HeadWord, Snapshots, Popping, Pushing
<1>5. Recorded'
  BY <1>0 DEF IInv, TypeOK, Owned, Recorded, Holding, PopObserve
<1>6. UniqueOwner'
  <2>1. Stock' = Stock
    BY Zenon, <1>0 DEF PopObserve, Stock
  <2>2. \A u \in Threads : Holds(u)' = Holds(u)
    BY <1>0 DEF IInv, TypeOK, Owned, Holding, PopObserve, Holds, InTransit
  <2> QED
    BY Zenon, <1>0, <2>1, <2>2 DEF IInv, UniqueOwner, PopObserve
<1>20. Apart'
  BY <1>0 DEF IInv, TypeOK, Owned, Holding, Apart, PopObserve, InTransit
<1> QED
  BY ZenonT(40), <1>1, <1>2, <1>3, <1>4, <1>5, <1>6, <1>20 DEF IInv

LEMMA PopNextInv ==
  ASSUME IInv, NEW t \in Threads, PopNext(t)
  PROVE  IInv'
<1> USE SlotFacts, NameAssumption
<1>0. old[t].index \in Slots
  BY DEF IInv, TypeOK, HeadWord, Index, Snapshots, Popping, PopNext
<1>1. TypeOK'
  BY Zenon, <1>0 DEF IInv, TypeOK, PopNext
<1>2. Linked'
  BY Zenon DEF IInv, Linked, PopNext
<1>3. Owned'
  BY DEF IInv, TypeOK, Owned, Holding, PopNext
<1>4. Snapshots'
  BY <1>0 DEF IInv, TypeOK, Snapshots, Popping, Pushing, PopNext, PopStack, PushStack
<1>5. Recorded'
  BY DEF IInv, TypeOK, Owned, Recorded, Holding, PopNext
<1>6. UniqueOwner'
  <2>1. Stock' = Stock
    BY Zenon DEF PopNext, Stock
  <2>2. \A u \in Threads : Holds(u)' = Holds(u)
    BY DEF IInv, TypeOK, Owned, Holding, PopNext, Holds, InTransit
  <2> QED
    BY Zenon, <2>1, <2>2 DEF IInv, UniqueOwner, PopNext
<1>20. Apart'
  BY Zenon DEF IInv, TypeOK, Apart, PopNext, InTransit
<1> QED
  BY Zenon, <1>1, <1>2, <1>3, <1>4, <1>5, <1>6, <1>20 DEF IInv

LEMMA AccessInv ==
  ASSUME IInv, NEW t \in Threads, Access(t)
  PROVE  IInv'
<1> USE SlotFacts, NameAssumption
<1>0. index[t] \in Slots /\ where[index[t]] = t /\ op[t] \in {"get", "put"}
  BY Zenon, HoldingFacts DEF Holding, Access
<1>1. TypeOK'
  BY <1>0, ZenonT(40) DEF IInv, TypeOK, Access
<1>2. Linked'
  BY Zenon DEF IInv, Linked, Access
<1>3. Owned'
  BY DEF IInv, TypeOK, Owned, Holding, Access
<1>4. Snapshots'
  BY <1>0 DEF IInv, TypeOK, Snapshots, Popping, Pushing, Access, PopStack, PushStack
<1>7. \A s \in Slots : s # index[t] => ptr'[s] = ptr[s]
  BY DEF IInv, TypeOK, Access
<1>8. \A u \in Threads \ {t} : index[u] \in Slots => ptr'[index[u]] = ptr[index[u]]
  BY Zenon, <1>0, <1>7, HoldingFacts
<1>9. \A u \in Threads : index[u] # kInvalid \/ pc[u] = "access" => index[u] \in Slots
  BY Zenon, HoldingFacts DEF Index, Holding
<1>5. Recorded'
  <2>1. \A s \in Slots : where[s] = "used" => ptr'[s] = ptr[s]
    BY Zenon, <1>0, <1>7
  <2>2. \A u \in Threads \ {t} : page'[u] = page[u] /\ pc'[u] = pc[u]
    BY DEF IInv, TypeOK, Access
  <2>3. op[t] = "put" => page'[t] = page[t] /\ ptr'[index[t]] = page[t]
    BY <1>0 DEF IInv, TypeOK, Access
  <2>4. op[t] = "get" => page'[t] = ptr[index[t]]
    BY DEF IInv, TypeOK, Access
  <2>5. pc[t] = "access" /\ pc'[t] = "push_load" /\ UNCHANGED <<op, index, where>>
    BY Zenon DEF IInv, TypeOK, Access
  <2> QED
    BY <1>8, <1>9, <2>1, <2>2, <2>3, <2>4, <2>5 DEF IInv, Recorded
<1>6. UniqueOwner'
  <2>4. \A s \in Slots : where[s] = "used" => ptr'[s] = ptr[s]
    BY Zenon, <1>0, <1>7
  <2>5. where' = where
    BY Zenon DEF Access
  <2>6. \A s \in {r \in Slots : where[r] = "used"} : ptr'[s] = ptr[s]
    BY Zenon, <2>4
  <2>1. Stock' = Stock
    BY <2>5, <2>6, Zenon DEF Stock
  <2>2. \A u \in Threads \ {t} : Holds(u)' = Holds(u)
    BY <1>8, <1>9 DEF IInv, TypeOK, Access, Holds, InTransit
  <2>3. Holds(t)' = Holds(t)
    BY <1>0 DEF IInv, TypeOK, Owned, Holding, Access, Holds, InTransit
  <2> QED
    BY ZenonT(40), <2>1, <2>2, <2>3, <2>4 DEF IInv, UniqueOwner, Access
<1>20. Apart'
  <2>1. \A u \in Threads \ {t} : InTransit(u)' = InTransit(u)
    BY <1>8, <1>9, ZenonT(40) DEF IInv, TypeOK, Access, InTransit
  <2>2. UNCHANGED <<own, op, index>> /\ pc[t] = "access" /\ pc'[t] = "push_load"
    BY Zenon DEF IInv, TypeOK, Access
  <2>3. page'[t] = IF op[t] = "get" THEN ptr[index[t]] ELSE page[t]
    BY DEF IInv, TypeOK, Access
  <2>4. InTransit(t)' = InTransit(t)
    BY Zenon, <1>0, <2>2, <2>3 DEF InTransit
  <2> QED
    BY Zenon, <2>1, <2>2, <2>4 DEF IInv, Apart
<1> QED
  BY Zenon, <1>1, <1>2, <1>3, <1>4, <1>5, <1>6, <1>20 DEF IInv

LEMMA PushObserveInv ==
  ASSUME IInv, NEW t \in Threads, PushLoad(t) \/ PushCasFail(t)
  PROVE  IInv'
<1> USE SlotFacts, NameAssumption
<1>0. PushObserve(t) /\ pc[t] \in {"push_load", "push_cas"} /\ PushStack(t) \in Stacks
  BY Zenon DEF PushLoad, PushCasFail, PushStack, Stacks
<1>1. TypeOK'
  BY Zenon, <1>0 DEF IInv, TypeOK, PushObserve
<1>2. Linked'
  BY Zenon, <1>0 DEF IInv, Linked, PushObserve
<1>3. Owned'
  BY <1>0 DEF IInv, TypeOK, Owned, Holding, PushObserve
<1>4. Snapshots'
  BY <1>0 DEF IInv, TypeOK, HeadWord, Snapshots, Popping, Pushing, PushObserve, PopStack, PushStack
<1>5. Recorded'
  BY <1>0 DEF IInv, TypeOK, Owned, Recorded, Holding, PushObserve
<1>6. UniqueOwner'
  <2>1. Stock' = Stock
    BY Zenon, <1>0 DEF PushObserve, Stock
  <2>2. \A u \in Threads : Holds(u)' = Holds(u)
    BY <1>0 DEF IInv, TypeOK, Owned, Holding, PushObserve, Holds, InTransit
  <2> QED
    BY Zenon, <1>0, <2>1, <2>2 DEF IInv, UniqueOwner, PushObserve
<1>20. Apart'
  BY Zenon, <1>0 DEF IInv, TypeOK, Apart, PushObserve, InTransit
<1> QED
  BY Zenon, <1>1, <1>2, <1>3, <1>4, <1>5, <1>6, <1>20 DEF IInv

LEMMA PushNextInv ==
  ASSUME IInv, NEW t \in Threads, PushNext(t)
  PROVE  IInv'
<1> USE SlotFacts, NameAssumption
<1>0. index[t] \in Slots /\ where[index[t]] = t
  BY Zenon, HoldingFacts DEF Holding, PushNext
<1>1. TypeOK'
  BY Zenon, <1>0 DEF IInv, TypeOK, HeadWord, PushNext
<1>7. \A s \in Slots : s # index[t] => next'[s] = next[s]
  BY Zenon DEF IInv, TypeOK, PushNext
<1>2. Linked'
  BY <1>0, <1>7 DEF IInv, TypeOK, Linked, PushNext
<1>3. Owned'
  BY SMTT(30) DEF IInv, TypeOK, Owned, Holding, PushNext
<1>4. Snapshots'
  <2>1. ASSUME NEW u \in Threads, pc[u] = "pop_cas", old[u] = head[PopStack(u)]
        PROVE  next'[old[u].index] = next[old[u].index]
    <3>1. old[u].index \in Slots /\ where[old[u].index] = PopStack(u) /\ PopStack(u) \in Stacks
      BY <2>1 DEF IInv, TypeOK, HeadWord, Index, Snapshots, Popping, Linked, PopStack, Stacks
    <3> QED
      BY Zenon, <1>0, <1>7, <3>1
  <2>2. \A u \in Threads \ {t} : pc[u] = "push_cas" => next'[index[u]] = next[index[u]]
    BY Zenon, <1>0, <1>7, HoldingFacts DEF Holding
  <2> QED
    BY SMTT(30), <1>0, <2>1, <2>2
    DEF IInv, TypeOK, Snapshots, Popping, Pushing, PushNext, PopStack, PushStack
<1>5. Recorded'
  BY DEF IInv, TypeOK, Owned, Recorded, Holding, PushNext
<1>6. UniqueOwner'
  <2>1. Stock' = Stock
    BY Zenon DEF PushNext, Stock
  <2>2. \A u \in Threads : Holds(u)' = Holds(u)
    BY DEF IInv, TypeOK, Owned, Holding, PushNext, Holds, InTransit
  <2> QED
    BY Zenon, <2>1, <2>2 DEF IInv, UniqueOwner, PushNext
<1>20. Apart'
  BY Zenon DEF IInv, TypeOK, Apart, PushNext, InTransit
<1> QED
  BY ZenonT(40), <1>1, <1>2, <1>3, <1>4, <1>5, <1>6, <1>20 DEF IInv

(* What the successful compare-exchange of Pop knows of the slot it takes. *)
LEMMA PopCasFacts ==
  ASSUME IInv, NEW t \in Threads, PopCas(t)
  PROVE  /\ PopStack(t) \in Stacks
         /\ old[t].index \in Slots
         /\ where[old[t].index] = PopStack(t)
         /\ nxt[t] = next[old[t].index]
         /\ nxt[t] \in Index
         /\ index[t] = kInvalid
         /\ head' = [head EXCEPT ![PopStack(t)] =
                      [index |-> nxt[t], tag |-> head[PopStack(t)].tag + 1]]
         /\ head[PopStack(t)].tag + 1 \in 0 .. MaxTag
<1>1. PopStack(t) \in Stacks
  BY Zenon DEF PopStack, Stacks
<1>2. old[t].index \in Slots /\ old[t].tag \in 0 .. MaxTag
  BY ZenonT(40) DEF IInv, TypeOK, HeadWord, Index, Snapshots, Popping, PopCas
<1>3. where[old[t].index] = PopStack(t)
  BY ZenonT(40), <1>1, <1>2, SlotFacts DEF IInv, Linked, PopCas
<1>4. nxt[t] = next[old[t].index] /\ nxt[t] \in Index
  BY Zenon DEF IInv, TypeOK, Snapshots, PopCas
<1>5. index[t] = kInvalid
  BY Zenon DEF IInv, Owned, Holding, PopCas
<1>6. old[t].tag + 1 \in 0 .. MaxTag
  BY <1>2, MaxTagAssumption DEF PopCas
<1> QED
  BY Zenon, <1>1, <1>2, <1>3, <1>4, <1>5, <1>6, PackFacts DEF PopCas

LEMMA PopCasInv ==
  ASSUME IInv, NEW t \in Threads, PopCas(t)
  PROVE  IInv'
<1> DEFINE k == PopStack(t)
           i == old[t].index
<1> USE SlotFacts, NameAssumption
<1>0. /\ k \in Stacks /\ i \in Slots /\ where[i] = k
      /\ nxt[t] = next[i] /\ nxt[t] \in Index /\ index[t] = kInvalid
      /\ head[k].index = i
      /\ head' = [head EXCEPT ![k] = [index |-> nxt[t], tag |-> head[k].tag + 1]]
      /\ head[k].tag + 1 \in 0 .. MaxTag
  BY Zenon, PopCasFacts DEF PopCas
<1>1. TypeOK'
  <2>1. head' \in [Stacks -> HeadWord]
    BY Zenon, <1>0 DEF IInv, TypeOK, HeadWord
  <2>2. index' \in [Threads -> Index] /\ where' \in [Slots -> Stacks \cup Threads]
    BY Zenon, <1>0 DEF IInv, TypeOK, PopCas, Index
  <2> QED
    BY Zenon, <2>1, <2>2 DEF IInv, TypeOK, PopCas
<1>2. where' = [where EXCEPT ![i] = t] /\ t \notin Stacks
  BY Zenon DEF PopCas
<1>3. \A s \in Slots : where'[s] \in Stacks => s # i /\ where'[s] = where[s]
  BY Zenon, <1>0, <1>2 DEF IInv, TypeOK
<1>4. \A j \in Stacks : head'[j] = IF j = k THEN [index |-> nxt[t], tag |-> head[k].tag + 1] ELSE head[j]
  BY Zenon, <1>0 DEF IInv, TypeOK
<1>5. Linked'
  <2>1. ASSUME NEW j \in Stacks, head'[j].index # kInvalid
        PROVE  where'[head'[j].index] = j
    <3>1. CASE j = k
      <4>0. head'[j].index = next[i] /\ next[i] # kInvalid
        BY SMTT(30), <1>0, <1>4, <2>1, <3>1
      <4>1. next[i] \in Slots /\ where[next[i]] = k /\ next[i] # i
        BY Zenon, <1>0, <4>0 DEF IInv, Linked, Index
      <4> QED
        BY Zenon, <1>2, <3>1, <4>0, <4>1 DEF IInv, TypeOK
    <3>2. CASE j # k
      <4>1. head[j].index \in Slots /\ where[head[j].index] = j
        BY <1>4, <2>1, <3>2 DEF IInv, TypeOK, HeadWord, Index, Linked
      <4> QED
        BY Zenon, <1>0, <1>2, <1>4, <3>2, <4>1 DEF IInv, TypeOK
    <3> QED
      BY Zenon, <3>1, <3>2
  <2>2. ASSUME NEW s \in Slots, where'[s] \in Stacks, next[s] # kInvalid
        PROVE  where'[next[s]] = where'[s] /\ next[s] # head'[where'[s]].index
    <3>1. s # i /\ where'[s] = where[s] /\ next[s] \in Slots
      BY ZenonT(40), <1>3, <2>2 DEF IInv, TypeOK, Index
    <3>2. where[next[s]] = where[s] /\ next[s] # head[where[s]].index
      BY Zenon, <2>2, <3>1 DEF IInv, Linked
    <3>3. next[s] # i
      BY Zenon, <1>0, <3>2
    <3>4. where[s] = k => next[s] # next[i]
      BY Zenon, <1>0, <2>2, <3>1 DEF IInv, Linked
    <3> QED
      BY ZenonT(40), <1>0, <1>2, <1>4, <2>2, <3>1, <3>2, <3>3, <3>4 DEF IInv, TypeOK
  <2>3. UNCHANGED next
    BY Zenon DEF PopCas
  <2>4. ASSUME NEW r \in Slots, NEW s \in Slots, where'[r] \in Stacks,
               where'[r] = where'[s], next[r] = next[s], next[r] # kInvalid
        PROVE  r = s
    BY ZenonT(40), <1>3, <2>4 DEF IInv, Linked
  <2> QED
    BY Zenon, <2>1, <2>2, <2>3, <2>4 DEF Linked
<1>6. Owned'
  BY <1>0, <1>2 DEF IInv, TypeOK, Owned, Holding, PopCas
<1>7. Snapshots'
  <2>1. UNCHANGED <<op, old, nxt, next>> /\ pc'[t] = "access"
    BY Zenon DEF PopCas, IInv, TypeOK
  <2>2. \A u \in Threads \ {t} : pc'[u] = pc[u] /\ index'[u] = index[u]
    BY Zenon DEF PopCas, IInv, TypeOK
  <2>3. \A u \in Threads : PopStack(u)' = PopStack(u) /\ PushStack(u)' = PushStack(u)
                             /\ PopStack(u) \in Stacks /\ PushStack(u) \in Stacks
    BY Zenon, <2>1 DEF PopStack, PushStack, Stacks
  <2>4. \A j \in Stacks, u \in Threads :
          old[u].tag <= head[j].tag =>
            /\ old[u].tag <= head'[j].tag
            /\ old[u].tag = head'[j].tag => head'[j] = head[j] /\ head'[j].tag = head[j].tag
    <3>1. ASSUME NEW j \in Stacks, NEW u \in Threads, old[u].tag <= head[j].tag
          PROVE  /\ old[u].tag <= head'[j].tag
                 /\ old[u].tag = head'[j].tag => head'[j] = head[j] /\ head'[j].tag = head[j].tag
      <4>1. old[u].tag \in Nat /\ head[j].tag \in Nat
        BY MaxTagAssumption DEF IInv, TypeOK, HeadWord
      <4>2. head'[j] = head[j] \/ head'[j].tag = head[j].tag + 1
        BY SMTT(30), <1>4
      <4> QED
        BY <3>1, <4>1, <4>2
    <3> QED
      BY Zenon, <3>1
  <2>5. ASSUME NEW u \in Threads
        PROVE  /\ pc'[u] \in Popping =>
                    /\ old'[u].index # kInvalid
                    /\ old'[u].tag <= head'[PopStack(u)'].tag
                    /\ old'[u].tag = head'[PopStack(u)'].tag => old'[u] = head'[PopStack(u)']
               /\ pc'[u] \in Pushing =>
                    /\ old'[u].tag <= head'[PushStack(u)'].tag
                    /\ old'[u].tag = head'[PushStack(u)'].tag => old'[u] = head'[PushStack(u)']
               /\ pc'[u] = "pop_cas" /\ old'[u] = head'[PopStack(u)'] =>
                    nxt'[u] = next'[old'[u].index]
               /\ pc'[u] = "push_cas" => next'[index'[u]] = old'[u].index
    <3>1. CASE u = t
      BY Zenon, <2>1, <3>1 DEF Popping, Pushing
    <3>2. CASE u # t
      <4>0. /\ pc'[u] = pc[u] /\ index'[u] = index[u]
            /\ PopStack(u)' = PopStack(u) /\ PushStack(u)' = PushStack(u)
            /\ old' = old /\ nxt' = nxt /\ next' = next
        BY Zenon, <2>1, <2>2, <2>3, <3>2
      <4>1. /\ pc[u] \in Popping =>
                 /\ old[u].index # kInvalid
                 /\ old[u].tag <= head[PopStack(u)].tag
                 /\ old[u].tag = head[PopStack(u)].tag => old[u] = head[PopStack(u)]
            /\ pc[u] \in Pushing =>
                 /\ old[u].tag <= head[PushStack(u)].tag
                 /\ old[u].tag = head[PushStack(u)].tag => old[u] = head[PushStack(u)]
            /\ pc[u] = "pop_cas" /\ old[u] = head[PopStack(u)] => nxt[u] = next[old[u].index]
            /\ pc[u] = "push_cas" => next[index[u]] = old[u].index
        BY Zenon DEF IInv, Snapshots
      <4>2. PopStack(u) \in Stacks /\ PushStack(u) \in Stacks
        BY Zenon, <2>3
      <4>3. pc[u] = "pop_cas" => pc[u] \in Popping
        BY ZenonT(40) DEF Popping
      <4>4. pc[u] \in Popping =>
              /\ old[u].tag <= head'[PopStack(u)].tag
              /\ old[u].tag = head'[PopStack(u)].tag =>
                   old[u] = head'[PopStack(u)] /\ head'[PopStack(u)] = head[PopStack(u)]
        BY Zenon, <4>1, <4>2, <2>4
      <4>5. pc[u] \in Pushing =>
              /\ old[u].tag <= head'[PushStack(u)].tag
              /\ old[u].tag = head'[PushStack(u)].tag => old[u] = head'[PushStack(u)]
        BY Zenon, <4>1, <4>2, <2>4
      <4>6. pc[u] = "pop_cas" /\ old[u] = head'[PopStack(u)] => nxt[u] = next[old[u].index]
        BY Zenon, <4>1, <4>3, <4>4
      <4> QED
        BY Zenon, <4>0, <4>1, <4>4, <4>5, <4>6
    <3> QED
      BY Zenon, <3>1, <3>2
  <2> QED
    BY Zenon, <2>5 DEF Snapshots
<1>8. Recorded'
  <2>1. op[t] = "get" => k = "used"
    BY Zenon DEF PopStack
  <2> QED
    BY <1>0, <1>2, <1>3, <2>1, ZenonT(40) DEF IInv, TypeOK, Recorded, PopCas, Stacks
<1>9. UniqueOwner'
  <2>1. UNCHANGED <<own, os, ptr, op, page>>
    BY Zenon DEF PopCas
  <2>2. \A u \in Threads \ {t} : Holds(u)' = Holds(u)
    BY Zenon DEF IInv, TypeOK, PopCas, Holds, InTransit
  <2>3. CASE op[t] = "get"
    <3>1. k = "used" /\ where[i] = "used"
      BY Zenon, <1>0, <2>3 DEF PopStack
    <3>2. Holds(t) = own[t] /\ Holds(t)' = own[t] \cup {ptr[i]}
      BY Zenon, <1>0, <2>3 DEF IInv, TypeOK, PopCas, Holds, InTransit
    <3>3. Stock' = Stock \ {ptr[i]} /\ ptr[i] \in Stock
      BY <1>2, <1>3, <2>1, <3>1, <1>0 DEF IInv, TypeOK, UniqueOwner, Stock, Stacks
    <3>4. \A s \in Slots : where'[s] = "used" => where[s] = "used"
      BY Zenon, <1>3 DEF Stacks
    <3>5. \A u \in Threads \ {t} : ptr[i] \notin Holds(u)
      BY Zenon, <3>3 DEF IInv, UniqueOwner
    <3>6. \A u, v \in Threads : u # v => Holds(u)' \cap Holds(v)' = {}
      BY <2>2, <3>2, <3>5 DEF IInv, UniqueOwner
    <3>7. \A u \in Threads : Holds(u)' \cap (os \cup Stock') = {}
      BY <2>2, <3>2, <3>3 DEF IInv, UniqueOwner
    <3> QED
      BY Zenon, <2>1, <3>3, <3>4, <3>6, <3>7 DEF IInv, UniqueOwner
  <2>4. CASE op[t] # "get"
    <3>1. k = "free" /\ op[t] = "put"
      BY SMTT(30), <1>0, <2>4 DEF IInv, TypeOK, Owned, PopStack, PopCas
    <3>2. Holds(t)' = Holds(t)
      BY Zenon, <2>1, <3>1 DEF Holds, InTransit
    <3>3. Stock' = Stock
      BY <1>0, <1>2, <1>3, <2>1, <3>1 DEF IInv, TypeOK, Stock, Stacks
    <3>4. \A s \in Slots : where'[s] = "used" => where[s] = "used"
      BY Zenon, <1>3 DEF Stacks
    <3>5. \A u \in Threads : Holds(u)' = Holds(u)
      BY Zenon, <2>2, <3>2
    <3> QED
      BY Zenon, <2>1, <3>3, <3>4, <3>5 DEF IInv, UniqueOwner
  <2> QED
    BY Zenon, <2>3, <2>4
<1>20. Apart'
  <2>1. UNCHANGED own /\ \A u \in Threads \ {t} : InTransit(u)' = InTransit(u)
    BY Zenon DEF IInv, TypeOK, PopCas, InTransit
  <2>2. own[t] \cap InTransit(t)' = {}
    <3>1. CASE op[t] = "get"
      <4>1. InTransit(t)' = {ptr[i]}
        BY Zenon, <1>0, <3>1 DEF IInv, TypeOK, PopCas, InTransit
      <4>2. ptr[i] \in Stock
        BY Zenon, <1>0, <3>1 DEF PopStack, Stock
      <4> QED
        BY Zenon, <4>1, <4>2 DEF IInv, UniqueOwner, Holds
    <3>2. CASE op[t] # "get"
      BY Zenon, <1>0, <3>2 DEF IInv, TypeOK, Owned, PopCas, Apart, InTransit
    <3> QED
      BY Zenon, <3>1, <3>2
  <2> QED
    BY Zenon, <2>1, <2>2 DEF IInv, Apart
<1> QED
  BY Zenon, <1>1, <1>5, <1>6, <1>7, <1>8, <1>9, <1>20 DEF IInv

LEMMA PushCasInv ==
  ASSUME IInv, NEW t \in Threads, PushCas(t)
  PROVE  IInv'
<1> DEFINE k == PushStack(t)
           i == index[t]
<1> USE SlotFacts, NameAssumption
<1>0. /\ k \in Stacks /\ i \in Slots /\ where[i] = t /\ t \notin Stacks
      /\ op[t] \in {"get", "put"}
      /\ next[i] = head[k].index
      /\ head[k].tag \in Nat /\ head[k].tag + 1 \in 0 .. MaxTag
  <2>1. k \in Stacks
    BY Zenon DEF PushStack, Stacks
  <2>2. i \in Slots /\ where[i] = t /\ op[t] \in {"get", "put"}
    BY Zenon, HoldingFacts DEF Holding, PushCas
  <2>3. next[i] = head[k].index
    BY Zenon DEF IInv, Snapshots, PushCas
  <2>4. head[k].tag \in 0 .. MaxTag /\ head[k].tag < MaxTag
    BY Zenon, <2>1 DEF IInv, TypeOK, HeadWord, PushCas
  <2> QED
    BY <2>1, <2>2, <2>3, <2>4, MaxTagAssumption
<1>1. head' = [head EXCEPT ![k] = [index |-> i, tag |-> head[k].tag + 1]]
  BY Zenon, <1>0, PackFacts DEF PushCas
<1>2. \A j \in Stacks : head'[j] = IF j = k THEN [index |-> i, tag |-> head[k].tag + 1] ELSE head[j]
  BY Zenon, <1>0, <1>1 DEF IInv, TypeOK
<1>3. where' = [where EXCEPT ![i] = k]
  BY Zenon DEF PushCas
<1>4. \A s \in Slots : s # i => where'[s] = where[s]
  BY Zenon, <1>3 DEF IInv, TypeOK
<1>5. where'[i] = k
  BY Zenon, <1>0, <1>3 DEF IInv, TypeOK
<1>6. TypeOK'
  <2>1. head' \in [Stacks -> HeadWord]
    BY Zenon, <1>0, <1>1 DEF IInv, TypeOK, HeadWord, Index
  <2>2. where' \in [Slots -> Stacks \cup Threads] /\ index' \in [Threads -> Index]
    BY <1>0, <1>3 DEF IInv, TypeOK, PushCas, Index
  <2>3. own' \in [Threads -> SUBSET Pages]
    <3>1. op[t] = "get" => page[t] \in Pages
      BY Zenon, <1>0 DEF IInv, Recorded, PushCas
    <3> QED
      BY Zenon, <3>1 DEF IInv, TypeOK, PushCas
  <2> QED
    BY Zenon, <2>1, <2>2, <2>3 DEF IInv, TypeOK, PushCas
<1>7. Linked'
  <2>1. ASSUME NEW j \in Stacks, head'[j].index # kInvalid
        PROVE  where'[head'[j].index] = j
    <3>1. CASE j = k
      BY <1>2, <1>5, <3>1
    <3>2. CASE j # k
      <4>1. head[j].index \in Slots /\ where[head[j].index] = j
        BY SMTT(30), <1>2, <2>1, <3>2 DEF IInv, TypeOK, HeadWord, Index, Linked
      <4> QED
        BY <1>0, <1>2, <1>4, <3>2, <4>1, ZenonT(40)
    <3> QED
      BY Zenon, <3>1, <3>2
  <2>2. ASSUME NEW s \in Slots, where'[s] \in Stacks, next[s] # kInvalid
        PROVE  where'[next[s]] = where'[s] /\ next[s] # head'[where'[s]].index
    <3>1. CASE s = i
      <4>1. next[s] \in Slots /\ where[next[s]] = k
        BY ZenonT(40), <1>0, <2>2, <3>1 DEF IInv, TypeOK, Index, Linked
      <4>2. next[s] # i
        BY Zenon, <1>0, <4>1
      <4>3. head'[k] = [index |-> i, tag |-> head[k].tag + 1]
        BY Zenon, <1>0, <1>2
      <4>4. where'[next[s]] = k
        BY Zenon, <1>4, <4>1, <4>2
      <4> QED
        BY SMTT(30), <1>5, <3>1, <4>2, <4>3, <4>4
    <3>2. CASE s # i
      <4>1. next[s] \in Slots /\ where[next[s]] = where[s] /\ next[s] # head[where[s]].index
        BY ZenonT(40), <1>4, <2>2, <3>2 DEF IInv, TypeOK, Index, Linked
      <4>2. next[s] # i
        BY Zenon, <1>0, <1>4, <2>2, <3>2, <4>1
      <4>3. where'[s] = where[s] /\ where'[next[s]] = where[s] /\ where[s] \in Stacks
        BY Zenon, <1>4, <2>2, <3>2, <4>1, <4>2
      <4>4. head'[where[s]].index \in {i, head[where[s]].index}
        BY <1>2, <4>3
      <4> QED
        BY Zenon, <4>1, <4>2, <4>3, <4>4
    <3> QED
      BY Zenon, <3>1, <3>2
  <2>3. ASSUME NEW r \in Slots, NEW s \in Slots, where'[r] \in Stacks,
               where'[r] = where'[s], next[r] = next[s], next[r] # kInvalid
        PROVE  r = s
    <3>1. \A q \in Slots : q # i /\ where'[q] = k => next[q] # next[i] \/ next[i] = kInvalid
      BY <1>0, <1>4, SMTT(40) DEF IInv, Linked
    <3>2. CASE r = i \/ s = i
      BY Zenon, <1>5, <2>3, <3>1, <3>2
    <3>3. CASE r # i /\ s # i
      BY Zenon, <1>4, <2>3, <3>3 DEF IInv, Linked
    <3> QED
      BY Zenon, <3>2, <3>3
  <2>4. UNCHANGED next
    BY Zenon DEF PushCas
  <2> QED
    BY Zenon, <2>1, <2>2, <2>3, <2>4 DEF Linked
<1>8. Owned'
  <2>1. index'[t] = kInvalid /\ pc'[t] = "idle" /\ op'[t] = "none"
    BY Zenon DEF IInv, TypeOK, PushCas
  <2>2. \A u \in Threads \ {t} : index'[u] = index[u] /\ pc'[u] = pc[u] /\ op'[u] = op[u]
    BY Zenon DEF IInv, TypeOK, PushCas
  <2>3. \A u \in Threads, s \in Slots : where'[s] = u <=> index'[u] = s
    BY SMTT(30), <1>0, <1>4, <1>5, <2>1, <2>2 DEF IInv, Owned
  <2> QED
    BY SMTT(30), <2>1, <2>2, <2>3 DEF IInv, Owned, Holding
<1>9. Snapshots'
  <2>1. UNCHANGED <<old, nxt, next>> /\ pc'[t] = "idle"
    BY Zenon DEF PushCas, IInv, TypeOK
  <2>2. \A u \in Threads \ {t} : pc'[u] = pc[u] /\ index'[u] = index[u] /\ op'[u] = op[u]
    BY Zenon DEF PushCas, IInv, TypeOK
  <2>3. \A u \in Threads \ {t} : PopStack(u)' = PopStack(u) /\ PushStack(u)' = PushStack(u)
    BY Zenon, <2>2 DEF PopStack, PushStack
  <2>4. \A u \in Threads : PopStack(u) \in Stacks /\ PushStack(u) \in Stacks
    BY Zenon DEF PopStack, PushStack, Stacks
  <2>5. \A j \in Stacks, u \in Threads :
          old[u].tag <= head[j].tag =>
            /\ old[u].tag <= head'[j].tag
            /\ old[u].tag = head'[j].tag => head'[j] = head[j] /\ head'[j].tag = head[j].tag
    <3>1. ASSUME NEW j \in Stacks, NEW u \in Threads, old[u].tag <= head[j].tag
          PROVE  /\ old[u].tag <= head'[j].tag
                 /\ old[u].tag = head'[j].tag => head'[j] = head[j] /\ head'[j].tag = head[j].tag
      <4>1. old[u].tag \in Nat /\ head[j].tag \in Nat
        BY MaxTagAssumption DEF IInv, TypeOK, HeadWord
      <4>2. head'[j] = head[j] \/ head'[j].tag = head[j].tag + 1
        BY SMTT(30), <1>2
      <4> QED
        BY <3>1, <4>1, <4>2
    <3> QED
      BY Zenon, <3>1
  <2>6. ASSUME NEW u \in Threads
        PROVE  /\ pc'[u] \in Popping =>
                    /\ old'[u].index # kInvalid
                    /\ old'[u].tag <= head'[PopStack(u)'].tag
                    /\ old'[u].tag = head'[PopStack(u)'].tag => old'[u] = head'[PopStack(u)']
               /\ pc'[u] \in Pushing =>
                    /\ old'[u].tag <= head'[PushStack(u)'].tag
                    /\ old'[u].tag = head'[PushStack(u)'].tag => old'[u] = head'[PushStack(u)']
               /\ pc'[u] = "pop_cas" /\ old'[u] = head'[PopStack(u)'] =>
                    nxt'[u] = next'[old'[u].index]
               /\ pc'[u] = "push_cas" => next'[index'[u]] = old'[u].index
    <3>1. CASE u = t
      BY Zenon, <2>1, <3>1 DEF Popping, Pushing
    <3>2. CASE u # t
      <4>0. /\ pc'[u] = pc[u] /\ index'[u] = index[u]
            /\ PopStack(u)' = PopStack(u) /\ PushStack(u)' = PushStack(u)
            /\ old' = old /\ nxt' = nxt /\ next' = next
        BY Zenon, <2>1, <2>2, <2>3, <3>2
      <4>1. /\ pc[u] \in Popping =>
                 /\ old[u].index # kInvalid
                 /\ old[u].tag <= head[PopStack(u)].tag
                 /\ old[u].tag = head[PopStack(u)].tag => old[u] = head[PopStack(u)]
            /\ pc[u] \in Pushing =>
                 /\ old[u].tag <= head[PushStack(u)].tag
                 /\ old[u].tag = head[PushStack(u)].tag => old[u] = head[PushStack(u)]
            /\ pc[u] = "pop_cas" /\ old[u] = head[PopStack(u)] => nxt[u] = next[old[u].index]
            /\ pc[u] = "push_cas" => next[index[u]] = old[u].index
        BY Zenon DEF IInv, Snapshots
      <4>2. PopStack(u) \in Stacks /\ PushStack(u) \in Stacks
        BY Zenon, <2>4
      <4>3. pc[u] = "pop_cas" => pc[u] \in Popping
        BY Zenon DEF Popping
      <4>4. pc[u] \in Popping =>
              /\ old[u].tag <= head'[PopStack(u)].tag
              /\ old[u].tag = head'[PopStack(u)].tag =>
                   old[u] = head'[PopStack(u)] /\ head'[PopStack(u)] = head[PopStack(u)]
        BY Zenon, <4>1, <4>2, <2>5
      <4>5. pc[u] \in Pushing =>
              /\ old[u].tag <= head'[PushStack(u)].tag
              /\ old[u].tag = head'[PushStack(u)].tag => old[u] = head'[PushStack(u)]
        BY Zenon, <4>1, <4>2, <2>5
      <4>6. pc[u] = "pop_cas" /\ old[u] = head'[PopStack(u)] => nxt[u] = next[old[u].index]
        BY Zenon, <4>1, <4>3, <4>4
      <4> QED
        BY Zenon, <4>0, <4>1, <4>4, <4>5, <4>6
    <3> QED
      BY Zenon, <3>1, <3>2
  <2> QED
    BY Zenon, <2>6 DEF Snapshots
<1>10. op[t] = "put" => k = "used" /\ ptr[i] = page[t] /\ page[t] \in Pages
  BY Zenon, <1>0 DEF IInv, Recorded, PushCas, PushStack
<1>11. op[t] = "get" => k = "free"
  BY Zenon DEF PushStack
<1>12. \A u \in Threads \ {t} : /\ op'[u] = op[u] /\ pc'[u] = pc[u] /\ page'[u] = page[u]
                                /\ index'[u] = index[u] /\ own'[u] = own[u]
  BY Zenon DEF PushCas, IInv, TypeOK
<1>13. op'[t] = "none" /\ UNCHANGED <<ptr, os>>
  BY Zenon DEF PushCas, IInv, TypeOK
<1>14. Recorded'
  <2>1. \A s \in Slots : where'[s] = "used" => ptr'[s] \in Pages
    BY Zenon, <1>0, <1>4, <1>5, <1>10, <1>11, <1>13 DEF IInv, Recorded
  <2> QED
    BY <2>1, <1>12, <1>13, ZenonT(40) DEF IInv, Recorded
<1>15. UniqueOwner'
  <2>1. \A u \in Threads \ {t} : Holds(u)' = Holds(u)
    BY Zenon, <1>12, <1>13 DEF Holds, InTransit
  <2>2. CASE op[t] = "get"
    <3>1. Holds(t)' = Holds(t)
      BY Zenon, <1>0, <1>13, <2>2 DEF IInv, TypeOK, PushCas, Holds, InTransit
    <3>2. \A s \in Slots : where'[s] = "used" <=> where[s] = "used"
      BY Zenon, <1>0, <1>4, <1>5, <1>11, <2>2 DEF Stacks
    <3>3. Stock' = Stock
      BY Zenon, <1>13, <3>2 DEF Stock
    <3>4. \A u \in Threads : Holds(u)' = Holds(u)
      BY Zenon, <2>1, <3>1
    <3> QED
      BY Zenon, <1>13, <3>2, <3>3, <3>4 DEF IInv, UniqueOwner
  <2>3. CASE op[t] = "put"
    <3>1. Holds(t) = own[t] \cup {page[t]} /\ Holds(t)' = own[t]
      BY Zenon, <1>13, <2>3 DEF IInv, TypeOK, PushCas, Holds, InTransit
    <3>2. \A s \in Slots : where'[s] = "used" <=> where[s] = "used" \/ s = i
      BY Zenon, <1>0, <1>4, <1>5, <1>10, <2>3
    <3>3. Stock' = Stock \cup {page[t]}
      <4>1. ptr' = ptr /\ ptr[i] = page[t] /\ i \in Slots
        BY ZenonT(40), <1>0, <1>10, <1>13, <2>3
      <4>2. Stock' = {ptr[s] : s \in {r \in Slots : where[r] = "used" \/ r = i}}
        BY ZenonT(40), <4>1, <3>2 DEF Stock
      <4> QED
        BY Zenon, <4>1, <4>2 DEF Stock
    <3>4. page[t] \notin os \cup Stock \cup own[t] /\ \A u \in Threads \ {t} : page[t] \notin Holds(u)
      <4>1. page[t] \notin os \cup Stock /\ \A u \in Threads \ {t} : page[t] \notin Holds(u)
        BY Zenon, <3>1 DEF IInv, UniqueOwner
      <4>2. page[t] \notin own[t]
        BY Zenon, <2>3 DEF IInv, Apart, InTransit
      <4> QED
        BY Zenon, <4>1, <4>2
    <3>5. \A u, v \in Threads : u # v => Holds(u)' \cap Holds(v)' = {}
      BY SMTT(30), <2>1, <3>1 DEF IInv, UniqueOwner
    <3>6. \A u \in Threads : Holds(u)' \cap (os \cup Stock') = {}
      BY <2>1, <3>1, <3>3, <3>4, SMTT(40) DEF IInv, UniqueOwner
    <3>7. \A r, s \in Slots : where'[r] = "used" /\ where'[s] = "used" /\ ptr[r] = ptr[s] => r = s
      BY <1>10, <2>3, <3>2, <3>4, ZenonT(40) DEF IInv, UniqueOwner, Stock
    <3> QED
      BY Zenon, <1>13, <3>3, <3>4, <3>5, <3>6, <3>7 DEF IInv, UniqueOwner
  <2> QED
    BY Zenon, <1>0, <2>2, <2>3
<1>20. Apart'
  BY ZenonT(40), <1>12, <1>13 DEF IInv, Apart, InTransit
<1> QED
  BY ZenonT(40), <1>6, <1>7, <1>8, <1>9, <1>14, <1>15, <1>20 DEF IInv

-----------------------------------------------------------------------------
LEMMA NextInv == IInv /\ [Next]_vars => IInv'
<1> SUFFICES ASSUME IInv, [Next]_vars PROVE IInv'
  OBVIOUS
<1>1. CASE UNCHANGED vars
  <2>0. UNCHANGED <<head, next, ptr, pc, op, old, nxt, index, page, own, os, where>>
    BY Zenon, <1>1 DEF vars
  <2>1. TypeOK'
    BY Zenon, <2>0 DEF IInv, TypeOK
  <2>2. Linked'
    BY Zenon, <2>0 DEF IInv, Linked
  <2>3. Owned'
    BY Zenon, <2>0 DEF IInv, Owned
  <2>4. Snapshots'
    <3>1. \A u \in Threads : PopStack(u)' = PopStack(u) /\ PushStack(u)' = PushStack(u)
      BY Zenon, <2>0 DEF PopStack, PushStack
    <3> QED
      BY Zenon, <2>0, <3>1 DEF IInv, Snapshots
  <2>5. Recorded'
    BY Zenon, <2>0 DEF IInv, Recorded
  <2>6. UniqueOwner' /\ Apart'
    <3>1. \A u \in Threads : InTransit(u)' = InTransit(u) /\ Holds(u)' = Holds(u)
      BY Zenon, <2>0 DEF InTransit, Holds
    <3>2. Stock' = Stock
      BY Zenon, <2>0 DEF Stock
    <3> QED
      BY Zenon, <2>0, <3>1, <3>2 DEF IInv, UniqueOwner, Apart
  <2> QED
    BY Zenon, <2>1, <2>2, <2>3, <2>4, <2>5, <2>6 DEF IInv
<1>2. ASSUME NEW t \in Threads, CallGet(t) PROVE IInv'
  BY Zenon, <1>2, CallInv
<1>3. ASSUME NEW t \in Threads, NEW p \in Pages, Map(t, p) \/ Unmap(t, p) PROVE IInv'
  BY Zenon, <1>3, MapInv
<1>4. ASSUME NEW t \in Threads, NEW p \in Pages, CallPut(t, p) PROVE IInv'
  BY Zenon, <1>4, CallInv
<1>5. ASSUME NEW t \in Threads, Step(t) PROVE IInv'
  BY Zenon, <1>5, PopObserveInv, PopNextInv, PopCasInv, AccessInv, PushObserveInv, PushNextInv,
     PushCasInv DEF Step
<1> QED
  BY Zenon, <1>1, <1>2, <1>3, <1>4, <1>5 DEF Next

(***************************************************************************)
(* The shared words, links and thread registers of HugePageCache keep      *)
(* their types; in particular a head never names a slot that does not      *)
(* exist and Get never returns something that is not a page.               *)
(***************************************************************************)
THEOREM TypeCorrect == Spec => []TypeOK
<1>1. IInv => TypeOK
  BY Zenon DEF IInv
<1> QED
  BY <1>1, InitInv, NextInv, PTL DEF Spec

(***************************************************************************)
(* For every set of threads, pages and slots, Get never hands a page to    *)
(* two threads, nor one that is still cached or already unmapped, as long  *)
(* as the 48-bit tag of a head does not wrap.                              *)
(***************************************************************************)
THEOREM PagesHaveOneOwner == Spec => []UniqueOwner
<1>1. IInv => UniqueOwner
  BY Zenon DEF IInv
<1> QED
  BY <1>1, InitInv, NextInv, PTL DEF Spec


-----------------------------------------------------------------------------
(***************************************************************************)
(* The cache implements PagePool.                                          *)
(***************************************************************************)

(* The locals and the pages of the threads other than t do not change. *)
OthersStay(t) ==
  \A u \in Threads : u # t =>
    /\ pc'[u] = pc[u] /\ op'[u] = op[u] /\ index'[u] = index[u]
    /\ page'[u] = page[u] /\ own'[u] = own[u]
    /\ index[u] # kInvalid => ptr'[index[u]] = ptr[index[u]]

(* Their pages are then the same, those in transit included. *)
LEMMA OthersHold ==
  ASSUME NEW t \in Threads, OthersStay(t)
  PROVE  \A u \in Threads : u # t => Holds(u)' = Holds(u)
<1> SUFFICES ASSUME NEW u \in Threads, u # t PROVE Holds(u)' = Holds(u)
  OBVIOUS
<1>1. /\ pc'[u] = pc[u] /\ op'[u] = op[u] /\ index'[u] = index[u]
      /\ page'[u] = page[u] /\ own'[u] = own[u]
      /\ index[u] # kInvalid => ptr'[index[u]] = ptr[index[u]]
  BY Zenon DEF OthersStay
<1> QED
  BY Zenon, <1>1 DEF Holds, InTransit

(* Nothing moves: the pool stutters. *)
LEMMA Stutters ==
  ASSUME NEW t \in Threads, OthersStay(t), Holds(t)' = Holds(t), Stock' = Stock, os' = os
  PROVE  UNCHANGED Pool!vars
<1>1. \A u \in Threads : Holds(u)' = Holds(u)
  BY Zenon, OthersHold
<1>2. [u \in Threads |-> Holds(u)]' = [u \in Threads |-> Holds(u)]
  BY Zenon, <1>1
<1> QED
  BY Zenon, <1>2 DEF Pool!vars

(* The thread's pages change as the pool's action says. *)
LEMMA HoldsMove ==
  ASSUME NEW t \in Threads, OthersStay(t), NEW H, Holds(t)' = H
  PROVE  [u \in Threads |-> Holds(u)]' = [[u \in Threads |-> Holds(u)] EXCEPT ![t] = H]
<1>1. \A u \in Threads : Holds(u)' = IF u = t THEN H ELSE Holds(u)
  BY Zenon, OthersHold
<1> QED
  BY Zenon, <1>1

(* The free slot of a Put leaves room in the pool. *)
LEMMA Room ==
  ASSUME IInv, NEW i \in Slots, where[i] # "used"
  PROVE  Cardinality(Stock) < kCapacity
<1> DEFINE U == {r \in Slots : where[r] = "used"}
<1>1. IsFiniteSet(Slots) /\ Cardinality(Slots) = kCapacity
  <2>1. 0 \in Int /\ kCapacity - 1 \in Int /\ kCapacity \in Nat /\ kCapacity >= 1
    BY CapacityAssumption
  <2>2. IsFiniteSet(0 .. (kCapacity - 1)) /\ Cardinality(0 .. (kCapacity - 1)) = kCapacity
    BY <2>1, FS_Interval
  <2> QED
    BY Zenon, <2>2 DEF Slots
<1>2. U \in SUBSET (Slots \ {i})
  OBVIOUS
<1>3. IsFiniteSet(Slots \ {i}) /\ Cardinality(Slots \ {i}) = kCapacity - 1
  BY Zenon, <1>1, FS_RemoveElement
<1>4. IsFiniteSet(U) /\ Cardinality(U) <= kCapacity - 1
  BY <1>2, <1>3, FS_Subset
<1>5. IsFiniteSet(Stock) /\ Cardinality(Stock) <= Cardinality(U)
  <2> DEFINE f == [s \in U |-> ptr[s]]
  <2>1. f \in Surjection(U, Stock)
    <3>1. f \in [U -> Stock] /\ \A p \in Stock : \E s \in U : f[s] = p
      BY Zenon DEF Stock
    <3> QED
      BY Zenon, <3>1 DEF Surjection
  <2> HIDE DEF f, U
  <2> QED
    BY Zenon, <1>4, <2>1, FS_Surjection
<1>6. Cardinality(Stock) \in Nat /\ Cardinality(U) \in Nat
  BY Zenon, <1>4, <1>5, FS_CardinalityType
<1> QED
  BY <1>4, <1>5, <1>6, CapacityAssumption

(* No slot enters or leaves the used stack, and its pages stay. *)
LEMMA StockStays ==
  ASSUME \A s \in Slots : where'[s] = "used" <=> where[s] = "used",
         \A s \in Slots : where[s] = "used" => ptr'[s] = ptr[s]
  PROVE  Stock' = Stock
BY Zenon DEF Stock

(* The steps of a thread between the atomic ones. *)
LEMMA QuietPool ==
  ASSUME IInv, NEW t \in Threads,
         PopLoad(t) \/ PopCasFail(t) \/ PopNext(t) \/ Access(t)
           \/ PushLoad(t) \/ PushCasFail(t) \/ PushNext(t)
  PROVE  UNCHANGED Pool!vars
<1> USE SlotFacts
<1>1. CASE PopLoad(t) \/ PopCasFail(t)
  <2>1. PopObserve(t) /\ pc[t] \in {"pop_load", "pop_cas"}
    BY Zenon, <1>1 DEF PopLoad, PopCasFail
  <2>2. index[t] = kInvalid /\ op[t] # "none"
    BY Zenon, <2>1 DEF IInv, Owned, Holding
  <2>3. OthersStay(t)
    BY <2>1 DEF PopObserve, OthersStay, IInv, TypeOK
  <2>4. Holds(t)' = Holds(t)
    BY <2>1, <2>2 DEF PopObserve, Holds, InTransit, IInv, TypeOK
  <2>5. Stock' = Stock /\ os' = os
    BY Zenon, <2>1 DEF PopObserve, Stock
  <2> QED
    BY Zenon, <2>3, <2>4, <2>5, Stutters
<1>2. CASE PopNext(t)
  <2>1. OthersStay(t)
    BY Zenon, <1>2 DEF PopNext, OthersStay, IInv, TypeOK
  <2>2. Holds(t)' = Holds(t)
    BY Zenon, <1>2 DEF PopNext, Holds, InTransit, IInv, TypeOK, Owned, Holding
  <2>3. Stock' = Stock /\ os' = os
    BY Zenon, <1>2 DEF PopNext, Stock
  <2> QED
    BY Zenon, <2>1, <2>2, <2>3, Stutters
<1>3. CASE Access(t)
  <2>1. /\ pc[t] = "access" /\ index[t] \in Slots /\ where[index[t]] = t /\ op[t] \in {"get", "put"}
    BY Zenon, <1>3, HoldingFacts DEF Holding, Access
  <2>2. \A s \in Slots : s # index[t] => ptr'[s] = ptr[s]
    BY <1>3 DEF Access, IInv, TypeOK
  <2>3. \A u \in Threads : u # t /\ index[u] # kInvalid => index[u] \in Slots /\ index[u] # index[t]
    BY ZenonT(40), <2>1, HoldingFacts DEF IInv, Owned
  <2>4. OthersStay(t)
    BY ZenonT(40), <1>3, <2>2, <2>3 DEF Access, OthersStay, IInv, TypeOK
  <2>5. Holds(t)' = Holds(t)
    BY <1>3, <2>1 DEF Access, Holds, InTransit, IInv, TypeOK
  <2>6. Stock' = Stock
    BY ZenonT(40), <1>3, <2>1, <2>2, StockStays, NameAssumption DEF Access
  <2> QED
    BY ZenonT(40), <1>3, <2>4, <2>5, <2>6, Stutters DEF Access
<1>4. CASE PushLoad(t) \/ PushCasFail(t)
  <2>1. PushObserve(t) /\ pc[t] \in {"push_load", "push_cas"}
    BY Zenon, <1>4 DEF PushLoad, PushCasFail
  <2>2. OthersStay(t)
    BY Zenon, <2>1 DEF PushObserve, OthersStay, IInv, TypeOK
  <2>3. Holds(t)' = Holds(t)
    BY Zenon, <2>1 DEF PushObserve, Holds, InTransit, IInv, TypeOK
  <2>4. Stock' = Stock /\ os' = os
    BY Zenon, <2>1 DEF PushObserve, Stock
  <2> QED
    BY Zenon, <2>2, <2>3, <2>4, Stutters
<1>5. CASE PushNext(t)
  <2>1. OthersStay(t)
    BY Zenon, <1>5 DEF PushNext, OthersStay, IInv, TypeOK
  <2>2. Holds(t)' = Holds(t)
    BY Zenon, <1>5 DEF PushNext, Holds, InTransit, IInv, TypeOK
  <2>3. Stock' = Stock /\ os' = os
    BY Zenon, <1>5 DEF PushNext, Stock
  <2> QED
    BY Zenon, <2>1, <2>2, <2>3, Stutters
<1> QED
  BY Zenon, <1>1, <1>2, <1>3, <1>4, <1>5

(* The calls: mapping and unmapping are the pool's own actions; the        *)
(* argument of Put stays with its thread.                                  *)
LEMMA CallPool ==
  ASSUME IInv, NEW t \in Threads, NEW p,
         CallGet(t) \/ (p \in Pages /\ (Map(t, p) \/ Unmap(t, p) \/ CallPut(t, p)))
  PROVE  Pool!Next \/ UNCHANGED Pool!vars
<1>1. pc[t] = "idle" /\ op[t] = "none" /\ index[t] = kInvalid
  BY Zenon DEF Map, Unmap, CallGet, CallPut, IInv, Owned, Holding
<1>2. Holds(t) = own[t]
  BY Zenon, <1>1 DEF Holds, InTransit
<1>3. OthersStay(t)
  BY ZenonT(40) DEF Map, Unmap, CallGet, CallPut, OthersStay, IInv, TypeOK
<1>4. Stock' = Stock
  BY DEF Map, Unmap, CallGet, CallPut, Stock
<1>5. CASE p \in Pages /\ Map(t, p)
  <2>1. Holds(t)' = Holds(t) \cup {p} /\ p \in os /\ os' = os \ {p}
    BY Zenon, <1>1, <1>2, <1>5 DEF Map, Holds, InTransit, IInv, TypeOK
  <2>2. Pool!Map(t, p)
    BY Zenon, <1>3, <1>4, <2>1, HoldsMove DEF Pool!Map
  <2> QED
    BY <1>5, <2>2, Zenon DEF Pool!Next
<1>6. CASE p \in Pages /\ Unmap(t, p)
  <2>1. Holds(t)' = Holds(t) \ {p} /\ p \in Holds(t) /\ os' = os \cup {p}
    BY Zenon, <1>1, <1>2, <1>6 DEF Unmap, Holds, InTransit, IInv, TypeOK
  <2>2. Pool!Unmap(t, p)
    BY Zenon, <1>3, <1>4, <2>1, HoldsMove DEF Pool!Unmap
  <2> QED
    BY <1>6, <2>2, Zenon DEF Pool!Next
<1>7. CASE CallGet(t)
  <2>1. Holds(t)' = Holds(t) /\ os' = os
    BY Zenon, <1>1, <1>2, <1>7 DEF CallGet, Holds, InTransit, IInv, TypeOK
  <2> QED
    BY Zenon, <1>3, <1>4, <2>1, Stutters
<1>8. CASE p \in Pages /\ CallPut(t, p)
  <2>1. Holds(t)' = Holds(t) /\ os' = os
    BY ZenonT(40), <1>1, <1>2, <1>8 DEF CallPut, Holds, InTransit, IInv, TypeOK
  <2> QED
    BY Zenon, <1>3, <1>4, <2>1, Stutters
<1> QED
  BY Zenon, <1>5, <1>6, <1>7, <1>8

(* Get takes its page when it unlinks the used slot. *)
LEMMA PopCasPool ==
  ASSUME IInv, NEW t \in Threads, PopCas(t)
  PROVE  Pool!Next \/ UNCHANGED Pool!vars
<1> DEFINE i == old[t].index
<1> USE SlotFacts, NameAssumption
<1>1. i \in Slots /\ where[i] = PopStack(t)
  BY Zenon, PopCasFacts
<1>2. /\ pc[t] = "pop_cas" /\ pc'[t] = "access" /\ index'[t] = i /\ index[t] = kInvalid
      /\ op' = op /\ page' = page /\ own' = own /\ ptr' = ptr /\ os' = os
      /\ op[t] \in {"get", "put"}
  BY DEF PopCas, IInv, TypeOK, Owned, Holding
<1>3. where'[i] = t /\ \A s \in Slots : s # i => where'[s] = where[s]
  BY Zenon, <1>1 DEF PopCas, IInv, TypeOK
<1>4. OthersStay(t)
  BY Zenon DEF PopCas, OthersStay, IInv, TypeOK
<1> HIDE DEF i
<1>5. CASE op[t] = "put"
  <2>1. where[i] = "free"
    BY Zenon, <1>1, <1>5 DEF PopStack
  <2>2. Stock' = Stock
    BY Zenon, <1>1, <1>2, <1>3, <2>1, StockStays
  <2>3. Holds(t)' = Holds(t)
    BY Zenon, <1>2, <1>5 DEF Holds, InTransit
  <2> QED
    BY Zenon, <1>2, <1>4, <2>2, <2>3, Stutters
<1>6. CASE op[t] = "get"
  <2>1. where[i] = "used" /\ t # "used"
    BY Zenon, <1>1, <1>6 DEF PopStack
  <2>2. ptr[i] \in Pages /\ ptr[i] \in Stock
    BY Zenon, <1>1, <2>1 DEF IInv, Recorded, Stock
  <2>3. Stock' = Stock \ {ptr[i]}
    <3>1. \A s \in Slots : where[s] = "used" /\ ptr[s] = ptr[i] => s = i
      BY Zenon, <1>1, <2>1 DEF IInv, UniqueOwner
    <3>2. \A s \in Slots : where'[s] = "used" <=> where[s] = "used" /\ s # i
      BY Zenon, <1>1, <1>3, <2>1
    <3> QED
      BY <1>1, <1>2, <2>1, <3>1, <3>2 DEF Stock
  <2>4. Holds(t)' = Holds(t) \cup {ptr[i]}
    BY Zenon, <1>1, <1>2, <1>6 DEF Holds, InTransit
  <2>5. Pool!Get(t, ptr[i])
    BY ZenonT(40), <1>2, <1>4, <2>2, <2>3, <2>4, HoldsMove DEF Pool!Get
  <2> QED
    BY <2>2, <2>5, Zenon DEF Pool!Next
<1> QED
  BY Zenon, <1>2, <1>5, <1>6

(* Put gives its page away when it links the used slot. *)
LEMMA PushCasPool ==
  ASSUME IInv, NEW t \in Threads, PushCas(t)
  PROVE  Pool!Next \/ UNCHANGED Pool!vars
<1> DEFINE i == index[t]
<1> USE SlotFacts, NameAssumption
<1>1. i \in Slots /\ where[i] = t /\ op[t] \in {"get", "put"} /\ pc[t] = "push_cas"
  BY Zenon, HoldingFacts DEF PushCas, Holding
<1>2. /\ op'[t] = "none" /\ index'[t] = kInvalid /\ ptr' = ptr /\ os' = os
      /\ own'[t] = IF op[t] = "get" THEN own[t] \cup {page[t]} ELSE own[t]
  BY Zenon DEF PushCas, IInv, TypeOK
<1>3. where'[i] = PushStack(t) /\ \A s \in Slots : s # i => where'[s] = where[s]
  BY Zenon, <1>1 DEF PushCas, IInv, TypeOK
<1>4. OthersStay(t)
  BY Zenon DEF PushCas, OthersStay, IInv, TypeOK
<1>5. Holds(t)' = own'[t]
  BY Zenon, <1>2 DEF Holds, InTransit
<1>6. Holds(t) = own[t] \cup {page[t]}
  BY Zenon, <1>1 DEF Holds, InTransit
<1> HIDE DEF i
<1>7. CASE op[t] = "get"
  <2>1. where'[i] # "used" /\ where[i] # "used"
    BY Zenon, <1>1, <1>3, <1>7 DEF PushStack
  <2>2. Stock' = Stock
    BY Zenon, <1>1, <1>2, <1>3, <2>1, StockStays
  <2>3. Holds(t)' = Holds(t)
    BY Zenon, <1>2, <1>5, <1>6, <1>7
  <2> QED
    BY Zenon, <1>2, <1>4, <2>2, <2>3, Stutters
<1>8. CASE op[t] = "put"
  <2>1. where'[i] = "used" /\ where[i] # "used"
    BY Zenon, <1>1, <1>3, <1>8 DEF PushStack
  <2>2. page[t] \in Pages /\ ptr[i] = page[t]
    BY Zenon, <1>1, <1>8 DEF IInv, Recorded, i
  <2>3. Stock' = Stock \cup {page[t]}
    <3>1. \A s \in Slots : where'[s] = "used" <=> where[s] = "used" \/ s = i
      BY Zenon, <1>1, <1>3, <2>1
    <3>2. \A q : q \in Stock <=> \E s \in Slots : where[s] = "used" /\ ptr[s] = q
      BY Zenon DEF Stock
    <3>3. \A q : q \in Stock' <=> \E s \in Slots : where'[s] = "used" /\ ptr[s] = q
      BY Zenon, <1>2 DEF Stock
    <3>4. \A q : q \in Stock' <=> q \in Stock \/ q = page[t]
      <4> TAKE q
      <4>1. (\E s \in Slots : where'[s] = "used" /\ ptr[s] = q) <=>
              (\E s \in Slots : where[s] = "used" /\ ptr[s] = q) \/ ptr[i] = q
        BY Zenon, <1>1, <3>1
      <4> QED
        BY Zenon, <2>2, <3>2, <3>3, <4>1
    <3> QED
      BY Zenon, <3>4
  <2>4. page[t] \notin own[t]
    BY Zenon, <1>1, <1>8 DEF IInv, Apart, InTransit
  <2>5. Holds(t)' = Holds(t) \ {page[t]} /\ page[t] \in Holds(t)
    BY Zenon, <1>2, <1>5, <1>6, <1>8, <2>4
  <2>6. Cardinality(Stock) < kCapacity
    BY Zenon, <1>1, <2>1, Room
  <2>7. Pool!Put(t, page[t])
    <3>1. [u \in Threads |-> Holds(u)]' =
            [[u \in Threads |-> Holds(u)] EXCEPT ![t] = Holds(t) \ {page[t]}]
      BY Zenon, <1>4, <2>5, HoldsMove
    <3>2. [u \in Threads |-> Holds(u)][t] = Holds(t)
      OBVIOUS
    <3>3. [u \in Threads |-> Holds(u)]' =
            [[u \in Threads |-> Holds(u)] EXCEPT ![t] = @ \ {page[t]}]
      BY Zenon, <3>1, <3>2
    <3>4. Pool!Cardinality(Stock) = Cardinality(Stock)
      BY Zenon DEF Pool!Cardinality, Cardinality
    <3> QED
      BY Zenon, <1>2, <2>3, <2>5, <2>6, <3>2, <3>3, <3>4 DEF Pool!Put
  <2> QED
    BY <2>2, <2>7, Zenon DEF Pool!Next
<1> QED
  BY Zenon, <1>1, <1>7, <1>8

(* The pool starts empty. *)
LEMMA InitPool == Init => Pool!Init
<1> SUFFICES ASSUME Init PROVE Pool!Init
  OBVIOUS
<1>1. os = Pages /\ Stock = {}
  BY Zenon DEF Init, Stock
<1>2. \A t \in Threads : Holds(t) = {}
  BY Zenon DEF Init, Holds, InTransit
<1> QED
  BY Zenon, <1>1, <1>2 DEF Pool!Init

(* Every step of the cache is a step of the pool or none. *)
LEMMA NextPool == IInv /\ [Next]_vars => Pool!Next \/ UNCHANGED Pool!vars
<1> SUFFICES ASSUME IInv, [Next]_vars PROVE Pool!Next \/ UNCHANGED Pool!vars
  OBVIOUS
<1>1. CASE UNCHANGED vars
  <2>1. \A t \in Threads : Holds(t)' = Holds(t)
    BY Zenon, <1>1 DEF vars, Holds, InTransit
  <2>2. Stock' = Stock /\ os' = os
    BY Zenon, <1>1 DEF vars, Stock
  <2> QED
    BY Zenon, <2>1, <2>2 DEF Pool!vars
<1>2. ASSUME NEW t \in Threads, Step(t) PROVE Pool!Next \/ UNCHANGED Pool!vars
  BY Zenon, <1>2, QuietPool, PopCasPool, PushCasPool DEF Step
<1>3. ASSUME NEW t \in Threads, CallGet(t) PROVE Pool!Next \/ UNCHANGED Pool!vars
  BY Zenon, <1>3, CallPool
<1>4. ASSUME NEW t \in Threads, NEW p \in Pages, Map(t, p) \/ Unmap(t, p) \/ CallPut(t, p)
      PROVE  Pool!Next \/ UNCHANGED Pool!vars
  BY Zenon, <1>4, CallPool
<1> QED
  BY Zenon, <1>1, <1>2, <1>3, <1>4 DEF Next

(***************************************************************************)
(* Get and Put of HugePageCache, a load and a compare-exchange at a time,  *)
(* implement the bounded pool in which a page moves in one step.           *)
(***************************************************************************)
THEOREM CacheImplementsPool == Spec => ImplementsPool
BY InitInv, NextInv, InitPool, NextPool, PTL DEF Spec, ImplementsPool, Pool!Spec

(***************************************************************************)
(* No mapping is lost: a page is unmapped, in the cache or with a thread,  *)
(* also between the two stacks of Get and of Put.                          *)
(***************************************************************************)
THEOREM NoPageIsLost == Spec => []NoPageLost
<1> DEFINE Somewhere(p) == p \in os \/ p \in Stock \/ \E t \in Threads : p \in Holds(t)
           All == \A p \in Pages : Somewhere(p)
<1>1. Init => All
  BY Zenon DEF Init
<1>2. ASSUME All, Pool!Next PROVE All'
  <2>1. PICK t \in Threads, p \in Pages :
          Pool!Map(t, p) \/ Pool!Unmap(t, p) \/ Pool!Put(t, p) \/ Pool!Get(t, p)
    BY Zenon, <1>2 DEF Pool!Next
  <2>2. /\ \A q \in Pages \ {p} : (q \in os' <=> q \in os) /\ (q \in Stock' <=> q \in Stock)
        /\ \A q \in Pages \ {p}, u \in Threads : q \in Holds(u)' <=> q \in Holds(u)
        /\ p \in os' \/ p \in Stock' \/ p \in Holds(t)'
    <3> DEFINE held == [u \in Threads |-> Holds(u)]
    <3>1. /\ \A u \in Threads : held[u] = Holds(u) /\ held'[u] = Holds(u)'
          /\ DOMAIN held = Threads
      OBVIOUS
    <3>2. CASE Pool!Map(t, p)
      <4>1. os' = os \ {p} /\ held' = [held EXCEPT ![t] = @ \cup {p}] /\ Stock' = Stock
        BY Zenon, <3>2 DEF Pool!Map
      <4> HIDE DEF held
      <4> QED BY <3>1, <4>1
    <3>3. CASE Pool!Unmap(t, p)
      <4>1. os' = os \cup {p} /\ held' = [held EXCEPT ![t] = @ \ {p}] /\ Stock' = Stock
        BY Zenon, <3>3 DEF Pool!Unmap
      <4> HIDE DEF held
      <4> QED BY <3>1, <4>1
    <3>4. CASE Pool!Put(t, p)
      <4>1. os' = os /\ held' = [held EXCEPT ![t] = @ \ {p}] /\ Stock' = Stock \cup {p}
        BY Zenon, <3>4 DEF Pool!Put
      <4> HIDE DEF held
      <4> QED BY <3>1, <4>1
    <3>5. CASE Pool!Get(t, p)
      <4>1. os' = os /\ held' = [held EXCEPT ![t] = @ \cup {p}] /\ Stock' = Stock \ {p}
        BY Zenon, <3>5 DEF Pool!Get
      <4> HIDE DEF held
      <4> QED BY <3>1, <4>1
    <3> QED BY Zenon, <2>1, <3>2, <3>3, <3>4, <3>5
  <2> QED BY Zenon, <1>2, <2>1, <2>2
<1>3. ASSUME All, UNCHANGED Pool!vars PROVE All'
  <2>1. /\ os' = os /\ Stock' = Stock
        /\ [u \in Threads |-> Holds(u)]' = [u \in Threads |-> Holds(u)]
    BY Zenon, <1>3 DEF Pool!vars
  <2>2. \A u \in Threads : Holds(u)' = Holds(u)
    BY Zenon, <2>1
  <2> QED BY Zenon, <1>3, <2>1, <2>2
<1>4. IInv /\ All /\ [Next]_vars => All'
  BY Zenon, <1>2, <1>3, NextPool
<1>5. All => NoPageLost
  BY Zenon DEF NoPageLost
<1> HIDE DEF All
<1> QED
  BY <1>1, <1>4, <1>5, InitInv, NextInv, PTL DEF Spec

=============================================================================
