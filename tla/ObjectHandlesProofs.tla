------------------------ MODULE ObjectHandlesProofs -------------------------
(***************************************************************************)
(* For any number of threads, handles and objects: the counters are exact, *)
(* no reference dangles, no AM_CHECK of the handles fails, and unique()    *)
(* means exclusive.                                                        *)
(*                                                                         *)
(* ObjectSteps has the invariant and the argument; here are the steps that *)
(* move or drop a reference, the teardown, and the theorems.               *)
(***************************************************************************)
EXTENDS ObjectSteps

-----------------------------------------------------------------------------
(* Steps that move or drop a reference *)

(* What a place holds is Empty or a reference to an allocated object. *)
LEMMA Held ==
  ASSUME Counting, IInv, NEW p \in Places, refs[p] # Empty
  PROVE  /\ refs[p] = Ref(refs[p].kind, refs[p].obj) /\ refs[p].kind \in StrongKinds \cup WeakKinds
         /\ refs[p].obj \in Objects /\ refs[p].obj \in made
         /\ refs[p].kind \in WeakKinds => refs[p].obj \notin CowObjects
  <1>1. Sound(p)
    BY Zenon DEF IInv
  <1>2. refs[p] \in RefType
    BY Zenon, Types
  <1> QED
    BY Zenon, <1>1, <1>2 DEF Sound, RefType, Ref

(* A move changes the place or the kind of a reference, and no count. *)
LEMMA MoveInv ==
  ASSUME Counting, IInv, NEW t \in Threads, NEW s \in Slots, NEW d \in Slots,
         NEW k \in StrongKinds \cup WeakKinds, Move(t, s, d, k)
  PROVE  IInv'
  <1> DEFINE o == refs[s].obj
  <1>1. /\ pc[t] = "idle" /\ ~aborted /\ refs[s] # Empty /\ refs[d] = Empty /\ s # d
        /\ Writable(s) /\ Writable(d) /\ s \in Places /\ d \in Places
        /\ UNCHANGED <<strong, weak, made, alive, pc, src, dst, obj, old, aborted>>
    BY Zenon DEF Move, Places, counters, storage, locals
  <1>2. /\ refs[s] = Ref(refs[s].kind, o) /\ o \in Objects
        /\ refs[s].kind \in StrongKinds \cup WeakKinds
        /\ refs[s].kind \in WeakKinds => o \notin CowObjects
    BY Zenon, <1>1, Held
  <1>3. refs[s].kind \in StrongKinds <=> k \in StrongKinds
    BY Zenon DEF Move, StrongKinds, WeakKinds
  <1>4. k \in WeakKinds => o \notin CowObjects
    BY Zenon, <1>2, <1>3 DEF StrongKinds, WeakKinds
  <1>5. /\ refs'[s] = Empty /\ refs'[d] = Ref(k, o) /\ Differ(refs, refs', s, d)
        /\ refs' \in [Places -> RefType]
    <2>1. refs \in [Places -> RefType] /\ Ref(k, o) \in RefType /\ Empty \in RefType
      BY Zenon, <1>2, Types DEF RefType, Ref
    <2>2. refs' = [refs EXCEPT ![s] = Empty, ![d] = Ref(k, o)]
      BY Zenon DEF Move
    <2> QED
      BY Zenon, <1>1, <2>1, <2>2 DEF Differ
  <1> HIDE DEF o
  <1>6. \A u \in Threads : u \in Places /\ u # s /\ u # d
    BY Zenon, PlacesAssumption DEF Places
  <1>7. \A u \in Threads : src[u] # s /\ src[u] # d /\ dst[u] # s /\ dst[u] # d
    BY Zenon, <1>1 DEF Writable
  <1>8. RefsElsewhere(t) /\ refs'[t] = refs[t]
    BY Zenon, <1>5, <1>6, <1>7 DEF RefsElsewhere, Differ, Places
  <1>9. Derived(t)
    <2> SUFFICES ASSUME NEW p \in Places, refs'[p] # refs[p], refs'[p] # Empty
                 PROVE  /\ \E q \in Places : /\ refs[q] # Empty /\ refs[q].obj = refs'[p].obj
                                             /\ \A u \in Threads : u # t => dst[u] # q
                        /\ refs'[p].kind \in WeakKinds => refs'[p].obj \notin CowObjects
      BY Zenon DEF Derived
    <2>1. p = d /\ refs'[p].obj = o /\ refs'[p].kind = k
      BY SMTT(30), <1>5 DEF Differ, Ref
    <2> QED
      BY Zenon, <1>1, <1>4, <1>7, <2>1 DEF o
  <1>10. InStep
    <2> SUFFICES ASSUME NEW i \in made
                 PROVE  /\ strong'[i] - strong[i] = S(i)' - S(i)
                        /\ weak'[i] - weak[i] = W(i)' - W(i)
                        /\ strong'[i] > 0 <=> strong[i] > 0
      BY Zenon DEF InStep
    <2>1. /\ S(i)' = S(i) - Is(refs[s], StrongKinds, i) - Is(refs[d], StrongKinds, i)
                      + Is(refs'[s], StrongKinds, i) + Is(refs'[d], StrongKinds, i)
          /\ W(i)' = W(i) - Is(refs[s], WeakKinds, i) - Is(refs[d], WeakKinds, i)
                      + Is(refs'[s], WeakKinds, i) + Is(refs'[d], WeakKinds, i)
      BY Zenon, <1>1, <1>5, TwoCounted
    <2>2. /\ Is(refs[d], StrongKinds, i) = 0 /\ Is(refs[d], WeakKinds, i) = 0
          /\ Is(refs'[s], StrongKinds, i) = 0 /\ Is(refs'[s], WeakKinds, i) = 0
      BY SMTT(30), <1>1, <1>5 DEF Is, Empty, StrongKinds, WeakKinds
    <2>3. /\ Is(refs'[d], StrongKinds, i) = Is(refs[s], StrongKinds, i)
          /\ Is(refs'[d], WeakKinds, i) = Is(refs[s], WeakKinds, i)
      BY SMTT(30), <1>2, <1>3, <1>5 DEF Is, Ref, StrongKinds, WeakKinds, o
    <2>4. S(i) \in Nat /\ W(i) \in Nat /\ strong[i] \in Nat /\ weak[i] \in Nat
      BY Zenon, Numbers, Types
    <2>5. /\ Is(refs[s], StrongKinds, i) \in Nat /\ Is(refs[s], WeakKinds, i) \in Nat
          /\ UNCHANGED <<strong, weak>>
      BY Zenon, <1>1 DEF Is
    <2> QED
      BY SMTT(30), <2>1, <2>2, <2>3, <2>4, <2>5
  <1>11. Elsewhere(t) /\ ~Tearing(t) /\ ~Tearing(t)' /\ Exclusive(t)' /\ Pins'
    BY ZenonT(40), <1>1 DEF Elsewhere, Tearing, Dying, Exclusive, IInv, Pins
  <1>12. Local(t)'
    BY ZenonT(40), <1>1, <1>8, Parts DEF Local
  <1>13. TypeOK'
    BY Zenon, <1>1, <1>5, Types, TypesNext DEF Threaded
  <1> QED
    BY ZenonT(40), <1>1, <1>8, <1>9, <1>10, <1>11, <1>12, <1>13, CalmInv

(* reset() hands the reference of d to the temporary, which drops it. *)
LEMMA ResetInv ==
  ASSUME Counting, IInv, NEW t \in Threads, NEW d \in Slots, Reset(t, d)
  PROVE  IInv'
  <1> DEFINE label == IF refs[d].kind \in StrongKinds THEN "dec" ELSE "wdec"
  <1>1. /\ pc[t] = "idle" /\ ~aborted /\ refs[d] # Empty /\ Writable(d) /\ d \in Places /\ t \in Places /\ t # d
        /\ refs[t] = Empty /\ UNCHANGED <<strong, weak, made, alive, aborted>>
    <2>1. pc[t] = "idle" /\ ~aborted
      BY Zenon DEF Reset, Begin
    <2> QED
      BY Zenon, <2>1, Resting, PlacesAssumption DEF Reset, Places, counters, storage
  <1>2. /\ refs[d] = Ref(refs[d].kind, refs[d].obj) /\ refs[d].kind \in StrongKinds \cup WeakKinds
        /\ refs[d].obj \in Objects /\ refs[d].obj \in made
        /\ refs[d].kind \in WeakKinds => refs[d].obj \notin CowObjects
    BY Zenon, <1>1, Held
  <1>3. /\ refs'[d] = Empty /\ refs'[t] = refs[d] /\ Differ(refs, refs', d, t)
        /\ refs' \in [Places -> RefType]
    <2>1. refs \in [Places -> RefType] /\ Empty \in RefType /\ refs[d] \in RefType
      BY Zenon, <1>1, Types DEF RefType
    <2>2. refs' = [refs EXCEPT ![d] = Empty, ![t] = refs[d]]
      BY Zenon DEF Reset
    <2> QED
      BY Zenon, <1>1, <2>1, <2>2 DEF Differ
  <1>4. /\ Elsewhere(t) /\ pc'[t] = label /\ src'[t] = NoSlot /\ dst'[t] = d /\ obj'[t] = refs[d].obj
    BY SMTT(30), BeginEffect DEF Reset
  <1>5. \A u \in Threads : /\ u \in Places /\ u # d /\ src[u] # d /\ dst[u] # d
                           /\ (src[u] \in Slots => src[u] # t) /\ (dst[u] \in Slots => dst[u] # t)
    BY Zenon, <1>1, PlacesAssumption DEF Places, Writable
  <1>6. RefsElsewhere(t)
    BY Zenon, <1>3, <1>5 DEF RefsElsewhere, Differ, Places
  <1>7. Derived(t)
    <2> SUFFICES ASSUME NEW p \in Places, refs'[p] # refs[p], refs'[p] # Empty
                 PROVE  /\ \E q \in Places : /\ refs[q] # Empty /\ refs[q].obj = refs'[p].obj
                                             /\ \A u \in Threads : u # t => dst[u] # q
                        /\ refs'[p].kind \in WeakKinds => refs'[p].obj \notin CowObjects
      BY Zenon DEF Derived
    <2>1. p = t
      BY Zenon, <1>3 DEF Differ
    <2> QED
      BY Zenon, <1>1, <1>2, <1>3, <1>5, <2>1
  <1>8. InStep
    <2> SUFFICES ASSUME NEW i \in made
                 PROVE  /\ strong'[i] - strong[i] = S(i)' - S(i)
                        /\ weak'[i] - weak[i] = W(i)' - W(i)
                        /\ strong'[i] > 0 <=> strong[i] > 0
      BY Zenon DEF InStep
    <2>1. /\ S(i)' = S(i) - Is(refs[d], StrongKinds, i) - Is(refs[t], StrongKinds, i)
                      + Is(refs'[d], StrongKinds, i) + Is(refs'[t], StrongKinds, i)
          /\ W(i)' = W(i) - Is(refs[d], WeakKinds, i) - Is(refs[t], WeakKinds, i)
                      + Is(refs'[d], WeakKinds, i) + Is(refs'[t], WeakKinds, i)
      BY ZenonT(40), <1>1, <1>3, TwoCounted
    <2>2. refs'[d] = refs[t] /\ refs'[t] = refs[d]
      BY Zenon, <1>1, <1>3
    <2>3. S(i) \in Nat /\ W(i) \in Nat /\ strong[i] \in Nat /\ weak[i] \in Nat
      BY Zenon, Numbers, Types
    <2> QED
      BY SMTT(30), <1>1, <2>1, <2>2, <2>3, IsType
  <1>9. Local(t)' /\ Exclusive(t)' /\ ~Tearing(t) /\ ~Tearing(t)'
    BY ZenonT(40), <1>1, <1>2, <1>3, <1>4 DEF Local, Exclusive, Tearing, Dying
  <1>10. Pins'
    BY ZenonT(40), <1>1, <1>4, PinsBegin, Parts
  <1>11. TypeOK'
    <2>1. Threaded'
      BY SMTT(30), <1>2, BeginEffect DEF Reset, Labels
    <2> QED
      BY ZenonT(40), <1>1, <1>3, <2>1, Types, TypesNext
  <1> QED
    BY ZenonT(40), <1>1, <1>4, <1>6, <1>7, <1>8, <1>9, <1>10, <1>11, CalmInv

(* The temporary gives up its reference. *)
LEMMA Dropped ==
  ASSUME Counting, IInv, NEW t \in Threads, refs' = [refs EXCEPT ![t] = Empty]
  PROVE  /\ RefsElsewhere(t) /\ Derived(t) /\ refs' \in [Places -> RefType] /\ refs'[t] = Empty
         /\ \A p \in Places : refs'[p] = refs[p] \/ refs'[p] = Empty
         /\ \A o : /\ S(o)' = S(o) - Is(refs[t], StrongKinds, o)
                   /\ W(o)' = W(o) - Is(refs[t], WeakKinds, o)
  <1>1. t \in Places /\ refs \in [Places -> RefType] /\ Empty \in RefType
    BY Zenon, Types DEF Places, RefType
  <1>2. refs' \in [Places -> RefType] /\ refs'[t] = Empty /\ Differ(refs, refs', t, t)
    BY Zenon, <1>1 DEF Differ
  <1>3. \A p \in Places : refs'[p] = refs[p] \/ refs'[p] = Empty
    BY Zenon, <1>2 DEF Differ
  <1>4. RefsElsewhere(t)
    BY ZenonT(40), <1>2, PlacesAssumption DEF RefsElsewhere, Differ, Places
  <1>5. Derived(t)
    BY Zenon, <1>3 DEF Derived
  <1>6. ASSUME NEW o
        PROVE  /\ S(o)' = S(o) - Is(refs[t], StrongKinds, o)
               /\ W(o)' = W(o) - Is(refs[t], WeakKinds, o)
    <2>1. /\ S(o)' = S(o) - Is(refs[t], StrongKinds, o) + Is(refs'[t], StrongKinds, o)
          /\ W(o)' = W(o) - Is(refs[t], WeakKinds, o) + Is(refs'[t], WeakKinds, o)
      BY ZenonT(40), <1>1, <1>2, OneCounted
    <2>2. Is(refs'[t], StrongKinds, o) = 0 /\ Is(refs'[t], WeakKinds, o) = 0
      BY <1>2 DEF Is, Empty, StrongKinds, WeakKinds
    <2> QED
      BY SMTT(30), <2>1, <2>2, IsType, Numbers
  <1> QED
    BY Zenon, <1>2, <1>3, <1>4, <1>5, <1>6

-----------------------------------------------------------------------------
(* Steps that tear an object down *)

(* What Tearing says of the thread and of the others. *)
LEMMA TearFacts ==
  ASSUME Counting, IInv, NEW t \in Threads, Tearing(t)
  PROVE  /\ obj[t] \in made /\ obj[t] \in Objects /\ dst[t] \in Slots /\ refs[t] = Empty
         /\ strong[obj[t]] = 0 /\ S(obj[t]) = 0 /\ weak[obj[t]] \in Nat /\ W(obj[t]) \in Nat
         /\ pc[t] # "free" => weak[obj[t]] = W(obj[t]) + 1
         /\ \A u \in Threads : u # t /\ obj[u] = obj[t] => ~Tearing(u)
  <1>1. /\ obj[t] \in made /\ obj[t] \in Objects /\ dst[t] \in Slots /\ refs[t] = Empty
    BY Zenon, Working, Resting DEF Tearing, Dying
  <1>2. strong[obj[t]] = 0 /\ weak[obj[t]] \in Nat
    BY Zenon, <1>1, Parts, Types DEF Teardown
  <1>3. \A u \in Threads : u # t /\ obj[u] = obj[t] => ~Tearing(u)
    BY Zenon DEF IInv, OneTears
  <1>4. pc[t] # "free" => BeingDropped(obj[t]) /\ ~BeingFreed(obj[t])
    BY Zenon, <1>3 DEF BeingDropped, BeingFreed, Tearing
  <1>5. Counts(obj[t])
    BY Zenon, <1>1 DEF IInv
  <1> QED
    BY Zenon, <1>1, <1>2, <1>3, <1>4, <1>5, Numbers DEF Counts

(* Thread t works on o, whose strong count is zero; nobody else tears o    *)
(* down, no reference is made, and other objects are not touched.          *)
Frame(t, o) ==
  /\ \A p \in Places : refs'[p] = refs[p] \/ refs'[p] = Empty
  /\ \A i \in Objects : i # o =>
       /\ strong'[i] = strong[i] /\ weak'[i] = weak[i] /\ S(i)' = S(i) /\ W(i)' = W(i)
       /\ (i \in made' <=> i \in made) /\ (i \in alive' <=> i \in alive)

(* Such a step preserves IInv if it preserves what concerns t and o. *)
LEMMA TearInv ==
  ASSUME Counting, IInv, NEW t \in Threads, NEW o \in Objects, o = obj[t],
         Elsewhere(t), RefsElsewhere(t), Frame(t, o),
         TypeOK', ~aborted', Pins', Local(t)', Exclusive(t)', Teardown(t)',
         Tearing(t)' => obj'[t] = o, strong'[o] = 0,
         \A u \in Threads : u # t /\ obj[u] = o => ~Tearing(u),
         o \in made' \/ \A u \in Threads : u # t => pc[u] = "idle" \/ obj[u] # o,
         o \in made' \/ \A p \in Places : refs[p].obj # o,
         o \in made' => Counts(o)', o \in alive' => pc'[t] \in Dying
  PROVE  IInv'
  <1> USE DEF Frame
  <1>1. ASSUME NEW u \in Threads PROVE Local(u)'
    <2>1. CASE u = t
      BY ZenonT(40), <2>1
    <2>2. CASE u # t
      <3>1. pc[u] # "idle" => obj[u] \in made /\ obj[u] \in Objects
        BY Zenon, Working
      <3>2. pc[u] # "idle" => obj[u] \in made'
        BY ZenonT(40), <2>2, <3>1
      <3>3. pc[u] # "idle" /\ strong[obj[u]] = 0 => strong'[obj[u]] = 0
        BY Zenon, <3>1
      <3> QED
        BY ZenonT(40), <2>2, <3>2, <3>3, LocalFrame, Parts
    <2> QED
      BY ZenonT(40), <2>1, <2>2
  <1>2. \A u \in Threads : u # t => /\ Tearing(u)' <=> Tearing(u)
                                    /\ obj'[u] = obj[u] /\ pc'[u] = pc[u]
    BY ZenonT(40) DEF Tearing, Elsewhere, RefsElsewhere
  <1>3. \A i \in Objects : i # o => (BeingDropped(i)' <=> BeingDropped(i)) /\ (BeingFreed(i)' <=> BeingFreed(i))
    <2> SUFFICES ASSUME NEW i \in Objects, i # o
                 PROVE  (BeingDropped(i)' <=> BeingDropped(i)) /\ (BeingFreed(i)' <=> BeingFreed(i))
      OBVIOUS
    <2>1. \A u \in Threads : obj[u] = i => u # t
      OBVIOUS
    <2>2. \A u \in Threads : obj'[u] = i /\ Tearing(u)' => u # t
      OBVIOUS
    <2>3. \A u \in Threads : (pc[u] = "free" => Tearing(u)) /\ (pc'[u] = "free" => Tearing(u)')
      BY Zenon DEF Tearing
    <2>4. BeingDropped(i)' <=> BeingDropped(i)
      BY <1>2, <2>1, <2>2, Zenon DEF BeingDropped
    <2>5. BeingFreed(i)' <=> BeingFreed(i)
      BY <1>2, <2>1, <2>2, <2>3, Zenon DEF BeingFreed
    <2> QED
      BY ZenonT(40), <2>4, <2>5
  <1>4. ASSUME NEW i \in made' PROVE Counts(i)'
    <2>1. CASE i = o
      BY ZenonT(40), <2>1
    <2>2. CASE i # o
      <3>1. i \in Objects /\ i \in made /\ Counts(i)
        <4>1. i \in Objects
          BY Zenon DEF TypeOK
        <4> QED
          BY Zenon, <2>2, <4>1 DEF IInv
      <3>2. /\ strong'[i] = strong[i] /\ weak'[i] = weak[i] /\ S(i)' = S(i) /\ W(i)' = W(i)
            /\ BeingDropped(i)' <=> BeingDropped(i)
            /\ BeingFreed(i)' <=> BeingFreed(i)
        BY ZenonT(40), <1>3, <2>2, <3>1
      <3> QED
        BY ZenonT(40), <3>1, <3>2 DEF Counts
    <2> QED
      BY ZenonT(40), <2>1, <2>2
  <1>5. ASSUME NEW u \in Threads PROVE Teardown(u)'
    <2>1. CASE u = t
      BY ZenonT(40), <2>1
    <2>2. CASE u # t /\ ~Tearing(u)
      BY ZenonT(40), <1>2, <2>2 DEF Teardown, Tearing, Dying
    <2>3. CASE u # t /\ Tearing(u)
      <3>1. /\ obj[u] # o /\ obj[u] \in Objects /\ obj'[u] = obj[u] /\ pc'[u] = pc[u] /\ Tearing(u)'
        BY ZenonT(40), <1>2, <2>3, TearFacts
      <3>2. strong'[obj[u]] = strong[obj[u]] /\ (obj[u] \in alive' <=> obj[u] \in alive)
        BY ZenonT(40), <3>1
      <3>3. WeakRefs(obj[u]) = {} => WeakRefs(obj[u])' = {}
        BY SMTT(30), <3>1 DEF WeakRefs, Empty, WeakKinds
      <3> QED
        BY ZenonT(40), <2>3, <3>1, <3>2, <3>3, Parts DEF Teardown
    <2> QED
      BY ZenonT(40), <2>1, <2>2, <2>3
  <1>6. OneTears'
    <2>1. OneTears
      BY Zenon DEF IInv
    <2> HIDE DEF Frame
    <2> QED
      BY ZenonT(40), <1>2, <2>1 DEF OneTears
  <1>7. ASSUME NEW i \in Objects PROVE Lives(i)'
    <2>1. CASE i = o
      <3>1. o \in alive' => pc'[t] \in Dying /\ obj'[t] = o
        BY Zenon DEF Tearing
      <3> QED
        BY SMTT(30), <2>1, <3>1 DEF Lives
    <2>2. CASE i # o
      <3>1. Lives(i)
        BY Zenon DEF IInv
      <3>2. \A u \in Threads : pc[u] \in Dying /\ obj[u] = i => pc'[u] \in Dying /\ obj'[u] = i
        <4>1. \A u \in Threads : obj[u] = i => u # t
          BY ZenonT(40), <2>2
        <4> QED
          BY <1>2, <4>1, Zenon
      <3> QED
        BY ZenonT(40), <2>2, <3>1, <3>2 DEF Lives
    <2> QED
      BY ZenonT(40), <2>1, <2>2
  <1>8. ASSUME NEW p \in Places PROVE Sound(p)'
    <2> SUFFICES ASSUME refs'[p] # Empty PROVE Sound(p)'
      BY ZenonT(40) DEF Sound
    <2>1. refs'[p] = refs[p] /\ refs[p].obj \in made /\ refs[p].obj \in Objects
      BY ZenonT(40), Held
    <2> QED
      BY ZenonT(40), <2>1 DEF Sound, IInv
  <1>9. ASSUME NEW u \in Threads PROVE Exclusive(u)'
    <2>1. CASE u = t
      BY ZenonT(40), <2>1
    <2>2. CASE u # t
      <3> SUFFICES ASSUME pc[u] = "mutate"
                   PROVE  StrongRefs(obj[u])' \cup WeakRefs(obj[u])' = {dst'[u]}
        BY ZenonT(40), <2>2 DEF Exclusive, Elsewhere
      <3>1. /\ dst'[u] = dst[u] /\ obj'[u] = obj[u] /\ dst[u] \in Slots
            /\ refs'[dst[u]] = refs[dst[u]] /\ refs[dst[u]] = Ref("strong", obj[u])
        BY ZenonT(40), <2>2, Working, Owning DEF Elsewhere, RefsElsewhere
      <3>2. StrongRefs(obj[u]) \cup WeakRefs(obj[u]) = {dst[u]}
        BY Zenon, Parts DEF Exclusive
      <3>3. dst[u] \in StrongRefs(obj[u])'
        BY SMTT(30), <3>1 DEF StrongRefs, Ref, StrongKinds, Places
      <3>4. StrongRefs(obj[u])' \cup WeakRefs(obj[u])' \subseteq StrongRefs(obj[u]) \cup WeakRefs(obj[u])
        BY SMTT(30), <3>1 DEF StrongRefs, WeakRefs, Empty, StrongKinds, WeakKinds
      <3> QED
        BY ZenonT(40), <3>1, <3>2, <3>3, <3>4
    <2> QED
      BY ZenonT(40), <2>1, <2>2
  <1> QED
    BY ZenonT(40), <1>1, <1>4, <1>5, <1>6, <1>7, <1>8, <1>9 DEF IInv

(* A weak count of one means that no weak reference is left or can appear. *)
LEMMA CheckWeakInv ==
  ASSUME Counting, IInv, NEW t \in Threads, CheckWeak(t)
  PROVE  IInv'
  <1> DEFINE o == obj[t]
             label == IF weak[o] = 1 THEN "dtorboth" ELSE "dtor"
  <1>1. pc[t] = "checkweak" /\ Tearing(t) /\ o \in alive
    BY Zenon, Parts DEF CheckWeak, Tearing, Dying, Teardown
  <1>2. /\ o \in made /\ o \in Objects /\ dst[t] \in Slots /\ refs[t] = Empty /\ strong[o] = 0
        /\ weak[o] = W(o) + 1 /\ W(o) \in Nat
        /\ \A u \in Threads : u # t /\ obj[u] = o => ~Tearing(u)
    BY ZenonT(40), <1>1, TearFacts
  <1>3. /\ UNCHANGED <<refs, strong, weak, made, alive, aborted, src, dst, obj, old>>
        /\ pc' = [pc EXCEPT ![t] = label]
    BY Zenon DEF CheckWeak, Goto, counters, storage, locals
  <1>4. Elsewhere(t) /\ RefsElsewhere(t) /\ pc'[t] = label /\ label \in Dying
    BY Zenon, <1>3, Types DEF Elsewhere, RefsElsewhere, Threaded, Dying
  <1>5. Tearing(t)' /\ Local(t)' /\ Exclusive(t)' /\ pc'[t] # "free"
    BY ZenonT(40), <1>2, <1>3, <1>4 DEF Tearing, Local, Exclusive, Dying
  <1>6. \A i : S(i)' = S(i) /\ W(i)' = W(i) /\ WeakRefs(i)' = WeakRefs(i)
    BY Zenon, <1>3 DEF S, W, StrongRefs, WeakRefs
  <1>7. label = "dtorboth" => WeakRefs(o) = {}
    BY SMTT(30), <1>2, Numbers
  <1>8. Teardown(t)'
    BY ZenonT(40), <1>1, <1>2, <1>3, <1>4, <1>6, <1>7 DEF Teardown, Dying
  <1>9. Counts(o)'
    <2>1. BeingDropped(o)' /\ BeingDropped(o)
      BY Zenon, <1>1, <1>3, <1>5 DEF BeingDropped
    <2>2. Counts(o) /\ ~BeingFreed(o)
      BY Zenon, <1>1, <1>2 DEF IInv, BeingFreed, Tearing
    <2> QED
      BY ZenonT(40), <1>2, <1>3, <1>6, <2>1, <2>2 DEF Counts
  <1>10. TypeOK' /\ Pins'
    <2>1. Threaded'
      BY Zenon, <1>3, Types DEF Threaded, Labels
    <2> QED
      BY Zenon, <1>3, <2>1, Types, TypesNext, Parts DEF Pins
  <1>11. Frame(t, o)
    BY Zenon, <1>3, <1>6 DEF Frame
  <1>12. obj'[t] = o /\ strong'[o] = 0 /\ o \in made' /\ ~aborted' /\ pc'[t] \in Dying
    BY Zenon, <1>2, <1>3, <1>4, Types
  <1> HIDE DEF label
  <1> QED
    BY ZenonT(40), <1>2, <1>4, <1>5, <1>8, <1>9, <1>10, <1>11, <1>12, TearInv

(* The payload is destroyed once, by the thread that tears the object down. *)
LEMMA DestroyInv ==
  ASSUME Counting, IInv, NEW t \in Threads, Destroy(t)
  PROVE  IInv'
  <1> DEFINE o == obj[t]
             label == IF pc[t] = "dtorboth" THEN "free" ELSE "wdec"
  <1>1. pc[t] \in {"dtorboth", "dtor"} /\ Tearing(t) /\ (pc[t] = "dtorboth" => WeakRefs(o) = {})
    BY Zenon, Parts DEF Destroy, Tearing, Dying, Teardown
  <1>2. /\ o \in made /\ o \in Objects /\ dst[t] \in Slots /\ refs[t] = Empty /\ strong[o] = 0
        /\ weak[o] = W(o) + 1 /\ W(o) \in Nat
        /\ \A u \in Threads : u # t /\ obj[u] = o => ~Tearing(u)
    BY ZenonT(40), <1>1, TearFacts
  <1>3. /\ UNCHANGED <<refs, strong, weak, made, aborted, src, dst, obj, old>>
        /\ pc' = [pc EXCEPT ![t] = label] /\ alive' = alive \ {o}
    BY Zenon DEF Destroy, Goto, counters, storage, locals
  <1>4. Elsewhere(t) /\ RefsElsewhere(t) /\ pc'[t] = label /\ label \notin Dying
    BY Zenon, <1>3, Types DEF Elsewhere, RefsElsewhere, Threaded, Dying
  <1>5. Tearing(t)' /\ Local(t)' /\ Exclusive(t)'
    <2>1. /\ pc'[t] \in {"free", "wdec"} /\ refs'[t] = Empty
          /\ dst'[t] \in Slots /\ obj'[t] \in made'
      BY Zenon, <1>2, <1>3, <1>4
    <2> QED
      BY ZenonT(40), <2>1 DEF Tearing, Local, Exclusive, Dying
  <1>6. \A i : S(i)' = S(i) /\ W(i)' = W(i) /\ WeakRefs(i)' = WeakRefs(i)
    BY Zenon, <1>3 DEF S, W, StrongRefs, WeakRefs
  <1>7. Teardown(t)'
    <2>1. /\ strong'[obj'[t]] = 0 /\ obj'[t] \notin alive'
          /\ pc'[t] = "free" => WeakRefs(obj[t])' = {}
      BY SMTT(30), <1>1, <1>2, <1>3, <1>4, <1>6
    <2>2. pc'[t] \notin Dying /\ pc'[t] # "dtorboth"
      BY Zenon, <1>4 DEF Dying
    <2> QED
      BY Zenon, <2>1, <2>2 DEF Teardown
  <1>8. Counts(o)'
    <2>1. BeingFreed(o)' \/ BeingDropped(o)'
      BY Zenon, <1>3, <1>5 DEF BeingDropped, BeingFreed
    <2>2. strong[o] = S(o)
      BY ZenonT(40), <1>2 DEF IInv, Counts
    <2> QED
      BY Zenon, <1>2, <1>3, <1>6, <2>1, <2>2 DEF Counts
  <1>9. TypeOK' /\ Pins'
    <2>1. Threaded'
      BY Zenon, <1>3, Types DEF Threaded, Labels
    <2>2. alive' \subseteq made'
      BY Zenon, <1>3, Types
    <2> QED
      BY Zenon, <1>3, <2>1, <2>2, Types, TypesNext, Parts DEF Pins
  <1>10. Frame(t, o)
    BY Zenon, <1>3, <1>6 DEF Frame
  <1>11. obj'[t] = o /\ strong'[o] = 0 /\ o \in made' /\ ~aborted' /\ o \notin alive'
    BY Zenon, <1>2, <1>3, Types
  <1> HIDE DEF label
  <1> QED
    BY ZenonT(40), <1>2, <1>4, <1>5, <1>7, <1>8, <1>9, <1>10, <1>11, TearInv

(* The reference that DecRef drops is one of those that count. *)
LEMMA DecFacts ==
  ASSUME Counting, IInv, NEW t \in Threads, pc[t] = "dec"
  PROVE  /\ obj[t] \in made /\ obj[t] \in Objects /\ dst[t] \in Slots /\ ~Tearing(t)
         /\ strong[obj[t]] = S(obj[t]) /\ S(obj[t]) \in Nat /\ S(obj[t]) > 0
         /\ \A i \in Objects : /\ Is(refs[t], StrongKinds, i) = (IF i = obj[t] THEN 1 ELSE 0)
                               /\ Is(refs[t], WeakKinds, i) = 0
  <1>1. /\ obj[t] \in made /\ obj[t] \in Objects /\ dst[t] \in Slots /\ ~Tearing(t)
        /\ refs[t].obj = obj[t] /\ refs[t].kind \in StrongKinds
    <2>1. refs[t].obj = obj[t] /\ refs[t].kind \in StrongKinds
      BY Zenon, Parts DEF Local
    <2> QED
      BY Zenon, <2>1, Working DEF Tearing, Dying
  <1>2. t \in StrongRefs(obj[t])
    BY Zenon, <1>1 DEF StrongRefs, Places
  <1>3. \A i \in Objects : /\ Is(refs[t], StrongKinds, i) = (IF i = obj[t] THEN 1 ELSE 0)
                           /\ Is(refs[t], WeakKinds, i) = 0
    BY Zenon, <1>1 DEF Is, StrongKinds, WeakKinds
  <1> QED
    <2>1. strong[obj[t]] = S(obj[t])
      BY Zenon, <1>1 DEF IInv, Counts
    <2> QED
      BY SMTT(30), <1>1, <1>2, <1>3, <2>1, Numbers

(* Only the thread that drops the last strong reference begins to tear down. *)
LEMMA DecStrongInv ==
  ASSUME Counting, IInv, NEW t \in Threads, NEW o \in Objects, o = obj[t], DecStrong(t)
  PROVE  IInv'
  <1>1. /\ pc[t] = "dec" /\ refs' = [refs EXCEPT ![t] = Empty]
        /\ strong' = [strong EXCEPT ![o] = @ - 1] /\ UNCHANGED <<weak, made, alive, aborted>>
    BY Zenon DEF DecStrong, storage
  <1>2. /\ o \in made /\ o \in Objects /\ dst[t] \in Slots /\ ~Tearing(t)
        /\ strong[o] = S(o) /\ S(o) \in Nat /\ S(o) > 0
    BY Zenon, <1>1, DecFacts
  <1>3. /\ RefsElsewhere(t) /\ Derived(t) /\ refs' \in [Places -> RefType] /\ refs'[t] = Empty
        /\ \A p \in Places : refs'[p] = refs[p] \/ refs'[p] = Empty
    BY ZenonT(40), <1>1, Dropped
  <1>4. \A i \in Objects : /\ S(i)' = S(i) - (IF i = o THEN 1 ELSE 0) /\ W(i)' = W(i)
                           /\ S(i) \in Nat /\ W(i) \in Nat
    <2> TAKE i \in Objects
    <2>1. /\ S(i)' = S(i) - Is(refs[t], StrongKinds, i) /\ W(i)' = W(i) - Is(refs[t], WeakKinds, i)
      BY ZenonT(40), <1>1, Dropped
    <2>2. Is(refs[t], StrongKinds, i) = (IF i = o THEN 1 ELSE 0) /\ Is(refs[t], WeakKinds, i) = 0
      BY ZenonT(40), <1>1, DecFacts
    <2> QED
      BY SMTT(30), <2>1, <2>2, Numbers
  <1>5. /\ strong' \in [Objects -> Nat]
        /\ \A i \in Objects : strong'[i] = strong[i] - (IF i = o THEN 1 ELSE 0) /\ strong[i] \in Nat /\ weak[i] \in Nat
    BY SMTT(30), <1>1, <1>2, Types
  <1>6. CASE strong[o] = 1
    <2>1. /\ Elsewhere(t) /\ Pins' /\ Threaded' /\ pc'[t] = "checkweak"
          /\ UNCHANGED <<src, dst, obj, old>>
      <3>1. Goto(t, "checkweak") /\ "checkweak" \in Labels
        BY Zenon, <1>6 DEF DecStrong, Labels
      <3> QED
        BY Zenon, <3>1, GotoEffect
    <2>2. TypeOK'
      BY ZenonT(40), <1>1, <1>3, <1>5, <2>1, Types, TypesNext
    <2>3. Elsewhere(t) /\ pc'[t] = "checkweak"
      BY Zenon, <2>1
    <2>4. Local(t)' /\ Exclusive(t)' /\ Tearing(t)' /\ pc'[t] \in Dying
      BY ZenonT(40), <1>1, <1>2, <1>3, <2>1, <2>3 DEF Local, Exclusive, Tearing, Dying
    <2>5. o \in alive
      BY Zenon, <1>2, <1>6 DEF IInv, Lives
    <2>6. strong'[o] = 0
      BY SMTT(30), <1>2, <1>5, <1>6
    <2>7. Teardown(t)'
      BY ZenonT(40), <1>1, <2>1, <2>3, <2>4, <2>5, <2>6 DEF Teardown, Dying
    <2>8. \A u \in Threads : obj[u] = o => ~Tearing(u)
      BY SMTT(30), <1>6, Parts DEF Teardown
    <2>9. Counts(o)'
      <3>1. BeingDropped(o)'
        BY Zenon, <2>1, <2>3, <2>4 DEF BeingDropped
      <3>2. ~BeingFreed(o)
        BY Zenon, <2>8 DEF BeingFreed, Tearing
      <3>3. Counts(o)
        BY Zenon, <1>2 DEF IInv
      <3>4. weak[o] = W(o) + 1
        BY SMTT(30), <1>6, <3>2, <3>3 DEF Counts
      <3>5. S(o)' = 0 /\ W(o)' = W(o) /\ weak'[o] = weak[o]
        <4>1. S(o)' = S(o) - 1 /\ W(o)' = W(o)
          BY Zenon, <1>4
        <4>2. 1 - 1 = 0
          OBVIOUS
        <4> QED
          BY <1>1, <1>2, <1>6, <4>1, <4>2, Zenon
      <3> QED
        BY Zenon, <2>6, <3>1, <3>4, <3>5 DEF Counts
    <2>10. Frame(t, o)
      <3>1. \A i \in Objects : i # o =>
              /\ strong'[i] = strong[i] /\ weak'[i] = weak[i] /\ S(i)' = S(i) /\ W(i)' = W(i)
              /\ (i \in made' <=> i \in made) /\ (i \in alive' <=> i \in alive)
        BY SMTT(30), <1>1, <1>4, <1>5
      <3> QED
        BY Zenon, <1>3, <3>1 DEF Frame
    <2>11. obj'[t] = o /\ o \in made' /\ ~aborted'
      BY Zenon, <1>1, <1>2, <2>1, Types
    <2> QED
      BY ZenonT(40), <1>3, <2>1, <2>2, <2>4, <2>6, <2>7, <2>8, <2>9, <2>10, <2>11, TearInv
  <1>7. CASE strong[o] # 1
    <2>1. Return(t)
      BY ZenonT(40), <1>7 DEF DecStrong
    <2>2. Elsewhere(t) /\ Threaded' /\ Pins' /\ Local(t)' /\ Exclusive(t)' /\ ~Tearing(t)'
      BY Zenon, <1>3, <2>1, ReturnEffect
    <2>3. TypeOK'
      BY Zenon, <1>1, <1>3, <1>5, <2>2, Types, TypesNext
    <2>4. InStep
      <3> SUFFICES ASSUME NEW i \in made
                   PROVE  /\ strong'[i] - strong[i] = S(i)' - S(i)
                          /\ weak'[i] - weak[i] = W(i)' - W(i)
                          /\ strong'[i] > 0 <=> strong[i] > 0
        BY Zenon DEF InStep
      <3>1. i \in Objects
        BY Zenon, Types
      <3> QED
        BY SMTT(30), <1>1, <1>2, <1>4, <1>5, <1>7, <3>1
    <2> QED
      BY ZenonT(40), <1>1, <1>2, <1>3, <2>2, <2>3, <2>4, CalmInv, Parts
  <1> QED
    BY Zenon, <1>6, <1>7

(* The temporary's own weak reference goes, or the one that the strong     *)
(* side kept: the thread tears on, or it was not tearing and may begin.    *)
LEMMA DecWeakInv ==
  ASSUME Counting, IInv, NEW t \in Threads, NEW o \in Objects, o = obj[t], DecWeak(t)
  PROVE  IInv'
  <1>1. /\ pc[t] = "wdec" /\ refs' = [refs EXCEPT ![t] = Empty]
        /\ weak' = [weak EXCEPT ![o] = @ - 1] /\ UNCHANGED <<strong, made, alive, aborted>>
    BY Zenon DEF DecWeak, storage
  <1>2. /\ o \in made /\ dst[t] \in Slots /\ Counts(o) /\ strong[o] = S(o)
        /\ W(o) \in Nat /\ S(o) \in Nat /\ weak[o] \in Nat
    <2>1. o \in made /\ dst[t] \in Slots
      BY Zenon, <1>1, Working
    <2>2. Counts(o)
      BY Zenon, <2>1 DEF IInv
    <2> QED
      BY Zenon, <2>1, <2>2, Numbers, Types DEF Counts
  <1>3. /\ RefsElsewhere(t) /\ Derived(t) /\ refs' \in [Places -> RefType] /\ refs'[t] = Empty
        /\ \A p \in Places : refs'[p] = refs[p] \/ refs'[p] = Empty
    BY ZenonT(40), <1>1, Dropped
  <1>4. \A i \in Objects : /\ S(i)' = S(i) - Is(refs[t], StrongKinds, i)
                           /\ W(i)' = W(i) - Is(refs[t], WeakKinds, i)
    BY ZenonT(40), <1>1, Dropped
  <1>5. \A i \in Objects : /\ weak'[i] = weak[i] - (IF i = o THEN 1 ELSE 0)
                           /\ weak[i] \in Nat /\ strong[i] \in Nat
    BY SMTT(30), <1>1, Types
  <1>6. ASSUME weak[o] > 0
        PROVE  /\ Return(t) => TypeOK' /\ Pins' /\ Elsewhere(t) /\ Local(t)' /\ Exclusive(t)' /\ ~Tearing(t)'
               /\ Goto(t, "free") => /\ TypeOK' /\ Pins' /\ Elsewhere(t) /\ Local(t)' /\ Exclusive(t)'
                                     /\ pc'[t] = "free" /\ obj'[t] = o
    <2>1. weak' \in [Objects -> Nat]
      BY SMTT(30), <1>1, <1>6, Types
    <2>2. Threaded' => TypeOK'
      BY ZenonT(40), <1>1, <1>3, <2>1, Types, TypesNext
    <2>3. Return(t) => Threaded' /\ Pins' /\ Elsewhere(t) /\ Local(t)' /\ Exclusive(t)' /\ ~Tearing(t)'
      BY Zenon, <1>3, ReturnEffect
    <2>4. ASSUME Goto(t, "free")
          PROVE  /\ Threaded' /\ Pins' /\ Elsewhere(t) /\ Local(t)' /\ Exclusive(t)'
                 /\ pc'[t] = "free" /\ obj'[t] = o
      <3>1. "free" \in Labels
        BY Zenon DEF Labels
      <3>2. Threaded' /\ Pins' /\ Elsewhere(t) /\ pc'[t] = "free" /\ dst' = dst /\ obj' = obj
        BY Zenon, <2>4, <3>1, GotoEffect
      <3>3. Local(t)' /\ Exclusive(t)'
        BY Zenon, <1>1, <1>2, <1>3, <3>2 DEF Local, Exclusive
      <3> QED
        BY Zenon, <3>2, <3>3
    <2> QED
      BY Zenon, <2>2, <2>3, <2>4
  <1>7. ASSUME \A i \in Objects : i # o => S(i)' = S(i) /\ W(i)' = W(i)
        PROVE  Frame(t, o)
    <2>1. \A i \in Objects : i # o =>
            /\ strong'[i] = strong[i] /\ weak'[i] = weak[i] /\ S(i)' = S(i) /\ W(i)' = W(i)
            /\ (i \in made' <=> i \in made) /\ (i \in alive' <=> i \in alive)
      BY SMTT(30), SMTT(31), <1>1, <1>5, <1>7
    <2> QED
      BY Zenon, <1>3, <2>1 DEF Frame
  (* The thread has destroyed the payload and drops the weak reference of the strong side. *)
  <1>8. CASE refs[t] = Empty
    <2>1. Tearing(t) /\ o \notin alive
      BY Zenon, <1>1, <1>8, Parts DEF Tearing, Dying, Teardown
    <2>2. /\ strong[o] = 0 /\ weak[o] = W(o) + 1
          /\ \A u \in Threads : u # t /\ obj[u] = o => ~Tearing(u)
      BY Zenon, <1>1, <2>1, TearFacts
    <2>3. \A i \in Objects : S(i)' = S(i) /\ W(i)' = W(i)
      <3> TAKE i \in Objects
      <3>1. Is(refs[t], StrongKinds, i) = 0 /\ Is(refs[t], WeakKinds, i) = 0
        BY <1>8 DEF Is, Empty, StrongKinds, WeakKinds
      <3> QED
        BY SMTT(30), <1>4, <3>1, Numbers
    <2>4. strong'[o] = 0 /\ S(o)' = 0 /\ weak'[o] = W(o) /\ W(o)' = W(o)
      <3>1. S(o)' = S(o) /\ W(o)' = W(o)
        BY Zenon, <2>3
      <3>2. weak'[o] = W(o)
        BY SMTT(30), <1>2, <1>5, <2>2
      <3> QED
        BY <1>1, <1>2, <2>2, <3>1, <3>2, Zenon
    <2>5. CASE weak[o] = 1
      <3>1. Goto(t, "free")
        BY ZenonT(40), <2>5 DEF DecWeak
      <3>2. WeakRefs(o)' = {}
        <4>1. W(o) = 0
          BY SMTT(30), <1>2, <2>2, <2>5
        <4> QED
          BY SMTT(30), <1>3, <4>1, Numbers DEF WeakRefs, Empty, WeakKinds
      <3>3. weak[o] > 0
        BY SMTT(30), <2>5
      <3>4. /\ TypeOK' /\ Pins' /\ Elsewhere(t) /\ Local(t)' /\ Exclusive(t)'
            /\ pc'[t] = "free" /\ obj'[t] = o
        BY Zenon, <1>6, <3>1, <3>3
      <3>5. o \in made' /\ o \notin alive' /\ ~aborted'
        BY Zenon, <1>1, <1>2, <2>1, Types
      <3>6. Teardown(t)'
        BY Zenon, <2>4, <3>2, <3>4, <3>5 DEF Teardown, Dying
      <3>7. Counts(o)'
        BY Zenon, <2>4, <3>4 DEF Counts, BeingFreed
      <3>8. Frame(t, o)
        BY Zenon, <1>7, <2>3
      <3> QED
        BY ZenonT(40), <1>3, <2>2, <2>4, <3>4, <3>5, <3>6, <3>7, <3>8, TearInv
    <2>6. CASE weak[o] # 1
      <3>1. Return(t) /\ weak[o] > 0
        BY SMTT(30), <1>2, <2>2, <2>6 DEF DecWeak
      <3>2. /\ TypeOK' /\ Pins' /\ Elsewhere(t) /\ Local(t)' /\ Exclusive(t)' /\ ~Tearing(t)'
            /\ Teardown(t)'
        BY Zenon, <1>3, <1>6, <3>1, ReturnEffect
      <3>3. ~BeingDropped(o)'
        <4>1. \A u \in Threads : u # t => obj'[u] = obj[u] /\ (Tearing(u)' => Tearing(u))
          BY Zenon, <1>3, <3>2 DEF Elsewhere, RefsElsewhere, Tearing
        <4> QED
          BY Zenon, <2>2, <3>2, <4>1 DEF BeingDropped
      <3>4. Counts(o)'
        BY SMTT(30), <1>2, <2>4, <3>3 DEF Counts
      <3>5. o \in made' /\ o \notin alive' /\ ~aborted'
        BY Zenon, <1>1, <1>2, <2>1, Types
      <3>6. Frame(t, o)
        BY Zenon, <1>7, <2>3
      <3> QED
        BY ZenonT(40), <1>3, <2>2, <2>4, <3>2, <3>4, <3>5, <3>6, TearInv
    <2> QED
      BY Zenon, <2>5, <2>6
  (* The thread drops a weak reference. *)
  <1>9. CASE refs[t] # Empty
    <2>1. refs[t].obj = o /\ refs[t].kind \in WeakKinds /\ ~Tearing(t)
      <3>1. refs[t].obj = o /\ refs[t].kind \in WeakKinds
        BY Zenon, <1>1, <1>9, Parts DEF Local
      <3> QED
        BY Zenon, <1>1, <1>9, <3>1 DEF Tearing, Dying
    <2>2. t \in WeakRefs(o) /\ W(o) > 0
      <3>1. t \in WeakRefs(o)
        BY ZenonT(40), <2>1 DEF WeakRefs, Places
      <3> QED
        BY SMTT(30), <3>1, Numbers
    <2>3. ~BeingFreed(o)
      BY Zenon, <2>2, Parts DEF BeingFreed, Teardown
    <2>4. weak[o] = W(o) + (IF strong[o] > 0 \/ BeingDropped(o) THEN 1 ELSE 0)
      BY Zenon, <1>2, <2>3 DEF Counts
    <2>5. \A i \in Objects : S(i)' = S(i) /\ W(i)' = W(i) - (IF i = o THEN 1 ELSE 0)
                             /\ S(i) \in Nat /\ W(i) \in Nat
      <3> TAKE i \in Objects
      <3>1. Is(refs[t], StrongKinds, i) = 0 /\ Is(refs[t], WeakKinds, i) = (IF i = o THEN 1 ELSE 0)
        BY Zenon, <2>1 DEF Is, StrongKinds, WeakKinds
      <3> QED
        BY SMTT(30), <1>4, <3>1, Numbers
    <2>6. CASE weak[o] = 1
      <3>1. Goto(t, "free")
        BY Zenon, <2>6 DEF DecWeak
      <3>2. W(o) = 1 /\ strong[o] = 0 /\ ~BeingDropped(o)
        BY SMTT(30), <1>2, <2>2, <2>4, <2>6
      <3>3. \A u \in Threads : obj[u] = o => ~Tearing(u)
        BY Zenon, <2>3, <3>2 DEF BeingFreed, BeingDropped
      <3>4. o \notin alive
        <4>1. Lives(o)
          BY Zenon DEF IInv
        <4> QED
          BY Zenon, <3>2, <3>3, <4>1 DEF Lives, Tearing
      <3>5. strong'[o] = 0 /\ S(o)' = 0 /\ W(o)' = 0
        <4>1. S(o)' = S(o) /\ W(o)' = W(o) - 1
          BY Zenon, <2>5
        <4>2. 1 - 1 = 0
          OBVIOUS
        <4> QED
          BY <1>1, <1>2, <3>2, <4>1, <4>2, Zenon
      <3>6. WeakRefs(o)' = {}
        <4>1. W(o)' = Cardinality(Having(refs', WeakKinds, o)) /\ WeakRefs(o)' = Having(refs', WeakKinds, o)
          BY Zenon DEF W, WeakRefs, Having
        <4> QED
          BY Zenon, <3>5, <4>1, HavingFinite
      <3>7. weak[o] > 0
        BY SMTT(30), <2>6
      <3>8. /\ TypeOK' /\ Pins' /\ Elsewhere(t) /\ Local(t)' /\ Exclusive(t)'
            /\ pc'[t] = "free" /\ obj'[t] = o
        BY Zenon, <1>6, <3>1, <3>7
      <3>9. o \in made' /\ o \notin alive' /\ ~aborted'
        BY Zenon, <1>1, <1>2, <3>4, Types
      <3>10. Teardown(t)'
        BY Zenon, <3>5, <3>6, <3>8, <3>9 DEF Teardown, Dying
      <3>11. Counts(o)'
        BY Zenon, <3>5, <3>8 DEF Counts, BeingFreed
      <3>12. Frame(t, o)
        <4>1. \A i \in Objects : i # o => S(i)' = S(i) /\ W(i)' = W(i)
          BY SMTT(30), <2>5
        <4> QED
          BY Zenon, <1>7, <4>1
      <3> QED
        BY ZenonT(40), <1>3, <3>3, <3>5, <3>8, <3>9, <3>10, <3>11, <3>12, TearInv
    <2>7. CASE weak[o] # 1
      <3>1. Return(t) /\ weak[o] > 0
        BY SMTT(30), <1>2, <2>2, <2>4, <2>7 DEF DecWeak
      <3>2. InStep
        <4> SUFFICES ASSUME NEW i \in made
                     PROVE  /\ strong'[i] - strong[i] = S(i)' - S(i)
                            /\ weak'[i] - weak[i] = W(i)' - W(i)
                            /\ strong'[i] > 0 <=> strong[i] > 0
          BY Zenon DEF InStep
        <4>1. i \in Objects
          BY Zenon, Types
        <4> QED
          BY SMTT(30), <1>1, <1>5, <2>5, <4>1
      <3> QED
        <4>1. TypeOK' /\ Pins' /\ Elsewhere(t) /\ Local(t)' /\ Exclusive(t)' /\ ~Tearing(t)'
          BY Zenon, <1>6, <3>1
        <4>2. ~aborted' /\ UNCHANGED <<made, alive>>
          BY Zenon, <1>1, Types
        <4> QED
          BY ZenonT(40), <1>3, <2>1, <3>2, <4>1, <4>2, CalmInv
    <2> QED
      BY Zenon, <2>6, <2>7
  <1> QED
    BY Zenon, <1>8, <1>9

(* Nothing refers to the object and no call works on it when its storage   *)
(* is freed.                                                               *)
LEMMA FreeInv ==
  ASSUME Counting, IInv, NEW t \in Threads, NEW o \in Objects, o = obj[t], Free(t)
  PROVE  IInv'
  <1>1. /\ pc[t] = "free" /\ made' = made \ {o} /\ Return(t)
        /\ UNCHANGED <<refs, strong, weak, alive, aborted>>
    BY ZenonT(40) DEF Free, counters
  <1>2. Tearing(t) /\ o \notin alive /\ WeakRefs(o) = {}
    BY Zenon, <1>1, Parts DEF Tearing, Dying, Teardown
  <1>3. /\ refs[t] = Empty /\ strong[o] = 0 /\ S(o) = 0
        /\ \A u \in Threads : u # t /\ obj[u] = o => ~Tearing(u)
    BY Zenon, <1>1, <1>2, TearFacts
  <1>4. StrongRefs(o) = {}
    BY Zenon, <1>3, Numbers
  <1>5. \A p \in Places : refs[p].obj # o
    <2> SUFFICES ASSUME NEW p \in Places, refs[p].obj = o PROVE FALSE
      OBVIOUS
    <2>1. refs[p] # Empty
      BY SMTT(30), ObjAssumption DEF Empty
    <2> QED
      BY Zenon, <1>2, <1>4, <2>1, Held DEF StrongRefs, WeakRefs
  <1>6. \A u \in Threads : u # t => pc[u] = "idle" \/ obj[u] # o
    <2> SUFFICES ASSUME NEW u \in Threads, u # t, pc[u] # "idle", obj[u] = o PROVE FALSE
      OBVIOUS
    <2>1. /\ Local(u) /\ ~Tearing(u) /\ pc[u] \in Labels /\ u \in Places
      BY Zenon, <1>3, Parts, Types DEF Places, Threaded
    <2>2. \A p \in Slots : refs[p].obj # o
      BY ZenonT(40), <1>5 DEF Places
    <2>3. refs[u].obj # o
      BY Zenon, <1>5, <2>1
    <2> QED
      BY SMTT(30), <2>1, <2>2, <2>3 DEF Local, Tearing, Dying, Labels, Ref
  <1>7. /\ Elsewhere(t) /\ Threaded' /\ Pins' /\ Local(t)' /\ Exclusive(t)' /\ ~Tearing(t)'
        /\ Teardown(t)'
    <2>1. refs'[t] = Empty
      BY Zenon, <1>1, <1>3
    <2> QED
      BY Zenon, <1>1, <2>1, ReturnEffect
  <1>8. TypeOK'
    <2>1. made' \subseteq Objects /\ alive' \subseteq made'
      BY Zenon, <1>1, <1>2, Types
    <2> QED
      BY Zenon, <1>1, <1>7, <2>1, Types, TypesNext
  <1>9. Frame(t, o) /\ RefsElsewhere(t)
    <2>1. \A i : S(i)' = S(i) /\ W(i)' = W(i)
      BY Zenon, <1>1 DEF S, W, StrongRefs, WeakRefs
    <2> QED
      BY Zenon, <1>1, <2>1 DEF Frame, RefsElsewhere
  <1>10. strong'[o] = 0 /\ o \notin made' /\ o \notin alive' /\ ~aborted'
    BY Zenon, <1>1, <1>2, <1>3, Types
  <1> QED
    BY ZenonT(40), <1>3, <1>5, <1>6, <1>7, <1>8, <1>9, <1>10, TearInv

-----------------------------------------------------------------------------
(* A strong count of one that unique() reads leaves no other reference. *)
LEMMA TestUniqueInv ==
  ASSUME Counting, IInv, NEW t \in Threads, TestUnique(t)
  PROVE  IInv'
  <1>1. /\ obj[t] \in made /\ obj[t] \in Objects /\ dst[t] \in Slots /\ refs[t] = Empty
        /\ refs[dst[t]] = Ref("strong", obj[t]) /\ obj[t] \in CowObjects /\ ~Tearing(t)
    BY ZenonT(40) DEF TestUnique, IInv, Local, TypeOK, Tearing, Dying
  <1>2. CASE strong[obj[t]] = 1
    <2>1. dst[t] \in StrongRefs(obj[t])
      BY <1>1 DEF StrongRefs, Places, StrongKinds, Ref
    <2>2. Cardinality(StrongRefs(obj[t])) = 1
      BY Zenon, <1>1, <1>2 DEF IInv, Counts, S
    <2>3. IsFiniteSet(StrongRefs(obj[t]))
      <3>1. StrongRefs(obj[t]) = Having(refs, StrongKinds, obj[t])
        BY Zenon DEF StrongRefs, Having
      <3> QED
        BY ZenonT(40), <3>1, HavingFinite
    <2>4. Cardinality(StrongRefs(obj[t]) \ {dst[t]}) = 0 /\ IsFiniteSet(StrongRefs(obj[t]) \ {dst[t]})
      BY SMTT(30), SMTT(31), <2>1, <2>2, <2>3, FS_RemoveElement
    <2>5. StrongRefs(obj[t]) = {dst[t]}
      BY ZenonT(40), <2>1, <2>4, FS_EmptySet
    <2>6. WeakRefs(obj[t]) = {}
      BY SMTT(30), <1>1 DEF WeakRefs, IInv, Sound, Empty, WeakKinds
    <2>7. Goto(t, "mutate")
      BY Zenon, <1>2 DEF TestUnique
    <2>8. Local(t)'
      <3>1. /\ pc'[t] = "mutate" /\ dst'[t] = dst[t] /\ obj'[t] = obj[t]
            /\ refs' = refs /\ made' = made
        BY Zenon, <2>7 DEF TestUnique, Goto, locals, IInv, TypeOK, storage
      <3> QED
        BY Zenon, <1>1, <3>1 DEF Local, Ref
    <2>9. Exclusive(t)'
      BY ZenonT(40), <2>5, <2>6, <2>7 DEF TestUnique, Goto, locals, Exclusive, StrongRefs, WeakRefs
    <2> QED
      BY ZenonT(40), <1>1, <2>7, <2>8, <2>9, GotoInv DEF TestUnique, Labels, Dying, IInv, TypeOK
  <1>3. CASE strong[obj[t]] # 1
    BY Zenon, <1>1, <1>3, ReturnInv DEF TestUnique
  <1> QED
    BY ZenonT(40), <1>2, <1>3

(* A new object has the one reference that make_object returns. *)
LEMMA MakeInv ==
  ASSUME Counting, IInv, NEW t \in Threads, NEW d \in Slots, NEW o \in Objects, Make(t, d, o)
  PROVE  IInv'
  <1>1. /\ pc[t] = "idle" /\ ~aborted /\ o \notin made /\ refs[d] = Empty /\ Writable(d) /\ d \in Places
        /\ made' = made \cup {o} /\ alive' = alive \cup {o}
        /\ weak' = [weak EXCEPT ![o] = 1] /\ strong' = [strong EXCEPT ![o] = 1]
        /\ UNCHANGED <<pc, src, dst, obj, old, aborted>>
    BY Zenon DEF Make, locals, Places
  <1>2. /\ refs'[d] = Ref("strong", o) /\ Differ(refs, refs', d, d) /\ refs' \in [Places -> RefType]
    <2>1. refs \in [Places -> RefType] /\ Ref("strong", o) \in RefType
      BY Zenon DEF IInv, TypeOK, RefType, Ref, StrongKinds
    <2> QED
      BY Zenon, <1>1, <2>1 DEF Make, Differ
  <1>3. \A p \in Places : refs[p].obj # o
    <2> SUFFICES ASSUME NEW p \in Places, refs[p].obj = o PROVE FALSE
      OBVIOUS
    <2>1. refs[p] # Empty
      BY SMTT(30), ObjAssumption DEF Empty
    <2> QED
      BY Zenon, <1>1, <2>1, Held
  <1>4. \A u \in Threads : pc[u] # "idle" => obj[u] \in made /\ obj[u] # o /\ obj[u] \in Objects
    BY ZenonT(40), <1>1 DEF IInv, Local, TypeOK
  <1>5. \A u \in Threads : u \in Places /\ u # d /\ src[u] # d /\ dst[u] # d
    BY ZenonT(40), <1>1, PlacesAssumption DEF Writable, Places
  <1>6. Elsewhere(t) /\ RefsElsewhere(t) /\ refs'[t] = refs[t]
    BY ZenonT(40), <1>1, <1>2, <1>5 DEF Elsewhere, RefsElsewhere, Differ, Places
  <1>7. \A i \in Objects : i # o => strong'[i] = strong[i] /\ weak'[i] = weak[i]
    BY Zenon, <1>1 DEF IInv, TypeOK
  <1>8. strong'[o] = 1 /\ weak'[o] = 1
    BY Zenon, <1>1 DEF IInv, TypeOK
  <1>9. /\ \A i \in Objects : i # o => StrongRefs(i)' = StrongRefs(i)
        /\ \A i \in Objects : WeakRefs(i)' = WeakRefs(i)
        /\ StrongRefs(o)' = {d} /\ WeakRefs(o) = {}
    <2>1. /\ refs'[d].obj = o /\ refs'[d].kind = "strong" /\ refs[d].obj = NoObj
          /\ refs[d].kind \notin StrongKinds \cup WeakKinds
          /\ \A p \in Places : p # d => refs'[p] = refs[p]
      BY SMTT(30), <1>1, <1>2 DEF Ref, Empty, Differ, StrongKinds, WeakKinds
    <2>2. "strong" \in StrongKinds /\ "strong" \notin WeakKinds
      BY Zenon DEF StrongKinds, WeakKinds
    <2>3. \A i \in Objects : i # o => StrongRefs(i)' = StrongRefs(i)
      BY Zenon, <2>1, <2>2 DEF StrongRefs
    <2>4. \A i \in Objects : WeakRefs(i)' = WeakRefs(i)
      BY Zenon, <2>1, <2>2 DEF WeakRefs
    <2>5. StrongRefs(o)' = {d} /\ WeakRefs(o) = {}
      BY ZenonT(40), <1>1, <1>3, <2>1, <2>2 DEF StrongRefs, WeakRefs
    <2> QED
      BY ZenonT(40), <2>3, <2>4, <2>5
  <1>10. ASSUME NEW u \in Threads PROVE Local(u)'
    <2>1. CASE u = t
      BY ZenonT(40), <1>1, <1>6, <2>1 DEF IInv, Local
    <2>2. CASE u # t
      BY ZenonT(40), <1>1, <1>4, <1>6, <1>7, <2>2, LocalFrame DEF IInv
    <2> QED
      BY Zenon, <2>1, <2>2
  <1>11. \A u \in Threads : /\ Tearing(u)' <=> Tearing(u)
                            /\ Tearing(u) => pc[u] # "idle"
    BY ZenonT(40), <1>1, <1>2, <1>5 DEF Tearing, Dying, Differ
  <1>12. \A i \in Objects : (BeingDropped(i)' <=> BeingDropped(i)) /\ (BeingFreed(i)' <=> BeingFreed(i))
    BY Zenon, <1>1, <1>11 DEF BeingDropped, BeingFreed
  <1>13. ASSUME NEW i \in made' PROVE Counts(i)'
    <2>1. CASE i = o
      <3>1. S(o)' = 1 /\ W(o)' = 0
        <4>1. Cardinality({d}) = 1 /\ Cardinality({}) = 0
          BY Zenon, FS_Singleton, FS_EmptySet
        <4> QED
          BY <1>9, <4>1, Zenon DEF S, W
      <3> QED
        BY SMTT(30), <1>8, <2>1, <3>1 DEF Counts
    <2>2. CASE i # o
      <3>1. i \in made /\ i \in Objects /\ Counts(i)
        BY Zenon, <1>1, <2>2 DEF IInv, TypeOK
      <3>2. S(i)' = S(i) /\ W(i)' = W(i)
        BY <1>9, <2>2, <3>1, Zenon DEF S, W
      <3>3. BeingDropped(i)' <=> BeingDropped(i)
        BY Zenon, <1>12, <3>1
      <3>4. BeingFreed(i)' <=> BeingFreed(i)
        BY Zenon, <1>12, <3>1
      <3>5. strong'[i] = strong[i] /\ weak'[i] = weak[i]
        BY Zenon, <1>7, <2>2, <3>1
      <3> QED
        BY <3>1, <3>2, <3>3, <3>4, <3>5, Zenon DEF Counts
    <2> QED
      BY Zenon, <2>1, <2>2
  <1>14. ASSUME NEW u \in Threads PROVE Teardown(u)'
    <2>1. CASE Tearing(u)
      <3>1. /\ obj[u] # o /\ obj[u] \in Objects /\ obj'[u] = obj[u] /\ pc'[u] = pc[u] /\ Teardown(u)
        BY ZenonT(40), <1>1, <1>4, <1>11, <2>1 DEF IInv
      <3>2. strong'[obj[u]] = strong[obj[u]] /\ (obj[u] \in alive' <=> obj[u] \in alive)
        BY ZenonT(40), <1>1, <1>7, <3>1
      <3>3. WeakRefs(obj[u]) = {} => WeakRefs(obj[u])' = {}
        BY ZenonT(40), <1>9, <3>1 DEF WeakRefs
      <3> QED
        BY ZenonT(40), <1>11, <2>1, <3>1, <3>2, <3>3 DEF Teardown
    <2>2. CASE ~Tearing(u)
      BY ZenonT(40), <1>1, <1>11, <2>2 DEF Teardown, Tearing, Dying
    <2> QED
      BY Zenon, <2>1, <2>2
  <1>15. OneTears' /\ Pins'
    BY Zenon, <1>1, <1>11 DEF IInv, OneTears, Pins
  <1>16. ASSUME NEW i \in Objects PROVE Lives(i)'
    <2>1. CASE i = o
      BY SMTT(30), <1>1, <1>8, <2>1 DEF Lives
    <2>2. CASE i # o
      BY Zenon, <1>1, <1>7, <2>2 DEF IInv, Lives
    <2> QED
      BY Zenon, <2>1, <2>2
  <1>17. ASSUME NEW p \in Places PROVE Sound(p)'
    <2>1. CASE p = d
      BY SMTT(30), <1>1, <1>2, <2>1 DEF Sound, Ref, WeakKinds
    <2>2. CASE p # d
      BY Zenon, <1>1, <1>2, <2>2 DEF Sound, Differ, IInv
    <2> QED
      BY Zenon, <2>1, <2>2
  <1>18. ASSUME NEW u \in Threads PROVE Exclusive(u)'
    <2> SUFFICES ASSUME pc[u] = "mutate"
                 PROVE  StrongRefs(obj[u])' \cup WeakRefs(obj[u])' = {dst'[u]}
      BY Zenon, <1>1 DEF Exclusive
    <2>1. obj[u] # o /\ obj[u] \in Objects /\ obj'[u] = obj[u] /\ dst'[u] = dst[u] /\ Exclusive(u)
      BY ZenonT(40), <1>1, <1>4 DEF IInv
    <2> QED
      BY ZenonT(40), <1>9, <2>1 DEF Exclusive, StrongRefs, WeakRefs
  <1>19. TypeOK'
    <2>1. strong' \in [Objects -> Nat] /\ weak' \in [Objects -> Nat]
      BY Zenon, <1>1 DEF IInv, TypeOK
    <2> QED
      BY ZenonT(40), <1>1, <1>2, <2>1 DEF IInv, TypeOK, RefType
  <1> QED
    BY ZenonT(40), <1>1, <1>10, <1>13, <1>14, <1>15, <1>16, <1>17, <1>18, <1>19 DEF IInv

-----------------------------------------------------------------------------
(* The invariant and what it implies *)

(* Nothing is allocated and no call runs at first. *)
LEMMA InitInv == Init => IInv
  <1> SUFFICES ASSUME Init PROVE IInv
    OBVIOUS
  <1>1. TypeOK /\ ~aborted
    BY Zenon DEF Init, TypeOK, Labels
  <1>2. \A t \in Threads : Local(t) /\ ~Tearing(t) /\ Teardown(t) /\ Exclusive(t)
    <2> TAKE t \in Threads
    <2>1. pc[t] = "idle" /\ src[t] = NoSlot /\ dst[t] = NoSlot /\ refs[t] = Empty
      BY Zenon DEF Init, Places
    <2> QED
      BY Zenon, <2>1 DEF Local, Tearing, Dying, Teardown, Exclusive
  <1>3. Pins /\ OneTears
    BY Zenon, <1>2 DEF Init, Pins, OneTears
  <1>4. (\A o \in made : Counts(o)) /\ \A o \in Objects : Lives(o)
    BY Zenon DEF Init, Lives
  <1>5. \A p \in Places : Sound(p)
    BY Zenon DEF Init, Sound
  <1> QED
    BY ZenonT(40), <1>1, <1>2, <1>3, <1>4, <1>5 DEF IInv

(* Every call that may begin preserves IInv ... *)
LEMMA CallInv ==
  ASSUME Counting, IInv, NEW t \in Threads, Call(t)
  PROVE  IInv'
  <1>1. ASSUME NEW d \in Slots, NEW o \in Objects, Make(t, d, o) PROVE IInv'
    BY Zenon, <1>1, MakeInv
  <1>2. ASSUME NEW s \in Slots, NEW d \in Slots,
               \/ CopyStrong(t, s, d) \/ CopyWeak(t, s, d) \/ IncObjectRef(t, s, d) \/ Lock(t, s, d)
        PROVE  IInv'
    BY ZenonT(40), <1>2, CopyStrongInv, CopyWeakInv, IncObjectRefInv, LockInv
  <1>3. ASSUME NEW s \in Slots, NEW d \in Slots, NEW k \in StrongKinds \cup WeakKinds, Move(t, s, d, k)
        PROVE  IInv'
    BY Zenon, <1>3, MoveInv
  <1>4. ASSUME NEW d \in Slots, Reset(t, d) \/ ReclaimWeak(t, d) \/ WriteIfUnique(t, d) PROVE IInv'
    BY Zenon, <1>4, ResetInv, ReclaimWeakInv, WriteIfUniqueInv
  <1> QED
    BY Zenon, <1>1, <1>2, <1>3, <1>4 DEF Call

(* ... and so does every step of a call in progress ... *)
LEMMA StepInv ==
  ASSUME Counting, IInv, NEW t \in Threads, Step(t)
  PROVE  IInv'
  <1>1. CASE DecStrong(t)
    <2>1. PICK o \in Objects : o = obj[t]
      BY ZenonT(40), <1>1, DecFacts DEF DecStrong
    <2> QED
      BY Zenon, <1>1, <2>1, DecStrongInv
  <1>2. CASE DecWeak(t)
    <2>1. PICK o \in Objects : o = obj[t]
      BY ZenonT(40), <1>2 DEF DecWeak, IInv, Local, TypeOK
    <2> QED
      BY Zenon, <1>2, <2>1, DecWeakInv
  <1>3. CASE Free(t)
    <2>1. PICK o \in Objects : o = obj[t]
      BY Zenon, <1>3 DEF Free, IInv, Local, TypeOK
    <2> QED
      BY Zenon, <1>3, <2>1, FreeInv
  <1>4. CASE RetainCheck(t) \/ RetainInc(t) \/ WeakRetainCheck(t) \/ WeakRetainInc(t)
    BY ZenonT(40), <1>4, RetainCheckInv, RetainIncInv, WeakRetainCheckInv, WeakRetainIncInv
  <1>5. CASE CheckWeak(t) \/ Destroy(t)
    BY Zenon, <1>5, CheckWeakInv, DestroyInv
  <1>6. CASE PromoteLoad(t) \/ PromoteSucceeds(t) \/ PromoteFails(t)
    BY ZenonT(40), <1>6, PromoteLoadInv, PromoteSucceedsInv, PromoteFailsInv
  <1>7. CASE ReclaimManyWeak(t) \/ ReclaimNoStrong(t) \/ ReclaimSomeWeak(t)
    BY Zenon, <1>7, ReclaimManyWeakInv, ReclaimNoStrongInv, ReclaimSomeWeakInv
  <1>8. CASE TestUnique(t) \/ MutateDone(t)
    BY Zenon, <1>8, TestUniqueInv, MutateDoneInv
  <1> QED
    BY ZenonT(40), <1>1, <1>2, <1>3, <1>4, <1>5, <1>6, <1>7, <1>8 DEF Step

(* ... and a step that changes nothing. *)
LEMMA StutterInv ==
  ASSUME Counting, IInv, UNCHANGED vars
  PROVE  IInv'
  <1>1. UNCHANGED <<refs, strong, weak, made, alive, pc, src, dst, obj, old, aborted>>
    BY Zenon DEF vars
  <1>2. TypeOK' /\ ~aborted' /\ Pins'
    BY Zenon, <1>1 DEF IInv, TypeOK, Pins
  <1>3. \A o : StrongRefs(o)' = StrongRefs(o) /\ WeakRefs(o)' = WeakRefs(o)
    BY Zenon, <1>1 DEF StrongRefs, WeakRefs
  <1>4. \A t \in Threads : Tearing(t)' <=> Tearing(t)
    BY Zenon, <1>1 DEF Tearing
  <1>5. \A t \in Threads : Local(t)'
    BY ZenonT(40), <1>1 DEF IInv, Local
  <1>6. \A t \in Threads : Teardown(t)' /\ Exclusive(t)'
    BY <1>1, <1>4, Zenon DEF IInv, Teardown, Exclusive, StrongRefs, WeakRefs
  <1>7. OneTears'
    BY Zenon, <1>1, <1>4 DEF IInv, OneTears
  <1>8. \A o \in made' : Counts(o)'
    <2> SUFFICES ASSUME NEW o \in made PROVE Counts(o)'
      BY Zenon, <1>1
    <2>1. S(o)' = S(o) /\ W(o)' = W(o)
      BY <1>3, Zenon DEF S, W
    <2>2. (BeingDropped(o)' <=> BeingDropped(o)) /\ (BeingFreed(o)' <=> BeingFreed(o))
      BY Zenon, <1>1, <1>4 DEF BeingDropped, BeingFreed
    <2> QED
      BY Zenon, <1>1, <2>1, <2>2 DEF IInv, Counts
  <1>9. (\A o \in Objects : Lives(o)') /\ \A p \in Places : Sound(p)'
    BY <1>1, Zenon DEF IInv, Lives, Sound
  <1> QED
    BY ZenonT(40), <1>2, <1>5, <1>6, <1>7, <1>8, <1>9 DEF IInv

(* IInv holds in every state of the handles. *)
THEOREM Invariance == Spec => []IInv
  <1>1. IInv /\ [Next]_vars => IInv'
    <2> SUFFICES ASSUME IInv, [Next]_vars PROVE IInv'
      OBVIOUS
    <2>1. CASE UNCHANGED vars
      BY Zenon, <2>1, CountingHolds, StutterInv
    <2>2. CASE Next
      BY ZenonT(40), <2>2, CountingHolds, CallInv, StepInv DEF Next
    <2> QED
      BY Zenon, <2>1, <2>2
  <1> QED
    BY InitInv, <1>1, PTL DEF Spec

(* For any number of threads, handles and objects the strong and the weak  *)
(* count are exact between any two atomic steps, and no AM_CHECK of        *)
(* retain() or of WeakObjectPtr::reclaim fails.                            *)
THEOREM CountsAreExact == Spec => []CountsExact
  <1>1. IInv => CountsExact
    <2> SUFFICES ASSUME IInv PROVE CountsExact
      OBVIOUS
    <2>1. ASSUME NEW o \in made
          PROVE  /\ strong[o] = Cardinality(StrongRefs(o))
                 /\ Freeing(o) = {} =>
                      weak[o] = Cardinality(WeakRefs(o))
                                  + (IF strong[o] > 0 \/ Dropping(o) # {} THEN 1 ELSE 0)
      <3>1. Counts(o)
        BY Zenon DEF IInv
      <3>2. Freeing(o) = {} <=> ~BeingFreed(o)
        BY Zenon DEF Freeing, BeingFreed
      <3>3. Dropping(o) # {} <=> BeingDropped(o)
        BY Zenon DEF Dropping, BeingDropped, Tearing, Dying
      <3> QED
        BY Zenon, <3>1, <3>2, <3>3 DEF Counts, S, W
    <2> QED
      BY Zenon, <2>1 DEF CountsExact, IInv
  <1> QED
    BY Invariance, <1>1, PTL

(* No reference and no call in progress refers to freed storage, and a     *)
(* strong reference refers to a live object: lock() revives nothing and    *)
(* DecRef reads no freed count.                                            *)
THEOREM NothingDangles == Spec => []NoDangling
  <1>1. IInv => NoDangling
    <2> SUFFICES ASSUME IInv PROVE NoDangling
      OBVIOUS
    <2>1. ASSUME NEW p \in Places, refs[p] # Empty
          PROVE  /\ refs[p].obj \in made
                 /\ refs[p].kind \in StrongKinds => refs[p].obj \in alive
      <3>1. refs[p].obj \in made /\ refs[p].obj \in Objects
        BY ZenonT(40), <2>1, Held, CountingHolds
      <3>2. refs[p].kind \in StrongKinds => p \in StrongRefs(refs[p].obj)
        BY Zenon DEF StrongRefs
      <3>3. refs[p].kind \in StrongKinds => strong[refs[p].obj] > 0
        BY SMTT(30), SMTT(31), <3>1, <3>2, Numbers, CountingHolds DEF IInv, Counts
      <3> QED
        BY ZenonT(40), <3>1, <3>3 DEF IInv, Lives
    <2>2. \A t \in Threads : pc[t] # "idle" => obj[t] \in made
      BY Zenon DEF IInv, Local
    <2> QED
      BY Zenon, <2>1, <2>2 DEF NoDangling
  <1> QED
    BY Invariance, <1>1, PTL

(* One thread tears an object down: it destroys the payload once and frees *)
(* the storage once, in this order, whatever DecRef and DecWeakRef race.   *)
THEOREM TearsDownOnce == Spec => []TornDownOnce
  <1>1. IInv => TornDownOnce
    <2> SUFFICES ASSUME IInv PROVE TornDownOnce
      OBVIOUS
    <2>1. ASSUME NEW o \in Objects PROVE Cardinality(Dropping(o) \cup Freeing(o)) <= 1
      <3> DEFINE X == Dropping(o) \cup Freeing(o)
      <3>1. \A t \in X : t \in Threads /\ Tearing(t) /\ obj[t] = o
        BY Zenon DEF Dropping, Freeing, Tearing, Dying
      <3>2. \A t, u \in X : t = u
        BY ZenonT(40), <3>1 DEF IInv, OneTears
      <3> HIDE DEF X
      <3>3. CASE X = {}
        BY SMTT(30), <3>3, FS_EmptySet DEF X
      <3>4. CASE X # {}
        <4>1. PICK t \in X : TRUE
          BY Zenon, <3>4
        <4>2. X = {t}
          BY Zenon, <3>2, <4>1
        <4>3. Cardinality(X) = 1
          BY ZenonT(40), <4>2, FS_Singleton
        <4> QED
          BY <4>3 DEF X
      <3> QED
        BY Zenon, <3>3, <3>4
    <2>2. ASSUME NEW t \in Threads
          PROVE  /\ pc[t] \in {"dtor", "dtorboth"} => obj[t] \in alive
                 /\ pc[t] = "free" => obj[t] \in made \ alive
      BY Zenon DEF IInv, Teardown, Tearing, Dying, Local
    <2> QED
      BY ZenonT(40), <2>1, <2>2 DEF TornDownOnce
  <1> QED
    BY Invariance, <1>1, PTL

(* unique() allows the write in place of the copy-on-write containers: no  *)
(* other reference to the body appears before the write has ended.         *)
THEOREM UniqueExcludes == Spec => []UniqueIsExclusive
  <1>1. IInv => UniqueIsExclusive
    BY Zenon DEF IInv, Exclusive, UniqueIsExclusive
  <1> QED
    BY Invariance, <1>1, PTL

=============================================================================
