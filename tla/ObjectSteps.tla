---------------------------- MODULE ObjectSteps -----------------------------
(***************************************************************************)
(* The inductive invariant of ObjectHandles, and the steps that keep every *)
(* reference or add one.                                                   *)
(*                                                                         *)
(* The argument: a call keeps the slots it works on (Pins), so what it     *)
(* read when it began still holds (Local); every step changes a count and  *)
(* the references it counts together (Counts); the thread that takes the   *)
(* strong count to zero, and no other, tears the object down, and what it  *)
(* finds in the weak count cannot be undone by others (Teardown).          *)
(*                                                                         *)
(* The facts on cardinalities that the steps need (Counting) come first.   *)
(* Where the encoding of a leaf is large, a second SMT pragma tries it     *)
(* again.                                                                  *)
(***************************************************************************)
EXTENDS ObjectHandles, FiniteSetTheorems, TLAPS

(* What a place may hold. *)
RefType == {Empty} \cup [kind : StrongKinds \cup WeakKinds, obj : Objects]

(* The places that hold a reference to o of one of the kinds K. *)
Having(r, K, o) == {p \in Places : r[p].obj = o /\ r[p].kind \in K}

(* How often x counts as a reference to o of the kinds K. *)
Is(x, K, o) == IF x.obj = o /\ x.kind \in K THEN 1 ELSE 0

(* Only p and q hold something else in n than in r. *)
Differ(r, n, p, q) == \A i \in Places : i # p /\ i # q => n[i] = r[i]

(* The references that the strong and the weak count of o should count. *)
S(o) == Cardinality(StrongRefs(o))
W(o) == Cardinality(WeakRefs(o))

(* Where the thread that took the strong count to zero still owns the payload. *)
Dying == {"checkweak", "dtorboth", "dtor"}

(* A thread that has dropped the last strong or the last weak reference. *)
Tearing(t) == pc[t] \in Dying \/ pc[t] = "free" \/ (pc[t] = "wdec" /\ refs[t] = Empty)

(* What a call knows of the slots it works on. *)
Local(t) ==
  /\ pc[t] = "idle" => src[t] = NoSlot /\ dst[t] = NoSlot
  /\ pc[t] # "idle" => dst[t] \in Slots /\ obj[t] \in made
  /\ pc[t] \notin {"dec", "wdec"} => refs[t] = Empty
  /\ pc[t] = "dec" => refs[t].obj = obj[t] /\ refs[t].kind \in StrongKinds
  /\ pc[t] = "wdec" => refs[t] = Empty \/ (refs[t].obj = obj[t] /\ refs[t].kind \in WeakKinds)
  /\ pc[t] \in {"retain", "inc"} =>
       /\ src[t] \in Slots /\ refs[src[t]].obj = obj[t] /\ refs[src[t]].kind \in StrongKinds
       /\ refs[dst[t]].kind \in {"none", "strong"}
  /\ pc[t] \in {"wretain", "winc"} =>
       /\ src[t] \in Slots /\ refs[src[t]].obj = obj[t] /\ refs[src[t]].kind \in {"strong", "weak"}
       /\ refs[dst[t]].kind \in {"none", "weak"}
       /\ obj[t] \notin CowObjects
  /\ pc[t] \in {"load", "cas"} =>
       /\ src[t] \in Slots /\ refs[src[t]].obj = obj[t] /\ refs[src[t]].kind = "weak"
       /\ refs[dst[t]] = Empty
  /\ pc[t] = "cas" => old[t] > 0
  /\ pc[t] \in {"reclaim1", "reclaim2", "reclaim3"} => refs[dst[t]] = Ref("weakraw", obj[t])
  /\ pc[t] \in {"reclaim2", "reclaim3"} => strong[obj[t]] = 0
  /\ pc[t] \in {"unique", "mutate"} => refs[dst[t]] = Ref("strong", obj[t]) /\ obj[t] \in CowObjects

(* A slot that a call writes is in no other call. *)
Pins == \A t, u \in Threads : t # u /\ dst[t] # NoSlot => dst[u] # dst[t] /\ src[u] # dst[t]

(* Some thread tears o down, and has or has not reached the deallocation. *)
BeingDropped(o) == \E t \in Threads : obj[t] = o /\ Tearing(t) /\ pc[t] # "free"
BeingFreed(o) == \E t \in Threads : obj[t] = o /\ pc[t] = "free"

(* CountsExact, with the teardown in progress written as a quantifier. *)
Counts(o) ==
  /\ strong[o] = S(o)
  /\ ~BeingFreed(o) =>
       weak[o] = W(o) + (IF strong[o] > 0 \/ BeingDropped(o) THEN 1 ELSE 0)

(* What the thread that tears an object down may rely on. *)
Teardown(t) ==
  /\ Tearing(t) => strong[obj[t]] = 0
  /\ pc[t] \in Dying => obj[t] \in alive
  /\ Tearing(t) /\ pc[t] \notin Dying => obj[t] \notin alive
  /\ pc[t] \in {"dtorboth", "free"} => WeakRefs(obj[t]) = {}

(* No two threads tear the same object down. *)
OneTears == \A t, u \in Threads : Tearing(t) /\ Tearing(u) /\ obj[t] = obj[u] => t = u

(* A payload lives as long as it is referenced, or until it is torn down. *)
Lives(o) ==
  /\ o \in made /\ strong[o] > 0 => o \in alive
  /\ o \in alive /\ strong[o] = 0 => \E t \in Threads : pc[t] \in Dying /\ obj[t] = o

(* A reference is to an allocated object; copy-on-write bodies have no weak ones. *)
Sound(p) ==
  refs[p] # Empty => refs[p].obj \in made /\ (refs[p].kind \in WeakKinds => refs[p].obj \notin CowObjects)

(* A writer in place is the only one to refer to the body. *)
Exclusive(t) == pc[t] = "mutate" => StrongRefs(obj[t]) \cup WeakRefs(obj[t]) = {dst[t]}

(* The inductive invariant. *)
IInv ==
  /\ TypeOK
  /\ ~aborted
  /\ \A t \in Threads : Local(t)
  /\ Pins
  /\ \A o \in made : Counts(o)
  /\ \A t \in Threads : Teardown(t)
  /\ OneTears
  /\ \A o \in Objects : Lives(o)
  /\ \A p \in Places : Sound(p)
  /\ \A t \in Threads : Exclusive(t)

-----------------------------------------------------------------------------
(* Counting references *)

(* What the argument needs to know of cardinalities. *)
Counting ==
  \A r, K, o :
    /\ IsFiniteSet(Having(r, K, o))
    /\ Cardinality(Having(r, K, o)) \in Nat
    /\ Cardinality(Having(r, K, o)) = 0 <=> Having(r, K, o) = {}
    /\ \A n : \A p \in Places : Differ(r, n, p, p) =>
         Cardinality(Having(n, K, o)) =
           Cardinality(Having(r, K, o)) - Is(r[p], K, o) + Is(n[p], K, o)

(* There are finitely many places, so every count is a natural number. *)
LEMMA HavingIsFinite ==
  ASSUME NEW r, NEW K, NEW o
  PROVE  /\ IsFiniteSet(Having(r, K, o))
         /\ Cardinality(Having(r, K, o)) \in Nat
         /\ Cardinality(Having(r, K, o)) = 0 <=> Having(r, K, o) = {}
  <1>1. IsFiniteSet(Places)
    BY Zenon, FiniteAssumption, FS_Union DEF Places
  <1>2. Having(r, K, o) \in SUBSET Places
    BY Zenon DEF Having
  <1>3. IsFiniteSet(Having(r, K, o))
    BY Zenon, <1>1, <1>2, FS_Subset
  <1> QED
    BY Zenon, <1>3, FS_CardinalityType, FS_EmptySet

(* Overwriting one place takes its old reference out of the count and adds *)
(* the new one.                                                            *)
LEMMA CountChanges ==
  ASSUME NEW r, NEW n, NEW p \in Places, Differ(r, n, p, p), NEW K, NEW o
  PROVE  Cardinality(Having(n, K, o)) =
           Cardinality(Having(r, K, o)) - Is(r[p], K, o) + Is(n[p], K, o)
  <1> DEFINE A == Having(r, K, o)
             B == Having(n, K, o)
  <1>1. A \ {p} = B \ {p}
    BY Zenon DEF Having, Differ
  <1>2. (p \in A <=> Is(r[p], K, o) = 1) /\ Is(r[p], K, o) \in {0, 1}
    BY DEF Having, Is
  <1>3. (p \in B <=> Is(n[p], K, o) = 1) /\ Is(n[p], K, o) \in {0, 1}
    BY DEF Having, Is
  <1>4. /\ IsFiniteSet(A) /\ Cardinality(A) \in Nat
        /\ IsFiniteSet(B) /\ Cardinality(B) \in Nat
    BY Zenon, HavingIsFinite
  <1>5. Cardinality(A \ {p}) = IF p \in A THEN Cardinality(A) - 1 ELSE Cardinality(A)
    BY Zenon, <1>4, FS_RemoveElement
  <1>6. Cardinality(B \ {p}) = IF p \in B THEN Cardinality(B) - 1 ELSE Cardinality(B)
    BY Zenon, <1>4, FS_RemoveElement
  <1> HIDE DEF A, B
  <1>7. Cardinality(A \ {p}) = Cardinality(A) - Is(r[p], K, o)
    BY <1>2, <1>4, <1>5
  <1>8. Cardinality(B \ {p}) = Cardinality(B) - Is(n[p], K, o)
    BY <1>3, <1>4, <1>6
  <1>9. Cardinality(B) = Cardinality(A) - Is(r[p], K, o) + Is(n[p], K, o)
    BY <1>1, <1>2, <1>3, <1>4, <1>7, <1>8
  <1> QED
    BY Zenon, <1>9 DEF A, B

(* The counts behave as the steps assume. *)
LEMMA CountingHolds == Counting
  BY SMTT(30), HavingIsFinite, CountChanges DEF Counting

(* Counting, of one set of places. *)
LEMMA HavingFinite ==
  ASSUME Counting, NEW r, NEW K, NEW o
  PROVE  /\ IsFiniteSet(Having(r, K, o))
         /\ Cardinality(Having(r, K, o)) \in Nat
         /\ Cardinality(Having(r, K, o)) = 0 <=> Having(r, K, o) = {}
  BY Zenon DEF Counting

(* Overwriting one place takes its old reference out of the count and adds *)
(* the new one.                                                            *)
LEMMA CountOne ==
  ASSUME Counting, NEW r, NEW n, NEW p \in Places, Differ(r, n, p, p), NEW K, NEW o
  PROVE  Cardinality(Having(n, K, o)) =
           Cardinality(Having(r, K, o)) - Is(r[p], K, o) + Is(n[p], K, o)
  BY SMTT(30) DEF Counting

(* The same for two places. *)
LEMMA CountTwo ==
  ASSUME Counting, NEW r, NEW n, NEW p \in Places, NEW q \in Places, p # q,
         Differ(r, n, p, q), NEW K, NEW o
  PROVE  Cardinality(Having(n, K, o)) =
           Cardinality(Having(r, K, o))
             - Is(r[p], K, o) - Is(r[q], K, o) + Is(n[p], K, o) + Is(n[q], K, o)
  <1> DEFINE m == [i \in Places |-> IF i = p THEN n[p] ELSE r[i]]
  <1>1. /\ Differ(r, m, p, p) /\ Differ(m, n, q, q)
        /\ m[p] = n[p] /\ m[q] = r[q]
    BY Zenon DEF Differ
  <1> HIDE DEF m
  <1>2. Cardinality(Having(m, K, o)) = Cardinality(Having(r, K, o)) - Is(r[p], K, o) + Is(n[p], K, o)
    BY <1>1, CountOne
  <1>3. Cardinality(Having(n, K, o)) = Cardinality(Having(m, K, o)) - Is(m[q], K, o) + Is(n[q], K, o)
    BY <1>1, CountOne
  <1>4. /\ Cardinality(Having(r, K, o)) \in Nat
        /\ Is(r[p], K, o) \in Nat /\ Is(r[q], K, o) \in Nat
        /\ Is(n[p], K, o) \in Nat /\ Is(n[q], K, o) \in Nat
    BY Zenon, HavingFinite DEF Is
  <1> QED
    BY <1>1, <1>2, <1>3, <1>4

-----------------------------------------------------------------------------
(* What a step of one thread leaves alone *)

(* The locals of the other threads. *)
Elsewhere(t) ==
  \A u \in Threads : u # t =>
    /\ pc'[u] = pc[u] /\ src'[u] = src[u] /\ dst'[u] = dst[u]
    /\ obj'[u] = obj[u] /\ old'[u] = old[u]

(* The references that other calls work on. *)
RefsElsewhere(t) ==
  \A u \in Threads : u # t =>
    /\ refs'[u] = refs[u]
    /\ src[u] \in Slots => refs'[src[u]] = refs[src[u]]
    /\ dst[u] \in Slots => refs'[dst[u]] = refs[dst[u]]

(* A new reference is to an object that some place outside of the slots    *)
(* other calls write already refers to.                                    *)
Derived(t) ==
  \A p \in Places : refs'[p] # refs[p] /\ refs'[p] # Empty =>
    /\ \E q \in Places : /\ refs[q] # Empty /\ refs[q].obj = refs'[p].obj
                         /\ \A u \in Threads : u # t => dst[u] # q
    /\ refs'[p].kind \in WeakKinds => refs'[p].obj \notin CowObjects

(* The locals have their types. *)
Threaded ==
  /\ pc \in [Threads -> Labels] /\ src \in [Threads -> Slots \cup {NoSlot}]
  /\ dst \in [Threads -> Slots \cup {NoSlot}] /\ obj \in [Threads -> Objects \cup {NoObj}]
  /\ old \in [Threads -> Nat]

(* Counters and references change together, and no object gains its first  *)
(* or loses its last strong reference.                                     *)
InStep ==
  \A o \in made :
    /\ strong'[o] - strong[o] = S(o)' - S(o)
    /\ weak'[o] - weak[o] = W(o)' - W(o)
    /\ strong'[o] > 0 <=> strong[o] > 0

(* Every count is a natural number, and zero exactly when no reference is  *)
(* left.                                                                   *)
LEMMA Numbers ==
  ASSUME Counting, NEW o
  PROVE  /\ S(o) \in Nat /\ (S(o) = 0 <=> StrongRefs(o) = {})
         /\ W(o) \in Nat /\ (W(o) = 0 <=> WeakRefs(o) = {})
  <1>1. StrongRefs(o) = Having(refs, StrongKinds, o) /\ WeakRefs(o) = Having(refs, WeakKinds, o)
    BY Zenon DEF StrongRefs, WeakRefs, Having
  <1> QED
    BY Zenon, <1>1, HavingFinite DEF S, W

(* The facts of another call survive the step. *)
LEMMA LocalFrame ==
  ASSUME NEW t \in Threads, NEW u \in Threads, u # t, Local(u),
         Elsewhere(t), RefsElsewhere(t),
         pc[u] # "idle" => obj[u] \in made',
         pc[u] # "idle" /\ strong[obj[u]] = 0 => strong'[obj[u]] = 0
  PROVE  Local(u)'
  BY DEF Local, Elsewhere, RefsElsewhere

(* The slots of a call stay its own when it goes on or returns. *)
LEMMA PinsStay ==
  ASSUME NEW t \in Threads, Pins, Elsewhere(t),
         \/ dst'[t] = dst[t] /\ src'[t] = src[t]
         \/ dst'[t] = NoSlot /\ src'[t] = NoSlot
  PROVE  Pins'
  BY DEF Pins, Elsewhere

(* A new call takes slots that no other call writes. *)
LEMMA PinsBegin ==
  ASSUME NEW t \in Threads, Pins, Elsewhere(t), NEW d \in Slots, Writable(d),
         dst'[t] = d, src'[t] = NoSlot \/ (src'[t] \in Slots /\ Readable(src'[t]))
  PROVE  Pins'
  BY DEF Pins, Elsewhere, Writable, Readable

-----------------------------------------------------------------------------
(* What IInv says of one call *)

(* The conjuncts of IInv that concern a thread. *)
LEMMA Parts ==
  ASSUME IInv, NEW t \in Threads
  PROVE  TypeOK /\ ~aborted /\ Pins /\ Local(t) /\ Teardown(t) /\ Exclusive(t)
  BY Zenon DEF IInv

(* A call works on a slot and on an allocated object. *)
LEMMA Working ==
  ASSUME IInv, NEW t \in Threads, pc[t] # "idle"
  PROVE  /\ dst[t] \in Slots /\ dst[t] \in Places /\ t \in Places /\ dst[t] # t
         /\ obj[t] \in made /\ obj[t] \in Objects
  <1>1. Local(t) /\ made \subseteq Objects
    BY Zenon DEF IInv, TypeOK
  <1>2. dst[t] \in Slots /\ obj[t] \in made
    BY Zenon, <1>1 DEF Local
  <1> QED
    BY Zenon, <1>1, <1>2, PlacesAssumption DEF Places

(* The temporary holds a reference only while DecRef or DecWeakRef runs. *)
LEMMA Resting ==
  ASSUME IInv, NEW t \in Threads, pc[t] \notin {"dec", "wdec"}
  PROVE  refs[t] = Empty
  BY Zenon, Parts DEF Local

(* copy-on-write tests the body it owns through dst. *)
LEMMA Owning ==
  ASSUME IInv, NEW t \in Threads, pc[t] \in {"unique", "mutate"}
  PROVE  refs[dst[t]] = Ref("strong", obj[t]) /\ obj[t] \in CowObjects
  BY Zenon, Parts DEF Local

(* TypeOK, in the form the steps use. *)
LEMMA Types ==
  ASSUME IInv
  PROVE  /\ refs \in [Places -> RefType] /\ strong \in [Objects -> Nat] /\ weak \in [Objects -> Nat]
         /\ made \subseteq Objects /\ alive \subseteq made /\ aborted = FALSE /\ Threaded
  BY Zenon DEF IInv, TypeOK, RefType, Threaded

(* The converse, for the next state. *)
LEMMA TypesNext ==
  ASSUME refs' \in [Places -> RefType], strong' \in [Objects -> Nat], weak' \in [Objects -> Nat],
         made' \subseteq Objects, alive' \subseteq made', aborted' = FALSE, Threaded'
  PROVE  TypeOK'
  BY Zenon DEF TypeOK, RefType, Threaded

-----------------------------------------------------------------------------
(* What a call's own steps do to the locals *)

(* The call ends and gives its slots back. *)
LEMMA ReturnEffect ==
  ASSUME IInv, NEW t \in Threads, Return(t)
  PROVE  /\ Elsewhere(t) /\ Threaded' /\ Pins' /\ Exclusive(t)'
         /\ pc'[t] = "idle" /\ src'[t] = NoSlot /\ dst'[t] = NoSlot
         /\ refs'[t] = Empty => Local(t)' /\ ~Tearing(t)' /\ Teardown(t)'
  <1>1. Threaded /\ Pins
    BY Zenon, Types, Parts
  <1>2. /\ Elsewhere(t) /\ pc'[t] = "idle" /\ src'[t] = NoSlot /\ dst'[t] = NoSlot
    BY Zenon, <1>1 DEF Return, Elsewhere, Threaded
  <1>3. Threaded'
    BY Zenon, <1>1 DEF Return, Threaded, Labels
  <1>4. Pins'
    BY Zenon, <1>1, <1>2, PinsStay
  <1>5. pc'[t] \notin Dying /\ pc'[t] # "free" /\ pc'[t] # "wdec"
    BY Zenon, <1>2 DEF Dying
  <1> QED
    BY Zenon, <1>2, <1>3, <1>4, <1>5 DEF Local, Tearing, Teardown, Exclusive

(* The call goes on and keeps its slots. *)
LEMMA GotoEffect ==
  ASSUME IInv, NEW t \in Threads, NEW label, Goto(t, label)
  PROVE  /\ Elsewhere(t) /\ Pins'
         /\ label \in Labels => Threaded'
         /\ pc'[t] = label /\ src' = src /\ dst' = dst /\ obj' = obj /\ old' = old
  <1>1. Threaded /\ Pins
    BY Zenon, Types, Parts
  <1>2. /\ pc' = [pc EXCEPT ![t] = label] /\ src' = src /\ dst' = dst /\ obj' = obj /\ old' = old
        /\ Elsewhere(t) /\ pc'[t] = label
    BY Zenon, <1>1 DEF Goto, locals, Elsewhere, Threaded
  <1>3. label \in Labels => Threaded'
    BY Zenon, <1>1, <1>2 DEF Threaded
  <1>4. Pins'
    BY Zenon, <1>1, <1>2, PinsStay
  <1> QED
    BY Zenon, <1>2, <1>3, <1>4

(* The call begins; an idle thread has no temporary and tears nothing down. *)
LEMMA BeginEffect ==
  ASSUME IInv, NEW t \in Threads, NEW label, NEW s, NEW d, NEW o, Begin(t, label, s, d, o)
  PROVE  /\ Elsewhere(t) /\ pc'[t] = label /\ src'[t] = s /\ dst'[t] = d /\ obj'[t] = o
         /\ refs[t] = Empty /\ ~Tearing(t) /\ pc[t] = "idle"
         /\ label \in Labels /\ s \in Slots \cup {NoSlot} /\ d \in Slots /\ o \in Objects => Threaded'
  <1>1. pc[t] = "idle" /\ Threaded
    BY Zenon, Types DEF Begin
  <1>2. Elsewhere(t) /\ pc'[t] = label /\ src'[t] = s /\ dst'[t] = d /\ obj'[t] = o
    BY Zenon, <1>1 DEF Begin, Elsewhere, Threaded
  <1>3. label \in Labels /\ s \in Slots \cup {NoSlot} /\ d \in Slots /\ o \in Objects => Threaded'
    BY Zenon, <1>1 DEF Begin, Threaded
  <1> QED
    BY Zenon, <1>1, <1>2, <1>3, Resting DEF Tearing, Dying

-----------------------------------------------------------------------------
(* Steps of a call that leave the objects standing *)

(* A step of a call that is not tearing an object down preserves IInv if   *)
(* it preserves what concerns its own thread.                              *)
LEMMA CalmInv ==
  ASSUME Counting, IInv, NEW t \in Threads, Elsewhere(t), RefsElsewhere(t), Derived(t), InStep,
         TypeOK', ~aborted', UNCHANGED <<made, alive>>, Local(t)', Pins',
         ~Tearing(t), ~Tearing(t)', Exclusive(t)'
  PROVE  IInv'
  <1>1. ASSUME NEW u \in Threads PROVE Local(u)'
    <2>1. CASE u = t
      BY Zenon, <2>1
    <2>2. CASE u # t
      <3>1. pc[u] # "idle" => obj[u] \in made
        BY Zenon, Working
      <3>2. pc[u] # "idle" /\ strong[obj[u]] = 0 => strong'[obj[u]] = 0
        BY SMTT(30), <3>1 DEF IInv, TypeOK, InStep
      <3> QED
        BY Zenon, <2>2, <3>1, <3>2, LocalFrame, Parts
    <2> QED
      BY Zenon, <2>1, <2>2
  <1>2. \A u \in Threads : /\ Tearing(u)' <=> Tearing(u)
                           /\ Tearing(u) => obj'[u] = obj[u] /\ pc'[u] = pc[u]
    BY ZenonT(40) DEF Tearing, Elsewhere, RefsElsewhere
  <1>3. \A o : (BeingDropped(o)' <=> BeingDropped(o)) /\ (BeingFreed(o)' <=> BeingFreed(o))
    BY Zenon, <1>2 DEF BeingDropped, BeingFreed, Tearing
  <1>4. ASSUME NEW o \in made' PROVE Counts(o)'
    <2>1. o \in made /\ Counts(o) /\ o \in Objects
      BY Zenon DEF IInv, TypeOK
    <2>2. S(o) \in Nat /\ S(o)' \in Nat /\ W(o) \in Nat /\ W(o)' \in Nat
      <3>1. /\ S(o)' = Cardinality(Having(refs', StrongKinds, o))
            /\ W(o)' = Cardinality(Having(refs', WeakKinds, o))
        BY Zenon DEF S, W, StrongRefs, WeakRefs, Having
      <3> QED
        BY Zenon, <3>1, Numbers, HavingFinite
    <2>3. /\ strong[o] \in Nat /\ weak[o] \in Nat
          /\ strong'[o] \in Nat /\ weak'[o] \in Nat
      BY Zenon, <2>1 DEF IInv, TypeOK
    <2> QED
      BY <1>3, <2>1, <2>2, <2>3 DEF Counts, InStep
  <1>5. ASSUME NEW u \in Threads, pc[u] \in {"dtorboth", "free"}
        PROVE  \A p \in Places : refs[p] = Empty \/ refs[p].obj # obj[u]
    <2>1. strong[obj[u]] = 0 /\ WeakRefs(obj[u]) = {} /\ obj[u] \in made
      <3>1. Tearing(u) /\ pc[u] # "idle"
        BY Zenon, <1>5 DEF Tearing, Dying
      <3> QED
        BY Zenon, <1>5, <3>1, Parts, Working DEF Teardown
    <2>2. StrongRefs(obj[u]) = {}
      BY Zenon, <2>1, Numbers DEF IInv, Counts
    <2> QED
      BY Zenon, <2>1, <2>2 DEF StrongRefs, WeakRefs, IInv, TypeOK
  <1>6. ASSUME NEW u \in Threads PROVE Teardown(u)'
    <2>1. Tearing(u) => obj[u] \in made /\ obj[u] \in Objects
      BY Zenon, Working DEF Tearing, Dying
    <2>2. Tearing(u)' => strong'[obj'[u]] = 0
      BY <1>2, <2>1 DEF IInv, Teardown, InStep, TypeOK
    <2>3. (pc'[u] \in Dying => obj'[u] \in alive') /\ (Tearing(u)' /\ pc'[u] \notin Dying => obj'[u] \notin alive')
      BY Zenon, <1>2 DEF IInv, Teardown, Tearing
    <2>4. pc'[u] \in {"dtorboth", "free"} => WeakRefs(obj[u])' = {}
      <3> SUFFICES ASSUME pc'[u] \in {"dtorboth", "free"}, NEW p \in Places,
                          refs'[p].obj = obj'[u], refs'[p].kind \in WeakKinds
                   PROVE  FALSE
        BY Zenon DEF WeakRefs
      <3>1. pc[u] \in {"dtorboth", "free"} /\ obj'[u] = obj[u]
        BY Zenon, <1>2 DEF Tearing, Dying
      <3>2. refs'[p] # Empty
        BY DEF Empty, WeakKinds
      <3>3. PICK q \in Places : refs[q] # Empty /\ refs[q].obj = refs'[p].obj
        BY Zenon, <3>2 DEF Derived
      <3> QED
        BY Zenon, <1>5, <3>1, <3>3
    <2> QED
      BY Zenon, <2>2, <2>3, <2>4 DEF Teardown
  <1>7. OneTears'
    BY Zenon, <1>2 DEF IInv, OneTears
  <1>8. ASSUME NEW o \in Objects PROVE Lives(o)'
    <2>1. strong'[o] \in Nat /\ strong[o] \in Nat
      BY Zenon DEF IInv, TypeOK
    <2>2. alive \subseteq made
      BY Zenon DEF IInv, TypeOK
    <2> QED
      BY <1>2, <2>1, <2>2 DEF IInv, Lives, InStep, Tearing, Dying
  <1>9. ASSUME NEW p \in Places PROVE Sound(p)'
    BY Zenon DEF IInv, Sound, Derived
  <1>10. ASSUME NEW u \in Threads PROVE Exclusive(u)'
    <2>1. CASE u = t
      BY Zenon, <2>1
    <2>2. CASE u # t
      <3> SUFFICES ASSUME pc[u] = "mutate"
                   PROVE  StrongRefs(obj[u])' \cup WeakRefs(obj[u])' = {dst'[u]}
        BY Zenon, <2>2 DEF Exclusive, Elsewhere
      <3>1. /\ dst'[u] = dst[u] /\ obj'[u] = obj[u] /\ dst[u] \in Slots
            /\ refs'[dst[u]] = refs[dst[u]] /\ refs[dst[u]] = Ref("strong", obj[u])
        BY Zenon, <2>2, Working, Owning DEF Elsewhere, RefsElsewhere
      <3>2. StrongRefs(obj[u]) \cup WeakRefs(obj[u]) = {dst[u]}
        BY Zenon DEF IInv, Exclusive
      <3>3. ASSUME NEW q \in Places, refs[q] # Empty, refs[q].obj = obj[u] PROVE q = dst[u]
        BY Zenon, <3>2, <3>3 DEF StrongRefs, WeakRefs, IInv, TypeOK
      <3>4. ASSUME NEW p \in Places, refs'[p].obj = obj[u], refs'[p].kind \in StrongKinds \cup WeakKinds
            PROVE  p = dst[u]
        <4>1. refs'[p] # Empty
          BY SMTT(30), <3>4 DEF Empty, StrongKinds, WeakKinds
        <4> QED
          BY Zenon, <2>2, <3>3, <3>4, <4>1 DEF Derived
      <3>5. dst[u] \in StrongRefs(obj[u])'
        BY <3>1 DEF StrongRefs, Ref, StrongKinds, Places
      <3> QED
        BY Zenon, <3>1, <3>4, <3>5 DEF StrongRefs, WeakRefs
    <2> QED
      BY Zenon, <2>1, <2>2
  <1> QED
    BY Zenon, <1>1, <1>4, <1>6, <1>7, <1>8, <1>9, <1>10 DEF IInv

-----------------------------------------------------------------------------
(* Steps that change neither references nor counters *)

(* The step changes the locals of its thread only. *)
LEMMA QuietInv ==
  ASSUME Counting, IInv, NEW t \in Threads, UNCHANGED <<refs, strong, weak, made, alive>>,
         Elsewhere(t), TypeOK', ~aborted', Local(t)', Pins',
         ~Tearing(t), ~Tearing(t)', Exclusive(t)'
  PROVE  IInv'
  <1>1. RefsElsewhere(t) /\ Derived(t)
    BY Zenon DEF RefsElsewhere, Derived
  <1>2. InStep
    <2> SUFFICES ASSUME NEW o \in made
                 PROVE  /\ strong'[o] - strong[o] = S(o)' - S(o)
                        /\ weak'[o] - weak[o] = W(o)' - W(o)
                        /\ strong'[o] > 0 <=> strong[o] > 0
      BY Zenon DEF InStep
    <2>1. S(o)' = S(o) /\ W(o)' = W(o)
      BY Zenon DEF S, W, StrongRefs, WeakRefs
    <2>2. S(o) \in Nat /\ W(o) \in Nat /\ strong[o] \in Nat /\ weak[o] \in Nat
      BY Zenon, Numbers DEF IInv, TypeOK
    <2> QED
      BY SMTT(30), <2>1, <2>2
  <1> QED
    BY Zenon, <1>1, <1>2, CalmInv

(* The call of thread t begins and pins its slots. *)
LEMMA BeginInv ==
  ASSUME Counting, IInv, NEW t \in Threads, NEW label \in Labels, NEW s, NEW d \in Slots, NEW o \in Objects,
         Begin(t, label, s, d, o), UNCHANGED <<refs, counters, storage, aborted>>,
         s = NoSlot \/ (s \in Slots /\ Readable(s)), Writable(d),
         label \notin Dying \cup {"free", "wdec", "mutate"}, Local(t)'
  PROVE  IInv'
  <1>1. /\ Elsewhere(t) /\ pc'[t] = label /\ src'[t] = s /\ dst'[t] = d /\ obj'[t] = o
        /\ ~Tearing(t) /\ ~aborted /\ Pins
    BY Zenon, BeginEffect, Parts
  <1>2. TypeOK'
    <2>1. Threaded'
      BY Zenon, BeginEffect
    <2> QED
      BY Zenon, <2>1, Types, TypesNext DEF counters, storage
  <1>3. Pins'
    BY Zenon, <1>1, PinsBegin
  <1>4. ~Tearing(t)' /\ Exclusive(t)'
    BY Zenon, <1>1 DEF Tearing, Exclusive
  <1> QED
    BY Zenon, <1>1, <1>2, <1>3, <1>4, QuietInv DEF counters, storage

(* The calls that only pin their slots: copying an ObjectPtr ... *)
LEMMA CopyStrongInv ==
  ASSUME Counting, IInv, NEW t \in Threads, NEW s \in Slots, NEW d \in Slots, CopyStrong(t, s, d)
  PROVE  IInv'
  <1>1. refs[s].obj \in made /\ refs[s].obj \in Objects
    BY SMTT(30) DEF CopyStrong, IInv, Sound, TypeOK, Places, Empty
  <1>2. Local(t)'
    <2>1. /\ pc'[t] = "retain" /\ src'[t] = s /\ dst'[t] = d /\ obj'[t] = refs[s].obj
          /\ refs[t] = Empty
      BY SMTT(30), BeginEffect DEF CopyStrong
    <2>2. refs' = refs /\ made' = made
      BY Zenon DEF CopyStrong, storage
    <2> QED
      BY Zenon, <1>1, <2>1, <2>2 DEF CopyStrong, Local, StrongKinds
  <1> QED
    BY Zenon, <1>1, <1>2, BeginInv DEF CopyStrong, Labels, Dying

(* ... or a WeakObjectPtr, ... *)
LEMMA CopyWeakInv ==
  ASSUME Counting, IInv, NEW t \in Threads, NEW s \in Slots, NEW d \in Slots, CopyWeak(t, s, d)
  PROVE  IInv'
  <1>1. refs[s].obj \in made /\ refs[s].obj \in Objects
    BY SMTT(30) DEF CopyWeak, IInv, Sound, TypeOK, Places, Empty
  <1>2. Local(t)'
    <2>1. /\ pc'[t] = "wretain" /\ src'[t] = s /\ dst'[t] = d /\ obj'[t] = refs[s].obj
          /\ refs[t] = Empty
      BY SMTT(30), SMTT(31), BeginEffect DEF CopyWeak
    <2>2. refs' = refs /\ made' = made
      BY Zenon DEF CopyWeak, storage
    <2> QED
      BY Zenon, <1>1, <2>1, <2>2 DEF CopyWeak, Local
  <1> QED
    BY Zenon, <1>1, <1>2, BeginInv DEF CopyWeak, Labels, Dying

(* ... the C-style IncObjectRef, ... *)
LEMMA IncObjectRefInv ==
  ASSUME Counting, IInv, NEW t \in Threads, NEW s \in Slots, NEW d \in Slots, IncObjectRef(t, s, d)
  PROVE  IInv'
  <1>1. refs[s].obj \in made /\ refs[s].obj \in Objects
    BY SMTT(30), SMTT(31) DEF IncObjectRef, IInv, Sound, TypeOK, Places, Empty, StrongKinds
  <1>2. Local(t)'
    <2>1. /\ pc'[t] = "inc" /\ src'[t] = s /\ dst'[t] = d /\ obj'[t] = refs[s].obj
          /\ refs[t] = Empty
      BY SMTT(30), BeginEffect DEF IncObjectRef
    <2>2. refs' = refs /\ made' = made
      BY Zenon DEF IncObjectRef, storage
    <2> QED
      BY SMTT(30), SMTT(31), <1>1, <2>1, <2>2 DEF IncObjectRef, Local, Empty
  <1> QED
    BY Zenon, <1>1, <1>2, BeginInv DEF IncObjectRef, Labels, Dying

(* ... WeakObjectPtr::reclaim, ... *)
LEMMA ReclaimWeakInv ==
  ASSUME Counting, IInv, NEW t \in Threads, NEW d \in Slots, ReclaimWeak(t, d)
  PROVE  IInv'
  <1>1. refs[d].obj \in made /\ refs[d].obj \in Objects /\ refs[d] = Ref("weakraw", refs[d].obj)
    BY DEF ReclaimWeak, IInv, Sound, TypeOK, Places, Empty, Ref
  <1>2. Local(t)'
    <2>1. /\ pc'[t] = "reclaim1" /\ src'[t] = NoSlot /\ dst'[t] = d /\ obj'[t] = refs[d].obj
          /\ refs[t] = Empty
      BY SMTT(30), BeginEffect DEF ReclaimWeak
    <2>2. refs' = refs /\ made' = made
      BY Zenon DEF ReclaimWeak, storage
    <2> QED
      BY Zenon, <1>1, <2>1, <2>2 DEF ReclaimWeak, Local
  <1> QED
    BY Zenon, <1>1, <1>2, BeginInv DEF ReclaimWeak, Labels, Dying

(* ... WeakObjectPtr::lock, ... *)
LEMMA LockInv ==
  ASSUME Counting, IInv, NEW t \in Threads, NEW s \in Slots, NEW d \in Slots, Lock(t, s, d)
  PROVE  IInv'
  <1>1. refs[s].obj \in made /\ refs[s].obj \in Objects
    BY SMTT(30) DEF Lock, IInv, Sound, TypeOK, Places, Empty
  <1>2. Local(t)'
    <2>1. /\ pc'[t] = "load" /\ src'[t] = s /\ dst'[t] = d /\ obj'[t] = refs[s].obj
          /\ refs[t] = Empty
      BY SMTT(30), SMTT(31), BeginEffect DEF Lock
    <2>2. refs' = refs /\ made' = made
      BY Zenon DEF Lock, storage
    <2> QED
      BY Zenon, <1>1, <2>1, <2>2 DEF Lock, Local
  <1> QED
    BY Zenon, <1>1, <1>2, BeginInv DEF Lock, Labels, Dying

(* ... and a write through a copy-on-write handle. *)
LEMMA WriteIfUniqueInv ==
  ASSUME Counting, IInv, NEW t \in Threads, NEW d \in Slots, WriteIfUnique(t, d)
  PROVE  IInv'
  <1>1. refs[d].obj \in made /\ refs[d].obj \in Objects /\ refs[d] = Ref("strong", refs[d].obj)
    BY SMTT(30) DEF WriteIfUnique, IInv, Sound, TypeOK, Places, Empty, Ref
  <1>2. Local(t)'
    <2>1. /\ pc'[t] = "unique" /\ src'[t] = NoSlot /\ dst'[t] = d /\ obj'[t] = refs[d].obj
          /\ refs[t] = Empty
      BY SMTT(30), BeginEffect DEF WriteIfUnique
    <2>2. refs' = refs /\ made' = made
      BY Zenon DEF WriteIfUnique, storage
    <2> QED
      BY Zenon, <1>1, <2>1, <2>2 DEF WriteIfUnique, Local
  <1> QED
    BY Zenon, <1>1, <1>2, BeginInv DEF WriteIfUnique, Labels, Dying

(* A call goes on to another step without touching a reference. *)
LEMMA GotoInv ==
  ASSUME Counting, IInv, NEW t \in Threads, NEW label \in Labels, Goto(t, label), pc[t] # "idle",
         UNCHANGED <<refs, counters, storage>>, aborted' = FALSE, ~Tearing(t),
         label \notin Dying \cup {"free", "wdec"}, Local(t)', Exclusive(t)'
  PROVE  IInv'
  <1>1. Elsewhere(t) /\ pc'[t] = label /\ Threaded' /\ Pins'
    BY Zenon, GotoEffect
  <1>2. TypeOK'
    BY Zenon, <1>1, Types, TypesNext DEF counters, storage
  <1>3. ~Tearing(t)'
    BY Zenon, <1>1 DEF Tearing
  <1> QED
    BY Zenon, <1>1, <1>2, <1>3, QuietInv DEF counters, storage

(* A call returns without touching a reference. *)
LEMMA ReturnInv ==
  ASSUME Counting, IInv, NEW t \in Threads, Return(t), UNCHANGED <<refs, counters, storage, aborted>>,
         ~Tearing(t), refs[t] = Empty
  PROVE  IInv'
  <1>1. /\ Elsewhere(t) /\ Threaded' /\ Pins' /\ Exclusive(t)'
        /\ refs'[t] = Empty => Local(t)' /\ ~Tearing(t)'
    BY Zenon, ReturnEffect
  <1>2. TypeOK' /\ ~aborted' /\ refs'[t] = Empty
    BY Zenon, <1>1, Types, TypesNext DEF counters, storage
  <1> QED
    BY Zenon, <1>1, <1>2, QuietInv DEF counters, storage

(* The check of retain() passes: src counts, so the strong count is not zero. *)
LEMMA RetainCheckInv ==
  ASSUME Counting, IInv, NEW t \in Threads, RetainCheck(t)
  PROVE  IInv'
  <1>1. /\ obj[t] \in made /\ obj[t] \in Objects /\ src[t] \in Slots
        /\ refs[src[t]].obj = obj[t] /\ refs[src[t]].kind \in StrongKinds
    <2>1. pc[t] = "retain"
      BY Zenon DEF RetainCheck
    <2> QED
      BY Zenon, <2>1, Working, Parts DEF Local
  <1>2. src[t] \in StrongRefs(obj[t])
    BY Zenon, <1>1 DEF StrongRefs, Places
  <1>3. strong[obj[t]] > 0
    BY SMTT(30), SMTT(31), <1>1, <1>2, Numbers DEF IInv, Counts
  <1>4. Local(t)' /\ ~Tearing(t) /\ Exclusive(t)'
    <2>1. Goto(t, "inc") /\ pc[t] = "retain" /\ refs' = refs /\ made' = made
      BY Zenon, <1>3 DEF RetainCheck, Check, storage
    <2>2. pc'[t] = "inc" /\ src' = src /\ dst' = dst /\ obj' = obj
      BY Zenon, <2>1, GotoEffect
    <2>3. dst[t] \in Slots /\ refs[t] = Empty /\ refs[dst[t]].kind \in {"none", "strong"}
      BY Zenon, <2>1, Parts DEF Local
    <2> QED
      BY Zenon, <1>1, <2>1, <2>2, <2>3 DEF Local, Tearing, Dying, Exclusive
  <1>5. aborted' = FALSE
    BY Zenon, <1>3 DEF RetainCheck, Check
  <1> QED
    BY ZenonT(40), <1>3, <1>4, <1>5, GotoInv DEF RetainCheck, Check, Labels, Dying

(* The check of the weak retain() passes for the same reason. *)
LEMMA WeakRetainCheckInv ==
  ASSUME Counting, IInv, NEW t \in Threads, WeakRetainCheck(t)
  PROVE  IInv'
  <1>1. /\ obj[t] \in made /\ obj[t] \in Objects /\ src[t] \in Slots
        /\ refs[src[t]].obj = obj[t] /\ refs[src[t]].kind \in {"strong", "weak"}
    <2>1. pc[t] = "wretain"
      BY Zenon DEF WeakRetainCheck
    <2> QED
      BY Zenon, <2>1, Working, Parts DEF Local
  <1>2. src[t] \in StrongRefs(obj[t]) \/ src[t] \in WeakRefs(obj[t])
    BY Zenon, <1>1 DEF StrongRefs, WeakRefs, Places, StrongKinds, WeakKinds
  <1>3. ~BeingFreed(obj[t])
    BY Zenon, <1>1, <1>2, Numbers DEF IInv, Counts, BeingFreed, Teardown, Tearing
  <1>4. weak[obj[t]] > 0
    BY SMTT(30), SMTT(31), <1>1, <1>2, <1>3, Numbers DEF IInv, Counts
  <1>5. Local(t)' /\ ~Tearing(t) /\ Exclusive(t)'
    <2>1. Goto(t, "winc") /\ pc[t] = "wretain" /\ refs' = refs /\ made' = made
      BY Zenon, <1>4 DEF WeakRetainCheck, Check, storage
    <2>2. pc'[t] = "winc" /\ src' = src /\ dst' = dst /\ obj' = obj
      BY Zenon, <2>1, GotoEffect
    <2>3. /\ dst[t] \in Slots /\ refs[t] = Empty /\ refs[dst[t]].kind \in {"none", "weak"}
          /\ obj[t] \notin CowObjects
      BY Zenon, <2>1, Parts DEF Local
    <2> QED
      BY Zenon, <1>1, <2>1, <2>2, <2>3 DEF Local, Tearing, Dying, Exclusive
  <1>6. aborted' = FALSE
    BY Zenon, <1>4 DEF WeakRetainCheck, Check
  <1> QED
    BY Zenon, <1>4, <1>5, <1>6, GotoInv DEF WeakRetainCheck, Check, Labels, Dying

(* lock() gives up when it reads a strong count of zero. *)
LEMMA PromoteLoadInv ==
  ASSUME Counting, IInv, NEW t \in Threads, PromoteLoad(t)
  PROVE  IInv'
  <1>1. ~Tearing(t) /\ refs[t] = Empty /\ strong[obj[t]] \in Nat /\ obj[t] \in Objects
    <2>1. refs[t] = Empty /\ obj[t] \in Objects /\ TypeOK
      BY Zenon, Resting, Working, Parts DEF PromoteLoad
    <2> QED
      BY Zenon, <2>1 DEF PromoteLoad, Tearing, Dying, TypeOK
  <1>2. CASE strong[obj[t]] = 0
    BY Zenon, <1>1, <1>2, ReturnInv DEF PromoteLoad
  <1>3. CASE strong[obj[t]] # 0
    <2>1. /\ pc' = [pc EXCEPT ![t] = "cas"] /\ UNCHANGED <<src, dst, obj>>
          /\ old' = [old EXCEPT ![t] = strong[obj[t]]]
      BY Zenon, <1>3 DEF PromoteLoad
    <2>2. Elsewhere(t) /\ TypeOK' /\ ~aborted'
      BY Zenon, <1>1, <2>1 DEF PromoteLoad, Elsewhere, IInv, TypeOK, Labels, counters, storage
    <2>3. Local(t)' /\ ~Tearing(t)' /\ Exclusive(t)'
      <3>1. pc[t] = "load" /\ refs' = refs /\ made' = made /\ strong[obj[t]] > 0
        BY SMTT(30), <1>1, <1>3 DEF PromoteLoad, storage
      <3>2. /\ src[t] \in Slots /\ dst[t] \in Slots /\ obj[t] \in made
            /\ refs[src[t]].obj = obj[t] /\ refs[src[t]].kind = "weak" /\ refs[dst[t]] = Empty
        BY Zenon, <3>1, Parts DEF Local
      <3>3. pc'[t] = "cas" /\ src' = src /\ dst' = dst /\ obj' = obj /\ old'[t] = strong[obj[t]]
        BY Zenon, <2>1, <3>1, Parts DEF TypeOK
      <3> QED
        BY Zenon, <1>1, <3>1, <3>2, <3>3 DEF Local, Tearing, Dying, Exclusive
    <2>4. Pins'
      BY Zenon, <2>1, <2>2, PinsStay, Parts
    <2> QED
      BY Zenon, <1>1, <2>2, <2>3, <2>4, QuietInv DEF PromoteLoad, counters, storage
  <1> QED
    BY Zenon, <1>2, <1>3

(* A failed compare-exchange reads the count again. *)
LEMMA PromoteFailsInv ==
  ASSUME Counting, IInv, NEW t \in Threads, PromoteFails(t)
  PROVE  IInv'
  <1>1. ~Tearing(t) /\ refs[t] = Empty /\ strong[obj[t]] \in Nat /\ obj[t] \in Objects
    <2>1. refs[t] = Empty /\ obj[t] \in Objects /\ TypeOK
      BY Zenon, Resting, Working, Parts DEF PromoteFails
    <2> QED
      BY Zenon, <2>1 DEF PromoteFails, Tearing, Dying, TypeOK
  <1>2. CASE strong[obj[t]] = 0
    BY Zenon, <1>1, <1>2, ReturnInv DEF PromoteFails
  <1>3. CASE strong[obj[t]] # 0
    <2>1. /\ UNCHANGED <<pc, src, dst, obj>>
          /\ old' = [old EXCEPT ![t] = strong[obj[t]]]
      BY Zenon, <1>3 DEF PromoteFails
    <2>2. Elsewhere(t) /\ TypeOK' /\ ~aborted'
      BY Zenon, <1>1, <2>1 DEF PromoteFails, Elsewhere, IInv, TypeOK, counters, storage
    <2>3. Local(t)' /\ ~Tearing(t)' /\ Exclusive(t)'
      <3>1. pc[t] = "cas" /\ refs' = refs /\ made' = made /\ strong[obj[t]] > 0
        BY SMTT(30), <1>1, <1>3 DEF PromoteFails, storage
      <3>2. /\ src[t] \in Slots /\ dst[t] \in Slots /\ obj[t] \in made
            /\ refs[src[t]].obj = obj[t] /\ refs[src[t]].kind = "weak" /\ refs[dst[t]] = Empty
        BY Zenon, <3>1, Parts DEF Local
      <3>3. pc'[t] = "cas" /\ src' = src /\ dst' = dst /\ obj' = obj /\ old'[t] = strong[obj[t]]
        BY Zenon, <2>1, <3>1, Parts DEF TypeOK
      <3> QED
        BY Zenon, <1>1, <3>1, <3>2, <3>3 DEF Local, Tearing, Dying, Exclusive
    <2>4. Pins'
      BY Zenon, <2>1, <2>2, PinsStay, Parts
    <2> QED
      BY Zenon, <1>1, <2>2, <2>3, <2>4, QuietInv DEF PromoteFails, counters, storage
  <1> QED
    BY Zenon, <1>2, <1>3

(* WeakObjectPtr::reclaim: the pointer counts as a weak reference, so a    *)
(* weak count of one means that the strong side has let go of its own.     *)
LEMMA ReclaimFacts ==
  ASSUME Counting, IInv, NEW t \in Threads, pc[t] \in {"reclaim1", "reclaim2", "reclaim3"}
  PROVE  /\ obj[t] \in made /\ obj[t] \in Objects /\ dst[t] \in Slots /\ refs[t] = Empty
         /\ refs[dst[t]] = Ref("weakraw", obj[t]) /\ obj[t] \notin CowObjects
         /\ weak[obj[t]] \in Nat /\ weak[obj[t]] > 0
         /\ ~(weak[obj[t]] > 1) => strong[obj[t]] = 0
         /\ ~Tearing(t)
  <1>1. /\ obj[t] \in made /\ obj[t] \in Objects /\ dst[t] \in Slots /\ refs[t] = Empty
        /\ refs[dst[t]] = Ref("weakraw", obj[t]) /\ ~Tearing(t)
    <2>1. refs[dst[t]] = Ref("weakraw", obj[t])
      BY Zenon, Parts DEF Local
    <2> QED
      BY Zenon, <2>1, Resting, Working DEF Tearing, Dying
  <1>2. dst[t] \in WeakRefs(obj[t]) /\ obj[t] \notin CowObjects
    BY SMTT(30), <1>1 DEF WeakRefs, Places, WeakKinds, Ref, IInv, Sound, Empty
  <1>3. ~BeingFreed(obj[t])
    BY Zenon, <1>1, <1>2, Parts DEF BeingFreed, Teardown
  <1>4. W(obj[t]) > 0 /\ W(obj[t]) \in Nat
    BY SMTT(30), <1>2, Numbers
  <1>5. /\ weak[obj[t]] = W(obj[t]) + (IF strong[obj[t]] > 0 \/ BeingDropped(obj[t]) THEN 1 ELSE 0)
        /\ weak[obj[t]] \in Nat /\ strong[obj[t]] \in Nat
    BY Zenon, <1>1, <1>3 DEF IInv, Counts, TypeOK
  <1> QED
    BY <1>1, <1>2, <1>4, <1>5

(* The second check of reclaim passes: the strong count stays zero. *)
LEMMA ReclaimNoStrongInv ==
  ASSUME Counting, IInv, NEW t \in Threads, ReclaimNoStrong(t)
  PROVE  IInv'
  <1>1. /\ pc[t] = "reclaim2" /\ strong[obj[t]] = 0
    BY Zenon DEF ReclaimNoStrong, IInv, Local
  <1>2. obj[t] \in made /\ dst[t] \in Slots /\ refs[t] = Empty /\ refs[dst[t]] = Ref("weakraw", obj[t]) /\ ~Tearing(t)
    BY Zenon, <1>1, ReclaimFacts
  <1>3. Local(t)' /\ Exclusive(t)'
    <2>1. Goto(t, "reclaim3") /\ refs' = refs /\ made' = made /\ strong' = strong
      BY Zenon, <1>1 DEF ReclaimNoStrong, Check, storage, counters
    <2>2. pc'[t] = "reclaim3" /\ src' = src /\ dst' = dst /\ obj' = obj
      BY Zenon, <2>1, GotoEffect
    <2> QED
      <3>1. Local(t)'
        BY Zenon, <1>1, <1>2, <2>1, <2>2 DEF Local
      <3>2. Exclusive(t)'
        BY Zenon, <2>2 DEF Exclusive
      <3> QED
        BY Zenon, <3>1, <3>2
  <1>4. aborted' = FALSE
    BY ZenonT(40), <1>1 DEF ReclaimNoStrong, Check
  <1> QED
    BY ZenonT(40), <1>1, <1>2, <1>3, <1>4, GotoInv DEF ReclaimNoStrong, Check, Labels, Dying

(* The write in place ends. *)
LEMMA MutateDoneInv ==
  ASSUME Counting, IInv, NEW t \in Threads, MutateDone(t)
  PROVE  IInv'
  <1>1. ~Tearing(t) /\ refs[t] = Empty
    BY Zenon, Resting DEF MutateDone, Tearing, Dying
  <1> QED
    BY Zenon, <1>1, ReturnInv DEF MutateDone

-----------------------------------------------------------------------------
(* Steps that count a reference *)

(* CountOne, of the references and the two counts. *)
LEMMA OneCounted ==
  ASSUME Counting, NEW p \in Places, Differ(refs, refs', p, p), NEW o
  PROVE  /\ S(o)' = S(o) - Is(refs[p], StrongKinds, o) + Is(refs'[p], StrongKinds, o)
         /\ W(o)' = W(o) - Is(refs[p], WeakKinds, o) + Is(refs'[p], WeakKinds, o)
  <1>1. /\ S(o) = Cardinality(Having(refs, StrongKinds, o))
        /\ W(o) = Cardinality(Having(refs, WeakKinds, o))
        /\ S(o)' = Cardinality(Having(refs', StrongKinds, o))
        /\ W(o)' = Cardinality(Having(refs', WeakKinds, o))
    BY Zenon DEF S, W, StrongRefs, WeakRefs, Having
  <1>2. S(o)' = S(o) - Is(refs[p], StrongKinds, o) + Is(refs'[p], StrongKinds, o)
    BY SMTT(30), <1>1, CountOne
  <1>3. W(o)' = W(o) - Is(refs[p], WeakKinds, o) + Is(refs'[p], WeakKinds, o)
    BY SMTT(30), <1>1, CountOne
  <1> QED
    BY Zenon, <1>2, <1>3

(* The same, where two places change. *)
LEMMA TwoCounted ==
  ASSUME Counting, NEW p \in Places, NEW q \in Places, p # q,
         Differ(refs, refs', p, q), NEW o
  PROVE  /\ S(o)' = S(o) - Is(refs[p], StrongKinds, o) - Is(refs[q], StrongKinds, o)
                      + Is(refs'[p], StrongKinds, o) + Is(refs'[q], StrongKinds, o)
         /\ W(o)' = W(o) - Is(refs[p], WeakKinds, o) - Is(refs[q], WeakKinds, o)
                      + Is(refs'[p], WeakKinds, o) + Is(refs'[q], WeakKinds, o)
  <1>1. /\ S(o) = Cardinality(Having(refs, StrongKinds, o))
        /\ W(o) = Cardinality(Having(refs, WeakKinds, o))
        /\ S(o)' = Cardinality(Having(refs', StrongKinds, o))
        /\ W(o)' = Cardinality(Having(refs', WeakKinds, o))
    BY Zenon DEF S, W, StrongRefs, WeakRefs, Having
  <1>2. S(o)' = S(o) - Is(refs[p], StrongKinds, o) - Is(refs[q], StrongKinds, o)
                       + Is(refs'[p], StrongKinds, o) + Is(refs'[q], StrongKinds, o)
    BY SMTT(30), SMTT(31), <1>1, CountTwo
  <1>3. W(o)' = W(o) - Is(refs[p], WeakKinds, o) - Is(refs[q], WeakKinds, o)
                       + Is(refs'[p], WeakKinds, o) + Is(refs'[q], WeakKinds, o)
    BY SMTT(30), <1>1, CountTwo
  <1> QED
    BY Zenon, <1>2, <1>3

(* A place counts once or not at all. *)
LEMMA IsType ==
  ASSUME NEW x, NEW K, NEW o
  PROVE  Is(x, K, o) \in {0, 1}
  BY Zenon DEF Is

(* A reference of the kinds K counts once for its own object. *)
LEMMA RefCounts ==
  ASSUME NEW o \in Objects, NEW i
  PROVE  /\ \A k \in StrongKinds : /\ Is(Ref(k, o), StrongKinds, i) = (IF i = o THEN 1 ELSE 0)
                                   /\ Is(Ref(k, o), WeakKinds, i) = 0
         /\ \A k \in WeakKinds : /\ Is(Ref(k, o), WeakKinds, i) = (IF i = o THEN 1 ELSE 0)
                                 /\ Is(Ref(k, o), StrongKinds, i) = 0
         /\ Is(Empty, StrongKinds, i) = 0 /\ Is(Empty, WeakKinds, i) = 0
  BY Zenon DEF Is, Ref, Empty, StrongKinds, WeakKinds

(* RetainInc and WeakRetainInc put a reference like the one in src into    *)
(* dst and hand what was there to the temporary.                           *)
LEMMA Published ==
  ASSUME Counting, IInv, NEW t \in Threads, pc[t] # "idle", refs[t] = Empty, src[t] \in Slots,
         NEW k \in StrongKinds \cup WeakKinds,
         refs[src[t]] # Empty, refs[src[t]].obj = obj[t], obj[t] \in Objects,
         k \in WeakKinds => obj[t] \notin CowObjects,
         refs' = [refs EXCEPT ![dst[t]] = Ref(k, obj[t]), ![t] = refs[dst[t]]]
  PROVE  /\ RefsElsewhere(t) /\ Derived(t)
         /\ refs' \in [Places -> RefType] /\ refs'[t] = refs[dst[t]]
         /\ \A o : /\ S(o)' = S(o) + Is(Ref(k, obj[t]), StrongKinds, o)
                   /\ W(o)' = W(o) + Is(Ref(k, obj[t]), WeakKinds, o)
  <1> DEFINE d == dst[t]
  <1>1. d \in Slots /\ d \in Places /\ t \in Places /\ d # t /\ src[t] \in Places
    BY Zenon, Working DEF Places
  <1>2. refs \in [Places -> RefType] /\ Ref(k, obj[t]) \in RefType /\ refs[d] \in RefType
    BY Zenon, <1>1, Types DEF RefType, Ref
  <1>3. /\ refs'[d] = Ref(k, obj[t]) /\ refs'[t] = refs[d]
        /\ \A p \in Places : p # d /\ p # t => refs'[p] = refs[p]
        /\ refs' \in [Places -> RefType]
    BY Zenon, <1>1, <1>2
  <1>4. ASSUME NEW u \in Threads, u # t
        PROVE  u # d /\ dst[u] # d /\ src[u] # d /\ dst[u] # src[t] /\ u \in Places
               /\ (src[u] \in Slots => src[u] # t) /\ (dst[u] \in Slots => dst[u] # t)
    BY Zenon, <1>1, <1>4, Parts, PlacesAssumption DEF Pins, Places
  <1>5. RefsElsewhere(t)
    BY ZenonT(40), <1>3, <1>4 DEF RefsElsewhere, Places
  <1>6. Derived(t)
    <2> SUFFICES ASSUME NEW p \in Places, refs'[p] # refs[p], refs'[p] # Empty
                 PROVE  /\ \E q \in Places : /\ refs[q] # Empty /\ refs[q].obj = refs'[p].obj
                                             /\ \A u \in Threads : u # t => dst[u] # q
                        /\ refs'[p].kind \in WeakKinds => refs'[p].obj \notin CowObjects
      BY ZenonT(40) DEF Derived
    <2>1. CASE p = d
      <3>1. refs'[p].obj = obj[t] /\ refs'[p].kind = k
        BY Zenon, <1>3, <2>1 DEF Ref
      <3> QED
        BY Zenon, <1>1, <1>4, <3>1
    <2>2. CASE p = t
      <3>1. refs'[p] = refs[d] /\ refs[d] # Empty
        BY Zenon, <1>3, <2>2
      <3>2. Sound(d)
        BY Zenon, <1>1 DEF IInv
      <3> QED
        BY Zenon, <1>1, <1>4, <3>1, <3>2 DEF Sound
    <2> QED
      BY Zenon, <1>3, <2>1, <2>2
  <1>7. ASSUME NEW o
        PROVE  /\ S(o)' = S(o) + Is(Ref(k, obj[t]), StrongKinds, o)
               /\ W(o)' = W(o) + Is(Ref(k, obj[t]), WeakKinds, o)
    <2>1. /\ S(o)' = S(o) - Is(refs[d], StrongKinds, o) - Is(refs[t], StrongKinds, o)
                      + Is(Ref(k, obj[t]), StrongKinds, o) + Is(refs[d], StrongKinds, o)
          /\ W(o)' = W(o) - Is(refs[d], WeakKinds, o) - Is(refs[t], WeakKinds, o)
                      + Is(Ref(k, obj[t]), WeakKinds, o) + Is(refs[d], WeakKinds, o)
      <3> HIDE DEF d
      <3> QED
        BY SMTT(30), <1>1, <1>3, TwoCounted DEF Differ
    <2>2. Is(refs[t], StrongKinds, o) = 0 /\ Is(refs[t], WeakKinds, o) = 0
      BY Zenon, RefCounts
    <2> QED
      BY SMTT(30), SMTT(31), <2>1, <2>2, IsType, Numbers
  <1> QED
    BY Zenon, <1>3, <1>5, <1>6, <1>7

(* The strong count goes up in the step that makes dst a strong reference. *)
LEMMA RetainIncInv ==
  ASSUME Counting, IInv, NEW t \in Threads, RetainInc(t)
  PROVE  IInv'
  <1> DEFINE k == IF refs[src[t]].kind = "raw" THEN "raw" ELSE "strong"
             was == refs[dst[t]]
  <1>1. /\ pc[t] = "inc" /\ refs[t] = Empty /\ src[t] \in Slots /\ dst[t] \in Slots
        /\ obj[t] \in made /\ obj[t] \in Objects /\ ~Tearing(t)
        /\ refs[src[t]].obj = obj[t] /\ refs[src[t]].kind \in StrongKinds
        /\ refs[src[t]] # Empty /\ was.kind \in {"none", "strong"}
    <2>1. pc[t] = "inc"
      BY Zenon DEF RetainInc
    <2>2. /\ src[t] \in Slots /\ refs[src[t]].obj = obj[t] /\ refs[src[t]].kind \in StrongKinds
          /\ was.kind \in {"none", "strong"}
      BY Zenon, <2>1, Parts DEF Local
    <2> QED
      BY SMTT(30), <2>1, <2>2, Working, Resting DEF Tearing, Dying, Empty, StrongKinds
  <1>2. k \in StrongKinds
    BY Zenon DEF StrongKinds
  <1>3. refs' = [refs EXCEPT ![dst[t]] = Ref(k, obj[t]), ![t] = was]
    BY Zenon DEF RetainInc
  <1> HIDE DEF k
  <1>4. /\ RefsElsewhere(t) /\ Derived(t) /\ refs' \in [Places -> RefType] /\ refs'[t] = was
        /\ \A o : /\ S(o)' = S(o) + Is(Ref(k, obj[t]), StrongKinds, o)
                  /\ W(o)' = W(o) + Is(Ref(k, obj[t]), WeakKinds, o)
    BY ZenonT(40), <1>1, <1>2, <1>3, Published DEF StrongKinds, WeakKinds
  <1>5. /\ strong' = [strong EXCEPT ![obj[t]] = @ + 1] /\ UNCHANGED <<weak, made, alive, aborted>>
    BY Zenon DEF RetainInc, storage
  <1>6. /\ Elsewhere(t)
        /\ was = Empty => pc'[t] = "idle" /\ src'[t] = NoSlot /\ dst'[t] = NoSlot
        /\ was # Empty => pc'[t] = "dec" /\ src'[t] = src[t] /\ dst'[t] = dst[t] /\ obj'[t] = was.obj
    BY SMTT(30), Types DEF RetainInc, Return, Elsewhere, Threaded
  <1>7. was # Empty => was.obj \in made /\ was.kind \in StrongKinds /\ was.obj \in Objects
    <2>1. Sound(dst[t]) /\ was \in RefType
      BY Zenon, <1>1 DEF IInv, TypeOK, RefType, Places
    <2> QED
      BY Zenon, <1>1, <2>1 DEF Sound, RefType, StrongKinds, WeakKinds, Empty
  <1>8. TypeOK'
    <2>1. Threaded'
      BY SMTT(30), <1>7, Types DEF RetainInc, Return, Threaded, Labels
    <2>2. strong' \in [Objects -> Nat]
      BY SMTT(30), <1>1, <1>5, Types
    <2> QED
      BY ZenonT(40), <1>4, <1>5, <2>1, <2>2, Types, TypesNext
  <1>9. Local(t)' /\ ~Tearing(t)' /\ Exclusive(t)'
    BY ZenonT(40), <1>1, <1>4, <1>5, <1>6, <1>7 DEF Local, Tearing, Dying, Exclusive
  <1>10. Pins'
    BY ZenonT(40), <1>6, PinsStay, Parts
  <1>11. InStep
    <2> SUFFICES ASSUME NEW o \in made
                 PROVE  /\ strong'[o] - strong[o] = S(o)' - S(o)
                        /\ weak'[o] - weak[o] = W(o)' - W(o)
                        /\ strong'[o] > 0 <=> strong[o] > 0
      BY Zenon DEF InStep
    <2>1. /\ S(o)' = S(o) + (IF o = obj[t] THEN 1 ELSE 0) /\ W(o)' = W(o)
          /\ S(o) \in Nat /\ W(o) \in Nat
      <3>1. /\ Is(Ref(k, obj[t]), StrongKinds, o) = (IF o = obj[t] THEN 1 ELSE 0)
            /\ Is(Ref(k, obj[t]), WeakKinds, o) = 0
        BY <1>1, <1>2, RefCounts, Zenon
      <3> QED
        BY <1>4, <3>1, Numbers
    <2>2. /\ strong[o] \in Nat /\ weak[o] \in Nat /\ weak'[o] = weak[o]
          /\ strong'[o] = strong[o] + (IF o = obj[t] THEN 1 ELSE 0)
      BY SMTT(30), <1>1, <1>5 DEF IInv, TypeOK
    <2>3. o = obj[t] => strong[o] > 0
      <3>1. src[t] \in StrongRefs(obj[t])
        BY Zenon, <1>1 DEF StrongRefs, Places
      <3> QED
        BY SMTT(30), <1>1, <3>1, Numbers DEF IInv, Counts
    <2> QED
      BY SMTT(30), <2>1, <2>2, <2>3
  <1> QED
    BY ZenonT(40), <1>1, <1>4, <1>5, <1>6, <1>8, <1>9, <1>10, <1>11, CalmInv, Parts

(* The weak count goes up in the step that makes dst a weak reference. *)
LEMMA WeakRetainIncInv ==
  ASSUME Counting, IInv, NEW t \in Threads, WeakRetainInc(t)
  PROVE  IInv'
  <1> DEFINE k == "weak"
             was == refs[dst[t]]
  <1>1. /\ pc[t] = "winc" /\ refs[t] = Empty /\ src[t] \in Slots /\ dst[t] \in Slots
        /\ obj[t] \in made /\ obj[t] \in Objects /\ ~Tearing(t)
        /\ refs[src[t]].obj = obj[t] /\ refs[src[t]].kind \in {"strong", "weak"}
        /\ refs[src[t]] # Empty /\ was.kind \in {"none", "weak"} /\ obj[t] \notin CowObjects
    <2>1. pc[t] = "winc"
      BY Zenon DEF WeakRetainInc
    <2>2. /\ src[t] \in Slots /\ refs[src[t]].obj = obj[t] /\ refs[src[t]].kind \in {"strong", "weak"}
          /\ was.kind \in {"none", "weak"} /\ obj[t] \notin CowObjects
      BY Zenon, <2>1, Parts DEF Local
    <2> QED
      BY SMTT(30), <2>1, <2>2, Working, Resting DEF Tearing, Dying, Empty
  <1>2. k \in WeakKinds
    BY Zenon DEF WeakKinds
  <1>3. refs' = [refs EXCEPT ![dst[t]] = Ref(k, obj[t]), ![t] = was]
    BY Zenon DEF WeakRetainInc
  <1> HIDE DEF k
  <1>4. /\ RefsElsewhere(t) /\ Derived(t) /\ refs' \in [Places -> RefType] /\ refs'[t] = was
        /\ \A o : /\ S(o)' = S(o) + Is(Ref(k, obj[t]), StrongKinds, o)
                  /\ W(o)' = W(o) + Is(Ref(k, obj[t]), WeakKinds, o)
    BY ZenonT(40), <1>1, <1>2, <1>3, Published DEF StrongKinds, WeakKinds
  <1>5. /\ weak' = [weak EXCEPT ![obj[t]] = @ + 1] /\ UNCHANGED <<strong, made, alive, aborted>>
    BY Zenon DEF WeakRetainInc, storage
  <1>6. /\ Elsewhere(t)
        /\ was = Empty => pc'[t] = "idle" /\ src'[t] = NoSlot /\ dst'[t] = NoSlot
        /\ was # Empty => pc'[t] = "wdec" /\ src'[t] = src[t] /\ dst'[t] = dst[t] /\ obj'[t] = was.obj
    BY SMTT(30), Types DEF WeakRetainInc, Return, Elsewhere, Threaded
  <1>7. was # Empty => was.obj \in made /\ was.kind \in WeakKinds /\ was.obj \in Objects
    <2>1. Sound(dst[t]) /\ was \in RefType
      BY Zenon, <1>1 DEF IInv, TypeOK, RefType, Places
    <2> QED
      BY Zenon, <1>1, <2>1 DEF Sound, RefType, StrongKinds, WeakKinds, Empty
  <1>8. TypeOK'
    <2>1. Threaded'
      BY SMTT(30), <1>7, Types DEF WeakRetainInc, Return, Threaded, Labels
    <2>2. weak' \in [Objects -> Nat]
      BY SMTT(30), <1>1, <1>5, Types
    <2> QED
      BY Zenon, <1>4, <1>5, <2>1, <2>2, Types, TypesNext
  <1>9. Local(t)' /\ ~Tearing(t)' /\ Exclusive(t)'
    BY ZenonT(40), <1>1, <1>4, <1>5, <1>6, <1>7 DEF Local, Tearing, Dying, Exclusive
  <1>10. Pins'
    BY ZenonT(40), <1>6, PinsStay, Parts
  <1>11. InStep
    <2> SUFFICES ASSUME NEW o \in made
                 PROVE  /\ strong'[o] - strong[o] = S(o)' - S(o)
                        /\ weak'[o] - weak[o] = W(o)' - W(o)
                        /\ strong'[o] > 0 <=> strong[o] > 0
      BY Zenon DEF InStep
    <2>1. /\ W(o)' = W(o) + (IF o = obj[t] THEN 1 ELSE 0) /\ S(o)' = S(o)
          /\ S(o) \in Nat /\ W(o) \in Nat
      <3>1. /\ Is(Ref(k, obj[t]), WeakKinds, o) = (IF o = obj[t] THEN 1 ELSE 0)
            /\ Is(Ref(k, obj[t]), StrongKinds, o) = 0
        BY <1>1, <1>2, RefCounts, Zenon
      <3> QED
        BY SMTT(30), <1>4, <3>1, Numbers
    <2>2. /\ strong[o] \in Nat /\ weak[o] \in Nat /\ strong'[o] = strong[o]
          /\ weak'[o] = weak[o] + (IF o = obj[t] THEN 1 ELSE 0)
      BY SMTT(30), <1>1, <1>5 DEF IInv, TypeOK
    <2> QED
      BY SMTT(30), SMTT(31), <2>1, <2>2
  <1> QED
    BY ZenonT(40), <1>1, <1>4, <1>5, <1>6, <1>8, <1>9, <1>10, <1>11, CalmInv, Parts

(* Lock and reclaim end by writing dst, with a reference to an object that *)
(* one of their own slots refers to.                                       *)
LEMMA Placed ==
  ASSUME Counting, IInv, NEW t \in Threads, pc[t] # "idle", refs[t] = Empty, obj[t] \in Objects,
         NEW k \in StrongKinds \cup WeakKinds, k \in WeakKinds => obj[t] \notin CowObjects,
         NEW q \in Slots, q = src[t] \/ q = dst[t], refs[q] # Empty, refs[q].obj = obj[t],
         refs' = [refs EXCEPT ![dst[t]] = Ref(k, obj[t])], Return(t)
  PROVE  /\ RefsElsewhere(t) /\ Derived(t) /\ Elsewhere(t) /\ Pins'
         /\ Local(t)' /\ ~Tearing(t)' /\ Exclusive(t)'
         /\ dst[t] \in Places /\ Differ(refs, refs', dst[t], dst[t]) /\ refs'[dst[t]] = Ref(k, obj[t])
         /\ Threaded' /\ refs' \in [Places -> RefType]
  <1> DEFINE d == dst[t]
  <1>1. d \in Slots /\ d \in Places /\ t \in Places /\ d # t /\ q \in Places
    BY Zenon, Working DEF Places
  <1>2. refs \in [Places -> RefType] /\ Ref(k, obj[t]) \in RefType
    BY Zenon, <1>1, Types DEF RefType, Ref
  <1>3. /\ refs'[d] = Ref(k, obj[t]) /\ Differ(refs, refs', d, d) /\ refs'[t] = Empty
        /\ refs' \in [Places -> RefType]
    BY Zenon, <1>1, <1>2 DEF Differ
  <1>4. ASSUME NEW u \in Threads, u # t
        PROVE  u # d /\ dst[u] # d /\ src[u] # d /\ dst[u] # q /\ u \in Places
    BY Zenon, <1>1, <1>4, Parts, PlacesAssumption DEF Pins, Places
  <1>5. RefsElsewhere(t)
    BY Zenon, <1>3, <1>4 DEF RefsElsewhere, Places, Differ
  <1>6. Derived(t)
    <2> SUFFICES ASSUME NEW p \in Places, refs'[p] # refs[p], refs'[p] # Empty
                 PROVE  /\ \E i \in Places : /\ refs[i] # Empty /\ refs[i].obj = refs'[p].obj
                                             /\ \A u \in Threads : u # t => dst[u] # i
                        /\ refs'[p].kind \in WeakKinds => refs'[p].obj \notin CowObjects
      BY Zenon DEF Derived
    <2>1. p = d /\ refs'[p].obj = obj[t] /\ refs'[p].kind = k
      BY Zenon, <1>3 DEF Ref, Differ
    <2> QED
      BY Zenon, <1>1, <1>4, <2>1
  <1>7. Elsewhere(t) /\ Threaded' /\ Pins' /\ Exclusive(t)' /\ Local(t)' /\ ~Tearing(t)'
    BY Zenon, <1>3, ReturnEffect
  <1> QED
    BY Zenon, <1>1, <1>3, <1>5, <1>6, <1>7

(* WeakObjectPtr::reclaim changes the kind of a counted reference. *)
LEMMA ReclaimedInv ==
  ASSUME Counting, IInv, NEW t \in Threads, pc[t] \in {"reclaim1", "reclaim3"},
         refs' = [refs EXCEPT ![dst[t]] = Ref("weak", obj[t])], Return(t),
         UNCHANGED <<counters, storage, aborted>>
  PROVE  IInv'
  <1>1. /\ obj[t] \in Objects /\ dst[t] \in Slots /\ refs[t] = Empty
        /\ refs[dst[t]] = Ref("weakraw", obj[t]) /\ obj[t] \notin CowObjects /\ ~Tearing(t)
    BY ZenonT(40), ReclaimFacts
  <1>2. /\ refs[dst[t]] # Empty /\ refs[dst[t]].obj = obj[t]
        /\ "weak" \in WeakKinds /\ "weakraw" \in WeakKinds
        /\ UNCHANGED <<strong, weak, made, alive, aborted>>
    BY SMTT(30), <1>1 DEF Ref, Empty, WeakKinds, counters, storage
  <1>3. /\ RefsElsewhere(t) /\ Derived(t) /\ Elsewhere(t) /\ Pins'
        /\ Local(t)' /\ ~Tearing(t)' /\ Exclusive(t)' /\ dst[t] \in Places
        /\ Differ(refs, refs', dst[t], dst[t]) /\ refs'[dst[t]] = Ref("weak", obj[t])
        /\ Threaded' /\ refs' \in [Places -> RefType]
    BY ZenonT(40), <1>1, <1>2, Working, Placed
  <1>4. InStep
    <2> SUFFICES ASSUME NEW o \in made
                 PROVE  /\ strong'[o] - strong[o] = S(o)' - S(o)
                        /\ weak'[o] - weak[o] = W(o)' - W(o)
                        /\ strong'[o] > 0 <=> strong[o] > 0
      BY Zenon DEF InStep
    <2>1. /\ S(o)' = S(o) - Is(refs[dst[t]], StrongKinds, o) + Is(refs'[dst[t]], StrongKinds, o)
          /\ W(o)' = W(o) - Is(refs[dst[t]], WeakKinds, o) + Is(refs'[dst[t]], WeakKinds, o)
      BY ZenonT(40), <1>3, OneCounted
    <2>2. /\ Is(refs[dst[t]], StrongKinds, o) = Is(refs'[dst[t]], StrongKinds, o)
          /\ Is(refs[dst[t]], WeakKinds, o) = Is(refs'[dst[t]], WeakKinds, o)
      BY SMTT(30), <1>1, <1>3 DEF Is, Ref, StrongKinds, WeakKinds
    <2>3. S(o) \in Nat /\ W(o) \in Nat /\ strong[o] \in Nat /\ weak[o] \in Nat
      BY Zenon, Numbers, Types
    <2> QED
      BY SMTT(30), <1>2, <2>1, <2>2, <2>3, IsType
  <1>5. TypeOK' /\ ~aborted'
    BY SMTT(30), <1>2, <1>3, Types, TypesNext
  <1> QED
    BY Zenon, <1>1, <1>2, <1>3, <1>4, <1>5, CalmInv

(* Other weak references, or the strong side, are left: reclaim is done. *)
LEMMA ReclaimManyWeakInv ==
  ASSUME Counting, IInv, NEW t \in Threads, ReclaimManyWeak(t)
  PROVE  IInv'
  <1>1. pc[t] = "reclaim1"
    BY Zenon DEF ReclaimManyWeak
  <1>2. CASE weak[obj[t]] > 1
    BY Zenon, <1>1, <1>2, ReclaimedInv DEF ReclaimManyWeak
  <1>3. CASE ~(weak[obj[t]] > 1)
    <2>1. /\ obj[t] \in made /\ obj[t] \in Objects /\ dst[t] \in Slots /\ refs[t] = Empty
          /\ refs[dst[t]] = Ref("weakraw", obj[t]) /\ strong[obj[t]] = 0 /\ ~Tearing(t)
      BY Zenon, <1>1, <1>3, ReclaimFacts
    <2>2. Goto(t, "reclaim2") /\ UNCHANGED <<refs, counters, storage, aborted>>
      BY Zenon, <1>3 DEF ReclaimManyWeak
    <2>3. /\ pc'[t] = "reclaim2" /\ dst'[t] = dst[t] /\ obj'[t] = obj[t]
          /\ UNCHANGED <<refs, strong, made>>
      BY Zenon, <2>2, GotoEffect DEF counters, storage
    <2>4. Local(t)' /\ Exclusive(t)'
      BY Zenon, <2>1, <2>3 DEF Local, Exclusive, Ref
    <2> QED
      BY Zenon, <1>1, <2>1, <2>2, <2>4, GotoInv, Types DEF Labels, Dying
  <1> QED
    BY Zenon, <1>2, <1>3

(* The last check of reclaim passes: the pointer itself is counted. *)
LEMMA ReclaimSomeWeakInv ==
  ASSUME Counting, IInv, NEW t \in Threads, ReclaimSomeWeak(t)
  PROVE  IInv'
  <1>1. pc[t] = "reclaim3"
    BY Zenon DEF ReclaimSomeWeak
  <1>2. weak[obj[t]] > 0
    BY Zenon, <1>1, ReclaimFacts
  <1>3. aborted' = FALSE /\ aborted = FALSE
    BY Zenon, <1>2, Types DEF ReclaimSomeWeak
  <1> QED
    BY ZenonT(40), <1>1, <1>3, ReclaimedInv DEF ReclaimSomeWeak

(* The compare-exchange succeeds only on a count that is not zero. *)
LEMMA PromoteSucceedsInv ==
  ASSUME Counting, IInv, NEW t \in Threads, PromoteSucceeds(t)
  PROVE  IInv'
  <1>1. /\ pc[t] = "cas" /\ refs[t] = Empty /\ src[t] \in Slots /\ dst[t] \in Slots
        /\ obj[t] \in made /\ obj[t] \in Objects /\ ~Tearing(t) /\ strong[obj[t]] > 0
        /\ refs[src[t]].obj = obj[t] /\ refs[src[t]] # Empty /\ refs[dst[t]] = Empty
    <2>1. pc[t] = "cas" /\ strong[obj[t]] = old[t]
      BY Zenon DEF PromoteSucceeds
    <2>2. /\ src[t] \in Slots /\ refs[src[t]].obj = obj[t] /\ refs[src[t]].kind = "weak"
          /\ refs[dst[t]] = Empty /\ old[t] > 0
      BY Zenon, <2>1, Parts DEF Local
    <2> QED
      BY SMTT(30), <2>1, <2>2, Working, Resting DEF Tearing, Dying, Empty
  <1>2. /\ refs' = [refs EXCEPT ![dst[t]] = Ref("strong", obj[t])] /\ Return(t)
        /\ strong' = [strong EXCEPT ![obj[t]] = strong[obj[t]] + 1]
        /\ UNCHANGED <<weak, made, alive, aborted>>
        /\ "strong" \in StrongKinds /\ "strong" \notin WeakKinds
    BY ZenonT(40) DEF PromoteSucceeds, storage, StrongKinds, WeakKinds
  <1>3. /\ RefsElsewhere(t) /\ Derived(t) /\ Elsewhere(t) /\ Pins'
        /\ Local(t)' /\ ~Tearing(t)' /\ Exclusive(t)' /\ dst[t] \in Places
        /\ Differ(refs, refs', dst[t], dst[t]) /\ refs'[dst[t]] = Ref("strong", obj[t])
        /\ Threaded' /\ refs' \in [Places -> RefType]
    BY ZenonT(40), <1>1, <1>2, Placed
  <1>4. TypeOK'
    <2>1. strong' \in [Objects -> Nat]
      BY SMTT(30), SMTT(31), <1>1, <1>2, Types
    <2> QED
      BY Zenon, <1>2, <1>3, <2>1, Types, TypesNext
  <1>5. InStep
    <2> SUFFICES ASSUME NEW o \in made
                 PROVE  /\ strong'[o] - strong[o] = S(o)' - S(o)
                        /\ weak'[o] - weak[o] = W(o)' - W(o)
                        /\ strong'[o] > 0 <=> strong[o] > 0
      BY Zenon DEF InStep
    <2>1. /\ S(o)' = S(o) - Is(refs[dst[t]], StrongKinds, o) + Is(refs'[dst[t]], StrongKinds, o)
          /\ W(o)' = W(o) - Is(refs[dst[t]], WeakKinds, o) + Is(refs'[dst[t]], WeakKinds, o)
      BY ZenonT(40), <1>3, OneCounted
    <2>2. /\ Is(refs[dst[t]], StrongKinds, o) = 0 /\ Is(refs[dst[t]], WeakKinds, o) = 0
          /\ Is(refs'[dst[t]], StrongKinds, o) = (IF o = obj[t] THEN 1 ELSE 0)
          /\ Is(refs'[dst[t]], WeakKinds, o) = 0
      <3>1. Is(refs[dst[t]], StrongKinds, o) = 0 /\ Is(refs[dst[t]], WeakKinds, o) = 0
        BY SMTT(30), <1>1, RefCounts
      <3>2. /\ Is(refs'[dst[t]], StrongKinds, o) = (IF o = obj[t] THEN 1 ELSE 0)
            /\ Is(refs'[dst[t]], WeakKinds, o) = 0
        BY ZenonT(40), <1>1, <1>2, <1>3, RefCounts
      <3> QED
        BY ZenonT(40), <3>1, <3>2
    <2>3. /\ S(o) \in Nat /\ W(o) \in Nat /\ strong[o] \in Nat /\ weak[o] \in Nat
          /\ strong'[o] = strong[o] + (IF o = obj[t] THEN 1 ELSE 0)
      BY SMTT(30), <1>1, <1>2, Numbers, Types
    <2> QED
      BY SMTT(30), <1>1, <1>2, <2>1, <2>2, <2>3
  <1> QED
    BY ZenonT(40), <1>1, <1>2, <1>3, <1>4, <1>5, CalmInv, Parts

=============================================================================
