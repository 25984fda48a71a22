---------------------------- MODULE ObjectHandles ----------------------------
(***************************************************************************)
(* Strong and weak handles to reference-counted objects                    *)
(* (include/aethermind/base/object.h, src/base/object.cpp,                 *)
(* include/aethermind/base/object_allocator.h).                            *)
(*                                                                         *)
(* A slot is a variable of the program that may hold an ObjectPtr, a       *)
(* WeakObjectPtr, or a raw pointer that release() or the C API made        *)
(* responsible for a reference.  A thread is also a place: the temporary   *)
(* whose destructor drops a reference.  Every access to a counter is one   *)
(* step, so other threads run between any two of them; calls on one slot   *)
(* obey the usual rule (concurrent readers, or one writer).                *)
(*                                                                         *)
(* Abstracted: the payload (alive until the deleter runs with the strong   *)
(* flag), the static types of handles, and the empty sentinel (Empty).     *)
(***************************************************************************)
EXTENDS Naturals, FiniteSets, TLC

CONSTANTS Threads, Slots, Objects, NoObj,
          CowObjects   \* bodies of copy-on-write containers: the code never makes weak handles to them

NoSlot == "noslot"

ASSUME PlacesAssumption == Slots \cap Threads = {} /\ NoSlot \notin Slots
ASSUME FiniteAssumption == IsFiniteSet(Slots) /\ IsFiniteSet(Threads)
ASSUME ObjAssumption == NoObj \notin Objects /\ CowObjects \subseteq Objects

VARIABLES
    refs,      \* what each place holds
    strong,    \* header_.strong_ref_count of each object
    weak,      \* header_.weak_ref_count
    made,      \* objects whose storage is allocated
    alive,     \* objects whose payload is constructed
    pc,        \* the next atomic step of each thread
    src,       \* the slot a thread's call reads
    dst,       \* the slot a thread's call writes
    obj,       \* the object a thread's call works on
    old,       \* old_cnt of TryPromoteWeakPtr
    aborted    \* an AM_CHECK failed

counters == <<strong, weak>>
storage == <<made, alive>>
locals == <<src, dst, obj, old>>
vars == <<refs, strong, weak, made, alive, pc, src, dst, obj, old, aborted>>

Places == Slots \cup Threads
StrongKinds == {"strong", "raw"}
WeakKinds == {"weak", "weakraw"}
Empty == [kind |-> "none", obj |-> NoObj]
Ref(k, o) == [kind |-> k, obj |-> o]

Labels == {"idle", "retain", "inc", "wretain", "winc", "dec", "checkweak",
           "dtorboth", "dtor", "wdec", "free", "load", "cas",
           "reclaim1", "reclaim2", "reclaim3", "unique", "mutate"}

\* The references that count towards header_.strong_ref_count and weak_ref_count.
StrongRefs(o) == {p \in Places : refs[p].obj = o /\ refs[p].kind \in StrongKinds}
WeakRefs(o) == {p \in Places : refs[p].obj = o /\ refs[p].kind \in WeakKinds}

\* Calls on one slot may overlap only when all of them read it.
Readable(s) == \A u \in Threads : dst[u] # s
Writable(s) == \A u \in Threads : dst[u] # s /\ src[u] # s

Init ==
    /\ refs = [p \in Places |-> Empty]
    /\ strong = [o \in Objects |-> 0]
    /\ weak = [o \in Objects |-> 0]
    /\ made = {}
    /\ alive = {}
    /\ pc = [t \in Threads |-> "idle"]
    /\ src = [t \in Threads |-> NoSlot]
    /\ dst = [t \in Threads |-> NoSlot]
    /\ obj = [t \in Threads |-> NoObj]
    /\ old = [t \in Threads |-> 0]
    /\ aborted = FALSE

-----------------------------------------------------------------------------
(* Beginning and end of a call. *)

Begin(t, label, s, d, o) ==
    /\ pc[t] = "idle"
    /\ ~aborted
    /\ pc' = [pc EXCEPT ![t] = label]
    /\ src' = [src EXCEPT ![t] = s]
    /\ dst' = [dst EXCEPT ![t] = d]
    /\ obj' = [obj EXCEPT ![t] = o]
    /\ old' = old

Return(t) ==
    /\ pc' = [pc EXCEPT ![t] = "idle"]
    /\ src' = [src EXCEPT ![t] = NoSlot]
    /\ dst' = [dst EXCEPT ![t] = NoSlot]
    /\ obj' = [obj EXCEPT ![t] = NoObj]
    /\ old' = [old EXCEPT ![t] = 0]

Goto(t, label) ==
    /\ pc' = [pc EXCEPT ![t] = label]
    /\ UNCHANGED locals

\* AM_CHECK: continue at label, or abort the program.
Check(t, cond, label) ==
    /\ aborted' = ~cond
    /\ Goto(t, label)

\* make_object: nobody else knows the object before it returns.  Storage that was
\* freed may be used again, with a fresh header.
Make(t, d, o) ==
    /\ pc[t] = "idle" /\ ~aborted
    /\ o \notin made
    /\ refs[d] = Empty /\ Writable(d)
    /\ made' = made \cup {o}
    /\ alive' = alive \cup {o}
    /\ weak' = [weak EXCEPT ![o] = 1]
    /\ strong' = [strong EXCEPT ![o] = 1]
    /\ refs' = [refs EXCEPT ![d] = Ref("strong", o)]
    /\ UNCHANGED <<pc, locals, aborted>>

\* Copy construction from s into the unused d, and copy assignment to d:
\* ObjectPtr(rhs).swap(*this) leaves the old value to the temporary.
CopyStrong(t, s, d) ==
    /\ refs[s].kind = "strong" /\ Readable(s)
    /\ Writable(d) /\ refs[d].kind \in {"none", "strong"}
    /\ Begin(t, "retain", s, d, refs[s].obj)
    /\ UNCHANGED <<refs, counters, storage, aborted>>

\* WeakObjectPtr(const ObjectPtr&), WeakObjectPtr(const WeakObjectPtr&) and the assignment.
CopyWeak(t, s, d) ==
    /\ refs[s].kind \in {"strong", "weak"} /\ Readable(s)
    /\ refs[s].obj \notin CowObjects
    /\ Writable(d) /\ refs[d].kind \in {"none", "weak"}
    /\ Begin(t, "wretain", s, d, refs[s].obj)
    /\ UNCHANGED <<refs, counters, storage, aborted>>

\* IncObjectRef: the C API takes one more reference without a check.
IncObjectRef(t, s, d) ==
    /\ refs[s].kind \in StrongKinds /\ Readable(s)
    /\ Writable(d) /\ refs[d] = Empty
    /\ Begin(t, "inc", s, d, refs[s].obj)
    /\ UNCHANGED <<refs, counters, storage, aborted>>

\* reset(), the destructor, and DecObjectRef: the reference goes to the
\* temporary, and the slot stays with this call until it returns.
Reset(t, d) ==
    /\ refs[d] # Empty /\ Writable(d)
    /\ refs' = [refs EXCEPT ![d] = Empty, ![t] = refs[d]]
    /\ Begin(t, IF refs[d].kind \in StrongKinds THEN "dec" ELSE "wdec", NoSlot, d, refs[d].obj)
    /\ UNCHANGED <<counters, storage, aborted>>

\* Move construction, swap with an empty handle, release() and ObjectPtr::reclaim:
\* the reference changes its place or its kind, and no counter.
Move(t, s, d, k) ==
    /\ pc[t] = "idle" /\ ~aborted
    /\ refs[s] # Empty /\ Writable(s)
    /\ refs[d] = Empty /\ Writable(d)
    /\ \/ k = refs[s].kind
       \/ refs[s].kind \in StrongKinds /\ k \in StrongKinds
       \/ refs[s].kind = "weak" /\ k = "weakraw"
    /\ refs' = [refs EXCEPT ![s] = Empty, ![d] = Ref(k, refs[s].obj)]
    /\ UNCHANGED <<counters, storage, pc, locals, aborted>>

\* WeakObjectPtr::reclaim of a pointer that release() returned.
ReclaimWeak(t, d) ==
    /\ refs[d].kind = "weakraw" /\ Writable(d)
    /\ Begin(t, "reclaim1", NoSlot, d, refs[d].obj)
    /\ UNCHANGED <<refs, counters, storage, aborted>>

\* WeakObjectPtr::lock into an unused slot.
Lock(t, s, d) ==
    /\ refs[s].kind = "weak" /\ Readable(s)
    /\ Writable(d) /\ refs[d] = Empty
    /\ Begin(t, "load", s, d, refs[s].obj)
    /\ UNCHANGED <<refs, counters, storage, aborted>>

\* The copy-on-write test of the containers: change in place if unique().
WriteIfUnique(t, d) ==
    /\ refs[d].kind = "strong" /\ Writable(d)
    /\ refs[d].obj \in CowObjects
    /\ Begin(t, "unique", NoSlot, d, refs[d].obj)
    /\ UNCHANGED <<refs, counters, storage, aborted>>

-----------------------------------------------------------------------------
(* The atomic steps. *)

RetainCheck(t) ==
    /\ pc[t] = "retain"
    /\ Check(t, strong[obj[t]] > 0, "inc")
    /\ UNCHANGED <<refs, counters, storage>>

\* Mutant: an assignment publishes the handle and does not count it.
RetainIncLate(t) ==
    /\ pc[t] = "inc"
    /\ LET was == refs[dst[t]]
       IN /\ refs' = [refs EXCEPT ![dst[t]] = Ref("strong", obj[t]), ![t] = was]
          /\ strong' = IF was = Empty THEN strong ELSE [strong EXCEPT ![obj[t]] = @ + 1]
          /\ IF was = Empty
             THEN Return(t)
             ELSE /\ pc' = [pc EXCEPT ![t] = "dec"]
                  /\ obj' = [obj EXCEPT ![t] = was.obj]
                  /\ UNCHANGED <<src, dst, old>>
    /\ UNCHANGED <<weak, storage, aborted>>

\* IncRef; an assignment hands what d held to the temporary.
RetainInc(t) ==
    /\ pc[t] = "inc"
    /\ strong' = [strong EXCEPT ![obj[t]] = @ + 1]
    /\ LET was == refs[dst[t]]
           k == IF refs[src[t]].kind = "raw" THEN "raw" ELSE "strong"
       IN /\ refs' = [refs EXCEPT ![dst[t]] = Ref(k, obj[t]), ![t] = was]
          /\ IF was = Empty
             THEN Return(t)
             ELSE /\ pc' = [pc EXCEPT ![t] = "dec"]
                  /\ obj' = [obj EXCEPT ![t] = was.obj]
                  /\ UNCHANGED <<src, dst, old>>
    /\ UNCHANGED <<weak, storage, aborted>>

WeakRetainCheck(t) ==
    /\ pc[t] = "wretain"
    /\ Check(t, weak[obj[t]] > 0, "winc")
    /\ UNCHANGED <<refs, counters, storage>>

WeakRetainInc(t) ==
    /\ pc[t] = "winc"
    /\ weak' = [weak EXCEPT ![obj[t]] = @ + 1]
    /\ LET was == refs[dst[t]]
       IN /\ refs' = [refs EXCEPT ![dst[t]] = Ref("weak", obj[t]), ![t] = was]
          /\ IF was = Empty
             THEN Return(t)
             ELSE /\ pc' = [pc EXCEPT ![t] = "wdec"]
                  /\ obj' = [obj EXCEPT ![t] = was.obj]
                  /\ UNCHANGED <<src, dst, old>>
    /\ UNCHANGED <<strong, storage, aborted>>

\* DecRef: fetch_sub on the strong count gives up the reference.
DecStrong(t) ==
    /\ pc[t] = "dec"
    /\ strong' = [strong EXCEPT ![obj[t]] = @ - 1]
    /\ refs' = [refs EXCEPT ![t] = Empty]
    /\ IF strong[obj[t]] = 1 THEN Goto(t, "checkweak") ELSE Return(t)
    /\ UNCHANGED <<weak, storage, aborted>>

\* Mutant: the strong side's own weak reference is not counted.
CheckWeakOffByOne(t) ==
    /\ pc[t] = "checkweak"
    /\ Goto(t, IF weak[obj[t]] <= 2 THEN "dtorboth" ELSE "dtor")
    /\ UNCHANGED <<refs, counters, storage, aborted>>

\* DecRef: weak_use_count() == 1 means that no weak handle exists.
CheckWeak(t) ==
    /\ pc[t] = "checkweak"
    /\ Goto(t, IF weak[obj[t]] = 1 THEN "dtorboth" ELSE "dtor")
    /\ UNCHANGED <<refs, counters, storage, aborted>>

\* The deleter with the strong flag runs the destructor; with both flags it goes on to free.
Destroy(t) ==
    /\ pc[t] \in {"dtorboth", "dtor"}
    /\ alive' = alive \ {obj[t]}
    /\ Goto(t, IF pc[t] = "dtorboth" THEN "free" ELSE "wdec")
    /\ UNCHANGED <<refs, counters, made, aborted>>

\* Mutant: the new value of the counter is compared with the old one's last value.
DecWeakComparesNew(t) ==
    /\ pc[t] = "wdec"
    /\ weak' = [weak EXCEPT ![obj[t]] = @ - 1]
    /\ refs' = [refs EXCEPT ![t] = Empty]
    /\ IF weak[obj[t]] = 0 THEN Goto(t, "free") ELSE Return(t)
    /\ UNCHANGED <<strong, storage, aborted>>

\* fetch_sub on the weak count, in DecWeakRef and at the end of DecRef.
DecWeak(t) ==
    /\ pc[t] = "wdec"
    /\ weak' = [weak EXCEPT ![obj[t]] = @ - 1]
    /\ refs' = [refs EXCEPT ![t] = Empty]
    /\ IF weak[obj[t]] = 1 THEN Goto(t, "free") ELSE Return(t)
    /\ UNCHANGED <<strong, storage, aborted>>

\* The deleter with the weak flag.
Free(t) ==
    /\ pc[t] = "free"
    /\ made' = made \ {obj[t]}
    /\ Return(t)
    /\ UNCHANGED <<refs, counters, alive, aborted>>

\* TryPromoteWeakPtr: the first load; zero ends the loop before it begins.
PromoteLoad(t) ==
    /\ pc[t] = "load"
    /\ IF strong[obj[t]] = 0
       THEN Return(t)
       ELSE /\ pc' = [pc EXCEPT ![t] = "cas"]
            /\ old' = [old EXCEPT ![t] = strong[obj[t]]]
            /\ UNCHANGED <<src, dst, obj>>
    /\ UNCHANGED <<refs, counters, storage, aborted>>

\* Mutant: a store in place of the compare-exchange.
PromoteStores(t) ==
    /\ pc[t] = "cas"
    /\ strong' = [strong EXCEPT ![obj[t]] = old[t] + 1]
    /\ refs' = [refs EXCEPT ![dst[t]] = Ref("strong", obj[t])]
    /\ Return(t)
    /\ UNCHANGED <<weak, storage, aborted>>

\* The weak compare-exchange takes the reference ...
PromoteSucceeds(t) ==
    /\ pc[t] = "cas"
    /\ strong[obj[t]] = old[t]
    /\ strong' = [strong EXCEPT ![obj[t]] = old[t] + 1]
    /\ refs' = [refs EXCEPT ![dst[t]] = Ref("strong", obj[t])]
    /\ Return(t)
    /\ UNCHANGED <<weak, storage, aborted>>

\* ... or fails, spuriously too, and reloads the count.
PromoteFails(t) ==
    /\ pc[t] = "cas"
    /\ IF strong[obj[t]] = 0
       THEN Return(t)
       ELSE /\ old' = [old EXCEPT ![t] = strong[obj[t]]]
            /\ UNCHANGED <<pc, src, dst, obj>>
    /\ UNCHANGED <<refs, counters, storage, aborted>>

\* WeakObjectPtr::reclaim checks weak_use_count() > 1 ...
ReclaimManyWeak(t) ==
    /\ pc[t] = "reclaim1"
    /\ IF weak[obj[t]] > 1
       THEN refs' = [refs EXCEPT ![dst[t]] = Ref("weak", obj[t])] /\ Return(t)
       ELSE refs' = refs /\ Goto(t, "reclaim2")
    /\ UNCHANGED <<counters, storage, aborted>>

\* ... or use_count() == 0 ...
ReclaimNoStrong(t) ==
    /\ pc[t] = "reclaim2"
    /\ Check(t, strong[obj[t]] = 0, "reclaim3")
    /\ UNCHANGED <<refs, counters, storage>>

\* ... and weak_use_count() > 0.
ReclaimSomeWeak(t) ==
    /\ pc[t] = "reclaim3"
    /\ aborted' = ~(weak[obj[t]] > 0)
    /\ refs' = [refs EXCEPT ![dst[t]] = Ref("weak", obj[t])]
    /\ Return(t)
    /\ UNCHANGED <<counters, storage>>

\* unique(): use_count() == 1.
TestUnique(t) ==
    /\ pc[t] = "unique"
    /\ IF strong[obj[t]] = 1 THEN Goto(t, "mutate") ELSE Return(t)
    /\ UNCHANGED <<refs, counters, storage, aborted>>

\* The caller has finished writing in place.
MutateDone(t) ==
    /\ pc[t] = "mutate"
    /\ Return(t)
    /\ UNCHANGED <<refs, counters, storage, aborted>>

-----------------------------------------------------------------------------
Call(t) ==
    \/ \E d \in Slots, o \in Objects : Make(t, d, o)
    \/ \E s, d \in Slots : \/ CopyStrong(t, s, d)
                           \/ CopyWeak(t, s, d)
                           \/ IncObjectRef(t, s, d)
                           \/ Lock(t, s, d)
                           \/ \E k \in StrongKinds \cup WeakKinds : Move(t, s, d, k)
    \/ \E d \in Slots : \/ Reset(t, d)
                        \/ ReclaimWeak(t, d)
                        \/ WriteIfUnique(t, d)

Step(t) ==
    /\ ~aborted
    /\ \/ RetainCheck(t) \/ RetainInc(t)
       \/ WeakRetainCheck(t) \/ WeakRetainInc(t)
       \/ DecStrong(t) \/ CheckWeak(t) \/ Destroy(t) \/ DecWeak(t) \/ Free(t)
       \/ PromoteLoad(t) \/ PromoteSucceeds(t) \/ PromoteFails(t)
       \/ ReclaimManyWeak(t) \/ ReclaimNoStrong(t) \/ ReclaimSomeWeak(t)
       \/ TestUnique(t) \/ MutateDone(t)

Next == \E t \in Threads : Call(t) \/ Step(t)

Spec == Init /\ [][Next]_vars

Symmetry == Permutations(Threads) \cup Permutations(Slots)

\* Every thread keeps running its call; the program drops the references it holds.
Fairness == \A t \in Threads : WF_vars(Step(t))

-----------------------------------------------------------------------------
(* Properties *)

Dropping(o) == {t \in Threads : /\ obj[t] = o
                                /\ \/ pc[t] \in {"checkweak", "dtorboth", "dtor"}
                                   \/ pc[t] = "wdec" /\ refs[t] = Empty}
Freeing(o) == {t \in Threads : obj[t] = o /\ pc[t] = "free"}

\* Type invariant.
TypeOK ==
    /\ refs \in [Places -> {Empty} \cup [kind : StrongKinds \cup WeakKinds, obj : Objects]]
    /\ strong \in [Objects -> Nat]
    /\ weak \in [Objects -> Nat]
    /\ made \subseteq Objects
    /\ alive \subseteq made
    /\ pc \in [Threads -> Labels]
    /\ src \in [Threads -> Slots \cup {NoSlot}]
    /\ dst \in [Threads -> Slots \cup {NoSlot}]
    /\ obj \in [Threads -> Objects \cup {NoObj}]
    /\ old \in [Threads -> Nat]
    /\ aborted \in BOOLEAN

\* The counters are exact between any two atomic steps of DecRef, TryPromoteWeakPtr
\* and the retains: the strong count is the number of strong references, and the
\* weak count is the number of weak references plus one for the strong side, which
\* keeps it until the thread that dropped the last strong reference has destroyed
\* the payload.  The AM_CHECKs of retain() and of WeakObjectPtr::reclaim therefore
\* never abort a program that obeys the rules for handles, although each reads
\* counters that others change.
CountsExact ==
    /\ ~aborted
    /\ \A o \in made :
        /\ strong[o] = Cardinality(StrongRefs(o))
        /\ Freeing(o) = {} =>
              weak[o] = Cardinality(WeakRefs(o))
                          + (IF strong[o] > 0 \/ Dropping(o) # {} THEN 1 ELSE 0)

\* A strong reference keeps the payload alive and any reference keeps the storage
\* allocated, also for a call that is between two accesses to the header: lock()
\* never revives a destroyed object and DecRef never reads a freed count.
NoDangling ==
    /\ \A p \in Places : refs[p] # Empty =>
          /\ refs[p].obj \in made
          /\ refs[p].kind \in StrongKinds => refs[p].obj \in alive
    /\ \A t \in Threads : pc[t] # "idle" => obj[t] \in made

\* One thread tears an object down: the payload is destroyed once, before the
\* storage is freed once, whatever DecRef and DecWeakRef race.
TornDownOnce ==
    /\ \A o \in Objects : Cardinality(Dropping(o) \cup Freeing(o)) <= 1
    /\ \A t \in Threads : /\ pc[t] \in {"dtor", "dtorboth"} => obj[t] \in alive
                         /\ pc[t] = "free" => obj[t] \in made \ alive

\* unique() allows a write in place: from the relaxed load to the end of the write
\* no other reference to the container's body appears, not even from a call that
\* another thread began before the test.
UniqueIsExclusive ==
    \A t \in Threads : pc[t] = "mutate" =>
        StrongRefs(obj[t]) \cup WeakRefs(obj[t]) = {dst[t]}

\* An object without references is freed eventually: the last DecRef and the last
\* DecWeakRef do not leave the storage to each other.
NothingLeaks ==
    \A o \in Objects :
        (o \in made /\ StrongRefs(o) \cup WeakRefs(o) = {}) ~> (o \notin made)

=============================================================================
