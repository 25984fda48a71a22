---------------------------- MODULE CentralCache ----------------------------
(***************************************************************************)
(* One bucket of CentralCache (central_cache.cpp).  A bucket serves one    *)
(* size class and shares nothing with the others.  Its upper tier is the   *)
(* TransferCache, an array of free objects behind a spin lock; its lower   *)
(* tier is the list of spans whose bitmaps a mutex protects.  Threads run  *)
(* FetchRange and ReleaseListToSpans concurrently and drop the mutex while *)
(* they are in PageCache.                                                  *)
(*                                                                         *)
(* Object <<s, k>> is slot k of span s.  The intrusive chains and the      *)
(* arrays of objects are sets: which object a thread gets first does not   *)
(* matter here, so an order that the code fixes is left open.  The bitmap  *)
(* of a span is its set of free slots, which module Span implements.       *)
(***************************************************************************)
EXTENDS Naturals, Sequences, FiniteSets

CONSTANTS
  Threads,
  Spans,          \* bound: the spans PageCache can hand to this bucket
  capacity,       \* objects of one span
  Batch,          \* CalculateBatchSize of the size class
  kMaxBatchSize,  \* length of the arrays on the stack
  TcCapacity,     \* transfer_cache_capacity (kCapScale * Batch in the code)
  None            \* no thread, no span

ASSUME BucketAssumption ==
  /\ capacity \in Nat \ {0}
  /\ Batch \in Nat \ {0}
  /\ kMaxBatchSize \in Nat /\ Batch <= kMaxBatchSize
  /\ TcCapacity \in Nat
  /\ None \notin Threads \cup Spans

Slots == 1 .. capacity
Objects == Spans \X Slots

VARIABLES
  tc,           \* the objects in transfer_cache
  tc_capacity,  \* transfer_cache_capacity
  span_list,    \* the spans of the bucket, begin() first
  lock,         \* the thread that holds span_list_lock
  free,         \* free[s]: the free slots of span s
  pool,         \* the spans that PageCache has
  out,          \* the objects outside: in thread caches or with the program
  pc,           \* pc[t]: where thread t is
  want,         \* want[t]: batch_num of the FetchRange of t
  got,          \* got[t]: the chain FetchRange will return
  pre,          \* pre[t]: prefetch_ptrs
  rel,          \* rel[t]: the chain ReleaseListToSpans still has to walk
  chunk,        \* chunk[t]: the part of local_ptrs not yet pushed or freed
  span,         \* span[t]: the span t works on
  terminated    \* std::terminate has run

bucket == <<tc, tc_capacity, span_list, lock, free, pool>>
vars == <<bucket, out, pc, want, got, pre, rel, chunk, span, terminated>>

Init ==
  /\ tc = {}
  /\ tc_capacity = TcCapacity
  /\ span_list = <<>>
  /\ lock = None
  /\ free = [s \in Spans |-> Slots]
  /\ pool = Spans
  /\ out = {}
  /\ pc = [t \in Threads |-> "idle"]
  /\ want = [t \in Threads |-> 0]
  /\ got = [t \in Threads |-> {}]
  /\ pre = [t \in Threads |-> {}]
  /\ rel = [t \in Threads |-> {}]
  /\ chunk = [t \in Threads |-> {}]
  /\ span = [t \in Threads |-> None]
  /\ terminated = FALSE

-----------------------------------------------------------------------------
(* SpanList. *)
InList(s, L) == \E i \in 1 .. Len(L) : L[i] = s

NoDup(L) == \A i, j \in 1 .. Len(L) : L[i] = L[j] => i = j

Erase(L, s) ==
  LET k == CHOOSE i \in 1 .. Len(L) : L[i] = s
  IN  [i \in 1 .. (Len(L) - 1) |-> IF i < k THEN L[i] ELSE L[i + 1]]

PushFront(L, s) == <<s>> \o L

PushBack(L, s) == Append(L, s)

UseCount(s) == capacity - Cardinality(free[s])

(* The test that sends FetchRange to GetOneSpan. *)
NoCandidate == span_list = <<>> \/ UseCount(span_list[1]) >= capacity

Goto(t, label) == pc' = [pc EXCEPT ![t] = label]

(***************************************************************************)
(* A critical section of the spin lock: as many objects of S as there is   *)
(* room for move to the TransferCache, and Rest are left.                  *)
(***************************************************************************)
PushTransferCache(S, Rest) ==
  /\ Rest \subseteq S
  /\ tc' = tc \cup (S \ Rest)
  /\ Cardinality(tc) + Cardinality(S \ Rest) <= tc_capacity
  /\ Rest = {} \/ Cardinality(tc) + Cardinality(S \ Rest) = tc_capacity

-----------------------------------------------------------------------------
(***************************************************************************)
(* FetchRange(block_list, n, aligned_size).                                *)
(***************************************************************************)
CallFetch(t, n) ==
  /\ pc[t] = "idle" /\ ~terminated
  /\ want' = [want EXCEPT ![t] = n]
  /\ Goto(t, "grab")
  /\ UNCHANGED <<bucket, out, got, pre, rel, chunk, span, terminated>>

(* grab_count = min(batch_num, transfer_cache_count). *)
Grab(t) ==
  /\ pc[t] = "grab" /\ ~terminated
  /\ \E S \in SUBSET tc :
       /\ Cardinality(S) <= want[t]
       /\ S = tc \/ Cardinality(S) = want[t]
       /\ tc' = tc \ S
       /\ got' = [got EXCEPT ![t] = S]
       /\ Goto(t, IF Cardinality(S) < want[t] THEN "lock" ELSE "ret")
  /\ UNCHANGED <<tc_capacity, span_list, lock, free, pool, out, want, pre, rel, chunk, span, terminated>>

Lock(t) ==
  /\ pc[t] = "lock" /\ lock = None /\ ~terminated
  /\ lock' = t
  /\ Goto(t, "outer")
  /\ UNCHANGED <<tc, tc_capacity, span_list, free, pool, out, want, got, pre, rel, chunk, span, terminated>>

(* The thread's need comes first; then as many objects are prefetched. *)
Extracted(t) == Cardinality(got[t]) = want[t] /\ Cardinality(pre[t]) = want[t]

(* The outer loop: GetOneSpan begins by unlocking. *)
Outer(t) ==
  /\ pc[t] = "outer" /\ ~Extracted(t) /\ ~terminated
  /\ IF NoCandidate
     THEN lock' = None /\ Goto(t, "alloc") /\ UNCHANGED span
     ELSE /\ span' = [span EXCEPT ![t] = span_list[1]]
          /\ Goto(t, "take")
          /\ UNCHANGED lock
  /\ UNCHANGED <<tc, tc_capacity, span_list, free, pool, out, want, got, pre, rel, chunk, terminated>>

(* The inner loop: AllocObject takes the lowest slot. *)
Take(t) ==
  LET s == span[t] IN
  /\ pc[t] = "take" /\ ~Extracted(t) /\ ~terminated
  /\ \E k \in free[s] :
       /\ \A j \in free[s] : k <= j
       /\ free' = [free EXCEPT ![s] = @ \ {k}]
       /\ IF Cardinality(got[t]) < want[t]
          THEN got' = [got EXCEPT ![t] = @ \cup {<<s, k>>}] /\ UNCHANGED pre
          ELSE pre' = [pre EXCEPT ![t] = @ \cup {<<s, k>>}] /\ UNCHANGED got
  /\ UNCHANGED <<tc, tc_capacity, span_list, lock, pool, out, pc, want, rel, chunk, span, terminated>>

(* AllocObject failed: the full span goes to the back of the list. *)
Full(t) ==
  LET s == span[t] IN
  /\ pc[t] = "take" /\ ~Extracted(t) /\ ~terminated
  /\ free[s] = {}
  /\ span_list' = PushBack(Erase(span_list, s), s)
  /\ span' = [span EXCEPT ![t] = None]
  /\ Goto(t, "outer")
  /\ UNCHANGED <<tc, tc_capacity, lock, free, pool, out, want, got, pre, rel, chunk, terminated>>

Unlock(t) ==
  /\ pc[t] \in {"outer", "take"} /\ Extracted(t) /\ ~terminated
  /\ lock' = None
  /\ span' = [span EXCEPT ![t] = None]
  /\ Goto(t, "publish")
  /\ UNCHANGED <<tc, tc_capacity, span_list, free, pool, out, want, got, pre, rel, chunk, terminated>>

(* GetOneSpan, without the mutex: PageCache::AllocSpan and Span::Init. *)
AllocSpan(t, s) ==
  /\ pc[t] = "alloc" /\ s \in pool /\ ~terminated
  /\ pool' = pool \ {s}
  /\ free' = [free EXCEPT ![s] = Slots]
  /\ span' = [span EXCEPT ![t] = s]
  /\ Goto(t, "relock")
  /\ UNCHANGED <<tc, tc_capacity, span_list, lock, out, want, got, pre, rel, chunk, terminated>>

(* GetOneSpan fails without relocking, and FetchRange then unlocks a lock  *)
(* it does not own.  That throws std::system_error, which leaves the       *)
(* noexcept ThreadCache::FetchFromCentralCache.                            *)
AllocSpanFails(t) ==
  /\ pc[t] = "alloc" /\ ~terminated
  /\ terminated' = TRUE
  /\ UNCHANGED <<bucket, out, pc, want, got, pre, rel, chunk, span>>

Relock(t) ==
  /\ pc[t] = "relock" /\ lock = None /\ ~terminated
  /\ lock' = t
  /\ span_list' = PushFront(span_list, span[t])
  /\ Goto(t, "take")
  /\ UNCHANGED <<tc, tc_capacity, free, pool, out, want, got, pre, rel, chunk, span, terminated>>

(* Mutant: what does not fit is forgotten. *)
PublishDrops(t) ==
  /\ pc[t] = "publish" /\ ~terminated
  /\ \E Rest \in SUBSET pre[t] : PushTransferCache(pre[t], Rest)
  /\ pre' = [pre EXCEPT ![t] = {}]
  /\ Goto(t, "ret")
  /\ UNCHANGED <<tc_capacity, span_list, lock, free, pool, out, want, got, rel, chunk, span, terminated>>

(* What the TransferCache cannot take goes through ReleaseListToSpans. *)
Publish(t) ==
  /\ pc[t] = "publish" /\ ~terminated
  /\ \E Rest \in SUBSET pre[t] :
       /\ PushTransferCache(pre[t], Rest)
       /\ rel' = [rel EXCEPT ![t] = Rest]
       /\ Goto(t, IF Rest = {} THEN "ret" ELSE "absorb")
  /\ pre' = [pre EXCEPT ![t] = {}]
  /\ UNCHANGED <<tc_capacity, span_list, lock, free, pool, out, want, got, chunk, span, terminated>>

-----------------------------------------------------------------------------
(***************************************************************************)
(* ReleaseListToSpans(start, aligned_size), from ThreadCache or from the   *)
(* end of FetchRange.                                                      *)
(***************************************************************************)
CallRelease(t, S) ==
  /\ pc[t] = "idle" /\ ~terminated
  /\ S # {} /\ S \subseteq out
  /\ out' = out \ S
  /\ rel' = [rel EXCEPT ![t] = S]
  /\ Goto(t, "absorb")
  /\ UNCHANGED <<bucket, want, got, pre, chunk, span, terminated>>

(* The next at most kMaxBatchSize objects, as far as they fit. *)
Absorb(t) ==
  /\ pc[t] = "absorb" /\ ~terminated
  /\ \E C \in SUBSET rel[t] :
       /\ Cardinality(C) <= kMaxBatchSize
       /\ C = rel[t] \/ Cardinality(C) = kMaxBatchSize
       /\ rel' = [rel EXCEPT ![t] = @ \ C]
       /\ \E Rest \in SUBSET C :
            /\ PushTransferCache(C, Rest)
            /\ chunk' = [chunk EXCEPT ![t] = Rest]
            /\ Goto(t, IF Rest # {} THEN "rlock"
                       ELSE IF C = rel[t] THEN "ret" ELSE "absorb")
  /\ UNCHANGED <<tc_capacity, span_list, lock, free, pool, out, want, got, pre, span, terminated>>

RLock(t) ==
  /\ pc[t] = "rlock" /\ lock = None /\ ~terminated
  /\ lock' = t
  /\ Goto(t, "free")
  /\ UNCHANGED <<tc, tc_capacity, span_list, free, pool, out, want, got, pre, rel, chunk, span, terminated>>

(* Mutant: an empty span stays in the list when it is released. *)
FreeKeepsListed(t) ==
  /\ pc[t] = "free" /\ ~terminated
  /\ \E o \in chunk[t] :
       LET s == o[1] IN
       /\ free' = [free EXCEPT ![s] = @ \cup {o[2]}]
       /\ chunk' = [chunk EXCEPT ![t] = @ \ {o}]
       /\ IF free[s] \cup {o[2]} = Slots
          THEN lock' = None /\ span' = [span EXCEPT ![t] = s] /\ Goto(t, "page")
          ELSE UNCHANGED <<lock, span, pc>>
  /\ UNCHANGED <<tc, tc_capacity, span_list, pool, out, want, got, pre, rel, terminated>>

(* A span that was full becomes the candidate; one that is empty is erased *)
(* and goes back to PageCache, after unlocking.                            *)
Free(t) ==
  /\ pc[t] = "free" /\ ~terminated
  /\ \E o \in chunk[t] :
       LET s == o[1]
           now_free == free[s] \cup {o[2]}
           moved == IF Cardinality(now_free) = 1
                    THEN PushFront(Erase(span_list, s), s) ELSE span_list
       IN  /\ free' = [free EXCEPT ![s] = now_free]
           /\ chunk' = [chunk EXCEPT ![t] = @ \ {o}]
           /\ IF now_free = Slots
              THEN /\ span_list' = Erase(moved, s)
                   /\ lock' = None
                   /\ span' = [span EXCEPT ![t] = s]
                   /\ Goto(t, "page")
              ELSE span_list' = moved /\ UNCHANGED <<lock, span, pc>>
  /\ UNCHANGED <<tc, tc_capacity, pool, out, want, got, pre, rel, terminated>>

ReleaseSpan(t) ==
  /\ pc[t] = "page" /\ ~terminated
  /\ pool' = pool \cup {span[t]}
  /\ span' = [span EXCEPT ![t] = None]
  /\ Goto(t, "rlock")
  /\ UNCHANGED <<tc, tc_capacity, span_list, lock, free, out, want, got, pre, rel, chunk, terminated>>

(* Mutant: the mutex is kept on return. *)
RUnlockForgets(t) ==
  /\ pc[t] = "free" /\ chunk[t] = {} /\ ~terminated
  /\ Goto(t, IF rel[t] = {} THEN "ret" ELSE "absorb")
  /\ UNCHANGED <<bucket, out, want, got, pre, rel, chunk, span, terminated>>

RUnlock(t) ==
  /\ pc[t] = "free" /\ chunk[t] = {} /\ ~terminated
  /\ lock' = None
  /\ Goto(t, IF rel[t] = {} THEN "ret" ELSE "absorb")
  /\ UNCHANGED <<tc, tc_capacity, span_list, free, pool, out, want, got, pre, rel, chunk, span, terminated>>

(* The return of either function: block_list.push_range(head, tail). *)
Return(t) ==
  /\ pc[t] = "ret" /\ ~terminated
  /\ out' = out \cup got[t]
  /\ got' = [got EXCEPT ![t] = {}]
  /\ want' = [want EXCEPT ![t] = 0]
  /\ Goto(t, "idle")
  /\ UNCHANGED <<bucket, pre, rel, chunk, span, terminated>>

(***************************************************************************)
(* CentralCache::Reset, in a controlled teardown: no operation is running  *)
(* and nothing is outside.  The backing array is gone afterwards, so the   *)
(* capacity is 0 for the rest of the run.                                  *)
(***************************************************************************)
Quiescent == \A t \in Threads : pc[t] = "idle"

(* Mutant: the objects of the TransferCache are not freed. *)
ResetKeepsCached ==
  /\ Quiescent /\ out = {} /\ ~terminated
  /\ tc' = {} /\ tc_capacity' = 0
  /\ pool' = pool \cup {s \in Spans : InList(s, span_list)}
  /\ span_list' = <<>>
  /\ UNCHANGED <<lock, free, out, pc, want, got, pre, rel, chunk, span, terminated>>

Reset ==
  /\ Quiescent /\ out = {} /\ ~terminated
  /\ free' = [s \in Spans |-> free[s] \cup {k \in Slots : <<s, k>> \in tc}]
  /\ tc' = {}
  /\ tc_capacity' = 0
  /\ pool' = pool \cup {s \in Spans : InList(s, span_list)}
  /\ span_list' = <<>>
  /\ UNCHANGED <<lock, out, pc, want, got, pre, rel, chunk, span, terminated>>

-----------------------------------------------------------------------------
FetchStep(t) ==
  \/ Grab(t) \/ Lock(t) \/ Outer(t) \/ Take(t) \/ Full(t) \/ Unlock(t)
  \/ (\E s \in Spans : AllocSpan(t, s))
  \/ AllocSpanFails(t) \/ Relock(t) \/ Publish(t)

ReleaseStep(t) ==
  Absorb(t) \/ RLock(t) \/ Free(t) \/ ReleaseSpan(t) \/ RUnlock(t)

Step(t) == FetchStep(t) \/ ReleaseStep(t) \/ Return(t)

Next ==
  \/ \E t \in Threads :
       \/ \E n \in 1 .. Batch : CallFetch(t, n)
       \/ \E S \in SUBSET out : CallRelease(t, S)
       \/ Step(t)
  \/ Reset

Spec == Init /\ [][Next]_vars

(***************************************************************************)
(* A running thread is scheduled; the mutex is not withheld for ever from  *)
(* a thread that waits while others take and drop it.                      *)
(***************************************************************************)
Fairness ==
  \A t \in Threads :
    /\ WF_vars(Step(t))
    /\ SF_vars(Lock(t) \/ Relock(t) \/ RLock(t))

-----------------------------------------------------------------------------
Labels == {"idle", "grab", "lock", "outer", "take", "alloc", "relock", "publish",
           "absorb", "rlock", "free", "page", "ret"}

TypeOK ==
  /\ tc \in SUBSET Objects
  /\ tc_capacity \in {0, TcCapacity}
  /\ span_list \in Seq(Spans)
  /\ lock \in Threads \cup {None}
  /\ free \in [Spans -> SUBSET Slots]
  /\ pool \in SUBSET Spans
  /\ out \in SUBSET Objects
  /\ pc \in [Threads -> Labels]
  /\ want \in [Threads -> 0 .. Batch]
  /\ got \in [Threads -> SUBSET Objects]
  /\ pre \in [Threads -> SUBSET Objects]
  /\ rel \in [Threads -> SUBSET Objects]
  /\ chunk \in [Threads -> SUBSET Objects]
  /\ span \in [Threads -> Spans \cup {None}]
  /\ terminated \in BOOLEAN

(* An operation of thread t has object o in its hands. *)
InHand(t, o) == o \in got[t] \/ o \in pre[t] \/ o \in rel[t] \/ o \in chunk[t]

IsFree(o) == o[2] \in free[o[1]]

(***************************************************************************)
(* Every object is in exactly one place: marked free in its span, in the   *)
(* TransferCache, outside, or in one local array or chain of one           *)
(* operation.  So FetchRange never hands an object to two threads, and no  *)
(* object is lost when a TransferCache that another thread filled sends    *)
(* prefetched objects back through ReleaseListToSpans.                     *)
(***************************************************************************)
OwnedOnce ==
  \A o \in Objects :
    /\ o \in tc => ~IsFree(o) /\ o \notin out
    /\ o \in out => ~IsFree(o)
    /\ \A t \in Threads :
         /\ InHand(t, o) => ~IsFree(o) /\ o \notin tc /\ o \notin out
         /\ \A u \in Threads : InHand(t, o) /\ InHand(u, o) => u = t
         /\ o \in got[t] => o \notin pre[t] \cup rel[t] \cup chunk[t]
         /\ o \in pre[t] => o \notin rel[t] \cup chunk[t]
         /\ o \in rel[t] => o \notin chunk[t]
    /\ IsFree(o) \/ o \in tc \/ o \in out \/ \E t \in Threads : InHand(t, o)

(* The spans a thread carries between the bucket and PageCache. *)
Carries(t, s) == pc[t] \in {"relock", "page"} /\ span[t] = s

(***************************************************************************)
(* A span that PageCache has, or that a thread carries to or from it, has  *)
(* all its objects free, and is not in the list: an empty span is erased   *)
(* before the mutex is dropped, so no other thread allocates from it or    *)
(* releases it a second time.                                              *)
(***************************************************************************)
ReleasedSpansUnused ==
  \A s \in Spans :
    /\ s \in pool => free[s] = Slots /\ ~InList(s, span_list)
    /\ \A t \in Threads :
         Carries(t, s) => /\ free[s] = Slots /\ s \notin pool
                          /\ ~InList(s, span_list)
                          /\ \A u \in Threads : Carries(u, s) => u = t
    /\ s \in pool \/ InList(s, span_list) \/ \E t \in Threads : Carries(t, s)

(***************************************************************************)
(* Whenever the mutex is free, every span of the list is there once and    *)
(* has an object in use: no empty span is left behind in the bucket.       *)
(***************************************************************************)
ListedSpansInUse ==
  /\ NoDup(span_list)
  /\ lock = None => \A i \in 1 .. Len(span_list) : UseCount(span_list[i]) > 0

(* The TransferCache never holds more than its slice of the array. *)
TransferCacheFits == Cardinality(tc) <= tc_capacity

(***************************************************************************)
(* Reset gives every span back to PageCache with all its objects free,     *)
(* whatever the TransferCache and the list held when it began.             *)
(***************************************************************************)
TeardownReturnsAll ==
  [][Reset => pool' = Spans /\ free' = [s \in Spans |-> Slots]]_vars

(***************************************************************************)
(* Every FetchRange and ReleaseListToSpans returns, unless the process     *)
(* terminates.                                                             *)
(***************************************************************************)
OperationsReturn ==
  \A t \in Threads : pc[t] # "idle" ~> (pc[t] = "idle" \/ terminated)

(***************************************************************************)
(* central_cache.h:181, FetchRange returns the "Number of fetched objects, *)
(* which may be smaller on allocation failure": the failure of AllocSpan   *)
(* is survived.                                                            *)
(***************************************************************************)
SurvivesAllocationFailure == ~terminated

=============================================================================
