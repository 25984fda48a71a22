----------------------------- MODULE PageCache -----------------------------
(***************************************************************************)
(* PageCache and PageMap (page_cache.cpp) with the background scavenger    *)
(* (page_heap_scavenger.cpp).  One shard is active, so one mutex protects  *)
(* the free lists, the span metadata and the writes to PageMap; the calls  *)
(* of AllocSpan and ReleaseSpan take their steps while they hold it.       *)
(* The scavenger takes the same mutex but drops it around madvise.         *)
(*                                                                         *)
(* A span is a slot of the ObjectPool span_pool_.  A free list is a set:   *)
(* which of its spans pop_front yields is left open.                       *)
(***************************************************************************)
EXTENDS Integers, FiniteSets, TLC

CONSTANTS
  LastPage,          \* bound: the operating system maps pages 1 .. LastPage
  MAX_PAGE_NUM,      \* the largest span that is cached, and the refill size
  MaxRequest,        \* bound: the largest number of pages requested
  SpanIds,           \* bound: the slots of span_pool_
  None,              \* no span
  kIdleThresholdMs,
  MaxClock,          \* bound: the clock stops here
  TimeModulus,       \* uint64_t arithmetic on times (2^64 in the code)
  NodeAllocFails     \* radix_node_pool_.New may throw std::bad_alloc

ASSUME PageAssumption ==
  /\ LastPage \in Nat
  /\ MAX_PAGE_NUM \in Nat \ {0}
  /\ MaxRequest \in Nat
  /\ None \notin SpanIds
  /\ kIdleThresholdMs \in Nat
  /\ MaxClock \in Nat
  /\ TimeModulus \in Nat \ {0}
  /\ NodeAllocFails \in BOOLEAN

Pages == 1 .. LastPage
Buckets == 1 .. MAX_PAGE_NUM

VARIABLES
  span_lists,  \* span_lists[n]: the free spans of n pages
  start,       \* start[s]: start_page_idx
  num,         \* num[s]: page_num
  used,        \* used[s]: the used flag
  committed,   \* committed[s]: the committed flag
  last_used,   \* last_used[s]: last_used_time_ms
  pool,        \* the slots of span_pool_ without a span
  page_map,    \* PageMap
  mapped,      \* the pages the operating system has mapped
  live,        \* the spans that callers of AllocSpan have
  op,          \* what holds the mutex: "free", "alloc", "left" or "right"
  req,         \* page_num of the AllocSpan that holds it
  cur,         \* the span of the ReleaseSpan that holds it
  scav,        \* the scavenger: "off", "wait", "scan" or "advise"
  stop,        \* stop_requested
  i,           \* the bucket of the pass
  now,         \* the time at which the pass began
  held,        \* the spans the scavenger has detached
  todo,        \* the ones among them before madvise
  clock        \* GetCurrentTimeMs

meta == <<start, num, used, committed, last_used, pool>>
cache == <<span_lists, meta, page_map, mapped, live>>
mutex == <<op, req, cur>>
scavenger == <<scav, stop, i, now, held, todo>>
vars == <<cache, mutex, scavenger, clock>>

Init ==
  /\ span_lists = [n \in Buckets |-> {}]
  /\ start = [s \in SpanIds |-> 0]
  /\ num = [s \in SpanIds |-> 0]
  /\ used = [s \in SpanIds |-> FALSE]
  /\ committed = [s \in SpanIds |-> FALSE]
  /\ last_used = [s \in SpanIds |-> 0]
  /\ pool = SpanIds
  /\ page_map = [p \in Pages |-> None]
  /\ mapped = {}
  /\ live = {}
  /\ op = "free" /\ req = 0 /\ cur = None
  /\ scav = "off" /\ stop = FALSE /\ i = 0 /\ now = 0 /\ held = {} /\ todo = {}
  /\ clock = 0

-----------------------------------------------------------------------------
Run(first, n) == first .. (first + n - 1)

PagesOf(s) == Run(start[s], num[s])

(* PageMap::GetSpan: lock-free, null for a page that was never mapped. *)
GetSpan(p) == IF p \in Pages THEN page_map[p] ELSE None

(* PageMap::SetSpan publishes k pages from first on. *)
SetSpan(map, first, k, s) ==
  [p \in Pages |-> IF p \in Run(first, k) THEN s ELSE map[p]]

(***************************************************************************)
(* How many of the n pages from first on SetSpan publishes: all of them,   *)
(* unless a radix node is missing and cannot be allocated.                 *)
(***************************************************************************)
Published(first, n) ==
  IF NodeAllocFails /\ \E p \in Run(first, n) : page_map[p] = None
  THEN 0 .. n ELSE {n}

(***************************************************************************)
(* ObjectPool::Delete: the slot of s holds no span, and its fields mean    *)
(* nothing until New sets them.  first and n are the start and the number  *)
(* of pages of the other spans.                                            *)
(***************************************************************************)
Delete(s, first, n) ==
  /\ pool' = pool \cup {s}
  /\ start' = [first EXCEPT ![s] = 0]
  /\ num' = [n EXCEPT ![s] = 0]
  /\ used' = [used EXCEPT ![s] = FALSE]
  /\ committed' = [committed EXCEPT ![s] = FALSE]
  /\ last_used' = [last_used EXCEPT ![s] = 0]

(* PageAllocator::SystemAlloc, see module PageAllocator. *)
CanMap(first, n) == Run(first, n) \subseteq Pages \ mapped

Smaller(a, b) == IF a < b THEN a ELSE b
Larger(a, b) == IF a < b THEN b ELSE a

-----------------------------------------------------------------------------
(***************************************************************************)
(* AllocSpan(n), and the iterations of its loop.                           *)
(***************************************************************************)
CallAlloc(n) ==
  /\ op = "free"
  /\ op' = "alloc" /\ req' = n
  /\ UNCHANGED <<cache, cur, scavenger, clock>>

Unlock == op' = "free" /\ req' = 0 /\ cur' = None

(* More than MAX_PAGE_NUM pages come straight from the system. *)
AllocOversized(s, first) ==
  /\ op = "alloc" /\ req > MAX_PAGE_NUM
  /\ s \in pool /\ CanMap(first, req)
  /\ pool' = pool \ {s}
  /\ start' = [start EXCEPT ![s] = first]
  /\ num' = [num EXCEPT ![s] = req]
  /\ used' = [used EXCEPT ![s] = TRUE]
  /\ committed' = [committed EXCEPT ![s] = TRUE]
  /\ last_used' = [last_used EXCEPT ![s] = 0]
  /\ mapped' = mapped \cup Run(first, req)
  /\ \E k \in Published(first, req) :
       /\ page_map' = SetSpan(page_map, first, k, s)
       /\ live' = IF k = req THEN live \cup {s} ELSE live
  /\ Unlock
  /\ UNCHANGED <<span_lists, scavenger, clock>>

AllocExact(s) ==
  /\ op = "alloc" /\ req \in Buckets
  /\ s \in span_lists[req]
  /\ span_lists' = [span_lists EXCEPT ![req] = @ \ {s}]
  /\ used' = [used EXCEPT ![s] = TRUE]
  /\ committed' = [committed EXCEPT ![s] = TRUE]
  /\ live' = live \cup {s}
  /\ Unlock
  /\ UNCHANGED <<start, num, last_used, pool, page_map, mapped, scavenger, clock>>

(* The first non-empty bucket at or above the request. *)
IsFirstBucket(n) ==
  /\ span_lists[n] # {}
  /\ \A m \in Buckets : req <= m /\ m < n => span_lists[m] = {}

(* A larger span keeps its metadata and gives its first pages away. *)
AllocSplit(s, n, big) ==
  /\ op = "alloc" /\ req < n /\ IsFirstBucket(n)
  /\ big \in span_lists[n] /\ s \in pool
  /\ pool' = pool \ {s}
  /\ start' = [start EXCEPT ![s] = start[big], ![big] = @ + req]
  /\ num' = [num EXCEPT ![s] = req, ![big] = @ - req]
  /\ used' = [used EXCEPT ![s] = TRUE, ![big] = FALSE]
  /\ committed' = [committed EXCEPT ![s] = TRUE, ![big] = TRUE]
  /\ last_used' = [last_used EXCEPT ![s] = 0, ![big] = clock]
  /\ span_lists' = [span_lists EXCEPT ![n] = @ \ {big}, ![n - req] = @ \cup {big}]
  /\ \E k \in Published(start[big], n) :
       /\ page_map' = SetSpan(SetSpan(page_map, start[big], Smaller(k, req), s),
                              start[big] + req, Larger(k - req, 0), big)
       /\ live' = IF k = n THEN live \cup {s} ELSE live
  /\ Unlock
  /\ UNCHANGED <<mapped, scavenger, clock>>

(* Nothing cached fits: map MAX_PAGE_NUM pages and try again. *)
Refill(s, first) ==
  /\ op = "alloc" /\ req \in Buckets
  /\ \A n \in Buckets : req <= n => span_lists[n] = {}
  /\ s \in pool /\ CanMap(first, MAX_PAGE_NUM)
  /\ pool' = pool \ {s}
  /\ start' = [start EXCEPT ![s] = first]
  /\ num' = [num EXCEPT ![s] = MAX_PAGE_NUM]
  /\ used' = [used EXCEPT ![s] = FALSE]
  /\ committed' = [committed EXCEPT ![s] = TRUE]
  /\ last_used' = [last_used EXCEPT ![s] = clock]
  /\ span_lists' = [span_lists EXCEPT ![MAX_PAGE_NUM] = @ \cup {s}]
  /\ mapped' = mapped \cup Run(first, MAX_PAGE_NUM)
  /\ \E k \in Published(first, MAX_PAGE_NUM) :
       /\ page_map' = SetSpan(page_map, first, k, s)
       /\ IF k = MAX_PAGE_NUM THEN UNCHANGED mutex ELSE Unlock
  /\ UNCHANGED <<live, scavenger, clock>>

(* Null: neither the system nor span_pool_ could provide; all is undone. *)
AllocNull ==
  /\ op = "alloc"
  /\ req \in Buckets => span_lists[req] = {}
  /\ Unlock
  /\ UNCHANGED <<cache, scavenger, clock>>

-----------------------------------------------------------------------------
(***************************************************************************)
(* ReleaseSpan(s): coalesce to the left, then to the right.                *)
(***************************************************************************)
ReleaseOversized(s) ==
  /\ op = "free" /\ s \in live /\ num[s] > MAX_PAGE_NUM
  /\ page_map' = SetSpan(page_map, start[s], num[s], None)
  /\ mapped' = mapped \ PagesOf(s)
  /\ Delete(s, start, num)
  /\ live' = live \ {s}
  /\ UNCHANGED <<span_lists, mutex, scavenger, clock>>

CallRelease(s) ==
  /\ op = "free" /\ s \in live /\ num[s] <= MAX_PAGE_NUM
  /\ live' = live \ {s}
  /\ op' = "left" /\ cur' = s
  /\ UNCHANGED <<span_lists, meta, page_map, mapped, req, scavenger, clock>>

(* Mutant: a neighbour in use is taken too. *)
MergeableUsed(s) == s # None /\ num[cur] + num[s] <= MAX_PAGE_NUM

(* A neighbour that is free and small enough; there is one shard. *)
Mergeable(s) ==
  /\ s # None
  /\ ~used[s]
  /\ num[cur] + num[s] <= MAX_PAGE_NUM

Left == IF start[cur] = 0 THEN None ELSE GetSpan(start[cur] - 1)
Right == GetSpan(start[cur] + num[cur])

(* Mutant: the released span does not grow. *)
AbsorbForgets(s, first) ==
  /\ span_lists' = [span_lists EXCEPT ![num[s]] = @ \ {s}]
  /\ Delete(s, [start EXCEPT ![cur] = first], num)
  /\ UNCHANGED <<page_map, mapped, live, mutex, scavenger, clock>>

Absorb(s, first) ==
  /\ span_lists' = [span_lists EXCEPT ![num[s]] = @ \ {s}]
  /\ Delete(s, [start EXCEPT ![cur] = first], [num EXCEPT ![cur] = @ + num[s]])
  /\ UNCHANGED <<page_map, mapped, live, mutex, scavenger, clock>>

MergeLeft ==
  /\ op = "left" /\ Mergeable(Left)
  /\ Absorb(Left, start[Left])

LeftDone ==
  /\ op = "left" /\ ~Mergeable(Left)
  /\ op' = "right"
  /\ UNCHANGED <<cache, req, cur, scavenger, clock>>

MergeRight ==
  /\ op = "right" /\ Mergeable(Right)
  /\ Absorb(Right, start[cur])

(* Mutant: the coalesced range is not published. *)
ReleaseDoneUnmapped ==
  /\ op = "right" /\ ~Mergeable(Right)
  /\ used' = [used EXCEPT ![cur] = FALSE]
  /\ committed' = [committed EXCEPT ![cur] = TRUE]
  /\ last_used' = [last_used EXCEPT ![cur] = clock]
  /\ span_lists' = [span_lists EXCEPT ![num[cur]] = @ \cup {cur}]
  /\ Unlock
  /\ UNCHANGED <<start, num, pool, page_map, mapped, live, scavenger, clock>>

ReleaseDone ==
  /\ op = "right" /\ ~Mergeable(Right)
  /\ used' = [used EXCEPT ![cur] = FALSE]
  /\ committed' = [committed EXCEPT ![cur] = TRUE]
  /\ last_used' = [last_used EXCEPT ![cur] = clock]
  /\ span_lists' = [span_lists EXCEPT ![num[cur]] = @ \cup {cur}]
  /\ page_map' = SetSpan(page_map, start[cur], num[cur], cur)
  /\ Unlock
  /\ UNCHANGED <<start, num, pool, mapped, live, scavenger, clock>>

(* Reset, for teardown: no caller has a span and no pass is running. *)
Reset ==
  /\ op = "free" /\ live = {} /\ scav \in {"off", "wait"}
  /\ mapped' = mapped \ UNION {PagesOf(s) : s \in UNION {span_lists[n] : n \in Buckets}}
  /\ span_lists' = [n \in Buckets |-> {}]
  /\ pool' = SpanIds
  /\ start' = [s \in SpanIds |-> 0]
  /\ num' = [s \in SpanIds |-> 0]
  /\ used' = [s \in SpanIds |-> FALSE]
  /\ committed' = [s \in SpanIds |-> FALSE]
  /\ last_used' = [s \in SpanIds |-> 0]
  /\ page_map' = [p \in Pages |-> None]
  /\ UNCHANGED <<live, mutex, scavenger, clock>>

-----------------------------------------------------------------------------
(***************************************************************************)
(* PageHeapScavenger.                                                      *)
(***************************************************************************)
Start ==
  /\ scav = "off"
  /\ scav' = "wait" /\ stop' = FALSE
  /\ UNCHANGED <<cache, mutex, i, now, held, todo, clock>>

Stop ==
  /\ scav # "off" /\ ~stop
  /\ stop' = TRUE
  /\ UNCHANGED <<cache, mutex, scav, i, now, held, todo, clock>>

(* Mutant: the stop request is not looked at. *)
WakeDeaf ==
  /\ scav = "wait"
  /\ scav' = "scan" /\ i' = MAX_PAGE_NUM /\ now' = clock
  /\ UNCHANGED <<cache, mutex, stop, held, todo, clock>>

(* ScavengeLoop after its wait: leave, or begin a pass. *)
Wake ==
  /\ scav = "wait"
  /\ IF stop THEN scav' = "off" /\ UNCHANGED <<i, now>>
             ELSE scav' = "scan" /\ i' = MAX_PAGE_NUM /\ now' = clock
  /\ UNCHANGED <<cache, mutex, stop, held, todo, clock>>

NextBucket == IF i = 1 THEN scav' = "wait" /\ i' = 0 /\ now' = 0
                       ELSE scav' = "scan" /\ i' = i - 1 /\ UNCHANGED now

(* The idle time of a span is computed in unsigned arithmetic. *)
Idle(s) == ~used[s] /\ committed[s] /\ (now - last_used[s]) % TimeModulus >= kIdleThresholdMs

(* Under the mutex: the idle spans leave their list and are marked used. *)
Detach ==
  LET idle == {s \in span_lists[i] : Idle(s)} IN
  /\ scav = "scan" /\ op = "free"
  /\ span_lists' = [span_lists EXCEPT ![i] = @ \ idle]
  /\ used' = [s \in SpanIds |-> s \in idle \/ used[s]]
  /\ held' = idle /\ todo' = idle
  /\ IF idle = {} THEN NextBucket ELSE scav' = "advise" /\ UNCHANGED <<i, now>>
  /\ UNCHANGED <<start, num, committed, last_used, pool, page_map, mapped, live, mutex, stop, clock>>

(* Without it: madvise(MADV_DONTNEED), which may fail. *)
Advise(s) ==
  /\ scav = "advise" /\ s \in todo
  /\ todo' = todo \ {s}
  /\ \E ok \in BOOLEAN : committed' = [committed EXCEPT ![s] = @ /\ ~ok]
  /\ UNCHANGED <<span_lists, start, num, used, last_used, pool, page_map, mapped, live,
                 mutex, scav, stop, i, now, held, clock>>

(* Under the mutex again: the spans go back to the list. *)
Reinsert ==
  /\ scav = "advise" /\ todo = {} /\ op = "free"
  /\ span_lists' = [span_lists EXCEPT ![i] = @ \cup held]
  /\ used' = [s \in SpanIds |-> s \notin held /\ used[s]]
  /\ last_used' = [s \in SpanIds |-> IF s \in held THEN clock ELSE last_used[s]]
  /\ held' = {}
  /\ NextBucket
  /\ UNCHANGED <<start, num, committed, pool, page_map, mapped, live, mutex, stop, todo, clock>>

Tick ==
  /\ clock < MaxClock
  /\ clock' = clock + 1
  /\ UNCHANGED <<cache, mutex, scavenger>>

-----------------------------------------------------------------------------
AllocStep ==
  \/ \E s \in SpanIds, first \in Pages : AllocOversized(s, first) \/ Refill(s, first)
  \/ \E s \in SpanIds : AllocExact(s)
  \/ \E s, big \in SpanIds, n \in Buckets : AllocSplit(s, n, big)
  \/ AllocNull

ReleaseStep == MergeLeft \/ LeftDone \/ MergeRight \/ ReleaseDone

ScavengeStep == Wake \/ Detach \/ (\E s \in SpanIds : Advise(s)) \/ Reinsert

Next ==
  \/ \E n \in 1 .. MaxRequest : CallAlloc(n)
  \/ AllocStep
  \/ \E s \in SpanIds : ReleaseOversized(s) \/ CallRelease(s)
  \/ ReleaseStep
  \/ Reset
  \/ Start \/ Stop \/ ScavengeStep
  \/ Tick

Spec == Init /\ [][Next]_vars

Symmetry == Permutations(SpanIds)

(***************************************************************************)
(* Whoever holds the mutex runs on, and the scavenger thread is scheduled; *)
(* the mutex is not withheld from it for ever.                             *)
(***************************************************************************)
Fairness ==
  /\ WF_vars(AllocStep) /\ WF_vars(ReleaseStep)
  /\ WF_vars(ScavengeStep) /\ SF_vars(Detach) /\ SF_vars(Reinsert)

-----------------------------------------------------------------------------
TypeOK ==
  /\ span_lists \in [Buckets -> SUBSET SpanIds]
  /\ start \in [SpanIds -> Nat]
  /\ num \in [SpanIds -> Nat]
  /\ used \in [SpanIds -> BOOLEAN]
  /\ committed \in [SpanIds -> BOOLEAN]
  /\ last_used \in [SpanIds -> Nat]
  /\ pool \in SUBSET SpanIds
  /\ page_map \in [Pages -> SpanIds \cup {None}]
  /\ mapped \in SUBSET Pages
  /\ live \in SUBSET SpanIds
  /\ op \in {"free", "alloc", "left", "right"}
  /\ req \in Nat
  /\ cur \in SpanIds \cup {None}
  /\ scav \in {"off", "wait", "scan", "advise"}
  /\ stop \in BOOLEAN
  /\ i \in 0 .. MAX_PAGE_NUM
  /\ now \in Nat
  /\ held \in SUBSET SpanIds
  /\ todo \in SUBSET held
  /\ clock \in Nat

Listed(s) == \E n \in Buckets : s \in span_lists[n]

(* The span is in use by a caller, cached, with the scavenger or being released. *)
Active(s) == s \in live \/ Listed(s) \/ s \in held \/ s = cur

(***************************************************************************)
(* Every mapped page belongs to exactly one span, however the spans were   *)
(* split and coalesced: the caller of AllocSpan shares no page with        *)
(* another caller, with a free list, or with a span whose pages the        *)
(* scavenger is about to discard; and no mapped page is forgotten.         *)
(***************************************************************************)
PagesOwnedOnce ==
  /\ \A s, r \in SpanIds :
       Active(s) /\ Active(r) /\ s # r => PagesOf(s) \cap PagesOf(r) = {}
  /\ mapped = UNION {PagesOf(s) : s \in {r \in SpanIds : Active(r)}}

(***************************************************************************)
(* PageMap finds the span of every page: of a caller's page, which am_free *)
(* looks up without the mutex, and of a free page, which coalescing looks  *)
(* up.  Pages that were given back to the system map to nothing.           *)
(***************************************************************************)
MapExact ==
  /\ \A s \in SpanIds : Active(s) /\ s # cur => \A p \in PagesOf(s) : page_map[p] = s
  /\ \A p \in Pages \ mapped : page_map[p] = None

(***************************************************************************)
(* A span has one role at a time.  It is in the list of its own size, and  *)
(* its used flag, which coalescing trusts, is clear exactly while it is in *)
(* a list: so coalescing takes neither a caller's span nor one the         *)
(* scavenger has detached.                                                 *)
(***************************************************************************)
RolesApart ==
  /\ \A s \in SpanIds :
       /\ \A n \in Buckets : s \in span_lists[n] => num[s] = n /\ ~used[s]
       /\ s \in live \cup held \/ s = cur => used[s] /\ ~Listed(s)
       /\ Active(s) <=> s \notin pool
  /\ live \cap held = {}
  /\ cur \notin live \cup held

Ranges == INSTANCE PageRanges WITH ranges <- {<<start[s], num[s]>> : s \in live}

(* AllocSpan and ReleaseSpan implement the allocation of disjoint ranges. *)
ImplementsRanges == Ranges!Spec

(* Stop joins the scavenger thread: it always leaves its loop. *)
StopReturns == stop ~> scav = "off"

=============================================================================
