--------------------------- MODULE PageAllocator ---------------------------
(***************************************************************************)
(* PageAllocator (page_allocator.cpp): SystemAlloc and SystemFree on top   *)
(* of mmap, munmap and the cache of huge pages.  An address is a page      *)
(* number, so a huge page is HUGE pages that start at a multiple of HUGE.  *)
(* The kernel is external: it may put a mapping into any hole, and any     *)
(* call may fail.  The cache is what PagePool promises.                    *)
(***************************************************************************)
EXTENDS Integers, FiniteSets, Sequences

CONSTANTS
  Threads,
  LastPage,            \* bound: the address space is 0 .. LastPage
  HUGE,                \* HUGE_PAGE_SIZE, in pages
  MAX_ALLOC_RETRIES,
  HUGE_PAGE_CACHE_SIZE,
  Sizes,               \* bound: the page_num of the requests
  MaxCalls,            \* bound: the number of SystemAlloc calls
  MaxFaults            \* bound: the number of munmap failures

(* The constants make sense. *)
AllocParameters ==
  /\ IsFiniteSet(Threads) /\ LastPage \in Nat /\ HUGE \in Nat \ {0} /\ Sizes \subseteq Nat
  /\ MAX_ALLOC_RETRIES \in Nat \ {0} /\ HUGE_PAGE_CACHE_SIZE \in Nat

Pages == 0 .. LastPage
Extent(a, n) == a .. (a + n - 1)
Aligned(a) == a % HUGE = 0
AlignUp(a) == ((a + HUGE - 1) \div HUGE) * HUGE

VARIABLES
  mapped,   \* the pages the kernel has mapped
  held,     \* the mappings <<address, pages>> the callers hold
  cached,   \* the addresses in the HugePageCache
  leaked,   \* the pages whose munmap failed
  pc,       \* pc[t]: where thread t is
  size,     \* size[t]: the pages of its request
  addr,     \* addr[t]: the address it got from mmap, or is releasing
  tries,    \* tries[t]: i of AllocWithRetry
  segs,     \* segs[t]: the mappings cleanup_remaining_mappings goes through
  stats,    \* the counters
  calls

allocVars == <<mapped, held, cached, leaked, pc, size, addr, tries, segs, stats, calls>>

Counters == {"normal_alloc_count", "normal_alloc_success", "normal_alloc_failed_count",
             "huge_alloc_count", "huge_alloc_success", "huge_alloc_failed_count",
             "huge_cache_hit_count", "huge_fallback_to_normal_count",
             "alloc_failed_count", "munmap_failed_count"}

AllocInit ==
  /\ mapped = {} /\ held = {} /\ cached = {} /\ leaked = {}
  /\ pc = [t \in Threads |-> "idle"]
  /\ size = [t \in Threads |-> 0]
  /\ addr = [t \in Threads |-> 0]
  /\ tries = [t \in Threads |-> 0]
  /\ segs = [t \in Threads |-> <<>>]
  /\ stats = [c \in Counters |-> 0]
  /\ calls = 0

Goto(t, l) == pc' = [pc EXCEPT ![t] = l]
Count(C) == stats' = [c \in Counters |-> stats[c] + IF c \in C THEN 1 ELSE 0]

(* A return clears the locals of the call. *)
Return(t) ==
  /\ Goto(t, "idle")
  /\ size' = [size EXCEPT ![t] = 0]
  /\ addr' = [addr EXCEPT ![t] = 0]
  /\ tries' = [tries EXCEPT ![t] = 0]

-----------------------------------------------------------------------------
(* AllocWithRetry.  mmap finds a hole... *)
MapAt(t, n, a, label) ==
  /\ Extent(a, n) \subseteq Pages \ mapped
  /\ mapped' = mapped \cup Extent(a, n)
  /\ addr' = [addr EXCEPT ![t] = a]
  /\ tries' = [tries EXCEPT ![t] = 0]
  /\ Goto(t, label)

(* ... or fails: ENOMEM is tried again. *)
Retry(t, label) ==
  /\ pc[t] = label
  /\ tries[t] + 1 < MAX_ALLOC_RETRIES
  /\ tries' = [tries EXCEPT ![t] = @ + 1]
  /\ UNCHANGED <<mapped, held, cached, leaked, pc, size, addr, segs, stats, calls>>

(* SafeMunmap of the pages P; a failure leaves them mapped. *)
Munmapped(P) == mapped' = mapped \ P /\ UNCHANGED leaked
MunmapFails(P) ==
  /\ stats["munmap_failed_count"] < MaxFaults
  /\ leaked' = leaked \cup P
  /\ UNCHANGED mapped

SafeMunmap(P, C) ==
  \/ Munmapped(P) /\ Count(C)
  \/ MunmapFails(P) /\ Count(C \cup {"munmap_failed_count"})

-----------------------------------------------------------------------------
(* SystemAlloc: small requests take normal pages, exact ones the cache. *)
SystemAlloc(t, n) ==
  /\ pc[t] = "idle" /\ calls < MaxCalls
  /\ calls' = calls + 1
  /\ size' = [size EXCEPT ![t] = n]
  /\ IF 2 * n < HUGE THEN Goto(t, "normal") /\ Count({"normal_alloc_count"})
     ELSE IF n = HUGE THEN Goto(t, "get") /\ UNCHANGED stats
     ELSE Goto(t, "exact") /\ Count({"huge_alloc_count"})
  /\ UNCHANGED <<mapped, held, cached, leaked, addr, tries, segs>>

(* HugePageCache::Get: an entry is used only when it is aligned. *)
CacheHit(t) ==
  /\ pc[t] = "get"
  /\ \E a \in cached :
       /\ cached' = cached \ {a}
       /\ IF Aligned(a)
          THEN /\ held' = held \cup {<<a, HUGE>>}
               /\ Count({"huge_cache_hit_count"}) /\ Return(t)
          ELSE /\ Goto(t, "exact") /\ Count({"huge_alloc_count"})
               /\ UNCHANGED <<held, size, addr, tries>>
  /\ UNCHANGED <<mapped, leaked, segs, calls>>

CacheMiss(t) ==
  /\ pc[t] = "get" /\ cached = {}
  /\ Goto(t, "exact") /\ Count({"huge_alloc_count"})
  /\ UNCHANGED <<mapped, held, cached, leaked, size, addr, tries, segs, calls>>

(* AllocHugePage: first an mmap of the exact size. *)
Exact(t) ==
  /\ pc[t] = "exact"
  /\ \E a \in Pages : MapAt(t, size[t], a, IF Aligned(a) THEN "huge" ELSE "drop")
  /\ UNCHANGED <<held, cached, leaked, size, segs, stats, calls>>

(* The caller gets the mapping, after ApplyHugePageHint. *)
HugeDone(t) ==
  /\ pc[t] = "huge"
  /\ held' = held \cup {<<addr[t], size[t]>>}
  /\ Count({"huge_alloc_success"}) /\ Return(t)
  /\ UNCHANGED <<mapped, cached, leaked, segs, calls>>

(* A misaligned one is unmapped, whether that succeeds or not... *)
Drop(t) ==
  /\ pc[t] = "drop"
  /\ SafeMunmap(Extent(addr[t], size[t]), {})
  /\ Goto(t, "over")
  /\ UNCHANGED <<held, cached, size, addr, tries, segs, calls>>

(* ... and AllocHugePageWithTrim maps HUGE pages more. *)
Over(t) ==
  /\ pc[t] = "over"
  /\ \E a \in Pages : MapAt(t, size[t] + HUGE, a, IF Aligned(a) THEN "tail" ELSE "head")
  /\ UNCHANGED <<held, cached, leaked, size, segs, stats, calls>>

(* raw_addr is addr[t] until the head is gone, body_ptr afterwards. *)
HeadGap(a) == a .. (AlignUp(a) - 1)
Body(t) == Extent(AlignUp(addr[t]), size[t])
TailGap(t, a) == (AlignUp(a) + size[t]) .. (a + size[t] + HUGE - 1)

(* Mutant: the cleanup forgets the tail. *)
TrimHeadForgets(t) ==
  /\ pc[t] = "head"
  /\ \/ /\ Munmapped(HeadGap(addr[t])) /\ UNCHANGED <<stats, segs>>
        /\ Goto(t, "tail")
     \/ /\ MunmapFails(HeadGap(addr[t])) /\ Count({"munmap_failed_count"})
        /\ segs' = [segs EXCEPT ![t] = <<Body(t)>>]
        /\ Goto(t, "cleanup")
  /\ UNCHANGED <<held, cached, size, addr, tries, calls>>

TrimHead(t) ==
  /\ pc[t] = "head"
  /\ \/ /\ Munmapped(HeadGap(addr[t])) /\ UNCHANGED <<stats, segs>>
        /\ Goto(t, "tail")
     \/ /\ MunmapFails(HeadGap(addr[t])) /\ Count({"munmap_failed_count"})
        /\ segs' = [segs EXCEPT ![t] = <<Body(t), TailGap(t, addr[t])>>]
        /\ Goto(t, "cleanup")
  /\ UNCHANGED <<held, cached, size, addr, tries, calls>>

(* The tail is never empty: the head has less than HUGE pages. *)
TrimTail(t) ==
  /\ pc[t] = "tail"
  /\ \/ /\ Munmapped(TailGap(t, addr[t])) /\ UNCHANGED <<stats, segs>>
        /\ addr' = [addr EXCEPT ![t] = AlignUp(@)]
        /\ Goto(t, "huge")
     \/ /\ MunmapFails(TailGap(t, addr[t])) /\ Count({"munmap_failed_count"})
        /\ segs' = [segs EXCEPT ![t] = <<Body(t)>>]
        /\ Goto(t, "cleanup") /\ UNCHANGED addr
  /\ UNCHANGED <<held, cached, size, tries, calls>>

(* AllocHugePage returned null: fall back to normal pages. *)
HugeFailure == {"huge_alloc_failed_count", "huge_fallback_to_normal_count", "normal_alloc_count"}

(* cleanup_remaining_mappings, a mapping at a time. *)
Cleanup(t) ==
  /\ pc[t] = "cleanup"
  /\ LET last == Len(segs[t]) = 1 IN
       /\ SafeMunmap(segs[t][1], IF last THEN HugeFailure ELSE {})
       /\ segs' = [segs EXCEPT ![t] = Tail(@)]
       /\ Goto(t, IF last THEN "normal" ELSE "cleanup")
  /\ UNCHANGED <<held, cached, size, addr, tries, calls>>

HugeFails(t) ==
  /\ pc[t] \in {"exact", "over"}
  /\ Goto(t, "normal") /\ Count(HugeFailure)
  /\ tries' = [tries EXCEPT ![t] = 0]
  /\ UNCHANGED <<mapped, held, cached, leaked, size, addr, segs, calls>>

-----------------------------------------------------------------------------
(* AllocNormalPage. *)
Normal(t) ==
  /\ pc[t] = "normal"
  /\ \E a \in Pages :
       /\ Extent(a, size[t]) \subseteq Pages \ mapped
       /\ mapped' = mapped \cup Extent(a, size[t])
       /\ held' = held \cup {<<a, size[t]>>}
  /\ Count({"normal_alloc_success"}) /\ Return(t)
  /\ UNCHANGED <<cached, leaked, segs, calls>>

NormalFails(t) ==
  /\ pc[t] = "normal"
  /\ Count({"normal_alloc_failed_count", "alloc_failed_count"}) /\ Return(t)
  /\ UNCHANGED <<mapped, held, cached, leaked, segs, calls>>

-----------------------------------------------------------------------------
(* SystemFree: an aligned huge page may be cached, once its memory is      *)
(* discarded; madvise may fail.                                            *)
SystemFree(t, m) ==
  /\ pc[t] = "idle"
  /\ held' = held \ {m}
  /\ addr' = [addr EXCEPT ![t] = m[1]]
  /\ size' = [size EXCEPT ![t] = m[2]]
  /\ \/ m[2] = HUGE /\ Aligned(m[1]) /\ Goto(t, "put")
     \/ Goto(t, "unmap")
  /\ UNCHANGED <<mapped, cached, leaked, tries, segs, stats, calls>>

(* HugePageCache::Put also fails while the free slots are with other calls. *)
CachePut(t) ==
  /\ pc[t] = "put"
  /\ \/ /\ Cardinality(cached) < HUGE_PAGE_CACHE_SIZE
        /\ cached' = cached \cup {addr[t]}
        /\ Return(t)
     \/ /\ Goto(t, "unmap")
        /\ UNCHANGED <<cached, size, addr, tries>>
  /\ UNCHANGED <<mapped, held, leaked, segs, stats, calls>>

Unmap(t) ==
  /\ pc[t] = "unmap"
  /\ SafeMunmap(Extent(addr[t], size[t]), {}) /\ Return(t)
  /\ UNCHANGED <<held, cached, segs, calls>>

(* ReleaseHugePageCache, after concurrent use has stopped. *)
ReleaseHugePageCache ==
  /\ \A t \in Threads : pc[t] = "idle"
  /\ \E a \in cached :
       /\ cached' = cached \ {a}
       /\ SafeMunmap(Extent(a, HUGE), {})
  /\ UNCHANGED <<held, pc, size, addr, tries, segs, calls>>

Step(t) ==
  \/ \E l \in {"exact", "over", "normal"} : Retry(t, l)
  \/ CacheHit(t) \/ CacheMiss(t)
  \/ Exact(t) \/ HugeDone(t) \/ Drop(t) \/ Over(t)
  \/ TrimHead(t) \/ TrimTail(t) \/ Cleanup(t) \/ HugeFails(t)
  \/ Normal(t) \/ NormalFails(t)
  \/ CachePut(t) \/ Unmap(t)

AllocNext ==
  \/ \E t \in Threads :
       \/ \E n \in Sizes : SystemAlloc(t, n)
       \/ \E m \in held : SystemFree(t, m)
       \/ Step(t)
  \/ ReleaseHugePageCache

AllocSpec == AllocInit /\ [][AllocNext]_allocVars
-----------------------------------------------------------------------------
Labels == {"idle", "get", "exact", "drop", "over", "head", "tail", "cleanup", "huge",
           "normal", "put", "unmap"}

AllocTypeOK ==
  /\ mapped \subseteq Pages
  /\ held \subseteq Pages \X Nat /\ IsFiniteSet(held)
  /\ cached \subseteq Pages /\ Cardinality(cached) <= HUGE_PAGE_CACHE_SIZE
  /\ pc \in [Threads -> Labels]
  /\ size \in [Threads -> Nat] /\ addr \in [Threads -> Pages]
  /\ tries \in [Threads -> 0 .. (MAX_ALLOC_RETRIES - 1)]
  /\ stats \in [Counters -> Nat] /\ calls \in Nat
  /\ segs \in [Threads -> Seq(SUBSET Int)]
  /\ \A t \in Threads : pc[t] = "cleanup" <=> segs[t] # <<>>

(* The pages that thread t has mapped, or is to unmap, in its call. *)
InHand(t) ==
  CASE pc[t] \in {"huge", "drop", "put", "unmap"} -> Extent(addr[t], size[t])
    [] pc[t] = "head" -> Extent(addr[t], size[t] + HUGE)
    [] pc[t] = "tail" -> Extent(addr[t], size[t] + HUGE) \ HeadGap(addr[t])
    [] pc[t] = "cleanup" -> UNION {segs[t][j] : j \in 1 .. Len(segs[t])}
    [] OTHER -> {}

(* The number of callers, cache entries, calls and leaks that have page p. *)
Holders(p) ==
  Cardinality({m \in held : p \in Extent(m[1], m[2])})
  + Cardinality({a \in cached : p \in Extent(a, HUGE)})
  + Cardinality({t \in Threads : p \in InHand(t)})
  + (IF p \in leaked THEN 1 ELSE 0)

(***************************************************************************)
(* A mapped page is with one holder, and the holders have mapped pages     *)
(* only: trimming, the cleanup after a failed trim, the fallback and the   *)
(* cache neither lose a page, nor unmap one that is in use, nor hand one   *)
(* out twice.  What SafeMunmap could not unmap is all that leaks.          *)
(***************************************************************************)
HeldOnce == \A p \in Pages : Holders(p) = IF p \in mapped THEN 1 ELSE 0

InHugePath(t) == pc[t] \in {"exact", "huge", "drop", "over", "head", "tail", "cleanup"}

(***************************************************************************)
(* The counters account for every call: AllocHugePage and AllocNormalPage  *)
(* count one success or one failure for each attempt, on every early       *)
(* return, and a request ends in one success or in alloc_failed_count.     *)
(***************************************************************************)
StatsBalance ==
  /\ stats["huge_alloc_count"] = stats["huge_alloc_success"] + stats["huge_alloc_failed_count"]
       + Cardinality({t \in Threads : InHugePath(t)})
  /\ stats["normal_alloc_count"] =
       stats["normal_alloc_success"] + stats["normal_alloc_failed_count"]
       + Cardinality({t \in Threads : pc[t] = "normal"})
  /\ calls = stats["huge_cache_hit_count"] + stats["huge_alloc_success"]
       + stats["normal_alloc_success"] + stats["alloc_failed_count"]
       + Cardinality({t \in Threads : InHugePath(t) \/ pc[t] \in {"get", "normal"}})

(***************************************************************************)
(* A mapping of half a huge page or more is aligned to a huge page, unless *)
(* the fallback to normal pages was counted; what the cache holds is       *)
(* aligned, so that SystemAlloc never drops an entry it took.              *)
(***************************************************************************)
HugeAligned ==
  /\ Cardinality({m \in held : 2 * m[2] >= HUGE /\ ~Aligned(m[1])})
       <= stats["huge_fallback_to_normal_count"]
  /\ \A a \in cached : Aligned(a)

(***************************************************************************)
(* Together: no mapped page is lost or held twice on any path of           *)
(* SystemAlloc and SystemFree, and the counters tell how each call ended.  *)
(***************************************************************************)
PagesAccounted == HeldOnce /\ StatsBalance /\ HugeAligned

=============================================================================
