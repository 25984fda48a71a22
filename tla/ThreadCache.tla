---------------------------- MODULE ThreadCache ----------------------------
(***************************************************************************)
(* The FreeList of one size class in one thread's ThreadCache              *)
(* (thread_cache.h, thread_cache.cpp), with the policy that adapts its     *)
(* quota.  Only the owning thread runs these steps, but a slow path calls  *)
(* CentralCache, so it takes a step before and a step after that call.     *)
(***************************************************************************)
EXTENDS Naturals

CONSTANTS
  Batch,       \* CalculateBatchSize of the size class
  QuotaScale   \* the quota grows up to QuotaScale batches (8 in the code)

kMaxOverages == 3

(* CalculateBatchSize never returns less than 2 (size_class.h). *)
Parameters ==
  /\ Batch \in Nat /\ Batch >= 2
  /\ QuotaScale \in Nat \ {0}

VARIABLES
  size,      \* FreeList::size_
  max_size,  \* FreeList::max_size_, the quota
  overages,  \* FreeList::overages_
  slow         \* the slow path in progress, or "none"

vars == <<size, max_size, overages, slow>>

Init == size = 0 /\ max_size = 1 /\ overages = 0 /\ slow = "none"

Lesser(a, b) == IF a < b THEN a ELSE b
Greater(a, b) == IF a < b THEN b ELSE a

-----------------------------------------------------------------------------
(* The quota after a refill: doubled below one batch, then linear growth. *)
GrownQuota(m) ==
  IF m < Batch THEN Lesser(Batch, m + Greater(1, m))
  ELSE IF m < Batch * QuotaScale
       THEN Lesser(Batch * QuotaScale, m + Greater(1, Batch \div 8))
       ELSE m

(* The quota and the overage count after an overflow trim. *)
Decays(m, n) == m > Batch /\ n + 1 >= kMaxOverages
DecayedQuota(m, n) == IF Decays(m, n) THEN Greater(m - Batch, Batch) ELSE m
NextOverages(m, n) == IF m > Batch /\ ~Decays(m, n) THEN n + 1 ELSE 0

Fetch == Lesser(Batch, max_size)

(***************************************************************************)
(* Allocate pops an object, or asks CentralCache for Fetch objects.        *)
(***************************************************************************)
AllocateFast ==
  /\ slow = "none" /\ size > 0
  /\ size' = size - 1
  /\ UNCHANGED <<max_size, overages, slow>>

AllocateSlow ==
  /\ slow = "none" /\ size = 0
  /\ slow' = "fetch"
  /\ UNCHANGED <<size, max_size, overages>>

(* FetchRange delivered n objects; one of them goes to the caller. *)
FetchReturns(n) ==
  /\ slow = "fetch" /\ n > 0
  /\ size' = n - 1
  /\ max_size' = GrownQuota(max_size)
  /\ overages' = 0
  /\ slow' = "none"

(* Out of memory: FetchRange returned 0 and Allocate returns nullptr. *)
FetchFails ==
  /\ slow = "fetch"
  /\ slow' = "none"
  /\ UNCHANGED <<size, max_size, overages>>

(***************************************************************************)
(* Deallocate pushes the object and trims one batch beyond the quota.      *)
(***************************************************************************)
DeallocateFast ==
  /\ slow = "none" /\ size + 1 <= max_size
  /\ size' = size + 1
  /\ UNCHANGED <<max_size, overages, slow>>

Trimmed(n) == Lesser(Batch, n)

DeallocateSlow ==
  /\ slow = "none" /\ size + 1 > max_size
  /\ size' = size + 1 - Trimmed(size + 1)
  /\ slow' = "trim"
  /\ UNCHANGED <<max_size, overages>>

TrimReturns ==
  /\ slow = "trim"
  /\ max_size' = DecayedQuota(max_size, overages)
  /\ overages' = NextOverages(max_size, overages)
  /\ slow' = "none"
  /\ UNCHANGED size

(* ReleaseAll drains the list at thread exit. *)
ReleaseAll ==
  /\ slow = "none" /\ size > 0
  /\ size' = 0
  /\ slow' = "drain"
  /\ UNCHANGED <<max_size, overages>>

DrainReturns ==
  /\ slow = "drain"
  /\ max_size' = 1
  /\ overages' = 0
  /\ slow' = "none"
  /\ UNCHANGED size

Next ==
  \/ AllocateFast \/ AllocateSlow
  \/ (\E n \in 1 .. Fetch : FetchReturns(n)) \/ FetchFails
  \/ DeallocateFast \/ DeallocateSlow \/ TrimReturns
  \/ ReleaseAll \/ DrainReturns

Spec == Init /\ [][Next]_vars

-----------------------------------------------------------------------------
TypeOK ==
  /\ size \in Nat
  /\ max_size \in 1 .. (Batch * QuotaScale)
  /\ overages \in 0 .. (kMaxOverages - 1)
  /\ slow \in {"none", "fetch", "trim", "drain"}

(***************************************************************************)
(* A thread never hoards more than its quota and one object: decay lowers  *)
(* max_size by a batch below a list that was just trimmed by a batch, and  *)
(* that leaves at most one object too many (a batch of one would not).     *)
(***************************************************************************)
OccupancyBounded == size <= max_size + 1

(***************************************************************************)
(* Warm-up is not undone: once the quota has reached one batch, decay      *)
(* never takes it below one batch; only ReleaseAll resets it.              *)
(***************************************************************************)
QuotaFloor == [][max_size >= Batch /\ slow # "drain" => max_size' >= Batch]_vars

(***************************************************************************)
(* thread_cache.cpp:68, a trim returns at most one batch: from a warm list *)
(* it never drains everything, so the next Allocate is still served        *)
(* locally.                                                                *)
(***************************************************************************)
TrimLeavesSome ==
  [][DeallocateSlow /\ max_size >= Batch => size' > 0 /\ size - size' < Batch]_vars

=============================================================================
