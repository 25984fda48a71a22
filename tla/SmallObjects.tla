---------------------------- MODULE SmallObjects ----------------------------
(***************************************************************************)
(* am_malloc and am_free for one size class of small objects: the front    *)
(* end of ammalloc.cpp and thread_cache.cpp over the bucket of module      *)
(* CentralCache.  Any thread may free an object that another one           *)
(* allocated, and a thread may still free objects after its ThreadCache is *)
(* gone.                                                                   *)
(***************************************************************************)
EXTENDS CentralCache, TLC

CONSTANTS
  QuotaScale,         \* the quota grows up to QuotaScale batches (8 in the code)
  CleanerRegistered   \* tc_cleaner is initialised in a thread that uses ammalloc

ASSUME FrontEndAssumption ==
  /\ QuotaScale \in Nat \ {0}
  /\ Batch >= 2
  /\ CleanerRegistered \in BOOLEAN

VARIABLES
  list,      \* list[t]: the objects in the FreeList of t
  max_size,  \* max_size[t]: the quota of that list
  overages,  \* overages[t]
  op,        \* op[t]: the slow path of t that is in CentralCache, or "none"
  tls,       \* tls[t]: "none" before the ThreadCache exists, "cached", "gone"
  live       \* the objects the program has

front == <<list, max_size, overages, op, tls, live>>
allVars == <<vars, front>>

(* The quota policy of thread t. *)
TC(t) == INSTANCE ThreadCache WITH
           size <- Cardinality(list[t]), max_size <- max_size[t],
           overages <- overages[t], slow <- IF op[t] = "late" THEN "none" ELSE op[t]

SmallInit ==
  /\ Init
  /\ list = [t \in Threads |-> {}]
  /\ max_size = [t \in Threads |-> 1]
  /\ overages = [t \in Threads |-> 0]
  /\ op = [t \in Threads |-> "none"]
  /\ tls = [t \in Threads |-> "none"]
  /\ live = {}

Begin(t, name) == op' = [op EXCEPT ![t] = name]

(* am_malloc and am_free create the ThreadCache on first use. *)
UseThreadCache(t) == tls[t] # "gone" /\ tls' = [tls EXCEPT ![t] = "cached"]

-----------------------------------------------------------------------------
(***************************************************************************)
(* am_malloc.  A thread whose ThreadCache is gone gets nullptr, a stutter. *)
(***************************************************************************)
MallocFast(t) ==
  /\ op[t] = "none" /\ ~terminated
  /\ UseThreadCache(t)
  /\ \E o \in list[t] :
       /\ list' = [list EXCEPT ![t] = @ \ {o}]
       /\ live' = live \cup {o}
  /\ UNCHANGED <<vars, max_size, overages, op>>

(* Mutant: the quota is fetched, not at most a batch. *)
MallocSlowGreedy(t) ==
  /\ op[t] = "none" /\ list[t] = {}
  /\ UseThreadCache(t)
  /\ CallFetch(t, max_size[t])
  /\ Begin(t, "fetch")
  /\ UNCHANGED <<list, max_size, overages, live>>

MallocSlow(t) ==
  /\ op[t] = "none" /\ list[t] = {}
  /\ UseThreadCache(t)
  /\ CallFetch(t, IF Batch < max_size[t] THEN Batch ELSE max_size[t])
  /\ Begin(t, "fetch")
  /\ UNCHANGED <<list, max_size, overages, live>>

MallocReturns(t) ==
  /\ op[t] = "fetch" /\ Return(t)
  /\ \E o \in got[t] :
       /\ list' = [list EXCEPT ![t] = got[t] \ {o}]
       /\ live' = live \cup {o}
  /\ max_size' = [max_size EXCEPT ![t] = TC(t)!GrownQuota(@)]
  /\ overages' = [overages EXCEPT ![t] = 0]
  /\ Begin(t, "none")
  /\ UNCHANGED tls

(* Mutant: the object stays with the program. *)
FreeFastKeeps(t, o) ==
  /\ op[t] = "none" /\ o \in live /\ ~terminated
  /\ UseThreadCache(t)
  /\ Cardinality(list[t]) + 1 <= max_size[t]
  /\ list' = [list EXCEPT ![t] = @ \cup {o}]
  /\ UNCHANGED <<vars, max_size, overages, op, live>>

(***************************************************************************)
(* am_free.  The list is a stack: a trim pops o first.                     *)
(***************************************************************************)
FreeFast(t, o) ==
  /\ op[t] = "none" /\ o \in live /\ ~terminated
  /\ UseThreadCache(t)
  /\ Cardinality(list[t]) + 1 <= max_size[t]
  /\ live' = live \ {o}
  /\ list' = [list EXCEPT ![t] = @ \cup {o}]
  /\ UNCHANGED <<vars, max_size, overages, op>>

FreeSlow(t, o) ==
  /\ op[t] = "none" /\ o \in live
  /\ UseThreadCache(t)
  /\ Cardinality(list[t]) + 1 > max_size[t]
  /\ \E S \in SUBSET list[t] :
       /\ Cardinality(S) + 1 = TC(t)!Trimmed(Cardinality(list[t]) + 1)
       /\ CallRelease(t, S \cup {o})
       /\ list' = [list EXCEPT ![t] = @ \ S]
  /\ live' = live \ {o}
  /\ Begin(t, "trim")
  /\ UNCHANGED <<max_size, overages>>

(* Mutant: the overage count is reset by every trim. *)
TrimReturnsForgets(t) ==
  /\ op[t] = "trim" /\ Return(t)
  /\ max_size' = [max_size EXCEPT ![t] = TC(t)!DecayedQuota(@, overages[t])]
  /\ overages' = [overages EXCEPT ![t] = 0]
  /\ Begin(t, "none")
  /\ UNCHANGED <<list, tls, live>>

TrimReturns(t) ==
  /\ op[t] = "trim" /\ Return(t)
  /\ max_size' = [max_size EXCEPT ![t] = TC(t)!DecayedQuota(@, overages[t])]
  /\ overages' = [overages EXCEPT ![t] = TC(t)!NextOverages(max_size[t], @)]
  /\ Begin(t, "none")
  /\ UNCHANGED <<list, tls, live>>

(* am_free in a thread whose ThreadCache is gone goes to CentralCache. *)
FreeLate(t, o) ==
  /\ op[t] = "none" /\ o \in live
  /\ tls[t] = "gone"
  /\ CallRelease(t, {o})
  /\ live' = live \ {o}
  /\ Begin(t, "late")
  /\ UNCHANGED <<list, max_size, overages, tls>>

LateReturns(t) ==
  /\ op[t] = "late" /\ Return(t)
  /\ Begin(t, "none")
  /\ UNCHANGED <<list, max_size, overages, tls, live>>

(***************************************************************************)
(* The thread-local destructors of a thread that exits.  ThreadCacheCleaner*)
(* drains the list, if the implementation has ever initialised tc_cleaner: *)
(* nothing in ammalloc.cpp uses it, so a compiler that initialises         *)
(* thread-local variables on first use never registers its destructor.     *)
(***************************************************************************)
ThreadExit(t) ==
  /\ op[t] = "none" /\ tls[t] # "gone" /\ ~terminated
  /\ tls' = [tls EXCEPT ![t] = "gone"]
  /\ IF CleanerRegistered /\ list[t] # {}
     THEN /\ CallRelease(t, list[t])
          /\ list' = [list EXCEPT ![t] = {}]
          /\ Begin(t, "drain")
     ELSE UNCHANGED <<vars, list, op>>
  /\ UNCHANGED <<max_size, overages, live>>

DrainReturns(t) ==
  /\ op[t] = "drain" /\ Return(t)
  /\ max_size' = [max_size EXCEPT ![t] = 1]
  /\ overages' = [overages EXCEPT ![t] = 0]
  /\ Begin(t, "none")
  /\ UNCHANGED <<list, tls, live>>

(* Steps inside CentralCache, and its teardown. *)
CentralStep(t) == (FetchStep(t) \/ ReleaseStep(t)) /\ UNCHANGED front

CentralReset == Reset /\ UNCHANGED front

SmallNext ==
  \/ \E t \in Threads :
       \/ MallocFast(t) \/ MallocSlow(t) \/ MallocReturns(t)
       \/ \E o \in live : FreeFast(t, o) \/ FreeSlow(t, o) \/ FreeLate(t, o)
       \/ TrimReturns(t) \/ LateReturns(t)
       \/ ThreadExit(t) \/ DrainReturns(t)
       \/ CentralStep(t)
  \/ CentralReset

SmallSpec == SmallInit /\ [][SmallNext]_allVars

Symmetry == Permutations(Threads) \cup Permutations(Spans)

-----------------------------------------------------------------------------
SmallTypeOK ==
  /\ TypeOK
  /\ list \in [Threads -> SUBSET Objects]
  /\ max_size \in [Threads -> 1 .. (Batch * QuotaScale)]
  /\ overages \in [Threads -> 0 .. 2]
  /\ op \in [Threads -> {"none", "fetch", "trim", "drain", "late"}]
  /\ tls \in [Threads -> {"none", "cached", "gone"}]
  /\ live \in SUBSET Objects

(***************************************************************************)
(* What CentralCache counts as outside is exactly what the program has and *)
(* what the thread caches hold, each object once.  With OwnedOnce, am_malloc*)
(* never returns an object that the program already has, even when threads *)
(* free each other's objects.                                              *)
(***************************************************************************)
CachesApart ==
  /\ out = live \cup UNION {list[t] : t \in Threads}
  /\ \A t \in Threads :
       /\ list[t] \cap live = {}
       /\ \A u \in Threads \ {t} : list[t] \cap list[u] = {}

(* The list of every thread follows the quota policy of module ThreadCache. *)
FollowsPolicy ==
  /\ \A t \in Threads : TC(t)!Init
  /\ [][\A t \in Threads : TC(t)!Next \/ UNCHANGED TC(t)!vars]_allVars

(* CentralCache is only called as module CentralCache describes. *)
UsesCentralCache == Spec

=============================================================================
