----------------------------- MODULE MCProgress -----------------------------
(***************************************************************************)
(* Liveness of the components that wait: a bucket of CentralCache, the     *)
(* scavenger of PageCache, and the counters of ObjectHandles.  They share  *)
(* no state here; a behaviour runs the one that unit names, under the      *)
(* fairness its module states.                                             *)
(***************************************************************************)
EXTENDS Naturals, Sequences

CONSTANTS t1, t2, s1, s2, a, b, x1, x2, x3, o1, None

Threads == {t1, t2}

VARIABLES
  unit,
  tc, tc_capacity, span_list, lock, free, spans, out, pc, want, got, pre, rel,
  chunk, span, terminated,
  span_lists, start, num, used, committed, last_used, pool, page_map, mapped,
  live, op, req, cur, scav, stop, i, now, held, todo, clock,
  refs, strong, weak, made, alive, opc, src, dst, obj, old, aborted

(* Two threads and two spans of one object, a transfer cache of one. *)
Bucket == INSTANCE CentralCache WITH
  Spans <- {s1, s2}, capacity <- 1, Batch <- 1, kMaxBatchSize <- 1, TcCapacity <- 1,
  pool <- spans

(* Three pages and two span slots. *)
Cache == INSTANCE PageCache WITH
  LastPage <- 3, MaxRequest <- 3, MAX_PAGE_NUM <- 2, SpanIds <- {a, b},
  kIdleThresholdMs <- 1, MaxClock <- 1, TimeModulus <- 16, NodeAllocFails <- FALSE

(* Two threads that share three handles to one object. *)
Handles == INSTANCE ObjectHandles WITH
  Slots <- {x1, x2, x3}, Objects <- {o1}, NoObj <- None, CowObjects <- {}, pc <- opc

bucketVars == <<tc, tc_capacity, span_list, lock, free, spans, out, pc, want, got, pre,
                rel, chunk, span, terminated>>
cacheVars == <<span_lists, start, num, used, committed, last_used, pool, page_map, mapped,
               live, op, req, cur, scav, stop, i, now, held, todo, clock>>
handleVars == <<refs, strong, weak, made, alive, opc, src, dst, obj, old, aborted>>
allVars == <<unit, bucketVars, cacheVars, handleVars>>

Init ==
  /\ unit \in {"bucket", "cache", "handles"}
  /\ Bucket!Init /\ Cache!Init /\ Handles!Init

Next ==
  /\ UNCHANGED unit
  /\ \/ unit = "bucket" /\ Bucket!Next /\ UNCHANGED <<cacheVars, handleVars>>
     \/ unit = "cache" /\ Cache!Next /\ UNCHANGED <<bucketVars, handleVars>>
     \/ unit = "handles" /\ Handles!Next /\ UNCHANGED <<bucketVars, cacheVars>>

(* No fair action is enabled in the initial state of a unit that rests. *)
FairSpec ==
  Init /\ [][Next]_allVars /\ Bucket!Fairness /\ Cache!Fairness /\ Handles!Fairness

-----------------------------------------------------------------------------
(***************************************************************************)
(* Every FetchRange and ReleaseListToSpans returns, unless the process     *)
(* terminates: no path keeps the mutex, or waits for one it holds.         *)
(***************************************************************************)
OperationsReturn == Bucket!OperationsReturn

(* Stop joins the scavenger thread: it always leaves its loop. *)
StopReturns == Cache!StopReturns

(***************************************************************************)
(* An object without references is freed eventually: the last DecRef and   *)
(* the last DecWeakRef do not leave the storage to each other.             *)
(***************************************************************************)
NothingLeaks == Handles!NothingLeaks

=============================================================================
