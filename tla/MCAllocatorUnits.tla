-------------------------- MODULE MCAllocatorUnits --------------------------
(***************************************************************************)
(* The parts of ammalloc that are checked on their own: the bitmap of a    *)
(* Span, the radix tree of PageMap, ObjectPool and PageAllocator.  They    *)
(* share no state; a behaviour exercises the one that unit names, and the  *)
(* others stay as they were initialised.                                   *)
(***************************************************************************)
EXTENDS Span, PageMap, ObjectPool, PageAllocator, TLC

VARIABLE unit

ASSUME Geometry == MapParameters /\ PoolParameters /\ AllocParameters

allVars == <<unit, vars, mapVars, poolVars, allocVars>>

UnitsInit ==
  /\ unit \in {"span", "map", "pool", "pages"}
  /\ Init /\ MapInit /\ PoolInit /\ AllocInit
  /\ unit # "span" => bitmap = [i \in Words |-> {}]

(* One step of the unit under test. *)
UnitsNext ==
  /\ UNCHANGED unit
  /\ \/ unit = "span" /\ Next /\ UNCHANGED <<mapVars, poolVars, allocVars>>
     \/ unit = "map" /\ MapNext /\ UNCHANGED <<vars, poolVars, allocVars>>
     \/ unit = "pool" /\ PoolNext /\ UNCHANGED <<vars, mapVars, allocVars>>
     \/ unit = "pages" /\ AllocNext /\ UNCHANGED <<vars, mapVars, poolVars>>

UnitsSpec == UnitsInit /\ [][UnitsNext]_allVars

Symmetry == Permutations(Threads)

=============================================================================
