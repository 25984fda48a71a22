----------------------------- MODULE PageRanges -----------------------------
(***************************************************************************)
(* What PageCache promises: AllocSpan hands out ranges of pages that do    *)
(* not overlap a range another caller still has.                           *)
(***************************************************************************)
EXTENDS Naturals

CONSTANT LastPage

VARIABLE ranges   \* the ranges <<first page, number of pages>> in use

Pages == 1 .. LastPage
Range(r) == r[1] .. (r[1] + r[2] - 1)

Init == ranges = {}

Alloc(r) ==
  /\ Range(r) \subseteq Pages
  /\ \A q \in ranges : Range(q) \cap Range(r) = {}
  /\ ranges' = ranges \cup {r}

Release(r) ==
  /\ r \in ranges
  /\ ranges' = ranges \ {r}

Next == \E r \in Pages \X Pages : Alloc(r) \/ Release(r)

Spec == Init /\ [][Next]_ranges
=============================================================================
