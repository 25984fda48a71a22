---------------------------- MODULE SpanObjects ----------------------------
(***************************************************************************)
(* What a Span promises to CentralCache: a set of numbered object slots    *)
(* from which AllocObject takes the lowest free one, and fails only when   *)
(* none is free.                                                           *)
(***************************************************************************)
EXTENDS Integers

CONSTANTS MaxObjects, None

VARIABLES capacity, live, result

Free == (0 .. (capacity - 1)) \ live

IsLowest(o, S) == o \in S /\ \A p \in S : o <= p

Init == capacity = 0 /\ live = {} /\ result = None

(* The span is carved anew, when none of its objects is live. *)
Carve ==
  /\ live = {}
  /\ capacity' \in 1 .. MaxObjects
  /\ UNCHANGED <<live, result>>

Alloc ==
  \/ /\ IsLowest(result', Free)
     /\ live' = live \cup {result'}
     /\ UNCHANGED capacity
  \/ /\ Free = {}
     /\ result' = None
     /\ UNCHANGED <<live, capacity>>

Release ==
  /\ \E o \in live : live' = live \ {o}
  /\ UNCHANGED <<capacity, result>>

Next == Carve \/ Alloc \/ Release

Spec == Init /\ [][Next]_<<capacity, live, result>>

=============================================================================
