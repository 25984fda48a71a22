------------------------------ MODULE PagePool ------------------------------
(***************************************************************************)
(* What the huge page cache promises: a bounded pool in which every page   *)
(* is with one thread, in the pool or not mapped, and moves in one step.   *)
(***************************************************************************)
EXTENDS Naturals, FiniteSets

CONSTANTS Threads, Pages, Capacity

VARIABLES
  held,   \* held[t]: the pages of thread t
  stock,  \* the pages in the pool
  os      \* the pages that are not mapped

vars == <<held, stock, os>>

Init ==
  /\ held = [t \in Threads |-> {}]
  /\ stock = {}
  /\ os = Pages

Map(t, p) ==
  /\ p \in os
  /\ os' = os \ {p}
  /\ held' = [held EXCEPT ![t] = @ \cup {p}]
  /\ UNCHANGED stock

Unmap(t, p) ==
  /\ p \in held[t]
  /\ held' = [held EXCEPT ![t] = @ \ {p}]
  /\ os' = os \cup {p}
  /\ UNCHANGED stock

Put(t, p) ==
  /\ p \in held[t]
  /\ Cardinality(stock) < Capacity
  /\ held' = [held EXCEPT ![t] = @ \ {p}]
  /\ stock' = stock \cup {p}
  /\ UNCHANGED os

Get(t, p) ==
  /\ p \in stock
  /\ stock' = stock \ {p}
  /\ held' = [held EXCEPT ![t] = @ \cup {p}]
  /\ UNCHANGED os

Next ==
  \E t \in Threads, p \in Pages :
    Map(t, p) \/ Unmap(t, p) \/ Put(t, p) \/ Get(t, p)

Spec == Init /\ [][Next]_vars

=============================================================================
