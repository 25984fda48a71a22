---------------------------- MODULE SymbolSolver ----------------------------
(***************************************************************************)
(* SymbolConstraintSolver (symbol_constraint_solver.cpp): equality classes *)
(* of shape symbols kept as a union-find forest with union by rank, path   *)
(* compression and a static extent bound to the root of a class.           *)
(*                                                                         *)
(* solver holds the three vectors of the class; symbol s has index -s - 1  *)
(* in them (TLA+ sequences start at 1).  worlds is what the accepted       *)
(* equalities mean: the assignments of extents to symbols that satisfy     *)
(* all of them.                                                            *)
(***************************************************************************)
EXTENDS Shapes, FiniteSets

CONSTANTS NumSymbols,   \* the symbols are -2, -3, ..., -(NumSymbols + 1)
          Bindable      \* the static extents that are bound

VARIABLES solver, worlds

Unbound == -1
Symbols == {-i - 1 : i \in 1..NumSymbols}
Dims == Symbols \cup Bindable \cup {Unknown}
IsSymbolic(d) == d < Unknown

GetIndex(s) == -s - 1
Present(t, s) == GetIndex(s) <= Len(t.parents)
Parent(t, s) == t.parents[GetIndex(s)]
BindingOf(t, root) == t.static_bindings[GetIndex(root)]

(* EnsureSymbol: the vectors grow to the symbol, the gap being self-roots. *)
EnsureSymbol(t, s) ==
  LET n == Len(t.parents)
      gap == (n + 1)..GetIndex(s)
      Grown(seq, New(_)) == [i \in 1..(n + Cardinality(gap)) |->
                               IF i <= n THEN seq[i] ELSE New(i)]
  IN  [parents |-> Grown(t.parents, LAMBDA i : -i - 1),
       ranks |-> Grown(t.ranks, LAMBDA i : 0),
       static_bindings |-> Grown(t.static_bindings, LAMBDA i : Unbound)]

(* The chain of parents from a symbol to its root.                         *)
RECURSIVE PathOf(_, _)
PathOf(t, s) == IF Parent(t, s) = s THEN <<s>> ELSE <<s>> \o PathOf(t, Parent(t, s))
FindRootIfPresent(t, s) == PathOf(t, s)[Len(PathOf(t, s))]

(* FindRoot: every symbol of the chain is attached to the root.            *)
FindRoot(t, s) ==
  LET path == PathOf(t, s)
  IN  [t EXCEPT !.parents =
         [i \in DOMAIN @ |-> IF \E k \in DOMAIN path : i = GetIndex(path[k])
                             THEN path[Len(path)] ELSE @[i]]]

-----------------------------------------------------------------------------
Done(t) == [ok |-> TRUE, solver |-> t]
Refused(t) == [ok |-> FALSE, solver |-> t]

BindRoot(t, root, n) ==
  IF BindingOf(t, root) \in {Unbound, n}
  THEN Done([t EXCEPT !.static_bindings[GetIndex(root)] = n])
  ELSE Refused(t)

AddStatic(t, s, n) ==
  LET found == FindRoot(EnsureSymbol(t, s), s)
  IN  BindRoot(found, FindRootIfPresent(found, s), n)

\* Mutant: the binding of the class attached does not move to the root.
AttachForgets(t, root, child) ==
  [t EXCEPT !.parents[GetIndex(child)] = root,
            !.ranks[GetIndex(root)] = IF t.ranks[GetIndex(child)] = @ THEN @ + 1 ELSE @]

(* Attach child below root: union by rank, and the binding moves up.       *)
Attach(t, root, child) ==
  LET r == GetIndex(root)
      c == GetIndex(child)
      moves == t.static_bindings[c] # Unbound /\ t.static_bindings[r] = Unbound
  IN  [parents |-> [t.parents EXCEPT ![c] = root],
       ranks |-> [t.ranks EXCEPT ![r] = IF t.ranks[c] = @ THEN @ + 1 ELSE @],
       static_bindings |-> IF moves
                           THEN [t.static_bindings EXCEPT ![r] = t.static_bindings[c],
                                                          ![c] = Unbound]
                           ELSE t.static_bindings]

Unite(t, a, b) ==
  IF a = b THEN Done(t)
  ELSE IF /\ Unbound \notin {BindingOf(t, a), BindingOf(t, b)}
          /\ BindingOf(t, a) # BindingOf(t, b)
  THEN Refused(t)
  ELSE Done(IF t.ranks[GetIndex(a)] < t.ranks[GetIndex(b)]
            THEN Attach(t, b, a) ELSE Attach(t, a, b))

AddSymbols(t, a, b) ==
  LET found == FindRoot(FindRoot(EnsureSymbol(EnsureSymbol(t, a), b), a), b)
  IN  Unite(found, FindRootIfPresent(found, a), FindRootIfPresent(found, b))

AddEqual(t, a, b) ==
  IF IsStatic(a) /\ IsStatic(b) THEN [ok |-> a = b, solver |-> t]
  ELSE IF Unknown \in {a, b} THEN Done(t)
  ELSE IF IsStatic(a) THEN AddStatic(t, b, a)
  ELSE IF IsStatic(b) THEN AddStatic(t, a, b)
  ELSE AddSymbols(t, a, b)

-----------------------------------------------------------------------------
GetStaticBinding(t, d) ==
  IF IsStatic(d) THEN d
  ELSE IF ~IsSymbolic(d) \/ ~Present(t, d) THEN Unbound
  ELSE BindingOf(t, FindRootIfPresent(t, d))

Compared(m, n) ==
  IF Unbound \in {m, n} THEN "deferred" ELSE IF m = n THEN "satisfied" ELSE "violated"

EvaluateEqual(t, a, b) ==
  IF Unknown \in {a, b} THEN "deferred"
  ELSE IF /\ IsSymbolic(a) /\ IsSymbolic(b)
          /\ \/ a = b
             \/ /\ Present(t, a) /\ Present(t, b)
                /\ FindRootIfPresent(t, a) = FindRootIfPresent(t, b)
  THEN "satisfied"
  ELSE Compared(GetStaticBinding(t, a), GetStaticBinding(t, b))

-----------------------------------------------------------------------------
(* One extent more than the bound ones tells unequal symbols apart.        *)
Fresh == 1 + CHOOSE n \in Bindable : \A m \in Bindable : m <= n
Value(world, d) == IF IsStatic(d) THEN d ELSE world[d]
Agree(a, b) == {w \in worlds : Value(w, a) = Value(w, b)}

Init ==
  /\ solver = [parents |-> <<>>, ranks |-> <<>>, static_bindings |-> <<>>]
  /\ worlds = [Symbols -> Bindable \cup {Fresh}]

Add(a, b) ==
  LET result == AddEqual(solver, a, b)
  IN  /\ solver' = result.solver
      /\ worlds' = IF result.ok /\ Unknown \notin {a, b} THEN Agree(a, b) ELSE worlds

Next == \E a, b \in Dims : Add(a, b)

(* EvaluateEqual and AddEqual decide exactly what follows from the         *)
(* equalities accepted so far: an equality is satisfied when every         *)
(* assignment that is still possible makes it true, violated when none     *)
(* does, deferred otherwise, and AddEqual refuses exactly the violated     *)
(* ones; neither path compression nor a refusal changes an answer.         *)
SolverExact ==
  \A a, b \in Symbols \cup Bindable :
    LET answer == EvaluateEqual(solver, a, b)
    IN  /\ answer = (CASE Agree(a, b) = worlds -> "satisfied"
                       [] Agree(a, b) = {} -> "violated"
                       [] OTHER -> "deferred")
        /\ AddEqual(solver, a, b).ok <=> answer # "violated"
=============================================================================
