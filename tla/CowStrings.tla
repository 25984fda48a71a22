---------------------------- MODULE CowStrings -----------------------------
(***************************************************************************)
(* The copy-on-write String of include/container/string.h and              *)
(* src/container/string.cpp: up to local_capacity_ characters inside the   *)
(* object, more of them in a reference-counted StringImpl that copies      *)
(* share.  The local buffer and capacity_ are the two members of a union:  *)
(* writing one loses the other.  All editing goes through replace_aux,     *)
(* which detaches, shifts the tail and moves back inside when it can.      *)
(***************************************************************************)
EXTENDS Integers, Sequences, FiniteSets

CONSTANTS local_capacity_, IncFactor, Chars, Texts, Capacities, Counts

VARIABLES core,      \* [str: handle -> string, impl: id -> characters]
          want       \* what each string should hold

Handles == {"a", "b"}

Garbage == 99

Ids == {"p1", "p2", "p3"}

Larger(i, j) == IF i >= j THEN i ELSE j

Fill(n, ch) == <<>> \o [i \in 1..n |-> ch]

Spread(cells, at, chars) ==
    <<>> \o [i \in 1..Len(cells) |->
                IF i \in at + 1 .. at + Len(chars) THEN chars[i - at] ELSE cells[i]]

IsLocal(m, h) == m.str[h].impl = "none"

Cells(m, h) == IF IsLocal(m, h) THEN m.str[h].local ELSE m.impl[m.str[h].impl]

Capacity(m, h) == IF IsLocal(m, h) THEN local_capacity_ ELSE m.str[h].cap

Chars1(m, h) == SubSeq(Cells(m, h), 1, m.str[h].size)

unique(m, h) == IsLocal(m, h) \/ \A o \in DOMAIN m.str \ {h} : m.str[o].impl # m.str[h].impl

Poke(m, h, at, chars) ==
    IF IsLocal(m, h) THEN [m EXCEPT !.str[h].local = Spread(@, at, chars)]
                     ELSE [m EXCEPT !.impl[m.str[h].impl] = Spread(@, at, chars)]

\* The local member of the union becomes the live one: capacity_ is lost.
InitLocalBuffer(m, h, chars) ==
    [m EXCEPT !.str[h].local = Spread(Fill(local_capacity_ + 1, 0), 0, chars), !.str[h].cap = Garbage]

SetCapacity(m, h, cap) ==
    [m EXCEPT !.str[h].cap = cap, !.str[h].local = Fill(local_capacity_ + 1, Garbage)]

\* impl_ = id; the last reference to the old one frees it.
SetImpl(m, h, id) ==
    LET held == {m.str[o].impl : o \in DOMAIN m.str \ {h}} \cup {id} IN
    [m EXCEPT !.str[h].impl = id, !.impl = [i \in DOMAIN @ \cap held |-> @[i]]]

Create(m, id, cap, chars) ==
    [m EXCEPT !.impl = [i \in DOMAIN @ \cup {id} |->
        IF i = id THEN Spread(Fill(cap + 1, 0), 0, chars) ELSE @[i]]]

SwitchContainer(m, h, cap) ==
    LET id == CHOOSE i \in Ids : i \notin DOMAIN m.impl IN
    SetCapacity(SetImpl(Create(m, id, cap, Chars1(m, h)), h, id), h, cap)

COW(m, h, delta) ==
    LET size == m.str[h].size + delta
        cap == Capacity(m, h)
        wider == IF size > cap THEN Larger(size, cap * IncFactor) ELSE cap
    IN IF (delta > 0 /\ size > cap) \/ ~unique(m, h)
         THEN SwitchContainer(m, h, IF delta > 0 THEN wider ELSE cap) ELSE m

MoveInside(m, h) == SetImpl(InitLocalBuffer(m, h, Chars1(m, h)), h, "none")

Limit(m, h, pos, n) == IF m.str[h].size - pos > n THEN n ELSE m.str[h].size - pos

replace_aux(m, h, pos, count, n2) ==
    LET n1 == Limit(m, h, pos, count)
        delta == n2 - n1
        tail == SubSeq(Chars1(m, h), pos + n1 + 1, m.str[h].size)
        edited == [Poke(COW(m, h, delta), h, pos + n2, tail) EXCEPT !.str[h].size = @ + delta]
    IN IF n1 = 0 /\ n2 = 0 THEN m
       ELSE IF ~IsLocal(edited, h) /\ edited.str[h].size <= local_capacity_
         THEN MoveInside(edited, h) ELSE edited

\* A source is read after replace_aux, from wherever it points to then.
Fetch(m, p) ==
    IF p.at = "literal" THEN p.chars
    ELSE IF p.at \in DOMAIN m.impl THEN SubSeq(m.impl[p.at], 1, p.n)
    ELSE IF p.at \in Handles THEN SubSeq(m.str[p.at].local, 1, p.n)
    ELSE Fill(p.n, Garbage)

PointerTo(m, h) == [at |-> IF IsLocal(m, h) THEN h ELSE m.str[h].impl,
                    n |-> m.str[h].size, chars |-> <<>>]

Literal(t) == [at |-> "literal", n |-> Len(t), chars |-> t]

replace(m, h, pos, count, p) ==
    LET n1 == Limit(m, h, pos, count) IN
    IF count = p.n /\ SubSeq(Chars1(m, h), pos + 1, pos + n1) = Fetch(m, p) THEN m
    ELSE LET moved == replace_aux(m, h, pos, count, p.n) IN Poke(moved, h, pos, Fetch(moved, p))

replaceFill(m, h, pos, count, n, ch) ==
    Poke(replace_aux(m, h, pos, count, n), h, pos, Fill(n, ch))

erase(m, h, pos, n) ==
    IF pos = m.str[h].size THEN m ELSE replace_aux(m, h, pos, Limit(m, h, pos, n), 0)

resize(m, h, n, ch) ==
    IF n > m.str[h].size THEN replaceFill(m, h, m.str[h].size, 0, n - m.str[h].size, ch)
                         ELSE [m EXCEPT !.str[h].size = n]

reserve(m, h, n) == IF n > Capacity(m, h) THEN SwitchContainer(m, h, n) ELSE m

shrink_to_fit(m, h) ==
    IF IsLocal(m, h) THEN m
    ELSE IF m.str[h].size <= local_capacity_ THEN MoveInside(m, h)
    ELSE SwitchContainer(m, h, m.str[h].size)

clear(m, h) == SetImpl([m EXCEPT !.str[h].size = 0], h, "none")

Blank == [local |-> Fill(local_capacity_ + 1, Garbage), cap |-> 0, size |-> 0, impl |-> "none"]

Construct(m, h, chars) ==
    LET bare == [SetImpl(m, h, "none") EXCEPT !.str[h] = Blank]
        id == CHOOSE i \in Ids : i \notin DOMAIN bare.impl
        sized(n) == [n EXCEPT !.str[h].size = Len(chars)]
    IN IF Len(chars) > local_capacity_
         THEN sized(SetCapacity(SetImpl(Create(bare, id, Len(chars), chars), h, id), h, Len(chars)))
         ELSE sized(InitLocalBuffer(bare, h, chars))

CopyConstruct(m, h, o) ==
    LET bare == [m EXCEPT !.str[h] = [Blank EXCEPT !.size = m.str[o].size, !.impl = m.str[o].impl]] IN
    IF IsLocal(m, o) THEN InitLocalBuffer(bare, h, Chars1(m, o)) ELSE SetCapacity(bare, h, m.str[o].cap)

MoveConstruct(m, h, o) ==
    LET taken == CopyConstruct(m, h, o) IN
    IF IsLocal(m, o) THEN [taken EXCEPT !.str[o].size = 0]
    ELSE SetCapacity([taken EXCEPT !.str[o].size = 0, !.str[o].impl = "none"], o, 0)

swap(m, h, o) ==
    LET Local(n, to, from) == IF IsLocal(m, from)
                                THEN (IF m.str[from].size = 0 /\ IsLocal(m, to) THEN n
                                      ELSE InitLocalBuffer(n, to, Chars1(m, from)))
                                ELSE SetCapacity(n, to, m.str[from].cap)
    IN [Local(Local(m, h, o), o, h) EXCEPT
          !.str[h].impl = m.str[o].impl, !.str[o].impl = m.str[h].impl,
          !.str[h].size = m.str[o].size, !.str[o].size = m.str[h].size]

\* Both assignments build a temporary and swap with it.
Assign(m, h, Build(_)) ==
    LET swapped == swap(Build(m), h, "tmp") IN [SetImpl(swapped, "tmp", "none") EXCEPT !.str["tmp"] = Blank]

----------------------------------------------------------------------------
(* The transitions, each with what it should do to the value. *)

\* Names of implementations and cells nobody may read mean nothing between operations.
Known(cells, n) == <<>> \o [i \in DOMAIN cells |-> IF i <= n THEN cells[i] ELSE Garbage]

Longest(m, id) == LET lens == {m.str[h].size : h \in {o \in DOMAIN m.str : m.str[o].impl = id}} IN
    CHOOSE n \in lens : \A k \in lens : k <= n

Settle(m) ==
    LET name(h) == IF IsLocal(m, h) THEN "none"
                   ELSE IF h = "b" /\ m.str["a"].impl # m.str["b"].impl THEN "p2" ELSE "p1"
    IN [str |-> [h \in DOMAIN m.str |->
                   [m.str[h] EXCEPT !.impl = name(h),
                                    !.local = IF IsLocal(m, h) THEN Known(@, m.str[h].size)
                                                               ELSE Known(@, 0)]],
        impl |-> [i \in {name(h) : h \in {o \in Handles : ~IsLocal(m, o)}} |->
                    LET h == CHOOSE o \in Handles : name(o) = i
                    IN Known(m.impl[m.str[h].impl], Longest(m, m.str[h].impl))]]

Becomes(h, m, value) == core' = Settle(m) /\ want' = [want EXCEPT ![h] = value]

Splice(value, pos, n, chars) ==
    SubSeq(value, 1, pos) \o chars \o SubSeq(value, pos + n + 1, Len(value))

Clamp(h, pos, n) == IF n <= Len(want[h]) - pos THEN n ELSE Len(want[h]) - pos

Replaces(h) == \E pos \in 0..Len(want[h]), n \in Counts :
    \/ \E t \in Texts : Becomes(h, replace(core, h, pos, n, Literal(t)),
                                Splice(want[h], pos, Clamp(h, pos, n), t))
    \/ \E o \in Handles \ {h} : Becomes(h, replace(core, h, pos, n, PointerTo(core, o)),
                                        Splice(want[h], pos, Clamp(h, pos, n), want[o]))
    \/ \E k \in Counts, ch \in Chars : Becomes(h, replaceFill(core, h, pos, n, k, ch),
                                               Splice(want[h], pos, Clamp(h, pos, n), Fill(k, ch)))
    \/ Becomes(h, erase(core, h, pos, n), Splice(want[h], pos, Clamp(h, pos, n), <<>>))

\* Appending a string to itself, where it fits or where another string keeps the old characters.
AppendsItself(h) ==
    /\ 2 * Len(want[h]) <= Capacity(core, h) \/ ~unique(core, h)
    /\ Becomes(h, replace(core, h, core.str[h].size, 0, PointerTo(core, h)), want[h] \o want[h])

Resizes(h) ==
    \/ \E n \in Capacities, ch \in Chars :
         Becomes(h, resize(core, h, n, ch), IF n <= Len(want[h]) THEN SubSeq(want[h], 1, n)
                                            ELSE want[h] \o Fill(n - Len(want[h]), ch))
    \/ \E n \in Capacities : Becomes(h, reserve(core, h, n), want[h])
    \/ Becomes(h, shrink_to_fit(core, h), want[h])
    \/ Becomes(h, clear(core, h), <<>>)
    \/ \E t \in Texts : Becomes(h, Construct(core, h, t), t)

Transfers(h, o) ==
    \/ Becomes(h, Assign(core, h, LAMBDA m : CopyConstruct(m, "tmp", o)), want[o])
    \/ /\ core' = Settle(Assign(core, h, LAMBDA m : MoveConstruct(m, "tmp", o)))
       /\ want' = [want EXCEPT ![h] = want[o], ![o] = <<>>]
    \/ core' = Settle(swap(core, h, o)) /\ want' = [want EXCEPT ![h] = want[o], ![o] = want[h]]

Init ==
    /\ core = [str |-> [h \in Handles \cup {"tmp"} |-> Blank], impl |-> [i \in {} |-> <<>>]]
    /\ want = [h \in Handles |-> <<>>]

Edit(h) == Replaces(h) \/ AppendsItself(h) \/ Resizes(h)

Next == \E h \in Handles : Edit(h) \/ \E o \in Handles \ {h} : Transfers(h, o)

----------------------------------------------------------------------------
(* Each String holds exactly what the operations on it say (string.cpp      *)
(* replace_aux, COW, swap): an edit never shows through a copy that shares  *)
(* the StringImpl, a source taken from the other string is read intact      *)
(* although the edit detaches or frees what it shared, and the move between *)
(* local buffer and implementation loses nothing of the union.              *)
CopiesAreValues ==
    \A h \in Handles :
        /\ Chars1(core, h) = want[h]
        /\ core.str[h].size <= Capacity(core, h)
        /\ Len(Cells(core, h)) = Capacity(core, h) + 1
=============================================================================
