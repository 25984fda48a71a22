------------------------------ MODULE Strings ------------------------------
(***************************************************************************)
(* amstring: BasicStringCore (include/amstring/core.hpp) over the two      *)
(* storage layouts (char_layout_policy.hpp, generic_layout_policy.hpp) and *)
(* the growth policy, with the editing operations of BasicString on top.   *)
(*                                                                         *)
(* A storage is the union the code declares: either kSmallCapacity inline  *)
(* characters followed by the probe cell, or a block of the heap, a size   *)
(* and a capacity word.  The top ProbeBits of the last word are the probe  *)
(* in both cases, and everything (category, size, capacity) is decoded     *)
(* from it.  A character is a natural number, 0 the terminator, Garbage a  *)
(* cell nobody has written.  A pointer names a block (or the inline cells  *)
(* of a string) and an offset, so that a source inside the string itself   *)
(* is a source the operation may move, overwrite or free.                  *)
(***************************************************************************)
EXTENDS Integers, Sequences, FiniteSets

CONSTANTS kSmallCapacity, kMinHeapCapacity, LargeCapacityThreshold,
          PageChars,       \* kPageSizeBytes / sizeof(CharT)
          SizeBits, ProbeBits, Chars, Texts, Capacities, Counts

VARIABLES core,            \* [str: handle -> string, heap: block -> block, bad]
          mode,            \* layout and allocator traits, fixed at compile time
          want             \* what each string should hold

Handles == {"a", "b"}

Blocks == {"p1", "p2", "p3", "p4"}

Garbage == 99

Throw == -1

Larger(i, j) == IF i >= j THEN i ELSE j

----------------------------------------------------------------------------
(* The capacity word and the probe. *)

kExternalTag == IF mode.layout = "char" THEN 2 ^ (ProbeBits - 1) ELSE kSmallCapacity + 1

PayloadBits == IF mode.layout = "char" THEN SizeBits - 2 ELSE SizeBits - ProbeBits

max_external_capacity == 2 ^ PayloadBits - 1

PackCapacityWithTag(cap) == cap + kExternalTag * 2 ^ (SizeBits - ProbeBits)

UnpackCapacity(word) == word % 2 ^ PayloadBits

Probe(s) == s.word \div 2 ^ (SizeBits - ProbeBits)

is_small(s) == Probe(s) <= kSmallCapacity

is_external(s) == IF mode.layout = "char" THEN Probe(s) \div 2 ^ (ProbeBits - 2) = 2
                                          ELSE Probe(s) = kExternalTag

SizeOf(s) == IF is_small(s) THEN kSmallCapacity - Probe(s) ELSE s.size

CapacityOf(s) == IF is_small(s) THEN kSmallCapacity ELSE UnpackCapacity(s.word)

SmallWord(cell) == cell * 2 ^ (SizeBits - ProbeBits)

----------------------------------------------------------------------------
(* Reading and writing cells; offsets count from 0 as in the code. *)

Place(m, h) == IF is_small(m.str[h]) THEN h ELSE m.str[h].data

Cells(m, h) == LET s == m.str[h] IN
    IF is_small(s) THEN Append(s.inline, Probe(s)) ELSE m.heap[s.data].cells

Spread(cells, at, chars) ==
    <<>> \o [i \in 1..Len(cells) |->
                IF i \in at + 1 .. at + Len(chars) THEN chars[i - at] ELSE cells[i]]

Fill(n, ch) == <<>> \o [i \in 1..n |-> ch]

Poke(m, h, at, chars) ==
    LET cells == Spread(Cells(m, h), at, chars) IN
    IF is_small(m.str[h])
      THEN [m EXCEPT !.str[h].inline = SubSeq(cells, 1, kSmallCapacity),
                     !.str[h].word = SmallWord(cells[kSmallCapacity + 1])]
      ELSE [m EXCEPT !.heap[m.str[h].data].cells = cells]

Literal(chars) == [place |-> "literal", off |-> 0, chars |-> chars]

PointerTo(m, h, off) == [place |-> Place(m, h), off |-> off, chars |-> <<>>]

\* n characters at p; a block that has been freed holds nothing defined.
Fetch(m, p, n) ==
    IF p.place = "literal" THEN SubSeq(p.chars, 1, n)
    ELSE IF p.place \in Handles THEN SubSeq(Cells(m, p.place), p.off + 1, p.off + n)
    ELSE IF p.place \in DOMAIN m.heap
      THEN SubSeq(m.heap[p.place].cells, p.off + 1, p.off + n)
      ELSE Fill(n, Garbage)

\* Mutant: the first character is taken to lie outside.
PointerInRangeAfter(m, p, h, length) == p.place = Place(m, h) /\ p.off \in 1 .. length - 1

PointerInRange(m, p, h, length) == p.place = Place(m, h) /\ p.off < length

\* Traits::copy is undefined when the ranges overlap, Traits::move is not.
CopyTo(m, h, at, p, n) ==
    Poke(m, h, at, IF p.place = Place(m, h) /\ at < p.off + n /\ p.off < at + n /\ at # p.off
                     THEN Fill(n, Garbage) ELSE Fetch(m, p, n))

MoveTo(m, h, at, p, n) == Poke(m, h, at, Fetch(m, p, n))

InitSmall(m, h, chars) ==
    [m EXCEPT !.str[h] = [inline |-> Spread(Fill(kSmallCapacity, 0), 0, chars), data |-> "none",
                          size |-> 0, word |-> SmallWord(kSmallCapacity - Len(chars)),
                          alloc |-> m.str[h].alloc]]

InitEmpty(m, h) == InitSmall(m, h, <<>>)

InitExternal(m, h, block, size, cap) ==
    [m EXCEPT !.str[h] = [inline |-> <<>>, data |-> block, size |-> size,
                          word |-> PackCapacityWithTag(cap), alloc |-> m.str[h].alloc],
              !.heap[block].cells[size + 1] = 0]

SetSize(m, h, n) ==
    IF is_small(m.str[h])
      THEN [Poke(m, h, n, <<0>>) EXCEPT !.str[h].word = SmallWord(kSmallCapacity - n)]
      ELSE [Poke(m, h, n, <<0>>) EXCEPT !.str[h].size = n]

----------------------------------------------------------------------------
(* Capacities. *)

EnsureExternalCapacity(cap) == IF cap > max_external_capacity THEN Throw ELSE cap

CheckedMinHeapCapacity(required) ==
    IF required > max_external_capacity THEN Throw
    ELSE EnsureExternalCapacity(Larger(required, kMinHeapCapacity))

NextCapacity(old, required) ==
    IF required <= old THEN old
    ELSE Larger(required, Larger(old + old \div 2, kMinHeapCapacity))

LargeNextCapacity(old, required) == Larger(required, old + Larger(old \div 4, 1))

IsLargeCapacity(cap) == cap >= LargeCapacityThreshold

RoundUpCapacityToPage(cap) ==
    EnsureExternalCapacity(((cap + PageChars) \div PageChars) * PageChars - 1)

CheckedNextCapacity(old, required) ==
    LET cap == IF IsLargeCapacity(old) THEN LargeNextCapacity(old, required)
                                       ELSE NextCapacity(old, required)
    IN IF Throw \in {EnsureExternalCapacity(required), EnsureExternalCapacity(cap)} THEN Throw
       ELSE IF IsLargeCapacity(cap) THEN RoundUpCapacityToPage(cap) ELSE cap

----------------------------------------------------------------------------
(* Blocks: allocation, and the move of a string from one place to another. *)

Fresh(m) == CHOOSE i \in Blocks : i \notin DOMAIN m.heap

Block(m, h, cap, chars) ==
    [m EXCEPT !.heap = [i \in DOMAIN m.heap \cup {Fresh(m)} |->
        IF i = Fresh(m) THEN [alloc |-> m.str[h].alloc,
                              cells |-> Spread(Fill(cap + 1, Garbage), 0, chars)]
                        ELSE m.heap[i]]]

\* Deallocating with another allocator or another count is an error of the string.
deallocate(m, h, block, count) ==
    [m EXCEPT !.heap = [i \in DOMAIN m.heap \ {block} |-> m.heap[i]],
              !.bad = \/ @
                      \/ block \notin DOMAIN m.heap
                      \/ m.heap[block].alloc # m.str[h].alloc
                      \/ Len(m.heap[block].cells) # count]

DestroyHeapIfNeeded(m, h) ==
    IF is_external(m.str[h])
      THEN InitEmpty(deallocate(m, h, m.str[h].data, CapacityOf(m.str[h]) + 1), h)
      ELSE m

\* The new block is filled before the old one is given back.
TakeBlock(m, h, cap, chars) ==
    InitExternal(DestroyHeapIfNeeded(Block(m, h, cap, chars), h), h, Fresh(m), Len(chars), cap)

Reallocate(m, h, cap) ==
    TakeBlock(m, h, cap, SubSeq(Cells(m, h), 1, SizeOf(m.str[h])))

MoveStorageFrom(m, h, o) == LET s == m.str[o] IN
    IF is_small(s)
      THEN InitEmpty(InitSmall(m, h, SubSeq(Cells(m, o), 1, SizeOf(s))), o)
      ELSE InitEmpty(InitExternal(m, h, s.data, s.size, CapacityOf(s)), o)

\* The constructor from a range, into a handle whose previous string is gone.
ConstructFrom(m, h, chars) ==
    IF Len(chars) <= kSmallCapacity THEN InitSmall(m, h, chars)
    ELSE LET cap == CheckedMinHeapCapacity(Len(chars)) IN
         InitExternal(Block(m, h, cap, chars), h, Fresh(m), Len(chars), cap)

SwapStorage(m, h, o) ==
    [m EXCEPT !.str[h] = [m.str[o] EXCEPT !.alloc = m.str[h].alloc],
              !.str[o] = [m.str[h] EXCEPT !.alloc = m.str[o].alloc]]

\* Build a temporary with h's allocator, swap it in, destroy what comes out.
ViaTemporary(m, h, Build(_)) ==
    LET tmp == Build(InitEmpty([m EXCEPT !.str["tmp"].alloc = m.str[h].alloc], "tmp"))
    IN InitEmpty(DestroyHeapIfNeeded(SwapStorage(tmp, "tmp", h), "tmp"), "tmp")

----------------------------------------------------------------------------
(* The operations of BasicStringCore.  One that throws returns m. *)

DestroyAndConstruct(m, h, chars) == ConstructFrom(InitEmpty(DestroyHeapIfNeeded(m, h), h), h, chars)

CopyConstruct(m, h, o) ==
    LET s == m.str[o]
        chars == SubSeq(Cells(m, o), 1, SizeOf(s))
        bare == InitEmpty([DestroyHeapIfNeeded(m, h) EXCEPT !.str[h].alloc = s.alloc], h)
    IN IF is_small(s) THEN InitSmall(bare, h, chars)
       ELSE InitExternal(Block(bare, h, CapacityOf(s), chars), h, Fresh(bare), s.size, CapacityOf(s))

MoveConstruct(m, h, o) ==
    MoveStorageFrom([DestroyHeapIfNeeded(m, h) EXCEPT !.str[h].alloc = m.str[o].alloc], h, o)

CopyAssign(m, h, o) ==
    LET chars == SubSeq(Cells(m, o), 1, SizeOf(m.str[o])) IN
    IF mode.copy
      THEN LET tmp == ConstructFrom([m EXCEPT !.str["tmp"].alloc = m.str[o].alloc], "tmp", chars)
               bare == InitEmpty(DestroyHeapIfNeeded(tmp, h), h)
           IN MoveStorageFrom([bare EXCEPT !.str[h].alloc = m.str[o].alloc], h, "tmp")
      ELSE ViaTemporary(m, h, LAMBDA t : ConstructFrom(t, "tmp", chars))

\* Mutant: the target's own block is not given back.
MoveAssignLeaks(m, h, o) == MoveStorageFrom(InitEmpty(m, h), h, o)

MoveAssign(m, h, o) ==
    LET bare == InitEmpty(DestroyHeapIfNeeded(m, h), h)
        chars == SubSeq(Cells(m, o), 1, SizeOf(m.str[o]))
        cap == CheckedMinHeapCapacity(Len(chars))
    IN IF mode.move THEN MoveStorageFrom([bare EXCEPT !.str[h].alloc = m.str[o].alloc], h, o)
       ELSE IF mode.equal \/ m.str[h].alloc = m.str[o].alloc THEN MoveStorageFrom(bare, h, o)
       ELSE InitEmpty(DestroyHeapIfNeeded(
                IF Len(chars) <= kSmallCapacity THEN InitSmall(bare, h, chars)
                                                ELSE TakeBlock(m, h, cap, chars), o), o)

swap(m, h, o) ==
    IF mode.swap THEN [m EXCEPT !.str[h] = m.str[o], !.str[o] = m.str[h]]
                 ELSE SwapStorage(m, h, o)

clear(m, h) == SetSize(m, h, 0)

reserve(m, h, cap) ==
    IF cap <= CapacityOf(m.str[h]) \/ cap > max_external_capacity THEN m ELSE Reallocate(m, h, cap)

resize(m, h, n, ch) ==
    LET sz == SizeOf(m.str[h])
        room == reserve(m, h, n)
    IN IF n < sz THEN SetSize(Poke(m, h, n, <<0>>), h, n)
       ELSE IF n = sz \/ n > CapacityOf(room.str[h]) THEN m
       ELSE SetSize(Poke(Poke(room, h, sz, Fill(n - sz, ch)), h, n, <<0>>), h, n)

shrink_to_fit(m, h) ==
    LET s == m.str[h]
        sz == SizeOf(s)
        cap == CapacityOf(s)
        target == IF IsLargeCapacity(cap) \/ IsLargeCapacity(sz) THEN RoundUpCapacityToPage(sz) ELSE sz
    IN IF cap <= kSmallCapacity \/ sz = cap THEN m
       ELSE IF sz <= kSmallCapacity
              THEN deallocate(InitSmall(m, h, SubSeq(Cells(m, h), 1, sz)), h, s.data, cap + 1)
       ELSE IF target # Throw /\ target < cap THEN Reallocate(m, h, target) ELSE m

assign(m, h, p, n) ==
    IF n > max_external_capacity THEN m
    ELSE IF n <= CapacityOf(m.str[h])
      THEN LET put == IF n = 0 THEN m
                      ELSE IF PointerInRange(m, p, h, SizeOf(m.str[h])) THEN MoveTo(m, h, 0, p, n)
                      ELSE CopyTo(m, h, 0, p, n)
           IN SetSize(Poke(put, h, n, <<0>>), h, n)
    ELSE IF CheckedMinHeapCapacity(n) = Throw THEN m
    ELSE ViaTemporary(m, h, LAMBDA t : ConstructFrom(t, "tmp", Fetch(m, p, n)))

append(m, h, p, n) ==
    LET s == m.str[h]
        sz == SizeOf(s)
        self == PointerInRange(m, p, h, sz)
        cap == CheckedNextCapacity(CapacityOf(s), sz + n)
        old == SubSeq(Cells(m, h), 1, sz)
    IN IF n = 0 \/ sz + n > max_external_capacity THEN m
       ELSE IF sz + n <= CapacityOf(s)
         THEN SetSize(Poke(IF self THEN MoveTo(m, h, sz, p, n) ELSE CopyTo(m, h, sz, p, n),
                           h, sz + n, <<0>>), h, sz + n)
       ELSE IF cap = Throw THEN m
       ELSE TakeBlock(m, h, cap, old \o (IF self THEN SubSeq(old, p.off + 1, p.off + n)
                                                 ELSE Fetch(m, p, n)))

appendFill(m, h, n, ch) ==
    LET s == m.str[h]
        sz == SizeOf(s)
        cap == CheckedNextCapacity(CapacityOf(s), sz + n)
        room == IF sz + n > CapacityOf(s) THEN Reallocate(m, h, cap) ELSE m
    IN IF n = 0 \/ sz + n > max_external_capacity \/ (sz + n > CapacityOf(s) /\ cap = Throw) THEN m
       ELSE SetSize(Poke(Poke(room, h, sz, Fill(n, ch)), h, sz + n, <<0>>), h, sz + n)

assignFill(m, h, n, ch) ==
    IF n > max_external_capacity THEN m
    ELSE IF n <= CapacityOf(m.str[h])
      THEN SetSize(Poke(Poke(m, h, 0, Fill(n, ch)), h, n, <<0>>), h, n)
    ELSE IF CheckedNextCapacity(kSmallCapacity, n) = Throw THEN m
    ELSE ViaTemporary(m, h, LAMBDA t : appendFill(t, "tmp", n, ch))

push_back(m, h, ch) ==
    LET s == m.str[h]
        sz == SizeOf(s)
        next == CheckedNextCapacity(CapacityOf(s), sz + 1)
    IN IF sz < CapacityOf(s)
         THEN SetSize(Poke(Poke(m, h, sz, <<ch>>), h, sz + 1, <<0>>), h, sz + 1)
       ELSE IF is_small(s)
         THEN TakeBlock(m, h, Larger(sz + 1, kMinHeapCapacity),
                        SubSeq(Cells(m, h), 1, kSmallCapacity) \o <<ch>>)
       ELSE IF next = Throw THEN m
       ELSE SetSize(Poke(Reallocate(m, h, next), h, sz, <<ch, 0>>), h, sz + 1)

pop_back(m, h) == LET sz == SizeOf(m.str[h]) IN IF sz = 0 THEN m ELSE SetSize(m, h, sz - 1)

----------------------------------------------------------------------------
(* replace_range, the one operation insert, erase and replace go through. *)

\* Move the tail and its terminator so that it follows pos + n.
ShiftTail(m, h, pos, erased, n) ==
    LET length == SizeOf(m.str[h]) - (pos + erased) + 1 IN
    MoveTo(m, h, pos + n, PointerTo(m, h, pos + erased), length)

ReplaceReallocateSlow(m, h, pos, erased, AppendMiddle(_), size) ==
    LET tail == SizeOf(m.str[h]) - pos - erased IN
    ViaTemporary(m, h, LAMBDA t :
        append(AppendMiddle(append(reserve(t, "tmp", size), "tmp", PointerTo(m, h, 0), pos)),
               "tmp", PointerTo(m, h, pos + erased), tail))

replace_range(m, h, pos, erased, p, n) ==
    LET old == SizeOf(m.str[h])
        new == old - erased + n
        filled == CopyTo(m, h, pos, p, n)
    IN IF new > max_external_capacity \/ (erased = 0 /\ n = 0) THEN m
       ELSE IF n = 0 THEN SetSize(ShiftTail(m, h, pos, erased, 0), h, new)
       ELSE IF PointerInRange(m, p, h, old + 1) \/ (n > erased /\ new > CapacityOf(m.str[h]))
         THEN ReplaceReallocateSlow(m, h, pos, erased, LAMBDA t : append(t, "tmp", p, n), new)
       ELSE IF n = erased THEN filled
       ELSE IF n < erased THEN SetSize(ShiftTail(filled, h, pos, erased, n), h, new)
       ELSE SetSize(CopyTo(ShiftTail(m, h, pos, erased, n), h, pos, p, n), h, new)

replaceFill(m, h, pos, erased, n, ch) ==
    LET old == SizeOf(m.str[h])
        new == old - erased + n
        filled == Poke(m, h, pos, Fill(n, ch))
    IN IF new > max_external_capacity \/ (erased = 0 /\ n = 0) THEN m
       ELSE IF n = 0 THEN SetSize(ShiftTail(m, h, pos, erased, 0), h, new)
       ELSE IF new > CapacityOf(m.str[h])
         THEN ReplaceReallocateSlow(m, h, pos, erased, LAMBDA t : appendFill(t, "tmp", n, ch), new)
       ELSE IF n = erased THEN filled
       ELSE IF n < erased THEN SetSize(ShiftTail(filled, h, pos, erased, n), h, new)
       ELSE SetSize(Poke(ShiftTail(m, h, pos, erased, n), h, pos, Fill(n, ch)), h, new)

\* BasicString clamps the count it is given to what follows pos.
ClampCount(total, pos, count) == IF count <= total - pos THEN count ELSE total - pos

----------------------------------------------------------------------------
(* The transitions: the operation on the storage, and what it should do to *)
(* the value, unless the result would exceed the largest capacity.         *)

\* What the string h holds, read through c_str() and size().
Value(m, h) == SubSeq(Cells(m, h), 1, SizeOf(m.str[h]))

Owners(m) == {h \in DOMAIN m.str : is_external(m.str[h])}

\* Every block has one owner.
OneOwnerEach(m) ==
    /\ {m.str[h].data : h \in Owners(m)} = DOMAIN m.heap
    /\ \A h, o \in Owners(m) : m.str[h].data = m.str[o].data => h = o

\* Between two operations nothing is known of the cells after a terminator, nor of
\* addresses: a block is named after its owner.
Known(cells, s) == <<>> \o [i \in DOMAIN cells |-> IF i <= SizeOf(s) + 1 THEN cells[i] ELSE Garbage]

NameOf == [a |-> "p1", b |-> "p2", tmp |-> "p3"]

Settle(m) ==
    IF ~OneOwnerEach(m) THEN m
    ELSE [m EXCEPT !.str = [h \in DOMAIN @ |->
                     IF is_small(@[h]) THEN [@[h] EXCEPT !.inline = Known(@, m.str[h])]
                                       ELSE [@[h] EXCEPT !.data = NameOf[h]]],
                   !.str["tmp"].alloc = 1,
                   !.heap = [i \in {NameOf[h] : h \in Owners(m)} |->
                     LET s == m.str[CHOOSE h \in Owners(m) : NameOf[h] = i] IN
                     [alloc |-> m.heap[s.data].alloc, cells |-> Known(m.heap[s.data].cells, s)]]]

Threw(m) == m = core

Becomes(h, m, value) ==
    /\ core' = Settle(m)
    /\ want' = IF Threw(m) /\ Len(value) + PageChars > max_external_capacity
                 THEN want ELSE [want EXCEPT ![h] = value]

Splice(value, pos, erased, chars) ==
    SubSeq(value, 1, pos) \o chars \o SubSeq(value, pos + erased + 1, Len(value))

\* The sources a caller may pass: a literal, the other string, or a part of h itself.
Sources(h) ==
    {[p |-> Literal(t), n |-> Len(t)] : t \in Texts}
    \cup {[p |-> PointerTo(core, o, 0), n |-> Len(want[o])] : o \in Handles \ {h}}
    \cup {[p |-> PointerTo(core, h, i), n |-> n] :
            i \in 0..Len(want[h]), n \in 1..Len(want[h])}

Whole(h, s) == s.p.place = Place(core, h) => s.p.off + s.n <= Len(want[h])

Given(h, s) == IF s.p.place = "literal" THEN s.p.chars
               ELSE IF s.p.place = Place(core, h) THEN SubSeq(want[h], s.p.off + 1, s.p.off + s.n)
               ELSE want[CHOOSE o \in Handles : o # h]

Constructs(h) == \E t \in Texts : Becomes(h, DestroyAndConstruct(core, h, t), t)

Appends(h) == \E s \in Sources(h) :
    Whole(h, s) /\ Becomes(h, append(core, h, s.p, s.n), want[h] \o Given(h, s))

Assigns(h) == \E s \in Sources(h) :
    Whole(h, s) /\ Becomes(h, assign(core, h, s.p, s.n), Given(h, s))

Replaces(h) == \E s \in Sources(h), pos \in 0..Len(want[h]), count \in Counts :
    LET erased == ClampCount(Len(want[h]), pos, count) IN
    /\ Whole(h, s)
    /\ Becomes(h, replace_range(core, h, pos, erased, s.p, s.n),
               Splice(want[h], pos, erased, Given(h, s)))

Fills(h) == \E n \in Counts, ch \in Chars :
    \/ Becomes(h, appendFill(core, h, n, ch), want[h] \o Fill(n, ch))
    \/ Becomes(h, assignFill(core, h, n, ch), Fill(n, ch))
    \/ \E pos \in 0..Len(want[h]), count \in Counts :
         LET erased == ClampCount(Len(want[h]), pos, count) IN
         Becomes(h, replaceFill(core, h, pos, erased, n, ch),
                 Splice(want[h], pos, erased, Fill(n, ch)))

Pushes(h) == \E ch \in Chars : Becomes(h, push_back(core, h, ch), Append(want[h], ch))

Pops(h) == Becomes(h, pop_back(core, h), SubSeq(want[h], 1, Len(want[h]) - 1))

Resizes(h) == \E n \in Capacities, ch \in Chars :
    Becomes(h, resize(core, h, n, ch),
            IF n <= Len(want[h]) THEN SubSeq(want[h], 1, n)
                                 ELSE want[h] \o Fill(n - Len(want[h]), ch))

Resizings(h) ==
    /\ \/ core' = Settle(clear(core, h)) /\ want' = [want EXCEPT ![h] = <<>>]
       \/ \E cap \in Capacities : core' = Settle(reserve(core, h, cap)) /\ want' = want
       \/ core' = Settle(shrink_to_fit(core, h)) /\ want' = want

Transfers(h, o) ==
    \/ core' = Settle(CopyConstruct(core, h, o)) /\ want' = [want EXCEPT ![h] = want[o]]
    \/ core' = Settle(CopyAssign(core, h, o)) /\ want' = [want EXCEPT ![h] = want[o]]
    \/ core' = Settle(MoveConstruct(core, h, o)) /\ want' = [want EXCEPT ![h] = want[o], ![o] = <<>>]
    \/ core' = Settle(MoveAssign(core, h, o)) /\ want' = [want EXCEPT ![h] = want[o], ![o] = <<>>]
    \/ /\ mode.swap \/ mode.equal \/ core.str[h].alloc = core.str[o].alloc
       /\ core' = Settle(swap(core, h, o)) /\ want' = [want EXCEPT ![h] = want[o], ![o] = want[h]]

Empty(alloc) == [inline |-> Fill(kSmallCapacity, 0), data |-> "none", size |-> 0,
                 word |-> SmallWord(kSmallCapacity), alloc |-> alloc]

Init ==
    /\ mode \in [layout : {"char", "generic"}, copy : {FALSE}, move : {FALSE}, swap : {FALSE}, equal : {FALSE}]
                \cup {[layout |-> "char", copy |-> TRUE, move |-> TRUE, swap |-> TRUE, equal |-> FALSE]}
    /\ core = [str |-> [h \in Handles \cup {"tmp"} |-> Empty(IF h = "b" THEN 2 ELSE 1)],
               heap |-> [i \in {} |-> 0], bad |-> FALSE]
    /\ want = [h \in Handles |-> <<>>]

Edit(h) == \/ Constructs(h) \/ Appends(h) \/ Assigns(h) \/ Replaces(h) \/ Fills(h)
           \/ Pushes(h) \/ Pops(h) \/ Resizes(h) \/ Resizings(h)

Next ==
    /\ \E h \in Handles : Edit(h) \/ \E o \in Handles \ {h} : Transfers(h, o)
    /\ UNCHANGED mode

----------------------------------------------------------------------------
(* Through every editing operation, a source inside the string itself      *)
(* included (core.hpp append, assign, replace_range), each string holds    *)
(* exactly what the operations say, followed by a terminator at its size   *)
(* and within its capacity, whichever layout and state it is in.           *)
StringsAreValues ==
    \A h \in Handles : LET s == core.str[h] IN
        /\ is_small(s) # is_external(s)
        /\ Value(core, h) = want[h]
        /\ Cells(core, h)[SizeOf(s) + 1] = 0

(* Every block of the heap belongs to exactly one string, was obtained from *)
(* that string's allocator with its capacity plus one, and is given back    *)
(* once, to the same allocator, with the same count                         *)
(* (DestroyHeapIfNeeded, Reallocate, move assignment between allocators).   *)
BlocksExact ==
    /\ ~core.bad
    /\ OneOwnerEach(core)
    /\ \A h \in Owners(core) : LET s == core.str[h] IN
         /\ core.heap[s.data].alloc = s.alloc
         /\ Len(core.heap[s.data].cells) = CapacityOf(s) + 1
=============================================================================
