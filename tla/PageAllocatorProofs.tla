------------------------ MODULE PageAllocatorProofs -------------------------
(***************************************************************************)
(* For any number of threads and pages, any size of a huge page and any    *)
(* requests: each mapped page has one holder, the counters balance, and    *)
(* what is not aligned was counted as a fallback.                          *)
(*                                                                         *)
(* The argument looks at one page: a step of a call gives its thread pages *)
(* that were not mapped, takes pages from it, or passes what it has in     *)
(* hand to the callers or to the cache, and leaves all other holders of    *)
(* the page as they were.  The cache must not hold a misaligned page, for  *)
(* SystemAlloc would drop it (Aligned); a call that fell back and has not  *)
(* returned yet is backed by the fallback it counted (Backed).             *)
(***************************************************************************)
EXTENDS PageAllocator, FiniteSetTheorems, SequenceTheorems, TLAPS

(* The holders of page p. *)
LiveAt(p) == {m \in held : p \in Extent(m[1], m[2])}
CachedAt(p) == {a \in cached : p \in Extent(a, HUGE)}
CallsAt(p) == {t \in Threads : p \in InHand(t)}

NoHolder(p) == p \notin leaked /\ LiveAt(p) = {} /\ CachedAt(p) = {} /\ CallsAt(p) = {}

OneHolder(p) ==
  IF p \notin mapped THEN NoHolder(p)
  ELSE \/ p \in leaked /\ LiveAt(p) = {} /\ CachedAt(p) = {} /\ CallsAt(p) = {}
       \/ p \notin leaked /\ CachedAt(p) = {} /\ CallsAt(p) = {} /\ \E m \in held : LiveAt(p) = {m}
       \/ p \notin leaked /\ LiveAt(p) = {} /\ CallsAt(p) = {} /\ \E a \in cached : CachedAt(p) = {a}
       \/ p \notin leaked /\ LiveAt(p) = {} /\ CachedAt(p) = {} /\ \E t \in Threads : CallsAt(p) = {t}

(* What a call knows of its locals. *)
Local(t) ==
  /\ pc[t] \in {"huge", "put"} => Aligned(addr[t])
  /\ pc[t] = "put" => size[t] = HUGE
  /\ pc[t] \in {"head", "tail"} => Extent(addr[t], size[t] + HUGE) \subseteq Pages
  /\ pc[t] = "cleanup" =>
       \/ Len(segs[t]) = 1
       \/ Len(segs[t]) = 2 /\ segs[t][1] \cap segs[t][2] = {}

(* The mappings that are not aligned, and the calls that may make one. *)
Misaligned == {m \in held : 2 * m[2] >= HUGE /\ ~Aligned(m[1])}
FallenBack == {t \in Threads : pc[t] = "normal" /\ 2 * size[t] >= HUGE}

(* Each of them is accounted for; the cache has none. *)
Backed ==
  /\ Cardinality(Misaligned) + Cardinality(FallenBack) <= stats["huge_fallback_to_normal_count"]
  /\ \A a \in cached : Aligned(a)

(* The inductive invariant. *)
Held == \A p \in Pages : OneHolder(p)

IInv == AllocTypeOK /\ Held /\ (\A t \in Threads : Local(t)) /\ StatsBalance /\ Backed

-----------------------------------------------------------------------------
(* Arithmetic of the trim, and of extents. *)

(* AlignUp rounds up to the next multiple of HUGE. *)
LEMMA Rounding ==
  ASSUME AllocParameters, NEW a \in Nat
  PROVE  /\ AlignUp(a) \in Nat /\ a <= AlignUp(a) /\ AlignUp(a) < a + HUGE
         /\ Aligned(AlignUp(a))
         /\ Aligned(a) => AlignUp(a) = a
  <1> DEFINE x == a + HUGE - 1
             q == x \div HUGE
  <1>1. HUGE \in Nat \ {0} /\ x \in Nat
    BY DEF AllocParameters
  <1>2. q \in Nat /\ x = HUGE * q + (x % HUGE) /\ x % HUGE \in 0 .. (HUGE - 1)
    BY <1>1, SMT
  <1>3. (q * HUGE) % HUGE = 0 /\ q * HUGE \in Nat /\ q * HUGE = HUGE * q
    BY <1>1, <1>2, SMT
  <1>4. AlignUp(a) = q * HUGE
    BY Zenon DEF AlignUp
  <1>5. ASSUME Aligned(a) PROVE AlignUp(a) = a
    <2> DEFINE k == a \div HUGE
    <2>1. k \in Nat /\ a = k * HUGE
      BY <1>1, <1>5, SMT DEF Aligned
    <2>2. (k * HUGE + (HUGE - 1)) \div HUGE = k
      BY <1>1, <2>1, SMT
    <2> QED
      BY <1>1, <1>4, <2>1, <2>2, SMT
  <1> QED
    BY <1>1, <1>2, <1>3, <1>4, <1>5, SMT DEF Aligned

(* The head, the body and the tail of a mapping with HUGE pages to spare   *)
(* are apart, and together the mapping.                                    *)
LEMMA TrimParts ==
  ASSUME AllocParameters, AllocTypeOK, NEW t \in Threads
  PROVE  LET all == Extent(addr[t], size[t] + HUGE)
             head == HeadGap(addr[t])
             tail == TailGap(t, addr[t])
         IN  /\ head \subseteq all
             /\ all \ head = Body(t) \cup tail
             /\ Body(t) \cap tail = {} /\ tail \subseteq all \ head
             /\ Extent(AlignUp(addr[t]), size[t]) = Body(t)
             /\ Body(t) \subseteq Int /\ tail \subseteq Int
             /\ AlignUp(addr[t]) \in all
             /\ Aligned(addr[t]) => head = {}
  <1>1. addr[t] \in Nat /\ size[t] \in Nat /\ HUGE \in Nat \ {0}
    BY SMT DEF AllocParameters, AllocTypeOK, Pages
  <1>2. /\ AlignUp(addr[t]) \in Nat /\ addr[t] <= AlignUp(addr[t])
        /\ AlignUp(addr[t]) < addr[t] + HUGE
        /\ Aligned(addr[t]) => AlignUp(addr[t]) = addr[t]
    BY <1>1, Rounding
  <1> QED
    BY <1>1, <1>2, SMT DEF Extent, HeadGap, Body, TailGap

-----------------------------------------------------------------------------
(* How pages change hands. *)

SameOthers(t) ==
  \A u \in Threads \ {t} :
    pc'[u] = pc[u] /\ size'[u] = size[u] /\ addr'[u] = addr[u] /\ segs'[u] = segs[u]

(* A step of t leaves what the other calls have in hand and know. *)
LEMMA OtherHands ==
  ASSUME NEW t \in Threads, SameOthers(t), NEW u \in Threads, u # t
  PROVE  InHand(u)' = InHand(u) /\ Local(u)' = Local(u)
  <1>1. pc'[u] = pc[u] /\ size'[u] = size[u] /\ addr'[u] = addr[u] /\ segs'[u] = segs[u]
    BY Zenon DEF SameOthers
  <1> QED
    BY <1>1, Zenon DEF InHand, Local, HeadGap, Extent, Aligned, AlignUp, Pages

(* Page p stays with the calls that have it when t does not move it... *)
LEMMA CallsStay ==
  ASSUME NEW t \in Threads, SameOthers(t), NEW p, p \in InHand(t)' <=> p \in InHand(t)
  PROVE  CallsAt(p)' = CallsAt(p)
  <1>1. \A u \in Threads : p \in InHand(u)' <=> p \in InHand(u)
    BY Zenon, OtherHands
  <1> QED
    BY Zenon, <1>1 DEF CallsAt

(* ... is with t alone when t gets it and no call had it... *)
LEMMA CallsTake ==
  ASSUME NEW t \in Threads, SameOthers(t), NEW p, p \in InHand(t)', CallsAt(p) = {}
  PROVE  CallsAt(p)' = {t}
  <1>1. \A u \in Threads \ {t} : p \notin InHand(u)'
    BY Zenon, OtherHands DEF CallsAt
  <1> QED
    BY Zenon, <1>1 DEF CallsAt

(* ... and with no call when t gives it away. *)
LEMMA CallsGive ==
  ASSUME Held, NEW t \in Threads, SameOthers(t), NEW p \in Pages,
         p \in InHand(t), p \notin InHand(t)'
  PROVE  CallsAt(p)' = {}
  <1>1. CallsAt(p) = {t}
    BY Zenon DEF Held, OneHolder, NoHolder, CallsAt
  <1>2. \A u \in Threads \ {t} : p \notin InHand(u)'
    BY Zenon, <1>1, OtherHands DEF CallsAt
  <1> QED
    BY Zenon, <1>2 DEF CallsAt

(* The holder of a page is the only one. *)
LEMMA HasAlone ==
  ASSUME Held, NEW p \in Pages
  PROVE  /\ \A t \in Threads : p \in InHand(t) =>
              p \in mapped /\ p \notin leaked /\ LiveAt(p) = {} /\ CachedAt(p) = {} /\ CallsAt(p) = {t}
         /\ \A m \in held : p \in Extent(m[1], m[2]) =>
              p \in mapped /\ p \notin leaked /\ LiveAt(p) = {m} /\ CachedAt(p) = {} /\ CallsAt(p) = {}
         /\ \A a \in cached : p \in Extent(a, HUGE) =>
              p \in mapped /\ p \notin leaked /\ LiveAt(p) = {} /\ CachedAt(p) = {a} /\ CallsAt(p) = {}
  <1>1. OneHolder(p)
    BY Zenon DEF Held
  <1>2. ASSUME NEW t \in Threads, p \in InHand(t)
        PROVE  p \in mapped /\ p \notin leaked /\ LiveAt(p) = {} /\ CachedAt(p) = {} /\ CallsAt(p) = {t}
    BY Zenon, <1>1, <1>2 DEF OneHolder, NoHolder, CallsAt
  <1>3. ASSUME NEW m \in held, p \in Extent(m[1], m[2])
        PROVE  p \in mapped /\ p \notin leaked /\ LiveAt(p) = {m} /\ CachedAt(p) = {} /\ CallsAt(p) = {}
    <2>1. m \in LiveAt(p)
      BY Zenon, <1>3 DEF LiveAt
    <2> QED
      BY Zenon, <1>1, <2>1 DEF OneHolder, NoHolder
  <1>4. ASSUME NEW a \in cached, p \in Extent(a, HUGE)
        PROVE  p \in mapped /\ p \notin leaked /\ LiveAt(p) = {} /\ CachedAt(p) = {a} /\ CallsAt(p) = {}
    <2>1. a \in CachedAt(p)
      BY Zenon, <1>4 DEF CachedAt
    <2> QED
      BY Zenon, <1>1, <2>1 DEF OneHolder, NoHolder
  <1> QED
    BY Zenon, <1>2, <1>3, <1>4

(* mmap and munmap: t gets new pages, which no one had; what it gives up   *)
(* is unmapped, or leaks.                                                  *)
LEMMA HandStep ==
  ASSUME Held, NEW t \in Threads, SameOthers(t), held' = held, cached' = cached,
         NEW new, NEW gone, new \cap mapped = {}, gone \subseteq InHand(t),
         InHand(t)' = (InHand(t) \cup new) \ gone,
         \/ mapped' = (mapped \cup new) \ gone /\ leaked' = leaked
         \/ mapped' = mapped \cup new /\ leaked' = leaked \cup gone
  PROVE  Held'
  <1> SUFFICES ASSUME NEW p \in Pages PROVE OneHolder(p)'
    BY Zenon DEF Held, Pages
  <1>1. LiveAt(p)' = LiveAt(p) /\ CachedAt(p)' = CachedAt(p)
    BY Zenon DEF LiveAt, CachedAt, Extent
  <1>2. OneHolder(p)
    BY Zenon DEF Held
  <1>3. CASE p \in gone
    <2>1. p \in mapped /\ p \notin leaked /\ LiveAt(p) = {} /\ CachedAt(p) = {}
      BY Zenon, <1>3, HasAlone
    <2>2. CallsAt(p)' = {}
      BY Zenon, <1>3, CallsGive
    <2> QED
      BY Zenon, <1>1, <1>3, <2>1, <2>2 DEF OneHolder, NoHolder
  <1>4. CASE p \in new /\ p \notin gone
    <2>1. p \notin mapped /\ NoHolder(p)
      BY Zenon, <1>2, <1>4 DEF OneHolder
    <2>2. CallsAt(p)' = {t}
      BY Zenon, <1>4, <2>1, CallsTake DEF NoHolder
    <2> QED
      BY Zenon, <1>1, <1>4, <2>1, <2>2 DEF OneHolder, NoHolder
  <1>5. CASE p \notin new /\ p \notin gone
    <2>1. CallsAt(p)' = CallsAt(p)
      BY Zenon, <1>5, CallsStay
    <2>2. (p \in mapped' <=> p \in mapped) /\ (p \in leaked' <=> p \in leaked)
      BY Zenon, <1>5
    <2> QED
      BY Zenon, <1>1, <1>2, <2>1, <2>2 DEF OneHolder, NoHolder
  <1> QED
    BY Zenon, <1>3, <1>4, <1>5

(* SystemAlloc returns what t has in hand, with new pages, as mapping m. *)
LEMMA HandOut ==
  ASSUME Held, NEW t \in Threads, SameOthers(t), cached' = cached, leaked' = leaked,
         NEW m, NEW new, new \cap mapped = {}, Extent(m[1], m[2]) = InHand(t) \cup new,
         InHand(t)' = {}, mapped' = mapped \cup new, held' = held \cup {m}
  PROVE  Held'
  <1> SUFFICES ASSUME NEW p \in Pages PROVE OneHolder(p)'
    BY Zenon DEF Held, Pages
  <1>1. CachedAt(p)' = CachedAt(p)
    BY Zenon DEF CachedAt, Extent
  <1>2. OneHolder(p)
    BY Zenon DEF Held
  <1>3. CASE p \in Extent(m[1], m[2])
    <2>1. p \notin leaked /\ LiveAt(p) = {} /\ CachedAt(p) = {} /\ (p \in mapped => p \in InHand(t))
      BY Zenon, <1>2, <1>3, HasAlone DEF OneHolder, NoHolder
    <2>2. CallsAt(p)' = {}
      <3>1. CASE p \in InHand(t)
        BY Zenon, <3>1, CallsGive
      <3>2. CASE p \notin InHand(t)
        <4>1. NoHolder(p)
          BY Zenon, <1>2, <2>1, <3>2 DEF OneHolder
        <4> QED
          BY Zenon, <3>2, <4>1, CallsStay DEF NoHolder
      <3> QED
        BY Zenon, <3>1, <3>2
    <2>3. LiveAt(p)' = {m}
      BY Zenon, <1>3, <2>1 DEF LiveAt, Extent
    <2>4. p \in mapped' /\ m \in held'
      BY Zenon, <1>3, HasAlone
    <2> QED
      BY Zenon, <1>1, <2>1, <2>2, <2>3, <2>4 DEF OneHolder
  <1>4. CASE p \notin Extent(m[1], m[2])
    <2>1. CallsAt(p)' = CallsAt(p)
      BY Zenon, <1>4, CallsStay
    <2>2. LiveAt(p)' = LiveAt(p)
      BY Zenon, <1>4 DEF LiveAt, Extent
    <2>3. p \in mapped' <=> p \in mapped
      BY Zenon, <1>4
    <2>4. held \subseteq held'
      BY Zenon
    <2> QED
      BY Zenon, <1>1, <1>2, <2>1, <2>2, <2>3, <2>4 DEF OneHolder, NoHolder
  <1> QED
    BY Zenon, <1>3, <1>4

(* SystemFree takes mapping m from its caller. *)
LEMMA HandIn ==
  ASSUME Held, NEW t \in Threads, SameOthers(t), cached' = cached, leaked' = leaked,
         NEW m \in held, InHand(t) = {}, InHand(t)' = Extent(m[1], m[2]), mapped' = mapped,
         held' = held \ {m}
  PROVE  Held'
  <1> SUFFICES ASSUME NEW p \in Pages PROVE OneHolder(p)'
    BY Zenon DEF Held, Pages
  <1>1. CachedAt(p)' = CachedAt(p)
    BY Zenon DEF CachedAt, Extent
  <1>2. OneHolder(p)
    BY Zenon DEF Held
  <1>3. CASE p \in Extent(m[1], m[2])
    <2>1. p \in mapped /\ p \notin leaked /\ LiveAt(p) = {m} /\ CachedAt(p) = {} /\ CallsAt(p) = {}
      BY Zenon, <1>3, HasAlone
    <2>2. CallsAt(p)' = {t}
      BY Zenon, <1>3, <2>1, CallsTake
    <2>3. LiveAt(p)' = {}
      BY Zenon, <2>1 DEF LiveAt, Extent
    <2> QED
      BY Zenon, <1>1, <2>1, <2>2, <2>3 DEF OneHolder
  <1>4. CASE p \notin Extent(m[1], m[2])
    <2>1. CallsAt(p)' = CallsAt(p)
      BY Zenon, <1>4, CallsStay
    <2>2. LiveAt(p)' = LiveAt(p) /\ (\A n \in held : LiveAt(p) = {n} => n \in held')
      BY Zenon, <1>4 DEF LiveAt, Extent
    <2> QED
      BY Zenon, <1>1, <1>2, <2>1, <2>2 DEF OneHolder, NoHolder
  <1> QED
    BY Zenon, <1>3, <1>4

(* HugePageCache::Put takes the huge page that t releases. *)
LEMMA HandToCache ==
  ASSUME Held, NEW t \in Threads, SameOthers(t), held' = held, leaked' = leaked,
         NEW a, InHand(t) = Extent(a, HUGE), InHand(t)' = {}, mapped' = mapped,
         cached' = cached \cup {a}
  PROVE  Held'
  <1> SUFFICES ASSUME NEW p \in Pages PROVE OneHolder(p)'
    BY Zenon DEF Held, Pages
  <1>1. LiveAt(p)' = LiveAt(p)
    BY Zenon DEF LiveAt, Extent
  <1>2. OneHolder(p)
    BY Zenon DEF Held
  <1>3. CASE p \in Extent(a, HUGE)
    <2>0. p \in InHand(t)
      BY Zenon, <1>3
    <2>1. p \in mapped /\ p \notin leaked /\ LiveAt(p) = {} /\ CachedAt(p) = {}
      BY Zenon, <2>0, HasAlone
    <2>2. CallsAt(p)' = {}
      BY Zenon, <1>3, CallsGive
    <2>3. CachedAt(p)' = {a}
      BY Zenon, <1>3, <2>1 DEF CachedAt, Extent
    <2> QED
      BY Zenon, <1>1, <2>1, <2>2, <2>3 DEF OneHolder
  <1>4. CASE p \notin Extent(a, HUGE)
    <2>1. CallsAt(p)' = CallsAt(p)
      BY Zenon, <1>4, CallsStay
    <2>2. CachedAt(p)' = CachedAt(p) /\ cached \subseteq cached'
      BY Zenon, <1>4 DEF CachedAt, Extent
    <2> QED
      BY Zenon, <1>1, <1>2, <2>1, <2>2 DEF OneHolder, NoHolder
  <1> QED
    BY Zenon, <1>3, <1>4

(* A huge page leaves the cache for a caller, is unmapped, or leaks. *)
LEMMA OutOfCache ==
  ASSUME Held, NEW a \in cached, cached' = cached \ {a},
         \A u \in Threads : InHand(u)' = InHand(u),
         \/ held' = held \cup {<<a, HUGE>>} /\ mapped' = mapped /\ leaked' = leaked
         \/ held' = held /\ mapped' = mapped \ Extent(a, HUGE) /\ leaked' = leaked
         \/ held' = held /\ mapped' = mapped /\ leaked' = leaked \cup Extent(a, HUGE)
  PROVE  Held'
  <1> SUFFICES ASSUME NEW p \in Pages PROVE OneHolder(p)'
    BY Zenon DEF Held, Pages
  <1>1. CallsAt(p)' = CallsAt(p)
    BY Zenon DEF CallsAt
  <1>2. OneHolder(p)
    BY Zenon DEF Held
  <1>3. CASE p \in Extent(a, HUGE)
    <2>1. p \in mapped /\ p \notin leaked /\ LiveAt(p) = {} /\ CachedAt(p) = {a} /\ CallsAt(p) = {}
      BY Zenon, <1>3, HasAlone
    <2>2. CachedAt(p)' = {}
      BY Zenon, <2>1 DEF CachedAt, Extent
    <2>3. CASE held' = held \cup {<<a, HUGE>>} /\ mapped' = mapped /\ leaked' = leaked
      <3>1. <<a, HUGE>>[1] = a /\ <<a, HUGE>>[2] = HUGE
        BY Zenon
      <3>2. LiveAt(p)' = {<<a, HUGE>>}
        BY Zenon, <1>3, <2>1, <2>3, <3>1 DEF LiveAt, Extent
      <3>3. <<a, HUGE>> \in held'
        BY Zenon, <2>3
      <3> QED
        BY Zenon, <1>1, <2>1, <2>2, <2>3, <3>2, <3>3 DEF OneHolder
    <2>4. CASE held' = held
      <3>1. LiveAt(p)' = {}
        BY Zenon, <2>1, <2>4 DEF LiveAt, Extent
      <3>2. (p \in mapped' /\ p \in leaked') \/ (p \notin mapped' /\ p \notin leaked')
            \/ held' # held
        <4>1. CASE mapped' = mapped \ Extent(a, HUGE) /\ leaked' = leaked
          BY Zenon, <1>3, <2>1, <4>1
        <4>2. CASE mapped' = mapped /\ leaked' = leaked \cup Extent(a, HUGE)
          BY Zenon, <1>3, <2>1, <4>2
        <4>3. CASE held' = held \cup {<<a, HUGE>>}
          <5>1. <<a, HUGE>>[1] = a /\ <<a, HUGE>>[2] = HUGE
            BY Zenon
          <5>2. <<a, HUGE>> \notin held
            BY Zenon, <1>3, <2>1, <5>1 DEF LiveAt
          <5> QED
            BY Zenon, <4>3, <5>2
        <4> QED
          BY Zenon, <4>1, <4>2, <4>3
      <3> QED
        BY Zenon, <1>1, <2>1, <2>2, <2>4, <3>1, <3>2 DEF OneHolder, NoHolder
    <2> QED
      BY Zenon, <2>3, <2>4
  <1>4. CASE p \notin Extent(a, HUGE)
    <2>1. <<a, HUGE>>[1] = a /\ <<a, HUGE>>[2] = HUGE
      BY Zenon
    <2>2. LiveAt(p)' = LiveAt(p) /\ held \subseteq held'
      BY Zenon, <1>4, <2>1 DEF LiveAt, Extent
    <2>3. CachedAt(p)' = CachedAt(p) /\ (\A b \in cached : CachedAt(p) = {b} => b \in cached')
      BY Zenon, <1>4 DEF CachedAt, Extent
    <2>4. (p \in mapped' <=> p \in mapped) /\ (p \in leaked' <=> p \in leaked)
      BY Zenon, <1>4
    <2> QED
      BY Zenon, <1>1, <1>2, <2>2, <2>3, <2>4 DEF OneHolder, NoHolder
  <1> QED
    BY Zenon, <1>3, <1>4

-----------------------------------------------------------------------------
(* How the counters change. *)

One(b) == IF b THEN 1 ELSE 0

(* Two sets of threads that differ in t at most. *)
LEMMA OneChanges ==
  ASSUME AllocParameters, NEW A \in SUBSET Threads, NEW B \in SUBSET Threads, NEW t \in Threads,
         A \ {t} = B \ {t}
  PROVE  /\ Cardinality(A) \in Nat /\ Cardinality(B) \in Nat
         /\ Cardinality(B) + One(t \in A) = Cardinality(A) + One(t \in B)
  <1> DEFINE C == A \ {t}
  <1>1. IsFiniteSet(A) /\ IsFiniteSet(B) /\ IsFiniteSet(C)
    BY Zenon, FS_Subset DEF AllocParameters
  <1>2. /\ Cardinality(A) \in Nat /\ Cardinality(B) \in Nat /\ Cardinality(C) \in Nat
    BY Zenon, <1>1, FS_CardinalityType
  <1>3. t \in A => A = C \cup {t}
    BY Zenon
  <1>4. t \notin A => A = C
    BY Zenon
  <1>5. t \in B => B = C \cup {t}
    BY Zenon
  <1>6. t \notin B => B = C
    BY Zenon
  <1>7. Cardinality(C \cup {t}) = Cardinality(C) + 1
    BY Zenon, <1>1, FS_AddElement
  <1> QED
    BY <1>2, <1>3, <1>4, <1>5, <1>6, <1>7, SMT DEF One

HugeLabels == {"exact", "huge", "drop", "over", "head", "tail", "cleanup"}
NormalLabels == {"normal"}
OpenLabels == HugeLabels \cup {"get", "normal"}

(* The number of threads at one of the labels L changes with that of t. *)
LEMMA Crowd ==
  ASSUME AllocParameters, AllocTypeOK, NEW t \in Threads, NEW l, Goto(t, l), NEW L
  PROVE  LET now == {u \in Threads : pc[u] \in L}
             next == {u \in Threads : pc'[u] \in L}
         IN  /\ Cardinality(now) \in Nat /\ Cardinality(next) \in Nat
             /\ Cardinality(next) + One(pc[t] \in L) = Cardinality(now) + One(l \in L)
  <1> DEFINE now == {u \in Threads : pc[u] \in L}
             next == {u \in Threads : pc'[u] \in L}
  <1>1. pc'[t] = l /\ \A u \in Threads \ {t} : pc'[u] = pc[u]
    BY Zenon DEF Goto, AllocTypeOK
  <1>2. now \ {t} = next \ {t}
    BY <1>1, SMT
  <1>3. (t \in now <=> pc[t] \in L) /\ (t \in next <=> l \in L)
    BY Zenon, <1>1
  <1>4. now \in SUBSET Threads /\ next \in SUBSET Threads
    BY Zenon
  <1>5. /\ Cardinality(now) \in Nat /\ Cardinality(next) \in Nat
        /\ Cardinality(next) + One(t \in now) = Cardinality(now) + One(t \in next)
    BY Zenon, <1>2, <1>4, OneChanges
  <1> QED
    BY Zenon, <1>3, <1>5 DEF One

(* What n calls that begin, and the counters C, add to the balance is what *)
(* a move from label k to label l does.                                    *)
Fits(k, l, C, n) ==
  /\ One("huge_alloc_count" \in C) + One(k \in HugeLabels) =
       One("huge_alloc_success" \in C) + One("huge_alloc_failed_count" \in C)
       + One(l \in HugeLabels)
  /\ One("normal_alloc_count" \in C) + One(k \in NormalLabels) =
       One("normal_alloc_success" \in C) + One("normal_alloc_failed_count" \in C)
       + One(l \in NormalLabels)
  /\ n + One(k \in OpenLabels) =
       One("huge_cache_hit_count" \in C) + One("huge_alloc_success" \in C)
       + One("normal_alloc_success" \in C) + One("alloc_failed_count" \in C)
       + One(l \in OpenLabels)

(* The balance is kept when what is counted fits the labels t moves        *)
(* between.                                                                *)
LEMMA Balance ==
  ASSUME AllocParameters, AllocTypeOK, StatsBalance, NEW t \in Threads, NEW l, Goto(t, l), NEW C, Count(C),
         NEW n \in Nat, calls' = calls + n, Fits(pc[t], l, C, n)
  PROVE  StatsBalance'
  <1> DEFINE N(L) == Cardinality({u \in Threads : pc[u] \in L})
             M(L) == Cardinality({u \in Threads : pc'[u] \in L})
             d(c) == One(c \in C)
             from(L) == One(pc[t] \in L)
             to(L) == One(l \in L)
  <1>1. \A c \in Counters : stats[c] \in Nat /\ stats'[c] = stats[c] + d(c)
    BY SMT DEF AllocTypeOK, Count, One
  <1>2. /\ {u \in Threads : InHugePath(u)} = {u \in Threads : pc[u] \in HugeLabels}
        /\ {u \in Threads : pc[u] = "normal"} = {u \in Threads : pc[u] \in NormalLabels}
        /\ {u \in Threads : InHugePath(u) \/ pc[u] \in {"get", "normal"}}
             = {u \in Threads : pc[u] \in OpenLabels}
    BY Zenon DEF InHugePath, HugeLabels, NormalLabels, OpenLabels
  <1>3. /\ {u \in Threads : InHugePath(u)'} = {u \in Threads : pc'[u] \in HugeLabels}
        /\ {u \in Threads : pc'[u] = "normal"} = {u \in Threads : pc'[u] \in NormalLabels}
        /\ {u \in Threads : InHugePath(u)' \/ pc'[u] \in {"get", "normal"}}
             = {u \in Threads : pc'[u] \in OpenLabels}
    BY Zenon DEF InHugePath, HugeLabels, NormalLabels, OpenLabels
  <1>4. /\ N(HugeLabels) \in Nat /\ M(HugeLabels) \in Nat
        /\ M(HugeLabels) + from(HugeLabels) = N(HugeLabels) + to(HugeLabels)
    BY Zenon, Crowd
  <1>5. /\ N(NormalLabels) \in Nat /\ M(NormalLabels) \in Nat
        /\ M(NormalLabels) + from(NormalLabels) = N(NormalLabels) + to(NormalLabels)
    BY Zenon, Crowd
  <1>6. /\ N(OpenLabels) \in Nat /\ M(OpenLabels) \in Nat
        /\ M(OpenLabels) + from(OpenLabels) = N(OpenLabels) + to(OpenLabels)
    BY Zenon, Crowd
  <1>7. /\ stats["huge_alloc_count"] =
             stats["huge_alloc_success"] + stats["huge_alloc_failed_count"] + N(HugeLabels)
        /\ stats["normal_alloc_count"] =
             stats["normal_alloc_success"] + stats["normal_alloc_failed_count"] + N(NormalLabels)
        /\ calls = stats["huge_cache_hit_count"] + stats["huge_alloc_success"]
             + stats["normal_alloc_success"] + stats["alloc_failed_count"] + N(OpenLabels)
    BY Zenon, <1>2 DEF StatsBalance
  <1>8. /\ \A c : d(c) \in Nat
        /\ \A L : from(L) \in Nat /\ to(L) \in Nat
    BY Zenon DEF One
  <1>12. /\ d("huge_alloc_count") + from(HugeLabels) =
             d("huge_alloc_success") + d("huge_alloc_failed_count") + to(HugeLabels)
        /\ d("normal_alloc_count") + from(NormalLabels) =
             d("normal_alloc_success") + d("normal_alloc_failed_count") + to(NormalLabels)
        /\ n + from(OpenLabels) =
             d("huge_cache_hit_count") + d("huge_alloc_success") + d("normal_alloc_success")
             + d("alloc_failed_count") + to(OpenLabels)
    BY Zenon DEF Fits
  <1> HIDE DEF N, M, d, from, to
  <1>9. stats'["huge_alloc_count"] =
          stats'["huge_alloc_success"] + stats'["huge_alloc_failed_count"] + M(HugeLabels)
    <2>1. /\ stats["huge_alloc_count"] \in Nat /\ stats["huge_alloc_success"] \in Nat
          /\ stats["huge_alloc_failed_count"] \in Nat
          /\ stats'["huge_alloc_count"] = stats["huge_alloc_count"] + d("huge_alloc_count")
          /\ stats'["huge_alloc_success"] =
               stats["huge_alloc_success"] + d("huge_alloc_success")
          /\ stats'["huge_alloc_failed_count"] =
               stats["huge_alloc_failed_count"] + d("huge_alloc_failed_count")
      BY Zenon, <1>1 DEF Counters
    <2>2. stats["huge_alloc_count"] =
            stats["huge_alloc_success"] + stats["huge_alloc_failed_count"] + N(HugeLabels)
      BY Zenon, <1>7
    <2>3. d("huge_alloc_count") + from(HugeLabels) =
            d("huge_alloc_success") + d("huge_alloc_failed_count") + to(HugeLabels)
      BY Zenon, <1>12
    <2>4. from(HugeLabels) \in Nat /\ to(HugeLabels) \in Nat
          /\ d("huge_alloc_count") \in Nat
          /\ d("huge_alloc_success") \in Nat
          /\ d("huge_alloc_failed_count") \in Nat
      BY Zenon, <1>8
    <2> QED
      BY Z3, <1>4, <2>1, <2>2, <2>3, <2>4
  <1>10. stats'["normal_alloc_count"] =
           stats'["normal_alloc_success"] + stats'["normal_alloc_failed_count"] + M(NormalLabels)
    <2>1. /\ stats["normal_alloc_count"] \in Nat /\ stats["normal_alloc_success"] \in Nat
          /\ stats["normal_alloc_failed_count"] \in Nat
          /\ stats'["normal_alloc_count"] =
               stats["normal_alloc_count"] + d("normal_alloc_count")
          /\ stats'["normal_alloc_success"] =
               stats["normal_alloc_success"] + d("normal_alloc_success")
          /\ stats'["normal_alloc_failed_count"] =
               stats["normal_alloc_failed_count"] + d("normal_alloc_failed_count")
      BY Zenon, <1>1 DEF Counters
    <2>2. stats["normal_alloc_count"] =
            stats["normal_alloc_success"] + stats["normal_alloc_failed_count"] + N(NormalLabels)
      BY Zenon, <1>7
    <2>3. d("normal_alloc_count") + from(NormalLabels) =
            d("normal_alloc_success") + d("normal_alloc_failed_count") + to(NormalLabels)
      BY Zenon, <1>12
    <2>4. from(NormalLabels) \in Nat /\ to(NormalLabels) \in Nat
          /\ d("normal_alloc_count") \in Nat
          /\ d("normal_alloc_success") \in Nat
          /\ d("normal_alloc_failed_count") \in Nat
      BY Zenon, <1>8
    <2> QED
      BY Z3, <1>5, <2>1, <2>2, <2>3, <2>4
  <1>11. calls' = stats'["huge_cache_hit_count"] + stats'["huge_alloc_success"]
           + stats'["normal_alloc_success"] + stats'["alloc_failed_count"] + M(OpenLabels)
    <2>1. /\ stats["huge_cache_hit_count"] \in Nat /\ stats["huge_alloc_success"] \in Nat
          /\ stats["normal_alloc_success"] \in Nat /\ stats["alloc_failed_count"] \in Nat
          /\ stats'["huge_cache_hit_count"] =
               stats["huge_cache_hit_count"] + d("huge_cache_hit_count")
          /\ stats'["huge_alloc_success"] =
               stats["huge_alloc_success"] + d("huge_alloc_success")
          /\ stats'["normal_alloc_success"] =
               stats["normal_alloc_success"] + d("normal_alloc_success")
          /\ stats'["alloc_failed_count"] =
               stats["alloc_failed_count"] + d("alloc_failed_count")
      BY Zenon, <1>1 DEF Counters
    <2>2. /\ calls \in Nat
          /\ calls = stats["huge_cache_hit_count"] + stats["huge_alloc_success"]
               + stats["normal_alloc_success"] + stats["alloc_failed_count"] + N(OpenLabels)
      BY Zenon, <1>7 DEF AllocTypeOK
    <2>3. n + from(OpenLabels) =
            d("huge_cache_hit_count") + d("huge_alloc_success") + d("normal_alloc_success")
            + d("alloc_failed_count") + to(OpenLabels)
      BY Zenon, <1>12
    <2>4. from(OpenLabels) \in Nat /\ to(OpenLabels) \in Nat
          /\ d("huge_cache_hit_count") \in Nat
          /\ d("huge_alloc_success") \in Nat
          /\ d("normal_alloc_success") \in Nat
          /\ d("alloc_failed_count") \in Nat
      BY Zenon, <1>8
    <2> DEFINE before == stats["huge_cache_hit_count"] + stats["huge_alloc_success"]
                           + stats["normal_alloc_success"] + stats["alloc_failed_count"]
               added == d("huge_cache_hit_count") + d("huge_alloc_success")
                          + d("normal_alloc_success") + d("alloc_failed_count")
               after == stats'["huge_cache_hit_count"] + stats'["huge_alloc_success"]
                          + stats'["normal_alloc_success"] + stats'["alloc_failed_count"]
    <2>5. before \in Nat /\ added \in Nat /\ after = before + added
      BY Z3, <2>1, <2>4
    <2>6. calls = before + N(OpenLabels) /\ n + from(OpenLabels) = added + to(OpenLabels)
      BY Zenon, <2>2, <2>3
    <2>7. calls' = after + M(OpenLabels)
      <3> HIDE DEF before, added, after
      <3> QED
        BY Z3, <1>6, <2>2, <2>4, <2>5, <2>6
    <2> QED
      BY Zenon, <2>7
  <1> QED
    BY Zenon, <1>3, <1>9, <1>10, <1>11 DEF StatsBalance, M

(* A fallback is counted before the mapping it leads to exists. *)
LEMMA BackedStep ==
  ASSUME AllocParameters, AllocTypeOK, AllocTypeOK', Backed, NEW t \in Threads, SameOthers(t), NEW C, Count(C),
         \A a \in cached' : Aligned(a), NEW m,
         \/ /\ Misaligned' \subseteq Misaligned
            /\ t \in FallenBack' => t \in FallenBack \/ "huge_fallback_to_normal_count" \in C
         \/ /\ Misaligned' \subseteq Misaligned \cup {m}
            /\ t \in FallenBack /\ t \notin FallenBack'
  PROVE  Backed'
  <1> DEFINE fb == "huge_fallback_to_normal_count"
  <1>1. stats[fb] \in Nat /\ stats'[fb] = stats[fb] + One(fb \in C)
    <2>1. fb \in Counters
      BY Zenon DEF Counters
    <2> QED
      BY <2>1, SMT DEF AllocTypeOK, Count, One
  <1>2. /\ Cardinality(FallenBack) \in Nat /\ Cardinality(FallenBack') \in Nat
        /\ Cardinality(FallenBack') + One(t \in FallenBack)
             = Cardinality(FallenBack) + One(t \in FallenBack')
    <2>1. FallenBack \in SUBSET Threads /\ FallenBack' \in SUBSET Threads
      BY Zenon DEF FallenBack
    <2>2. FallenBack \ {t} = FallenBack' \ {t}
      BY SMT DEF FallenBack, SameOthers
    <2> QED
      BY <2>1, <2>2, OneChanges, SMT
  <1>3. IsFiniteSet(Misaligned) /\ Cardinality(Misaligned) \in Nat
    BY Zenon, FS_Subset, FS_CardinalityType DEF Misaligned, AllocTypeOK
  <1>4. IsFiniteSet(Misaligned') /\ Cardinality(Misaligned') \in Nat
    BY Zenon, FS_Subset, FS_CardinalityType DEF Misaligned, AllocTypeOK
  <1>5. Cardinality(Misaligned) + Cardinality(FallenBack) <= stats[fb]
    BY Zenon DEF Backed
  <1>6. CASE /\ Misaligned' \subseteq Misaligned
             /\ t \in FallenBack' => t \in FallenBack \/ fb \in C
    <2>1. Cardinality(Misaligned') <= Cardinality(Misaligned)
      BY Zenon, <1>3, <1>6, FS_Subset
    <2>2. Cardinality(Misaligned') + Cardinality(FallenBack') <= stats'[fb]
      BY <1>1, <1>2, <1>3, <1>4, <1>5, <1>6, <2>1, SMT DEF One
    <2> QED
      BY Zenon, <2>2 DEF Backed, Aligned
  <1>7. CASE /\ Misaligned' \subseteq Misaligned \cup {m}
             /\ t \in FallenBack /\ t \notin FallenBack'
    <2>1. /\ IsFiniteSet(Misaligned \cup {m})
          /\ Cardinality(Misaligned \cup {m}) \in {Cardinality(Misaligned), Cardinality(Misaligned) + 1}
      BY Zenon, <1>3, FS_AddElement
    <2>2. Cardinality(Misaligned') <= Cardinality(Misaligned \cup {m})
      BY Zenon, <1>7, <2>1, FS_Subset
    <2>3. Cardinality(Misaligned') + Cardinality(FallenBack') <= stats'[fb]
      BY <1>1, <1>2, <1>3, <1>4, <1>5, <1>7, <2>1, <2>2, SMT DEF One
    <2> QED
      BY Zenon, <2>3 DEF Backed, Aligned
  <1> QED
    BY Zenon, <1>6, <1>7

-----------------------------------------------------------------------------
(* What is in hand, and the parts of a step. *)

FreeLabels == {"idle", "get", "exact", "over", "normal"}
FullLabels == {"huge", "drop", "put", "unmap"}

(* What a call has in hand at each of its labels. *)
LEMMA InHands ==
  ASSUME NEW t
  PROVE  /\ pc[t] \in FreeLabels => InHand(t) = {}
         /\ pc'[t] \in FreeLabels => InHand(t)' = {}
         /\ pc[t] \in FullLabels => InHand(t) = Extent(addr[t], size[t])
         /\ pc'[t] \in FullLabels => InHand(t)' = Extent(addr'[t], size'[t])
         /\ pc[t] = "head" => InHand(t) = Extent(addr[t], size[t] + HUGE)
         /\ pc'[t] = "head" => InHand(t)' = Extent(addr'[t], size'[t] + HUGE)
         /\ pc[t] = "tail" => InHand(t) = Extent(addr[t], size[t] + HUGE) \ HeadGap(addr[t])
         /\ pc'[t] = "tail" => InHand(t)' = Extent(addr'[t], size'[t] + HUGE) \ HeadGap(addr'[t])
         /\ pc[t] = "cleanup" => InHand(t) = UNION {segs[t][j] : j \in 1 .. Len(segs[t])}
         /\ pc'[t] = "cleanup" => InHand(t)' = UNION {segs'[t][j] : j \in 1 .. Len(segs'[t])}
  BY SMT DEF InHand, FreeLabels, FullLabels, Extent, HeadGap, AlignUp

(* The union of one or two mappings. *)
LEMMA Unions ==
  ASSUME NEW s
  PROVE  /\ Len(s) = 1 => UNION {s[j] : j \in 1 .. Len(s)} = s[1]
         /\ Len(s) = 2 => UNION {s[j] : j \in 1 .. Len(s)} = s[1] \cup s[2]
  <1>1. 1 .. 1 = {1} /\ 1 .. 2 = {1, 2}
    BY SMT
  <1> QED
    BY Zenon, <1>1

(* The parts of a tuple. *)
LEMMA Tuples ==
  ASSUME NEW A, NEW B
  PROVE  /\ Len(<<A>>) = 1 /\ <<A>>[1] = A /\ <<A>> # <<>>
         /\ Len(<<A, B>>) = 2 /\ <<A, B>>[1] = A /\ <<A, B>>[2] = B /\ <<A, B>> # <<>>
  BY SMT

(* The mappings that are left after the first. *)
LEMMA Rest ==
  ASSUME NEW S, NEW s \in Seq(S), s # <<>>
  PROVE  /\ Tail(s) \in Seq(S)
         /\ Len(s) = 1 => Tail(s) = <<>>
         /\ Len(s) = 2 => Len(Tail(s)) = 1 /\ Tail(s)[1] = s[2] /\ Tail(s) # <<>>
  <1>1. /\ Tail(s) \in Seq(S) /\ Len(Tail(s)) = Len(s) - 1
        /\ \A i \in 1 .. Len(Tail(s)) : Tail(s)[i] = s[i + 1]
    BY Zenon, HeadTailProperties
  <1>2. Len(s) = 1 => Tail(s) = <<>>
    <2>1. Tail(s) # <<>> => Len(Tail(s)) \in Nat \ {0}
      BY Zenon, <1>1, EmptySeq
    <2> QED
      BY <1>1, <2>1, SMT
  <1>3. Len(s) = 2 => Len(Tail(s)) = 1 /\ Tail(s)[1] = s[2]
    BY <1>1, SMT
  <1>4. Len(<<>>) = 0 /\ 0 # 1
    BY SMT
  <1> QED
    BY Zenon, <1>1, <1>2, <1>3, <1>4

(* The invariant from its parts. *)
LEMMA CallInv ==
  ASSUME AllocParameters, IInv, NEW t \in Threads, NEW l, Goto(t, l), NEW C, Count(C),
         NEW n \in Nat, calls' = calls + n, Fits(pc[t], l, C, n),
         SameOthers(t), AllocTypeOK', Held', Local(t)', \A a \in cached' : Aligned(a), NEW m,
         \/ /\ Misaligned' \subseteq Misaligned
            /\ t \in FallenBack' => t \in FallenBack \/ "huge_fallback_to_normal_count" \in C
         \/ /\ Misaligned' \subseteq Misaligned \cup {m}
            /\ t \in FallenBack /\ t \notin FallenBack'
  PROVE  IInv'
  <1>1. AllocTypeOK /\ StatsBalance /\ Backed
    BY Zenon DEF IInv
  <1>2. \A u \in Threads : Local(u)'
    BY Zenon, OtherHands DEF IInv
  <1>3. StatsBalance'
    BY Zenon, <1>1, Balance
  <1>4. Backed'
    BY Zenon, <1>1, BackedStep
  <1> QED
    BY Zenon, <1>2, <1>3, <1>4 DEF IInv

(* A step between labels at which t has nothing in hand. *)
LEMMA EmptyHands ==
  ASSUME Held, NEW t \in Threads, SameOthers(t), pc[t] \in FreeLabels, pc'[t] \in FreeLabels,
         held' = held, cached' = cached, mapped' = mapped, leaked' = leaked
  PROVE  Held'
  <1>1. InHand(t) = {} /\ InHand(t)' = {}
    BY Zenon, InHands
  <1>2. InHand(t)' = (InHand(t) \cup {}) \ {} /\ mapped' = (mapped \cup {}) \ {}
    BY Zenon, <1>1
  <1>3. {} \cap mapped = {} /\ {} \subseteq InHand(t)
    BY Zenon
  <1> QED
    BY Zenon, <1>2, <1>3, HandStep

(* No counter changes. *)
LEMMA NoCount ==
  ASSUME AllocTypeOK, UNCHANGED stats
  PROVE  Count({})
  BY SMT DEF AllocTypeOK, Count

(* Counting keeps the type of the counters. *)
LEMMA CountType ==
  ASSUME AllocTypeOK, NEW C, Count(C)
  PROVE  stats' \in [Counters -> Nat]
  BY SMT DEF AllocTypeOK, Count

(* The other threads stay where they are. *)
LEMMA GotoType ==
  ASSUME AllocTypeOK, NEW t \in Threads, NEW l \in Labels, Goto(t, l)
  PROVE  /\ pc' \in [Threads -> Labels] /\ pc'[t] = l
         /\ \A u \in Threads \ {t} : pc'[u] = pc[u]
  BY SMT DEF AllocTypeOK, Goto

(* A return leaves the other threads alone and clears the locals of t. *)
LEMMA ReturnType ==
  ASSUME AllocParameters, AllocTypeOK, NEW t \in Threads, Return(t), segs' = segs
  PROVE  /\ Goto(t, "idle") /\ SameOthers(t) /\ pc'[t] = "idle"
         /\ pc' \in [Threads -> Labels] /\ size' \in [Threads -> Nat] /\ addr' \in [Threads -> Pages]
         /\ tries' \in [Threads -> 0 .. (MAX_ALLOC_RETRIES - 1)]
         /\ pc[t] # "cleanup" => \A u \in Threads : pc'[u] = "cleanup" <=> segs'[u] # <<>>
  <1>1. Goto(t, "idle") /\ "idle" \in Labels
    BY Zenon DEF Return, Labels
  <1>2. pc' \in [Threads -> Labels] /\ pc'[t] = "idle" /\ \A u \in Threads \ {t} : pc'[u] = pc[u]
    BY Zenon, <1>1, GotoType
  <1>3. 0 \in Nat /\ 0 \in Pages /\ 0 \in 0 .. (MAX_ALLOC_RETRIES - 1)
    BY SMT DEF AllocParameters, Pages
  <1>4. size' \in [Threads -> Nat] /\ \A u \in Threads \ {t} : size'[u] = size[u]
    BY Zenon, <1>3 DEF Return, AllocTypeOK
  <1>5. addr' \in [Threads -> Pages] /\ \A u \in Threads \ {t} : addr'[u] = addr[u]
    BY Zenon, <1>3 DEF Return, AllocTypeOK
  <1>6. tries' \in [Threads -> 0 .. (MAX_ALLOC_RETRIES - 1)]
    BY Zenon, <1>3 DEF Return, AllocTypeOK
  <1>7. pc[t] # "cleanup" => \A u \in Threads : pc'[u] = "cleanup" <=> segs'[u] # <<>>
    BY Zenon, <1>2 DEF AllocTypeOK
  <1> QED
    BY Zenon, <1>1, <1>2, <1>4, <1>5, <1>6, <1>7 DEF SameOthers

(* The cache is finite, and no larger when an entry is taken. *)
LEMMA CachedFinite ==
  ASSUME AllocParameters, AllocTypeOK
  PROVE  /\ IsFiniteSet(cached) /\ Cardinality(cached) \in Nat
         /\ \A a : Cardinality(cached \ {a}) <= HUGE_PAGE_CACHE_SIZE
  <1>1. IsFiniteSet(Pages)
    BY FS_Interval, SMT DEF AllocParameters, Pages
  <1>2. IsFiniteSet(cached) /\ Cardinality(cached) \in Nat
    BY Zenon, <1>1, FS_Subset, FS_CardinalityType DEF AllocTypeOK
  <1>3. ASSUME NEW a PROVE Cardinality(cached \ {a}) <= HUGE_PAGE_CACHE_SIZE
    <2>1. /\ Cardinality(cached \ {a}) <= Cardinality(cached)
          /\ IsFiniteSet(cached \ {a})
      BY Zenon, <1>2, FS_Subset
    <2>2. Cardinality(cached \ {a}) \in Nat
      BY Zenon, <2>1, FS_CardinalityType
    <2> QED
      BY <1>2, <2>1, <2>2, SMT DEF AllocTypeOK, AllocParameters
  <1> QED
    BY Zenon, <1>2, <1>3

(* A mapping is added to those of the callers. *)
LEMMA AddLive ==
  ASSUME AllocTypeOK, NEW a \in Pages, NEW n \in Nat, held' = held \cup {<<a, n>>}
  PROVE  held' \subseteq Pages \X Nat /\ IsFiniteSet(held')
  <1>1. <<a, n>> \in Pages \X Nat
    BY Zenon
  <1>2. IsFiniteSet(held')
    BY Zenon, FS_AddElement DEF AllocTypeOK
  <1> QED
    BY Zenon, <1>1, <1>2 DEF AllocTypeOK

(* A step of a call that neither begins nor returns: t gets new pages and  *)
(* gives up others.                                                        *)
LEMMA StepInv ==
  ASSUME AllocParameters, IInv, NEW t \in Threads, NEW l \in Labels, Goto(t, l), NEW C, Count(C),
         Fits(pc[t], l, C, 0), l = "normal" => "huge_fallback_to_normal_count" \in C,
         held' = held, cached' = cached, calls' = calls, size' = size,
         addr' \in [Threads -> Pages], \A u \in Threads \ {t} : addr'[u] = addr[u],
         segs' \in [Threads -> Seq(SUBSET Int)], \A u \in Threads \ {t} : segs'[u] = segs[u],
         l = "cleanup" <=> segs'[t] # <<>>,
         tries' \in [Threads -> 0 .. (MAX_ALLOC_RETRIES - 1)],
         Local(t)', mapped' \subseteq Pages,
         NEW new, NEW gone, new \cap mapped = {}, gone \subseteq InHand(t),
         InHand(t)' = (InHand(t) \cup new) \ gone,
         \/ mapped' = (mapped \cup new) \ gone /\ leaked' = leaked
         \/ mapped' = mapped \cup new /\ leaked' = leaked \cup gone
  PROVE  IInv'
  <1>1. AllocTypeOK /\ Held /\ Backed
    BY Zenon DEF IInv
  <1>2. pc' \in [Threads -> Labels] /\ pc'[t] = l /\ \A u \in Threads \ {t} : pc'[u] = pc[u]
    BY Zenon, <1>1, GotoType
  <1>3. SameOthers(t)
    BY Zenon, <1>2 DEF SameOthers
  <1>4. AllocTypeOK'
    <2>1. stats' \in [Counters -> Nat]
      BY Zenon, <1>1, CountType
    <2>2. \A u \in Threads : pc'[u] = "cleanup" <=> segs'[u] # <<>>
      BY Zenon, <1>1, <1>2 DEF AllocTypeOK
    <2> QED
      BY Zenon, <1>1, <1>2, <2>1, <2>2 DEF AllocTypeOK, Pages
  <1>5. Held'
    BY Zenon, <1>1, <1>3, HandStep
  <1>6. Misaligned' \subseteq Misaligned
    BY Zenon DEF Misaligned, Aligned
  <1>7. t \in FallenBack' => "huge_fallback_to_normal_count" \in C
    BY Zenon, <1>2 DEF FallenBack
  <1>8. \A a \in cached' : Aligned(a)
    BY Zenon, <1>1 DEF Backed
  <1>9. calls' = calls + 0
    BY <1>1, SMT DEF AllocTypeOK
  <1> QED
    BY Zenon, <1>3, <1>4, <1>5, <1>6, <1>7, <1>8, <1>9, CallInv

-----------------------------------------------------------------------------
(* The steps of SystemAlloc keep the invariant. *)

(* SystemAlloc starts with nothing in hand. *)
LEMMA SystemAllocInv ==
  ASSUME AllocParameters, IInv, NEW t \in Threads, NEW n \in Sizes, SystemAlloc(t, n)
  PROVE  IInv'
  <1>1. /\ AllocTypeOK /\ Held /\ StatsBalance /\ Backed
        /\ pc[t] = "idle" /\ calls' = calls + 1 /\ size' = [size EXCEPT ![t] = n]
        /\ mapped' = mapped /\ held' = held /\ cached' = cached /\ leaked' = leaked
        /\ addr' = addr /\ tries' = tries /\ segs' = segs /\ n \in Nat
    BY Zenon DEF IInv, SystemAlloc, AllocParameters
  <1>2. PICK l, C : /\ Goto(t, l) /\ Count(C)
                    /\ \/ l = "normal" /\ C = {"normal_alloc_count"} /\ 2 * n < HUGE
                       \/ l = "get" /\ C = {}
                       \/ l = "exact" /\ C = {"huge_alloc_count"}
    BY Zenon, <1>1, NoCount DEF SystemAlloc
  <1>3. pc' \in [Threads -> Labels] /\ pc'[t] = l /\ \A u \in Threads \ {t} : pc'[u] = pc[u]
    BY Zenon, <1>1, <1>2, GotoType DEF Labels
  <1>4. size' \in [Threads -> Nat] /\ size'[t] = n /\ \A u \in Threads \ {t} : size'[u] = size[u]
    BY <1>1, SMT DEF AllocTypeOK
  <1>5. SameOthers(t)
    BY Zenon, <1>1, <1>3, <1>4 DEF SameOthers
  <1>6. AllocTypeOK'
    <2>1. \A u \in Threads : pc'[u] = "cleanup" <=> segs'[u] # <<>>
      BY Zenon, <1>1, <1>2, <1>3 DEF AllocTypeOK
    <2>2. calls' \in Nat
      BY <1>1, SMT DEF AllocTypeOK
    <2>3. stats' \in [Counters -> Nat]
      BY Zenon, <1>1, <1>2, CountType
    <2> QED
      BY Zenon, <1>1, <1>3, <1>4, <2>1, <2>2, <2>3 DEF AllocTypeOK, Pages
  <1>7. Held'
    BY Zenon, <1>1, <1>2, <1>3, <1>5, EmptyHands DEF FreeLabels
  <1>8. Local(t)'
    BY Zenon, <1>2, <1>3 DEF Local
  <1>9. Fits(pc[t], l, C, 1)
    BY <1>1, <1>2, SMT DEF Fits, One, HugeLabels, NormalLabels, OpenLabels
  <1>10. Misaligned' = Misaligned
    BY Zenon, <1>1 DEF Misaligned, Aligned
  <1>11. t \notin FallenBack'
    BY <1>1, <1>2, <1>3, <1>4, SMT DEF FallenBack, AllocParameters
  <1>12. \A a \in cached' : Aligned(a)
    BY Zenon, <1>1 DEF Backed
  <1> QED
    BY Zenon, <1>1, <1>2, <1>5, <1>6, <1>7, <1>8, <1>9, <1>10, <1>11, <1>12, CallInv

(* A page that leaves the cache is in the hand of its call. *)
LEMMA CacheHitInv ==
  ASSUME AllocParameters, IInv, NEW t \in Threads, CacheHit(t)
  PROVE  IInv'
  <1>1. /\ AllocTypeOK /\ Held /\ Backed /\ pc[t] = "get"
        /\ mapped' = mapped /\ leaked' = leaked /\ segs' = segs /\ calls' = calls
    BY Zenon DEF IInv, CacheHit
  <1>2. PICK a \in cached :
          /\ cached' = cached \ {a} /\ held' = held \cup {<<a, HUGE>>}
          /\ Count({"huge_cache_hit_count"}) /\ Return(t) /\ Aligned(a)
    BY Zenon, <1>1 DEF CacheHit, Backed
  <1>3. /\ Goto(t, "idle") /\ SameOthers(t) /\ pc'[t] = "idle"
        /\ pc' \in [Threads -> Labels] /\ size' \in [Threads -> Nat] /\ addr' \in [Threads -> Pages]
        /\ tries' \in [Threads -> 0 .. (MAX_ALLOC_RETRIES - 1)]
        /\ \A u \in Threads : pc'[u] = "cleanup" <=> segs'[u] # <<>>
    BY Zenon, <1>1, <1>2, ReturnType
  <1>4. <<a, HUGE>>[1] = a /\ <<a, HUGE>>[2] = HUGE
    BY Zenon
  <1>5. AllocTypeOK'
    <2>1. stats' \in [Counters -> Nat]
      BY Zenon, <1>1, <1>2, CountType
    <2>2. held' \subseteq Pages \X Nat /\ IsFiniteSet(held')
      <3>1. a \in Pages /\ HUGE \in Nat
        BY Zenon, <1>1 DEF AllocTypeOK, AllocParameters
      <3> QED
        BY Zenon, <1>1, <1>2, <3>1, AddLive
    <2>3. cached' \subseteq Pages /\ Cardinality(cached') <= HUGE_PAGE_CACHE_SIZE
      BY Zenon, <1>1, <1>2, CachedFinite DEF AllocTypeOK
    <2> QED
      BY Zenon, <1>1, <1>3, <2>1, <2>2, <2>3 DEF AllocTypeOK, Pages
  <1>6. Held'
    <2>1. InHand(t) = {} /\ InHand(t)' = {}
      BY Zenon, <1>1, <1>3, InHands DEF FreeLabels
    <2>2. \A u \in Threads : InHand(u)' = InHand(u)
      BY Zenon, <1>3, <2>1, OtherHands
    <2> QED
      BY Zenon, <1>1, <1>2, <2>2, OutOfCache
  <1>7. Local(t)'
    BY Zenon, <1>3 DEF Local
  <1>8. Fits(pc[t], "idle", {"huge_cache_hit_count"}, 0)
    BY <1>1, SMT DEF Fits, One, HugeLabels, NormalLabels, OpenLabels
  <1>9. Misaligned' \subseteq Misaligned
    BY Zenon, <1>2, <1>4 DEF Misaligned, Aligned
  <1>10. t \notin FallenBack'
    BY Zenon, <1>3 DEF FallenBack
  <1>11. \A b \in cached' : Aligned(b)
    BY Zenon, <1>1, <1>2 DEF Backed
  <1>12. calls' = calls + 0
    BY <1>1, SMT DEF AllocTypeOK
  <1> QED
    BY Zenon, <1>2, <1>3, <1>5, <1>6, <1>7, <1>8, <1>9, <1>10, <1>11, <1>12, CallInv

(* A miss goes on to mmap. *)
LEMMA CacheMissInv ==
  ASSUME AllocParameters, IInv, NEW t \in Threads, CacheMiss(t)
  PROVE  IInv'
  <1>1. /\ AllocTypeOK /\ pc[t] = "get" /\ Goto(t, "exact") /\ Count({"huge_alloc_count"})
        /\ UNCHANGED <<mapped, held, cached, leaked, size, addr, tries, segs, calls>>
    BY Zenon DEF IInv, CacheMiss
  <1>2. pc'[t] = "exact" /\ "exact" \in Labels
    BY Zenon, <1>1, GotoType DEF Labels
  <1>3. Fits(pc[t], "exact", {"huge_alloc_count"}, 0)
    BY <1>1, SMT DEF Fits, One, HugeLabels, NormalLabels, OpenLabels
  <1>4. /\ addr' \in [Threads -> Pages] /\ segs' \in [Threads -> Seq(SUBSET Int)]
        /\ tries' \in [Threads -> 0 .. (MAX_ALLOC_RETRIES - 1)]
        /\ segs'[t] = <<>> /\ mapped' \subseteq Pages
    BY Zenon, <1>1 DEF AllocTypeOK
  <1>5. Local(t)'
    BY Zenon, <1>2 DEF Local
  <1>6. InHand(t) = {} /\ InHand(t)' = {}
    BY Zenon, <1>1, <1>2, InHands DEF FreeLabels
  <1>7. /\ {} \cap mapped = {} /\ {} \subseteq InHand(t) /\ InHand(t)' = (InHand(t) \cup {}) \ {}
        /\ mapped' = (mapped \cup {}) \ {} /\ leaked' = leaked
    BY Zenon, <1>1, <1>6
  <1> QED
    BY Zenon, <1>1, <1>2, <1>3, <1>4, <1>5, <1>7, StepInv

(* mmap succeeds, for the exact size or for HUGE pages more. *)
Maps(t, a, k) ==
  /\ Extent(a, size[t] + k) \subseteq Pages \ mapped
  /\ mapped' = mapped \cup Extent(a, size[t] + k)
  /\ addr' = [addr EXCEPT ![t] = a]
  /\ tries' = [tries EXCEPT ![t] = 0]

Lands(t, a, k, l) ==
  \/ pc[t] = "exact" /\ k = 0 /\ (Aligned(a) => l = "huge") /\ (~Aligned(a) => l = "drop")
  \/ pc[t] = "over" /\ k = HUGE /\ (Aligned(a) => l = "tail") /\ (~Aligned(a) => l = "head")

(* A successful mmap puts pages that nobody held in the hand of the call. *)
LEMMA MapInv ==
  ASSUME AllocParameters, IInv, NEW t \in Threads, NEW a \in Pages, NEW k \in Nat, NEW l,
         Goto(t, l), Maps(t, a, k),
         held' = held, cached' = cached, leaked' = leaked, size' = size, segs' = segs,
         stats' = stats, calls' = calls,
         Lands(t, a, k, l)
  PROVE  IInv'
  <1> DEFINE new == Extent(a, size[t] + k)
  <1>1. /\ AllocTypeOK /\ Goto(t, l) /\ new \subseteq Pages \ mapped /\ mapped' = mapped \cup new
        /\ addr' = [addr EXCEPT ![t] = a] /\ tries' = [tries EXCEPT ![t] = 0]
    BY Zenon DEF IInv, Maps
  <1>2. l \in {"huge", "drop", "tail", "head"} /\ l \in Labels /\ l # "cleanup" /\ l # "normal"
    BY Zenon DEF Labels, Lands
  <1>3. pc'[t] = l /\ Count({})
    BY Zenon, <1>1, <1>2, GotoType, NoCount
  <1>4. Fits(pc[t], l, {}, 0)
    BY <1>2, SMT DEF Lands, Fits, One, HugeLabels, NormalLabels, OpenLabels
  <1>5. /\ addr' \in [Threads -> Pages] /\ addr'[t] = a /\ \A u \in Threads \ {t} : addr'[u] = addr[u]
        /\ size'[t] = size[t] /\ size[t] \in Nat
    BY Zenon, <1>1 DEF AllocTypeOK
  <1>6. tries' \in [Threads -> 0 .. (MAX_ALLOC_RETRIES - 1)]
    <2>1. 0 \in 0 .. (MAX_ALLOC_RETRIES - 1)
      BY SMT DEF AllocParameters
    <2> QED
      BY Zenon, <1>1, <2>1 DEF AllocTypeOK
  <1>7. segs' \in [Threads -> Seq(SUBSET Int)] /\ segs'[t] = <<>> /\ mapped' \subseteq Pages
    BY Zenon, <1>1 DEF AllocTypeOK, Lands
  <1>8. size[t] + 0 = size[t]
    BY <1>5, SMT
  <1>9. Local(t)'
    BY Zenon, <1>1, <1>2, <1>3, <1>5 DEF Lands, Local, Aligned, Extent, Pages
  <1>10. InHand(t) = {} /\ InHand(t)' = new
    <2>1. InHand(t) = {}
      BY Zenon, InHands DEF FreeLabels, Lands
    <2>2. CASE pc[t] = "exact"
      <3>1. k = 0 /\ pc'[t] \in FullLabels
        BY Zenon, <1>3, <2>2 DEF FullLabels, Lands
      <3>2. InHand(t)' = Extent(addr'[t], size'[t])
        BY Zenon, <3>1, InHands
      <3> QED
        BY Zenon, <1>5, <1>8, <2>1, <3>1, <3>2
    <2>3. CASE pc[t] = "over" /\ ~Aligned(a)
      <3>1. k = HUGE /\ pc'[t] = "head"
        BY Zenon, <1>3, <2>3 DEF Lands
      <3>2. InHand(t)' = Extent(addr'[t], size'[t] + HUGE)
        BY Zenon, <3>1, InHands
      <3> QED
        BY Zenon, <1>5, <2>1, <3>1, <3>2
    <2>4. CASE pc[t] = "over" /\ Aligned(a)
      <3>1. HeadGap(a) = {}
        <4>1. a \in Nat /\ AlignUp(a) = a
          <5>1. a \in Nat
            BY SMT DEF Pages
          <5> QED
            BY Zenon, <2>4, <5>1, Rounding
        <4> QED
          BY <4>1, SMT DEF HeadGap
      <3>2. k = HUGE /\ pc'[t] = "tail"
        BY Zenon, <1>3, <2>4 DEF Lands
      <3>3. InHand(t)' = Extent(addr'[t], size'[t] + HUGE) \ HeadGap(addr'[t])
        BY Zenon, <3>2, InHands
      <3> QED
        BY Zenon, <1>5, <2>1, <3>1, <3>2, <3>3
    <2> QED
      BY Zenon, <2>1, <2>2, <2>3, <2>4 DEF Lands
  <1>11. /\ new \cap mapped = {} /\ {} \subseteq InHand(t) /\ InHand(t)' = (InHand(t) \cup new) \ {}
         /\ mapped' = (mapped \cup new) \ {} /\ leaked' = leaked
    BY Zenon, <1>1, <1>10
  <1> HIDE DEF new
  <1> QED
    BY ZenonT(60), <1>1, <1>2, <1>3, <1>4, <1>5, <1>6, <1>7, <1>9, <1>11, StepInv

(* The mapping of the exact size. *)
LEMMA ExactInv ==
  ASSUME AllocParameters, IInv, NEW t \in Threads, Exact(t)
  PROVE  IInv'
  <1>1. /\ pc[t] = "exact" /\ held' = held /\ cached' = cached /\ leaked' = leaked /\ size' = size
        /\ segs' = segs /\ stats' = stats /\ calls' = calls
    BY Zenon DEF Exact
  <1>2. size[t] + 0 = size[t] /\ 0 \in Nat
    BY SMT DEF IInv, AllocTypeOK
  <1>3. PICK a \in Pages, l \in Labels :
          /\ Goto(t, l) /\ (Aligned(a) => l = "huge") /\ (~Aligned(a) => l = "drop")
          /\ Maps(t, a, 0)
    BY Zenon, <1>2 DEF Exact, MapAt, Maps, Labels
  <1>4. Lands(t, a, 0, l)
    BY Zenon, <1>1, <1>3 DEF Lands
  <1> QED
    BY Zenon, <1>1, <1>2, <1>3, <1>4, MapInv

(* The mapping that is larger by a huge page. *)
LEMMA OverInv ==
  ASSUME AllocParameters, IInv, NEW t \in Threads, Over(t)
  PROVE  IInv'
  <1>1. /\ pc[t] = "over" /\ held' = held /\ cached' = cached /\ leaked' = leaked /\ size' = size
        /\ segs' = segs /\ stats' = stats /\ calls' = calls
    BY Zenon DEF Over
  <1>2. HUGE \in Nat
    BY Zenon DEF AllocParameters
  <1>3. PICK a \in Pages, l \in Labels :
          /\ Goto(t, l) /\ (Aligned(a) => l = "tail") /\ (~Aligned(a) => l = "head")
          /\ Maps(t, a, HUGE)
    BY Zenon, <1>2 DEF Over, MapAt, Maps, Labels
  <1>4. Lands(t, a, HUGE, l)
    BY Zenon, <1>1, <1>3 DEF Lands
  <1> QED
    BY Zenon, <1>1, <1>2, <1>3, <1>4, MapInv

(* An aligned mapping goes to the caller. *)
LEMMA HugeDoneInv ==
  ASSUME AllocParameters, IInv, NEW t \in Threads, HugeDone(t)
  PROVE  IInv'
  <1> DEFINE m == <<addr[t], size[t]>>
  <1>1. /\ AllocTypeOK /\ Held /\ Backed /\ Local(t) /\ pc[t] = "huge"
        /\ held' = held \cup {m} /\ Count({"huge_alloc_success"}) /\ Return(t)
        /\ mapped' = mapped /\ leaked' = leaked /\ cached' = cached /\ segs' = segs /\ calls' = calls
    BY Zenon DEF IInv, HugeDone
  <1>2. /\ Goto(t, "idle") /\ SameOthers(t) /\ pc'[t] = "idle"
        /\ pc' \in [Threads -> Labels] /\ size' \in [Threads -> Nat] /\ addr' \in [Threads -> Pages]
        /\ tries' \in [Threads -> 0 .. (MAX_ALLOC_RETRIES - 1)]
        /\ \A u \in Threads : pc'[u] = "cleanup" <=> segs'[u] # <<>>
    BY Zenon, <1>1, ReturnType
  <1>3. m[1] = addr[t] /\ m[2] = size[t] /\ addr[t] \in Pages /\ size[t] \in Nat
    BY Zenon, <1>1 DEF AllocTypeOK
  <1>4. AllocTypeOK'
    <2>1. stats' \in [Counters -> Nat]
      BY Zenon, <1>1, CountType
    <2>2. held' \subseteq Pages \X Nat /\ IsFiniteSet(held')
      BY Zenon, <1>1, <1>3, AddLive
    <2> QED
      BY Zenon, <1>1, <1>2, <2>1, <2>2 DEF AllocTypeOK, Pages
  <1>5. Held'
    <2>1. InHand(t) = Extent(m[1], m[2])
      BY Zenon, <1>1, <1>3, InHands DEF FullLabels
    <2>2. InHand(t)' = {}
      BY Zenon, <1>2, InHands DEF FreeLabels
    <2>3. Extent(m[1], m[2]) = InHand(t) \cup {} /\ {} \cap mapped = {} /\ mapped' = mapped \cup {}
      BY Zenon, <1>1, <2>1
    <2> QED
      BY Zenon, <1>1, <1>2, <2>2, <2>3, HandOut
  <1>6. Local(t)'
    BY Zenon, <1>2 DEF Local
  <1>7. Fits(pc[t], "idle", {"huge_alloc_success"}, 0)
    BY <1>1, SMT DEF Fits, One, HugeLabels, NormalLabels, OpenLabels
  <1>8. Misaligned' \subseteq Misaligned
    BY Zenon, <1>1, <1>3 DEF Misaligned, Aligned, Local
  <1>9. t \notin FallenBack'
    BY Zenon, <1>2 DEF FallenBack
  <1>10. \A b \in cached' : Aligned(b)
    BY Zenon, <1>1 DEF Backed
  <1>11. calls' = calls + 0
    BY <1>1, SMT DEF AllocTypeOK
  <1> QED
    BY Zenon, <1>1, <1>2, <1>4, <1>5, <1>6, <1>7, <1>8, <1>9, <1>10, <1>11, CallInv

(* What SafeMunmap does to a set of pages, and what it counts. *)
LEMMA Munmap ==
  ASSUME AllocTypeOK, NEW P, NEW C, SafeMunmap(P, C)
  PROVE  /\ \E D : Count(D) /\ D \in {C, C \cup {"munmap_failed_count"}}
         /\ mapped' \subseteq Pages /\ {} \cap mapped = {}
         /\ \/ mapped' = (mapped \cup {}) \ P /\ leaked' = leaked
            \/ mapped' = mapped \cup {} /\ leaked' = leaked \cup P
  BY Zenon DEF SafeMunmap, Munmapped, MunmapFails, AllocTypeOK

(* A mapping that is not aligned is unmapped, or leaks when munmap fails. *)
LEMMA DropInv ==
  ASSUME AllocParameters, IInv, NEW t \in Threads, Drop(t)
  PROVE  IInv'
  <1> DEFINE gone == Extent(addr[t], size[t])
  <1>1. /\ AllocTypeOK /\ pc[t] = "drop" /\ SafeMunmap(gone, {}) /\ Goto(t, "over")
        /\ UNCHANGED <<held, cached, size, addr, tries, segs, calls>>
    BY Zenon DEF IInv, Drop
  <1>2. pc'[t] = "over" /\ "over" \in Labels
    BY Zenon, <1>1, GotoType DEF Labels
  <1>3. PICK C \in {{}, {} \cup {"munmap_failed_count"}} : Count(C)
    BY Zenon, <1>1, Munmap
  <1>4. Fits(pc[t], "over", C, 0)
    BY <1>1, SMT DEF Fits, One, HugeLabels, NormalLabels, OpenLabels
  <1>5. /\ addr' \in [Threads -> Pages] /\ segs' \in [Threads -> Seq(SUBSET Int)]
        /\ tries' \in [Threads -> 0 .. (MAX_ALLOC_RETRIES - 1)] /\ segs'[t] = <<>>
    BY Zenon, <1>1 DEF AllocTypeOK
  <1>6. Local(t)'
    BY Zenon, <1>2 DEF Local
  <1>7. InHand(t) = gone /\ InHand(t)' = {}
    BY Zenon, <1>1, <1>2, InHands DEF FreeLabels, FullLabels
  <1>8. gone \subseteq InHand(t) /\ InHand(t)' = (InHand(t) \cup {}) \ gone
    BY Zenon, <1>7
  <1>9. /\ mapped' \subseteq Pages /\ {} \cap mapped = {}
        /\ \/ mapped' = (mapped \cup {}) \ gone /\ leaked' = leaked
           \/ mapped' = mapped \cup {} /\ leaked' = leaked \cup gone
    BY Zenon, <1>1, Munmap
  <1> HIDE DEF gone
  <1> QED
    BY Zenon, <1>1, <1>2, <1>3, <1>4, <1>5, <1>6, <1>8, <1>9, StepInv

(* The fallback to normal pages is counted before they are mapped. *)
LEMMA HugeFailsInv ==
  ASSUME AllocParameters, IInv, NEW t \in Threads, HugeFails(t)
  PROVE  IInv'
  <1>1. /\ AllocTypeOK /\ pc[t] \in {"exact", "over"} /\ Goto(t, "normal") /\ Count(HugeFailure)
        /\ tries' = [tries EXCEPT ![t] = 0]
        /\ UNCHANGED <<mapped, held, cached, leaked, size, addr, segs, calls>>
    BY Zenon DEF IInv, HugeFails
  <1>2. pc'[t] = "normal" /\ "normal" \in Labels
    BY Zenon, <1>1, GotoType DEF Labels
  <1>3. Fits(pc[t], "normal", HugeFailure, 0) /\ "huge_fallback_to_normal_count" \in HugeFailure
    BY <1>1, SMT DEF Fits, One, HugeLabels, NormalLabels, OpenLabels, HugeFailure
  <1>4. /\ addr' \in [Threads -> Pages] /\ segs' \in [Threads -> Seq(SUBSET Int)]
        /\ segs'[t] = <<>> /\ mapped' \subseteq Pages
    BY Zenon, <1>1 DEF AllocTypeOK
  <1>5. tries' \in [Threads -> 0 .. (MAX_ALLOC_RETRIES - 1)]
    <2>1. 0 \in 0 .. (MAX_ALLOC_RETRIES - 1)
      BY SMT DEF AllocParameters
    <2> QED
      BY Zenon, <1>1, <2>1 DEF AllocTypeOK
  <1>6. Local(t)'
    BY Zenon, <1>2 DEF Local
  <1>7. InHand(t) = {} /\ InHand(t)' = {}
    BY Zenon, <1>1, <1>2, InHands DEF FreeLabels
  <1>8. /\ {} \cap mapped = {} /\ {} \subseteq InHand(t) /\ InHand(t)' = (InHand(t) \cup {}) \ {}
        /\ mapped' = (mapped \cup {}) \ {} /\ leaked' = leaked
    BY Zenon, <1>1, <1>7
  <1> QED
    BY Zenon, <1>1, <1>2, <1>3, <1>4, <1>5, <1>6, <1>8, StepInv

(* The head is unmapped, or leaks and leaves the rest to the cleanup. *)
LEMMA TrimHeadInv ==
  ASSUME AllocParameters, IInv, NEW t \in Threads, TrimHead(t)
  PROVE  IInv'
  <1> DEFINE a == addr[t]
             all == Extent(a, size[t] + HUGE)
             head == HeadGap(a)
             tail == TailGap(t, a)
             body == Body(t)
  <1>1. /\ AllocTypeOK /\ Local(t) /\ pc[t] = "head"
        /\ held' = held /\ cached' = cached /\ size' = size /\ addr' = addr /\ tries' = tries
        /\ calls' = calls
    BY Zenon DEF IInv, TrimHead
  <1>2. /\ head \subseteq all /\ all \ head = body \cup tail /\ body \cap tail = {}
        /\ body \in SUBSET Int /\ tail \in SUBSET Int
    BY Zenon, <1>1, TrimParts
  <1>3. InHand(t) = all
    BY Zenon, <1>1, InHands
  <1>4. /\ addr' \in [Threads -> Pages] /\ tries' \in [Threads -> 0 .. (MAX_ALLOC_RETRIES - 1)]
        /\ segs[t] = <<>> /\ segs \in [Threads -> Seq(SUBSET Int)] /\ mapped \subseteq Pages
    BY Zenon, <1>1 DEF AllocTypeOK
  <1>5. {} \cap mapped = {} /\ head \subseteq InHand(t)
    BY Zenon, <1>2, <1>3
  <1>6. CASE mapped' = mapped \ head /\ leaked' = leaked /\ stats' = stats /\ segs' = segs
             /\ Goto(t, "tail")
    <2>1. pc'[t] = "tail" /\ "tail" \in Labels /\ Count({})
      BY Zenon, <1>1, <1>6, GotoType, NoCount DEF Labels
    <2>2. Fits(pc[t], "tail", {}, 0)
      BY <1>1, SMT DEF Fits, One, HugeLabels, NormalLabels, OpenLabels
    <2>3. Local(t)'
      BY Zenon, <1>1, <2>1 DEF Local, Extent, Pages
    <2>4. InHand(t)' = (InHand(t) \cup {}) \ head
      <3>1. InHand(t)' = all \ head
        BY Zenon, <1>1, <2>1, InHands
      <3> QED
        BY Zenon, <1>3, <3>1
    <2>5. mapped' = (mapped \cup {}) \ head /\ mapped' \subseteq Pages
      BY Zenon, <1>4, <1>6
    <2> HIDE DEF head
    <2> QED
      BY Zenon, <1>1, <1>4, <1>5, <1>6, <2>1, <2>2, <2>3, <2>4, <2>5, StepInv
  <1>7. CASE /\ mapped' = mapped /\ leaked' = leaked \cup head /\ Count({"munmap_failed_count"})
             /\ segs' = [segs EXCEPT ![t] = <<body, tail>>] /\ Goto(t, "cleanup")
    <2>1. pc'[t] = "cleanup" /\ "cleanup" \in Labels
      BY Zenon, <1>1, <1>7, GotoType DEF Labels
    <2>2. Fits(pc[t], "cleanup", {"munmap_failed_count"}, 0)
      BY <1>1, SMT DEF Fits, One, HugeLabels, NormalLabels, OpenLabels
    <2>3. /\ segs' \in [Threads -> Seq(SUBSET Int)] /\ segs'[t] = <<body, tail>>
          /\ \A u \in Threads \ {t} : segs'[u] = segs[u]
      <3>1. <<body, tail>> \in Seq(SUBSET Int)
        <4> HIDE DEF body, tail
        <4> QED
          BY <1>2, SMT
      <3> QED
        BY Zenon, <1>4, <1>7, <3>1
    <2>4. Len(segs'[t]) = 2 /\ segs'[t][1] = body /\ segs'[t][2] = tail /\ segs'[t] # <<>>
      <3> HIDE DEF body, tail
      <3> QED
        BY <2>3, SMT
    <2>5. Local(t)'
      BY Zenon, <1>2, <2>1, <2>4 DEF Local
    <2>6. InHand(t)' = (InHand(t) \cup {}) \ head
      <3>1. InHand(t)' = UNION {segs'[t][j] : j \in 1 .. Len(segs'[t])}
        BY Zenon, <2>1, InHands
      <3>2. UNION {segs'[t][j] : j \in 1 .. Len(segs'[t])} = body \cup tail
        BY Zenon, <2>4, Unions
      <3> QED
        BY Zenon, <1>2, <1>3, <3>1, <3>2
    <2>7. mapped' = mapped \cup {} /\ mapped' \subseteq Pages
      BY Zenon, <1>4, <1>7
    <2> HIDE DEF head, body, tail
    <2> QED
      BY Zenon, <1>1, <1>4, <1>5, <1>7, <2>1, <2>2, <2>3, <2>4, <2>5, <2>6, <2>7, StepInv
  <1> QED
    BY Zenon, <1>6, <1>7 DEF TrimHead, Munmapped, MunmapFails

(* The tail is unmapped, or leaks and leaves the body to the cleanup. *)
LEMMA TrimTailInv ==
  ASSUME AllocParameters, IInv, NEW t \in Threads, TrimTail(t)
  PROVE  IInv'
  <1> DEFINE a == addr[t]
             all == Extent(a, size[t] + HUGE)
             head == HeadGap(a)
             tail == TailGap(t, a)
             body == Body(t)
  <1>1. /\ AllocTypeOK /\ Local(t) /\ pc[t] = "tail"
        /\ held' = held /\ cached' = cached /\ size' = size /\ tries' = tries /\ calls' = calls
    BY Zenon DEF IInv, TrimTail
  <1>2. /\ all \ head = body \cup tail /\ body \cap tail = {} /\ tail \subseteq all \ head
        /\ body \in SUBSET Int /\ tail \in SUBSET Int
        /\ Extent(AlignUp(a), size[t]) = body /\ AlignUp(a) \in all
    BY Zenon, <1>1, TrimParts
  <1>3. InHand(t) = all \ head
    BY Zenon, <1>1, InHands
  <1>4. /\ addr \in [Threads -> Pages] /\ tries' \in [Threads -> 0 .. (MAX_ALLOC_RETRIES - 1)]
        /\ segs[t] = <<>> /\ segs \in [Threads -> Seq(SUBSET Int)] /\ mapped \subseteq Pages
    BY Zenon, <1>1 DEF AllocTypeOK
  <1>5. {} \cap mapped = {} /\ tail \subseteq InHand(t)
    BY Zenon, <1>2, <1>3
  <1>6. CASE mapped' = mapped \ tail /\ leaked' = leaked /\ stats' = stats /\ segs' = segs
             /\ addr' = [addr EXCEPT ![t] = AlignUp(a)] /\ Goto(t, "huge")
    <2>1. pc'[t] = "huge" /\ "huge" \in Labels /\ Count({})
      BY Zenon, <1>1, <1>6, GotoType, NoCount DEF Labels
    <2>2. Fits(pc[t], "huge", {}, 0)
      BY <1>1, SMT DEF Fits, One, HugeLabels, NormalLabels, OpenLabels
    <2>3. /\ addr' \in [Threads -> Pages] /\ addr'[t] = AlignUp(a)
          /\ \A u \in Threads \ {t} : addr'[u] = addr[u]
      <3>1. AlignUp(a) \in Pages
        BY Zenon, <1>1, <1>2 DEF Local
      <3> QED
        BY Zenon, <1>4, <1>6, <3>1
    <2>4. Local(t)'
      <3>1. a \in Nat
        BY <1>4, SMT DEF Pages
      <3>2. Aligned(AlignUp(a))
        BY Zenon, <3>1, Rounding
      <3> QED
        BY Zenon, <2>1, <2>3, <3>2 DEF Local, Aligned
    <2>5. InHand(t)' = (InHand(t) \cup {}) \ tail
      <3>1. InHand(t)' = Extent(addr'[t], size'[t])
        BY Zenon, <2>1, InHands DEF FullLabels
      <3>2. InHand(t)' = body
        BY Zenon, <1>1, <1>2, <2>3, <3>1
      <3> QED
        BY Zenon, <1>2, <1>3, <3>2
    <2>6. mapped' = (mapped \cup {}) \ tail /\ mapped' \subseteq Pages
      BY Zenon, <1>4, <1>6
    <2> HIDE DEF tail
    <2> QED
      BY Zenon, <1>1, <1>4, <1>5, <1>6, <2>1, <2>2, <2>3, <2>4, <2>5, <2>6, StepInv
  <1>7. CASE /\ mapped' = mapped /\ leaked' = leaked \cup tail /\ Count({"munmap_failed_count"})
             /\ segs' = [segs EXCEPT ![t] = <<body>>] /\ Goto(t, "cleanup") /\ addr' = addr
    <2>1. pc'[t] = "cleanup" /\ "cleanup" \in Labels
      BY Zenon, <1>1, <1>7, GotoType DEF Labels
    <2>2. Fits(pc[t], "cleanup", {"munmap_failed_count"}, 0)
      BY <1>1, SMT DEF Fits, One, HugeLabels, NormalLabels, OpenLabels
    <2>3. /\ segs' \in [Threads -> Seq(SUBSET Int)] /\ segs'[t] = <<body>>
          /\ \A u \in Threads \ {t} : segs'[u] = segs[u]
      <3>1. <<body>> \in Seq(SUBSET Int)
        <4> HIDE DEF body
        <4> QED
          BY <1>2, SMT
      <3> QED
        BY Zenon, <1>4, <1>7, <3>1
    <2>4. Len(segs'[t]) = 1 /\ segs'[t][1] = body /\ segs'[t] # <<>>
      BY Zenon, <2>3, Tuples
    <2>5. Local(t)'
      BY Zenon, <2>1, <2>4 DEF Local
    <2>6. InHand(t)' = (InHand(t) \cup {}) \ tail
      <3>1. InHand(t)' = UNION {segs'[t][j] : j \in 1 .. Len(segs'[t])}
        BY Zenon, <2>1, InHands
      <3>2. UNION {segs'[t][j] : j \in 1 .. Len(segs'[t])} = body
        BY Zenon, <2>4, Unions
      <3> QED
        BY Zenon, <1>2, <1>3, <3>1, <3>2
    <2>7. mapped' = mapped \cup {} /\ mapped' \subseteq Pages /\ addr' \in [Threads -> Pages]
      BY Zenon, <1>4, <1>7
    <2> HIDE DEF body, tail
    <2> QED
      BY Zenon, <1>1, <1>4, <1>5, <1>7, <2>1, <2>2, <2>3, <2>4, <2>5, <2>6, <2>7, StepInv
  <1> QED
    BY Zenon, <1>1, <1>6, <1>7 DEF TrimTail, Munmapped, MunmapFails

(* cleanup_remaining_mappings unmaps one mapping more. *)
LEMMA CleanupInv ==
  ASSUME AllocParameters, IInv, NEW t \in Threads, Cleanup(t)
  PROVE  IInv'
  <1> DEFINE gone == segs[t][1]
             last == Len(segs[t]) = 1
             l == IF last THEN "normal" ELSE "cleanup"
  <1>1. /\ AllocTypeOK /\ Local(t) /\ pc[t] = "cleanup" /\ Goto(t, l)
        /\ SafeMunmap(gone, IF last THEN HugeFailure ELSE {})
        /\ segs' = [segs EXCEPT ![t] = Tail(@)]
        /\ held' = held /\ cached' = cached /\ size' = size /\ addr' = addr /\ tries' = tries
        /\ calls' = calls
    BY Zenon DEF IInv, Cleanup
  <1>2. pc'[t] = l /\ l \in Labels
    BY Zenon, <1>1, GotoType DEF Labels
  <1>3. /\ segs[t] \in Seq(SUBSET Int) /\ segs[t] # <<>> /\ addr' \in [Threads -> Pages]
        /\ tries' \in [Threads -> 0 .. (MAX_ALLOC_RETRIES - 1)]
    BY Zenon, <1>1 DEF AllocTypeOK
  <1>4. /\ segs' \in [Threads -> Seq(SUBSET Int)] /\ segs'[t] = Tail(segs[t])
        /\ \A u \in Threads \ {t} : segs'[u] = segs[u]
    <2>1. Tail(segs[t]) \in Seq(SUBSET Int)
      BY Zenon, <1>3, Rest
    <2> QED
      BY Zenon, <1>1, <2>1 DEF AllocTypeOK
  <1>5. PICK C : Count(C) /\ C \in {IF last THEN HugeFailure ELSE {},
                                   (IF last THEN HugeFailure ELSE {}) \cup {"munmap_failed_count"}}
    BY Zenon, <1>1, Munmap
  <1>6. /\ mapped' \subseteq Pages /\ {} \cap mapped = {}
        /\ \/ mapped' = (mapped \cup {}) \ gone /\ leaked' = leaked
           \/ mapped' = mapped \cup {} /\ leaked' = leaked \cup gone
    BY Zenon, <1>1, Munmap
  <1>7. Fits(pc[t], l, C, 0) /\ (l = "normal" => "huge_fallback_to_normal_count" \in C)
    <2>1. CASE last
      BY <1>1, <1>5, <2>1, SMT DEF Fits, One, HugeLabels, NormalLabels, OpenLabels, HugeFailure
    <2>2. CASE ~last
      BY <1>1, <1>5, <2>2, SMT DEF Fits, One, HugeLabels, NormalLabels, OpenLabels
    <2> QED
      BY Zenon, <2>1, <2>2
  <1>8. InHand(t) = UNION {segs[t][j] : j \in 1 .. Len(segs[t])}
    BY Zenon, <1>1, InHands
  <1>9. /\ Local(t)' /\ (l = "cleanup" <=> segs'[t] # <<>>)
        /\ gone \subseteq InHand(t) /\ InHand(t)' = (InHand(t) \cup {}) \ gone
    <2>1. CASE last
      <3>1. segs'[t] = <<>> /\ pc'[t] = "normal"
        BY Zenon, <1>2, <1>3, <1>4, <2>1, Rest
      <3>2. InHand(t) = gone
        BY Zenon, <1>8, <2>1, Unions
      <3>3. InHand(t)' = {}
        BY Zenon, <3>1, InHands DEF FreeLabels
      <3>4. Local(t)'
        BY Zenon, <3>1 DEF Local
      <3> QED
        BY Zenon, <2>1, <3>1, <3>2, <3>3, <3>4
    <2>2. CASE ~last
      <3> DEFINE next == segs[t][2]
      <3>1. Len(segs[t]) = 2 /\ gone \cap next = {}
        BY Zenon, <1>1, <2>2 DEF Local
      <3>2. /\ Len(segs'[t]) = 1 /\ segs'[t][1] = next /\ segs'[t] # <<>>
            /\ pc'[t] = "cleanup"
        BY Zenon, <1>2, <1>3, <1>4, <2>2, <3>1, Rest
      <3>3. InHand(t) = gone \cup next
        BY Zenon, <1>8, <3>1, Unions
      <3>4. UNION {segs'[t][j] : j \in 1 .. Len(segs'[t])} = next
        BY Zenon, <3>2, Unions
      <3>5. InHand(t)' = next
        BY Zenon, <3>2, <3>4, InHands
      <3>6. Local(t)'
        BY Zenon, <3>2 DEF Local
      <3> QED
        BY Zenon, <2>2, <3>1, <3>2, <3>3, <3>5, <3>6
    <2> QED
      BY Zenon, <2>1, <2>2
  <1> HIDE DEF gone, last, l
  <1> QED
    BY Zenon, <1>1, <1>2, <1>3, <1>4, <1>5, <1>6, <1>7, <1>9, StepInv

(* AllocWithRetry tries again. *)
LEMMA RetryInv ==
  ASSUME AllocParameters, IInv, NEW t \in Threads, NEW l, Retry(t, l)
  PROVE  IInv'
  <1>1. /\ mapped' = mapped /\ held' = held /\ cached' = cached /\ leaked' = leaked /\ pc' = pc
        /\ size' = size /\ addr' = addr /\ segs' = segs /\ stats' = stats /\ calls' = calls
    BY Zenon DEF Retry
  <1>2. AllocTypeOK'
    <2>1. tries[t] + 1 \in 0 .. (MAX_ALLOC_RETRIES - 1)
      BY SMT DEF IInv, AllocTypeOK, Retry, AllocParameters
    <2>2. tries' \in [Threads -> 0 .. (MAX_ALLOC_RETRIES - 1)]
      BY Zenon, <2>1 DEF IInv, AllocTypeOK, Retry
    <2> QED
      BY Zenon, <1>1, <2>2 DEF IInv, AllocTypeOK, Pages
  <1>3. \A u \in Threads : InHand(u)' = InHand(u) /\ Local(u)' = Local(u)
    BY Zenon, <1>1 DEF InHand, Local, HeadGap, Extent, Aligned, AlignUp, Pages
  <1>4. Held'
    <2> SUFFICES ASSUME NEW p \in Pages PROVE OneHolder(p)'
      BY Zenon DEF Held, Pages
    <2>1. LiveAt(p)' = LiveAt(p) /\ CachedAt(p)' = CachedAt(p) /\ CallsAt(p)' = CallsAt(p)
      BY Zenon, <1>1, <1>3 DEF LiveAt, CachedAt, CallsAt, Extent
    <2>2. OneHolder(p)
      BY Zenon DEF IInv, Held
    <2> QED
      BY Zenon, <1>1, <2>1, <2>2 DEF OneHolder, NoHolder
  <1>5. StatsBalance'
    BY Zenon, <1>1 DEF IInv, StatsBalance, InHugePath
  <1>6. Backed'
    BY Zenon, <1>1 DEF IInv, Backed, Misaligned, FallenBack, Aligned
  <1> QED
    BY Zenon, <1>2, <1>3, <1>4, <1>5, <1>6 DEF IInv

(* AllocNormalPage maps pages anywhere; after a fallback they need not be  *)
(* aligned.                                                                *)
LEMMA NormalInv ==
  ASSUME AllocParameters, IInv, NEW t \in Threads, Normal(t)
  PROVE  IInv'
  <1>1. /\ AllocTypeOK /\ Held /\ Backed /\ pc[t] = "normal" /\ Count({"normal_alloc_success"}) /\ Return(t)
        /\ leaked' = leaked /\ cached' = cached /\ segs' = segs /\ calls' = calls
    BY Zenon DEF IInv, Normal
  <1>2. PICK a \in Pages : /\ Extent(a, size[t]) \subseteq Pages \ mapped
                          /\ mapped' = mapped \cup Extent(a, size[t])
                          /\ held' = held \cup {<<a, size[t]>>}
    BY Zenon DEF Normal
  <1> DEFINE m == <<a, size[t]>>
  <1>3. /\ Goto(t, "idle") /\ SameOthers(t) /\ pc'[t] = "idle"
        /\ pc' \in [Threads -> Labels] /\ size' \in [Threads -> Nat] /\ addr' \in [Threads -> Pages]
        /\ tries' \in [Threads -> 0 .. (MAX_ALLOC_RETRIES - 1)]
        /\ \A u \in Threads : pc'[u] = "cleanup" <=> segs'[u] # <<>>
    BY Zenon, <1>1, ReturnType
  <1>4. m[1] = a /\ m[2] = size[t] /\ size[t] \in Nat
    BY Zenon, <1>1 DEF AllocTypeOK
  <1>5. AllocTypeOK'
    <2>1. stats' \in [Counters -> Nat]
      BY Zenon, <1>1, CountType
    <2>2. held' \subseteq Pages \X Nat /\ IsFiniteSet(held')
      BY Zenon, <1>1, <1>2, <1>4, AddLive
    <2>3. mapped' \subseteq Pages
      BY Zenon, <1>1, <1>2 DEF AllocTypeOK
    <2> QED
      BY Zenon, <1>1, <1>3, <2>1, <2>2, <2>3 DEF AllocTypeOK, Pages
  <1>6. Held'
    <2> DEFINE new == Extent(a, size[t])
    <2>1. InHand(t) = {} /\ InHand(t)' = {}
      BY Zenon, <1>1, <1>3, InHands DEF FreeLabels
    <2>2. /\ Extent(m[1], m[2]) = InHand(t) \cup new /\ new \cap mapped = {}
          /\ mapped' = mapped \cup new /\ held' = held \cup {m}
      BY Zenon, <1>2, <1>4, <2>1
    <2> HIDE DEF new, m
    <2> QED
      BY Zenon, <1>1, <1>3, <2>1, <2>2, HandOut
  <1>7. Local(t)'
    BY Zenon, <1>3 DEF Local
  <1>8. Fits(pc[t], "idle", {"normal_alloc_success"}, 0)
    BY <1>1, SMT DEF Fits, One, HugeLabels, NormalLabels, OpenLabels
  <1>9. t \notin FallenBack'
    BY Zenon, <1>3 DEF FallenBack
  <1>10. \/ Misaligned' \subseteq Misaligned
         \/ Misaligned' \subseteq Misaligned \cup {m} /\ t \in FallenBack
    <2>1. CASE 2 * size[t] >= HUGE
      BY Zenon, <1>1, <1>2, <2>1 DEF Misaligned, FallenBack, Aligned
    <2>2. CASE ~(2 * size[t] >= HUGE)
      BY Zenon, <1>2, <1>4, <2>2 DEF Misaligned, Aligned
    <2> QED
      BY Zenon, <2>1, <2>2
  <1>11. \A b \in cached' : Aligned(b)
    BY Zenon, <1>1 DEF Backed
  <1>12. calls' = calls + 0
    BY <1>1, SMT DEF AllocTypeOK
  <1> HIDE DEF m
  <1> QED
    BY Zenon, <1>1, <1>3, <1>5, <1>6, <1>7, <1>8, <1>9, <1>10, <1>11, <1>12, CallInv

(* A step that ends a call and leaves the callers' mappings and the cache  *)
(* alone, or adds a page to the cache.                                     *)
LEMMA EndInv ==
  ASSUME AllocParameters, IInv, NEW t \in Threads, Return(t), NEW C, Count(C),
         Fits(pc[t], "idle", C, 0), pc[t] # "cleanup", Held',
         mapped' \subseteq Pages, held' = held, segs' = segs, calls' = calls,
         cached' \subseteq Pages, Cardinality(cached') <= HUGE_PAGE_CACHE_SIZE,
         \A a \in cached' : Aligned(a)
  PROVE  IInv'
  <1>1. AllocTypeOK
    BY Zenon DEF IInv
  <1>2. /\ Goto(t, "idle") /\ SameOthers(t) /\ pc'[t] = "idle"
        /\ pc' \in [Threads -> Labels] /\ size' \in [Threads -> Nat] /\ addr' \in [Threads -> Pages]
        /\ tries' \in [Threads -> 0 .. (MAX_ALLOC_RETRIES - 1)]
        /\ \A u \in Threads : pc'[u] = "cleanup" <=> segs'[u] # <<>>
    BY Zenon, <1>1, ReturnType
  <1>3. AllocTypeOK'
    <2>1. stats' \in [Counters -> Nat]
      BY Zenon, <1>1, CountType
    <2> QED
      BY Zenon, <1>1, <1>2, <2>1 DEF AllocTypeOK, Pages
  <1>4. Local(t)'
    BY Zenon, <1>2 DEF Local
  <1>5. Misaligned' \subseteq Misaligned /\ t \notin FallenBack'
    BY Zenon, <1>2 DEF Misaligned, FallenBack, Aligned
  <1>6. calls' = calls + 0
    BY <1>1, SMT DEF AllocTypeOK
  <1> QED
    BY Zenon, <1>2, <1>3, <1>4, <1>5, <1>6, CallInv

(* SystemAlloc gives up. *)
LEMMA NormalFailsInv ==
  ASSUME AllocParameters, IInv, NEW t \in Threads, NormalFails(t)
  PROVE  IInv'
  <1> DEFINE C == {"normal_alloc_failed_count", "alloc_failed_count"}
  <1>1. /\ AllocTypeOK /\ Held /\ Backed /\ pc[t] = "normal" /\ Count(C) /\ Return(t)
        /\ mapped' = mapped /\ held' = held /\ leaked' = leaked /\ cached' = cached /\ segs' = segs
        /\ calls' = calls
    BY Zenon DEF IInv, NormalFails
  <1>2. SameOthers(t) /\ pc'[t] = "idle"
    BY Zenon, <1>1, ReturnType
  <1>3. Held'
    BY Zenon, <1>1, <1>2, EmptyHands DEF FreeLabels
  <1>4. Fits(pc[t], "idle", C, 0)
    BY <1>1, SMT DEF Fits, One, HugeLabels, NormalLabels, OpenLabels
  <1>5. /\ mapped' \subseteq Pages /\ cached' \subseteq Pages
        /\ Cardinality(cached') <= HUGE_PAGE_CACHE_SIZE
    BY Zenon, <1>1 DEF AllocTypeOK
  <1>6. pc[t] # "cleanup" /\ \A a \in cached' : Aligned(a)
    BY Zenon, <1>1 DEF Backed
  <1> HIDE DEF C
  <1> QED
    BY Zenon, <1>1, <1>3, <1>4, <1>5, <1>6, EndInv

-----------------------------------------------------------------------------
(* The steps of SystemFree keep the invariant. *)

(* SystemFree takes the mapping from the caller. *)
LEMMA SystemFreeInv ==
  ASSUME AllocParameters, IInv, NEW t \in Threads, NEW m \in held, SystemFree(t, m)
  PROVE  IInv'
  <1>1. /\ AllocTypeOK /\ Held /\ Backed /\ pc[t] = "idle" /\ held' = held \ {m}
        /\ addr' = [addr EXCEPT ![t] = m[1]] /\ size' = [size EXCEPT ![t] = m[2]]
        /\ mapped' = mapped /\ cached' = cached /\ leaked' = leaked /\ tries' = tries /\ segs' = segs
        /\ stats' = stats /\ calls' = calls
    BY Zenon DEF IInv, SystemFree
  <1>2. PICK l \in {"put", "unmap"} : Goto(t, l) /\ (l = "put" => m[2] = HUGE /\ Aligned(m[1]))
    BY Zenon DEF SystemFree
  <1>3. pc' \in [Threads -> Labels] /\ pc'[t] = l /\ \A u \in Threads \ {t} : pc'[u] = pc[u]
    BY Zenon, <1>1, <1>2, GotoType DEF Labels
  <1>4. m[1] \in Pages /\ m[2] \in Nat
    BY SMT, <1>1 DEF AllocTypeOK
  <1>5. /\ size' \in [Threads -> Nat] /\ size'[t] = m[2] /\ \A u \in Threads \ {t} : size'[u] = size[u]
    BY Zenon, <1>1, <1>4 DEF AllocTypeOK
  <1>6. /\ addr' \in [Threads -> Pages] /\ addr'[t] = m[1] /\ \A u \in Threads \ {t} : addr'[u] = addr[u]
    BY Zenon, <1>1, <1>4 DEF AllocTypeOK
  <1>7. SameOthers(t)
    BY Zenon, <1>1, <1>3, <1>5, <1>6 DEF SameOthers
  <1>8. AllocTypeOK'
    <2>1. held' \subseteq Pages \X Nat /\ IsFiniteSet(held')
      BY Zenon, <1>1, FS_Subset DEF AllocTypeOK
    <2>2. \A u \in Threads : pc'[u] = "cleanup" <=> segs'[u] # <<>>
      BY Zenon, <1>1, <1>2, <1>3 DEF AllocTypeOK
    <2> QED
      BY Zenon, <1>1, <1>3, <1>5, <1>6, <2>1, <2>2 DEF AllocTypeOK, Pages
  <1>9. Held'
    <2>1. InHand(t) = {}
      BY Zenon, <1>1, InHands DEF FreeLabels
    <2>2. pc'[t] \in FullLabels
      BY Zenon, <1>2, <1>3 DEF FullLabels
    <2>3. InHand(t)' = Extent(addr'[t], size'[t])
      BY Zenon, <2>2, InHands
    <2>4. InHand(t)' = Extent(m[1], m[2])
      BY Zenon, <1>5, <1>6, <2>3
    <2> QED
      BY Zenon, <1>1, <1>7, <2>1, <2>4, HandIn
  <1>10. Local(t)'
    BY Zenon, <1>2, <1>3, <1>5, <1>6 DEF Local, Aligned
  <1>11. Fits(pc[t], l, {}, 0)
    BY <1>1, <1>2, SMT DEF Fits, One, HugeLabels, NormalLabels, OpenLabels
  <1>12. Misaligned' \subseteq Misaligned /\ t \notin FallenBack'
    BY Zenon, <1>1, <1>2, <1>3 DEF Misaligned, FallenBack, Aligned
  <1>13. \A b \in cached' : Aligned(b)
    BY Zenon, <1>1 DEF Backed
  <1>14. calls' = calls + 0 /\ 0 \in Nat
    BY <1>1, SMT DEF AllocTypeOK
  <1>15. Count({})
    BY Zenon, <1>1, NoCount
  <1> QED
    BY Zenon, <1>2, <1>7, <1>8, <1>9, <1>10, <1>11, <1>12, <1>13, <1>14, <1>15, CallInv

(* The mapping is unmapped, or leaks when munmap fails. *)
LEMMA UnmapInv ==
  ASSUME AllocParameters, IInv, NEW t \in Threads, Unmap(t)
  PROVE  IInv'
  <1> DEFINE gone == Extent(addr[t], size[t])
  <1>1. /\ AllocTypeOK /\ Held /\ Backed /\ pc[t] = "unmap" /\ SafeMunmap(gone, {}) /\ Return(t)
        /\ held' = held /\ cached' = cached /\ segs' = segs /\ calls' = calls
    BY Zenon DEF IInv, Unmap
  <1>2. SameOthers(t) /\ pc'[t] = "idle"
    BY Zenon, <1>1, ReturnType
  <1>3. PICK C \in {{}, {} \cup {"munmap_failed_count"}} : Count(C)
    BY Zenon, <1>1, Munmap
  <1>4. /\ mapped' \subseteq Pages /\ {} \cap mapped = {}
        /\ \/ mapped' = (mapped \cup {}) \ gone /\ leaked' = leaked
           \/ mapped' = mapped \cup {} /\ leaked' = leaked \cup gone
    BY Zenon, <1>1, Munmap
  <1>5. InHand(t) = gone /\ InHand(t)' = {}
    BY Zenon, <1>1, <1>2, InHands DEF FreeLabels, FullLabels
  <1>6. gone \subseteq InHand(t) /\ InHand(t)' = (InHand(t) \cup {}) \ gone
    BY Zenon, <1>5
  <1>7. Held'
    <2> HIDE DEF gone
    <2> QED
      BY Zenon, <1>1, <1>2, <1>4, <1>6, HandStep
  <1>8. Fits(pc[t], "idle", C, 0)
    BY <1>1, SMT DEF Fits, One, HugeLabels, NormalLabels, OpenLabels
  <1>9. cached' \subseteq Pages /\ Cardinality(cached') <= HUGE_PAGE_CACHE_SIZE
    BY Zenon, <1>1 DEF AllocTypeOK
  <1>10. pc[t] # "cleanup" /\ \A a \in cached' : Aligned(a)
    BY Zenon, <1>1 DEF Backed
  <1> QED
    BY Zenon, <1>1, <1>3, <1>4, <1>7, <1>8, <1>9, <1>10, EndInv

(* A page that the cache takes leaves the hand of its call. *)
LEMMA CachePutInv ==
  ASSUME AllocParameters, IInv, NEW t \in Threads, CachePut(t)
  PROVE  IInv'
  <1>1. /\ AllocTypeOK /\ Held /\ Backed /\ Local(t) /\ pc[t] = "put"
        /\ mapped' = mapped /\ held' = held /\ leaked' = leaked /\ segs' = segs /\ stats' = stats
        /\ calls' = calls /\ Count({})
    BY Zenon, NoCount DEF IInv, CachePut
  <1>2. InHand(t) = Extent(addr[t], HUGE) /\ Aligned(addr[t]) /\ addr[t] \in Pages
    BY Zenon, <1>1, InHands DEF FullLabels, Local, AllocTypeOK
  <1>3. CASE /\ Cardinality(cached) < HUGE_PAGE_CACHE_SIZE /\ cached' = cached \cup {addr[t]}
             /\ Return(t)
    <2>1. SameOthers(t) /\ pc'[t] = "idle"
      BY Zenon, <1>1, <1>3, ReturnType
    <2>2. InHand(t)' = {}
      BY Zenon, <2>1, InHands DEF FreeLabels
    <2>3. Held'
      BY Zenon, <1>1, <1>2, <1>3, <2>1, <2>2, HandToCache
    <2>4. Fits(pc[t], "idle", {}, 0)
      BY <1>1, SMT DEF Fits, One, HugeLabels, NormalLabels, OpenLabels
    <2>5. mapped' \subseteq Pages /\ cached' \subseteq Pages
      BY Zenon, <1>1, <1>2, <1>3 DEF AllocTypeOK
    <2>6. Cardinality(cached') <= HUGE_PAGE_CACHE_SIZE
      <3>1. IsFiniteSet(cached) /\ Cardinality(cached) \in Nat
        BY Zenon, <1>1, CachedFinite
      <3>2. Cardinality(cached') \in {Cardinality(cached), Cardinality(cached) + 1}
        BY Zenon, <1>3, <3>1, FS_AddElement
      <3> QED
        BY <1>3, <3>1, <3>2, SMT DEF AllocParameters
    <2>7. pc[t] # "cleanup" /\ \A a \in cached' : Aligned(a)
      BY Zenon, <1>1, <1>2, <1>3 DEF Backed
    <2> QED
      BY Zenon, <1>1, <1>3, <2>3, <2>4, <2>5, <2>6, <2>7, EndInv
  <1>4. CASE Goto(t, "unmap") /\ cached' = cached /\ size' = size /\ addr' = addr /\ tries' = tries
    <2>1. pc'[t] = "unmap" /\ "unmap" \in Labels
      BY Zenon, <1>1, <1>4, GotoType DEF Labels
    <2>2. Fits(pc[t], "unmap", {}, 0)
      BY <1>1, SMT DEF Fits, One, HugeLabels, NormalLabels, OpenLabels
    <2>3. /\ addr' \in [Threads -> Pages] /\ segs' \in [Threads -> Seq(SUBSET Int)]
          /\ tries' \in [Threads -> 0 .. (MAX_ALLOC_RETRIES - 1)]
          /\ segs'[t] = <<>> /\ mapped' \subseteq Pages
      BY Zenon, <1>1, <1>4 DEF AllocTypeOK
    <2>4. Local(t)'
      BY Zenon, <2>1 DEF Local
    <2>5. InHand(t)' = InHand(t)
      <3>1. InHand(t) = Extent(addr[t], size[t])
        BY Zenon, <1>1, InHands DEF FullLabels
      <3>2. InHand(t)' = Extent(addr'[t], size'[t])
        BY Zenon, <2>1, InHands DEF FullLabels
      <3> QED
        BY Zenon, <1>4, <3>1, <3>2
    <2>6. /\ {} \cap mapped = {} /\ {} \subseteq InHand(t) /\ InHand(t)' = (InHand(t) \cup {}) \ {}
          /\ mapped' = (mapped \cup {}) \ {}
      BY Zenon, <1>1, <2>5
    <2> QED
      BY Zenon, <1>1, <1>4, <2>1, <2>2, <2>3, <2>4, <2>6, StepInv
  <1> QED
    BY Zenon, <1>3, <1>4 DEF CachePut

(* ReleaseHugePageCache unmaps a cached page. *)
LEMMA ReleaseInv ==
  ASSUME AllocParameters, IInv, ReleaseHugePageCache
  PROVE  IInv'
  <1>1. /\ AllocTypeOK /\ Held /\ Backed /\ StatsBalance /\ held' = held /\ pc' = pc /\ size' = size
        /\ addr' = addr /\ tries' = tries /\ segs' = segs /\ calls' = calls
    BY Zenon DEF IInv, ReleaseHugePageCache
  <1>2. PICK a \in cached : cached' = cached \ {a} /\ SafeMunmap(Extent(a, HUGE), {})
    BY Zenon DEF ReleaseHugePageCache
  <1> DEFINE gone == Extent(a, HUGE)
  <1>3. PICK C \in {{}, {} \cup {"munmap_failed_count"}} : Count(C)
    BY Zenon, <1>1, <1>2, Munmap
  <1>4. /\ mapped' \subseteq Pages
        /\ \/ mapped' = mapped \ gone /\ leaked' = leaked
           \/ mapped' = mapped /\ leaked' = leaked \cup gone
    BY Zenon, <1>1, <1>2 DEF AllocTypeOK, SafeMunmap, Munmapped, MunmapFails
  <1>5. \A u \in Threads : InHand(u)' = InHand(u) /\ Local(u)' = Local(u)
    BY Zenon, <1>1 DEF InHand, Local, HeadGap, Extent, Aligned, AlignUp, Pages
  <1>6. AllocTypeOK'
    <2>1. stats' \in [Counters -> Nat]
      BY Zenon, <1>1, <1>3, CountType
    <2>2. cached' \subseteq Pages /\ Cardinality(cached') <= HUGE_PAGE_CACHE_SIZE
      BY Zenon, <1>1, <1>2, CachedFinite DEF AllocTypeOK
    <2> QED
      BY Zenon, <1>1, <1>4, <2>1, <2>2 DEF AllocTypeOK, Pages
  <1>7. Held'
    BY Zenon, <1>1, <1>2, <1>4, <1>5, OutOfCache
  <1>8. \A c \in Counters \ {"munmap_failed_count"} : stats'[c] = stats[c]
    BY <1>1, <1>3, SMT DEF AllocTypeOK, Count
  <1>9. StatsBalance'
    BY Zenon, <1>1, <1>8 DEF StatsBalance, InHugePath, Counters
  <1>10. Backed'
    <2>1. Misaligned' = Misaligned /\ FallenBack' = FallenBack
      BY Zenon, <1>1 DEF Misaligned, FallenBack, Aligned
    <2>2. stats'["huge_fallback_to_normal_count"] = stats["huge_fallback_to_normal_count"]
      BY Zenon, <1>8 DEF Counters
    <2> QED
      BY Zenon, <1>1, <1>2, <2>1, <2>2 DEF Backed, Aligned
  <1> QED
    BY Zenon, <1>5, <1>6, <1>7, <1>9, <1>10 DEF IInv

-----------------------------------------------------------------------------
(* The theorems. *)

(* No page is mapped, no call is on its way, and all counters are zero. *)
LEMMA InitInv ==
  ASSUME AllocParameters, AllocInit
  PROVE  IInv
  <1>1. /\ mapped = {} /\ held = {} /\ cached = {} /\ leaked = {} /\ calls = 0
        /\ \A t \in Threads : pc[t] = "idle" /\ segs[t] = <<>>
        /\ \A c \in Counters : stats[c] = 0
    BY Zenon DEF AllocInit
  <1>2. IsFiniteSet({}) /\ Cardinality({}) = 0
    BY Zenon, FS_EmptySet
  <1>3. AllocTypeOK
    <2>1. 0 \in Nat /\ 0 \in Pages /\ 0 \in 0 .. (MAX_ALLOC_RETRIES - 1) /\ <<>> \in Seq(SUBSET Int)
          /\ 0 <= HUGE_PAGE_CACHE_SIZE
      BY SMT DEF AllocParameters, Pages
    <2>2. /\ pc \in [Threads -> Labels] /\ size \in [Threads -> Nat] /\ addr \in [Threads -> Pages]
          /\ tries \in [Threads -> 0 .. (MAX_ALLOC_RETRIES - 1)]
          /\ segs \in [Threads -> Seq(SUBSET Int)] /\ stats \in [Counters -> Nat]
      BY Zenon, <2>1 DEF AllocInit, Labels
    <2>3. \A t \in Threads : pc[t] = "cleanup" <=> segs[t] # <<>>
      BY Zenon, <1>1
    <2> QED
      BY Zenon, <1>1, <1>2, <2>1, <2>2, <2>3 DEF AllocTypeOK
  <1>4. \A t \in Threads : InHand(t) = {} /\ Local(t)
    BY Zenon, <1>1, InHands DEF FreeLabels, Local
  <1>5. Held
    BY Zenon, <1>1, <1>4 DEF Held, OneHolder, NoHolder, LiveAt, CachedAt, CallsAt
  <1>6. StatsBalance
    <2>1. /\ {t \in Threads : InHugePath(t)} = {} /\ {t \in Threads : pc[t] = "normal"} = {}
          /\ {t \in Threads : InHugePath(t) \/ pc[t] \in {"get", "normal"}} = {}
      BY Zenon, <1>1 DEF InHugePath
    <2>2. /\ stats["huge_alloc_count"] = 0 /\ stats["huge_alloc_success"] = 0
          /\ stats["huge_alloc_failed_count"] = 0 /\ stats["normal_alloc_count"] = 0
          /\ stats["normal_alloc_success"] = 0 /\ stats["normal_alloc_failed_count"] = 0
          /\ stats["huge_cache_hit_count"] = 0 /\ stats["alloc_failed_count"] = 0
      BY Zenon, <1>1 DEF Counters
    <2>3. 0 = 0 + 0 + 0 /\ 0 = 0 + 0 + 0 + 0 + 0
      BY SMT
    <2> QED
      BY Zenon, <1>1, <1>2, <2>1, <2>2, <2>3 DEF StatsBalance
  <1>7. Backed
    <2>1. Misaligned = {} /\ FallenBack = {}
      BY Zenon, <1>1 DEF Misaligned, FallenBack
    <2>2. stats["huge_fallback_to_normal_count"] = 0 /\ 0 + 0 <= 0
      BY <1>1, SMT DEF Counters
    <2> QED
      BY Zenon, <1>1, <1>2, <2>1, <2>2 DEF Backed
  <1> QED
    BY Zenon, <1>3, <1>4, <1>5, <1>6, <1>7 DEF IInv

(* Every step of every call keeps the invariant. *)
LEMMA NextInv ==
  ASSUME AllocParameters, IInv, [AllocNext]_allocVars
  PROVE  IInv'
  <1>1. ASSUME NEW t \in Threads, NEW n \in Sizes, SystemAlloc(t, n) PROVE IInv'
    BY Zenon, <1>1, SystemAllocInv
  <1>2. ASSUME NEW t \in Threads, NEW m \in held, SystemFree(t, m) PROVE IInv'
    BY Zenon, <1>2, SystemFreeInv
  <1>3. ASSUME NEW t \in Threads, Step(t) PROVE IInv'
    BY Zenon, <1>3, RetryInv, CacheHitInv, CacheMissInv, ExactInv, HugeDoneInv, DropInv, OverInv,
       TrimHeadInv, TrimTailInv, CleanupInv, HugeFailsInv, NormalInv, NormalFailsInv, CachePutInv,
       UnmapInv
       DEF Step
  <1>4. ASSUME UNCHANGED allocVars PROVE IInv'
    <2>1. /\ mapped' = mapped /\ held' = held /\ cached' = cached /\ leaked' = leaked /\ pc' = pc
          /\ size' = size /\ addr' = addr /\ tries' = tries /\ segs' = segs /\ stats' = stats
          /\ calls' = calls
      BY Zenon, <1>4 DEF allocVars
    <2>2. \A u \in Threads : InHand(u)' = InHand(u) /\ Local(u)' = Local(u)
      BY Zenon, <2>1 DEF InHand, Local, HeadGap, Extent, Aligned, AlignUp, Pages
    <2>3. Held'
      <3> SUFFICES ASSUME NEW p \in Pages PROVE OneHolder(p)'
        BY Zenon DEF Held, Pages
      <3>1. LiveAt(p)' = LiveAt(p) /\ CachedAt(p)' = CachedAt(p) /\ CallsAt(p)' = CallsAt(p)
        BY Zenon, <2>1, <2>2 DEF LiveAt, CachedAt, CallsAt, Extent
      <3>2. OneHolder(p)
        BY Zenon DEF IInv, Held
      <3> QED
        BY Zenon, <2>1, <3>1, <3>2 DEF OneHolder, NoHolder
    <2>4. AllocTypeOK'
      BY Zenon, <2>1 DEF IInv, AllocTypeOK, Pages
    <2>5. StatsBalance'
      BY Zenon, <2>1 DEF IInv, StatsBalance, InHugePath
    <2>6. Backed'
      BY Zenon, <2>1 DEF IInv, Backed, Misaligned, FallenBack, Aligned
    <2> QED
      BY Zenon, <2>2, <2>3, <2>4, <2>5, <2>6 DEF IInv
  <1> QED
    BY Zenon, <1>1, <1>2, <1>3, <1>4, ReleaseInv DEF AllocNext

(* The invariant says what PagesAccounted does. *)
LEMMA Accounts ==
  ASSUME AllocParameters, IInv
  PROVE  PagesAccounted
  <1>1. HeldOnce
    <2> SUFFICES ASSUME NEW p \in Pages
                 PROVE  Holders(p) = IF p \in mapped THEN 1 ELSE 0
      BY Zenon DEF HeldOnce
    <2>1. Holders(p) = Cardinality(LiveAt(p)) + Cardinality(CachedAt(p)) + Cardinality(CallsAt(p))
                         + (IF p \in leaked THEN 1 ELSE 0)
      BY Zenon DEF Holders, LiveAt, CachedAt, CallsAt
    <2>2. Cardinality({}) = 0 /\ \A x : Cardinality({x}) = 1
      BY Zenon, FS_EmptySet, FS_Singleton
    <2>3. OneHolder(p)
      BY Zenon DEF IInv, Held
    <2> DEFINE L == Cardinality(LiveAt(p))
               K == Cardinality(CachedAt(p))
               N == Cardinality(CallsAt(p))
    <2>4. \/ p \notin mapped /\ p \notin leaked /\ L = 0 /\ K = 0 /\ N = 0
          \/ p \in mapped /\ p \in leaked /\ L = 0 /\ K = 0 /\ N = 0
          \/ p \in mapped /\ p \notin leaked /\ L = 1 /\ K = 0 /\ N = 0
          \/ p \in mapped /\ p \notin leaked /\ L = 0 /\ K = 1 /\ N = 0
          \/ p \in mapped /\ p \notin leaked /\ L = 0 /\ K = 0 /\ N = 1
      BY Zenon, <2>2, <2>3 DEF OneHolder, NoHolder
    <2> HIDE DEF L, K, N
    <2>5. L + K + N + (IF p \in leaked THEN 1 ELSE 0) = IF p \in mapped THEN 1 ELSE 0
      BY <2>4, SMT
    <2> QED
      BY Zenon, <2>1, <2>5 DEF L, K, N
  <1>2. HugeAligned
    <2>1. IsFiniteSet(Misaligned) /\ IsFiniteSet(FallenBack)
      BY Zenon, FS_Subset DEF Misaligned, FallenBack, IInv, AllocTypeOK, AllocParameters
    <2>2. Cardinality(Misaligned) \in Nat /\ Cardinality(FallenBack) \in Nat
      BY Zenon, <2>1, FS_CardinalityType
    <2>3. stats["huge_fallback_to_normal_count"] \in Nat
      BY Zenon DEF IInv, AllocTypeOK, Counters
    <2>4. Cardinality(Misaligned) + Cardinality(FallenBack) <= stats["huge_fallback_to_normal_count"]
      BY Zenon DEF IInv, Backed
    <2>5. Cardinality(Misaligned) <= stats["huge_fallback_to_normal_count"]
      BY <2>2, <2>3, <2>4, SMT
    <2> QED
      BY Zenon, <2>5 DEF HugeAligned, Misaligned, IInv, Backed
  <1> QED
    BY Zenon, <1>1, <1>2 DEF PagesAccounted, IInv

(***************************************************************************)
(* What SystemAlloc and SystemFree keep, on every path and under every     *)
(* interleaving: types, one holder for each mapped page, the locals of the *)
(* calls, the balance of the counters and the backing of fallbacks.        *)
(***************************************************************************)
THEOREM Invariance ==
  ASSUME AllocParameters
  PROVE  AllocSpec => []IInv
  <1>1. AllocInit => IInv
    BY Zenon, InitInv
  <1>2. IInv /\ [AllocNext]_allocVars => IInv'
    BY Zenon, NextInv
  <1> QED
    BY <1>1, <1>2, PTL DEF AllocSpec

(***************************************************************************)
(* PageAllocator accounts for every page and every call: no mapped page is *)
(* lost, unmapped while in use or handed out twice by the trim, the        *)
(* cleanup after a failed munmap, the fallback and the cache of huge       *)
(* pages; the counters balance; what is not aligned was a counted          *)
(* fallback.                                                               *)
(***************************************************************************)
THEOREM EveryPageAccounted ==
  ASSUME AllocParameters
  PROVE  AllocSpec => []PagesAccounted
  <1>1. IInv => PagesAccounted
    BY Zenon, Accounts
  <1> QED
    BY <1>1, Invariance, PTL

=============================================================================
