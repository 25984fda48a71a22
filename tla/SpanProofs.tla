----------------------------- MODULE SpanProofs -----------------------------
(***************************************************************************)
(* For every word width and every span size: the bitmap of a span agrees   *)
(* with the live objects, AllocObject fails only when the span is full,    *)
(* and the bitmap implements a set of slots served lowest first.           *)
(***************************************************************************)
EXTENDS Span, FiniteSetTheorems, WellFoundedInduction, TLAPS

Slot(i, b) == i * WordBits + b

IInv ==
  /\ TypeOK
  /\ BitmapAgrees
  /\ live \subseteq 0 .. (capacity - 1)

(* Slot numbers and (word, bit) pairs determine each other. *)
LEMMA SlotInjective ==
  ASSUME NEW i \in Nat, NEW j \in Nat, NEW b \in Bits, NEW c \in Bits,
         i * WordBits + b = j * WordBits + c
  PROVE  i = j /\ b = c
  <1>1. CASE i < j
    <2>1. (i + 1) * WordBits <= j * WordBits
      BY <1>1, BitmapAssumption, SMT
    <2>2. (i + 1) * WordBits = i * WordBits + WordBits
      BY BitmapAssumption, SMT
    <2> QED BY <2>1, <2>2, BitmapAssumption, SMT DEF Bits
  <1>2. CASE j < i
    <2>1. (j + 1) * WordBits <= i * WordBits
      BY <1>2, BitmapAssumption, SMT
    <2>2. (j + 1) * WordBits = j * WordBits + WordBits
      BY BitmapAssumption, SMT
    <2> QED BY <2>1, <2>2, BitmapAssumption, SMT DEF Bits
  <1>3. CASE i = j
    <2>1. i * WordBits \in Nat
      BY BitmapAssumption
    <2> QED BY <1>3, <2>1, BitmapAssumption, SMT DEF Bits
  <1> QED BY <1>1, <1>2, <1>3

(* The word and the bit of a slot number, as FreeObject computes them. *)
LEMMA SlotOf ==
  ASSUME NEW o \in Nat
  PROVE  /\ o \div WordBits \in Nat
         /\ o % WordBits \in Bits
         /\ (o \div WordBits) * WordBits + (o % WordBits) = o
  BY BitmapAssumption, SMT DEF Bits

(* A slot below c lies in one of the first GetBitmapNum(c) words. *)
LEMMA WordsSuffice ==
  ASSUME NEW c \in Nat, NEW i \in Nat, NEW b \in Bits, i * WordBits + b < c
  PROVE  i < GetBitmapNum(c)
  <1> DEFINE n == (c + WordBits - 1) \div WordBits
             r == (c + WordBits - 1) % WordBits
  <1>1. n \in Nat /\ r \in 0 .. (WordBits - 1) /\ n * WordBits + r = c + WordBits - 1
    BY BitmapAssumption, SMT
  <1>2. SUFFICES ASSUME n <= i PROVE FALSE
    BY <1>1 DEF GetBitmapNum
  <1>3. n * WordBits <= i * WordBits
    BY <1>1, <1>2, BitmapAssumption, SMT
  <1>4. i * WordBits \in Nat /\ n * WordBits \in Nat
    BY <1>1, BitmapAssumption
  <1> HIDE DEF n, r
  <1> QED BY <1>1, <1>3, <1>4, BitmapAssumption, SMT DEF Bits

(* How Init splits a capacity into full words and tail bits. *)
LEMMA FullAndTail ==
  ASSUME NEW c \in Nat
  PROVE  LET f == c \div WordBits
             r == c % WordBits
         IN  /\ f \in Nat /\ r \in Bits
             /\ f * WordBits + r = c
             /\ GetBitmapNum(c) \in Nat
             /\ GetBitmapNum(c) <= f + 1
  <1> DEFINE f == c \div WordBits
             r == c % WordBits
             n == (c + WordBits - 1) \div WordBits
             q == (c + WordBits - 1) % WordBits
  <1>1. f \in Nat /\ r \in Bits /\ f * WordBits + r = c
    BY SlotOf
  <1>2. n \in Nat /\ q \in Bits /\ n * WordBits + q = c + WordBits - 1
    <2>1. c + WordBits - 1 \in Nat
      BY BitmapAssumption
    <2> QED BY <2>1, SlotOf
  <1>3. n <= f + 1
    <2> HIDE DEF f, r, n, q
    <2>1. SUFFICES ASSUME f + 2 <= n PROVE FALSE
      BY <1>1, <1>2
    <2>2. (f + 2) * WordBits <= n * WordBits
      BY <1>1, <1>2, <2>1, BitmapAssumption, SMT
    <2>3. (f + 2) * WordBits = f * WordBits + 2 * WordBits
      BY <1>1, BitmapAssumption, SMT
    <2>4. f * WordBits \in Nat /\ n * WordBits \in Nat
      BY <1>1, <1>2, BitmapAssumption
    <2> QED BY <1>1, <1>2, <2>2, <2>3, <2>4, BitmapAssumption, SMT DEF Bits
  <1> QED BY <1>1, <1>2, <1>3 DEF GetBitmapNum

(* A capacity that fits the bound needs no more words than there are. *)
LEMMA WordsBounded ==
  ASSUME NEW c \in 0 .. MaxObjects
  PROVE  GetBitmapNum(c) <= MaxWords
  <1> DEFINE n == (c + WordBits - 1) \div WordBits
             q == (c + WordBits - 1) % WordBits
  <1>0. MaxObjects \in Nat /\ c \in Nat
    BY BitmapAssumption DEF MaxObjects
  <1>1. n \in Nat /\ q \in Bits /\ n * WordBits + q = c + WordBits - 1
    <2>1. c + WordBits - 1 \in Nat
      BY <1>0, BitmapAssumption
    <2> QED BY <2>1, SlotOf
  <1>2. n <= MaxWords
    <2> HIDE DEF n, q
    <2>1. SUFFICES ASSUME MaxWords + 1 <= n PROVE FALSE
      BY <1>1, BitmapAssumption
    <2>2. (MaxWords + 1) * WordBits <= n * WordBits
      BY <1>1, <2>1, BitmapAssumption, SMT
    <2>3. (MaxWords + 1) * WordBits = MaxWords * WordBits + WordBits
      BY BitmapAssumption, SMT
    <2>4. MaxWords * WordBits \in Nat /\ n * WordBits \in Nat
      BY <1>1, BitmapAssumption
    <2> QED BY <1>0, <1>1, <2>2, <2>3, <2>4, BitmapAssumption, SMT DEF Bits, MaxObjects
  <1> QED BY <1>2 DEF GetBitmapNum

(* A span never has more live objects than it holds. *)
LEMMA LiveBounded ==
  ASSUME NEW c \in Nat, NEW S \in SUBSET (0 .. (c - 1))
  PROVE  /\ IsFiniteSet(S)
         /\ Cardinality(S) \in 0 .. c
         /\ Cardinality(S) = c <=> S = 0 .. (c - 1)
  <1>1. IsFiniteSet(0 .. (c - 1)) /\ Cardinality(0 .. (c - 1)) = c
    <2>1. 0 \in Int /\ c - 1 \in Int
      OBVIOUS
    <2> QED BY <2>1, FS_Interval
  <1>2. IsFiniteSet(S) /\ Cardinality(S) <= c
    BY <1>1, FS_Subset
  <1>3. Cardinality(S) \in Nat
    BY <1>2, FS_CardinalityType
  <1>4. Cardinality(S) = c => S = 0 .. (c - 1)
    BY <1>1, FS_Subset
  <1> QED BY <1>1, <1>2, <1>3, <1>4

(* A non-empty set of naturals has a least element. *)
LEMMA LeastNat ==
  ASSUME NEW S \in SUBSET Nat, S # {}
  PROVE  \E m \in S : \A k \in S : m <= k
  <1>1. PICK m \in S : \A k \in S : ~(<<k, m>> \in OpToRel(<, Nat))
    BY WFMin, NatLessThanWellFounded
  <1>2. ASSUME NEW k \in S PROVE m <= k
    <2>1. ~(k < m)
      BY <1>1 DEF OpToRel
    <2> QED BY <2>1
  <1> QED BY <1>2

LEMMA Sizes ==
  /\ MaxObjects \in Nat /\ WordBits \in Nat \ {0} /\ MaxWords \in Nat \ {0}
  /\ \A o \in Nat : o < MaxObjects => o \div WordBits \in Words
  <1>1. MaxObjects \in Nat /\ WordBits \in Nat \ {0} /\ MaxWords \in Nat \ {0}
    BY BitmapAssumption DEF MaxObjects
  <1>2. ASSUME NEW o \in Nat, o < MaxObjects
        PROVE  o \div WordBits \in Words
    <2>1. o \div WordBits \in Nat /\ o % WordBits \in Bits
          /\ (o \div WordBits) * WordBits + (o % WordBits) = o
      BY SlotOf
    <2>2. o \div WordBits < GetBitmapNum(o + 1)
      <3>1. o + 1 \in Nat /\ o < o + 1
        OBVIOUS
      <3> QED BY <2>1, <3>1, WordsSuffice
    <2>3. GetBitmapNum(o + 1) <= MaxWords /\ GetBitmapNum(o + 1) \in Nat
      <3>1. o + 1 \in 0 .. MaxObjects
        BY <1>1, <1>2
      <3> QED BY <3>1, <1>1, WordsBounded, FullAndTail
    <2> QED BY <1>1, <2>1, <2>2, <2>3 DEF Words
  <1> QED BY <1>1, <1>2

LEMMA InitInv == Init => IInv
  <1> SUFFICES ASSUME Init PROVE IInv
    OBVIOUS
  <1> USE DEF Init
  <1>1. TypeOK
    BY Sizes DEF TypeOK
  <1>2. GetBitmapNum(capacity) = 0
    <2>1. WordBits - 1 = 0 * WordBits + (WordBits - 1)
      BY Sizes
    <2> QED BY Sizes, SMT DEF GetBitmapNum
  <1>3. BitmapAgrees
    BY <1>2, FS_EmptySet DEF BitmapAgrees, Words
  <1> QED BY <1>1, <1>3 DEF IInv

(* Span::Init leaves exactly the first c bits of the scanned words set. *)
LEMMA SpanInitInv ==
  ASSUME IInv, NEW c \in 1 .. MaxObjects, NEW n \in 1 .. MaxWords, SpanInit(c, n)
  PROVE  IInv'
  <1> DEFINE f == c \div WordBits
             r == c % WordBits
  <1>0. c \in Nat /\ c \in 0 .. MaxObjects
    BY Sizes
  <1>1. f \in Nat /\ r \in Bits /\ f * WordBits + r = c
        /\ GetBitmapNum(c) \in Nat /\ GetBitmapNum(c) <= f + 1
    BY <1>0, FullAndTail
  <1>2. GetBitmapNum(c) <= n
    BY DEF SpanInit
  <1>3. bitmap' = [i \in Words |->
           IF i < f THEN Bits
           ELSE IF i = f /\ i < n THEN 0 .. (r - 1)
           ELSE IF i < n THEN {} ELSE bitmap[i]]
    BY DEF SpanInit, InitBitmap
  <1> HIDE DEF f, r
  <1>4. TypeOK'
    <2>1. bitmap' \in [Words -> SUBSET Bits]
      <3>1. 0 .. (r - 1) \subseteq Bits
        BY <1>1, Sizes DEF Bits
      <3> QED BY <1>3, <3>1 DEF IInv, TypeOK
    <2> QED BY <2>1, <1>0, Sizes DEF IInv, TypeOK, SpanInit
  <1>5. ASSUME NEW i \in Words, NEW b \in Bits, i < GetBitmapNum(c)
        PROVE  b \in bitmap'[i] <=> i * WordBits + b \in 0 .. (c - 1)
    <2>0. i \in Nat /\ b \in Nat /\ b < WordBits /\ i * WordBits \in Nat
      BY Sizes DEF Words, Bits
    <2>1. CASE i < f
      <3>1. (i + 1) * WordBits <= f * WordBits
        BY <2>0, <2>1, <1>1, Sizes, SMT
      <3>2. (i + 1) * WordBits = i * WordBits + WordBits
        BY <2>0, Sizes, SMT
      <3>3. f * WordBits \in Nat
        BY <1>1, Sizes
      <3>4. i * WordBits + b < c
        BY <2>0, <3>1, <3>2, <3>3, <1>1, Sizes DEF Bits
      <3>5. b \in bitmap'[i]
        BY <1>3, <2>1
      <3> QED BY <2>0, <3>4, <3>5, <1>0
    <2>2. CASE i = f
      <3>1. bitmap'[i] = 0 .. (r - 1)
        <4>1. i < n /\ ~(i < f)
          BY <2>0, <2>2, <1>1, <1>2, <1>5
        <4> QED BY <4>1, <1>3, <2>2
      <3>2. i * WordBits + r = c
        BY <2>2, <1>1
      <3>3. \A x \in Nat : x + r = c =>
              (b \in 0 .. (r - 1) <=> x + b \in 0 .. (c - 1))
        BY <2>0, <1>1, <1>0, Sizes DEF Bits
      <3> QED BY <3>1, <3>2, <3>3, <2>0
    <2> QED BY <2>0, <2>1, <2>2, <1>1, <1>5
  <1>6. BitmapAgrees'
    <2>1. live' = {} /\ capacity' = c /\ use_count' = 0 /\ scan_cursor' = 0
      BY DEF SpanInit
    <2>2. use_count' = Cardinality(live')
      BY <2>1, FS_EmptySet
    <2>3. \A i \in Words, b \in Bits : i < GetBitmapNum(capacity') =>
            (b \in bitmap'[i] <=> i * WordBits + b \in (0 .. (capacity' - 1)) \ live')
      BY <1>5, <2>1
    <2>4. \A i \in Words : i < scan_cursor' => bitmap'[i] = {}
      BY <2>1, Sizes DEF Words
    <2> QED BY <2>2, <2>3, <2>4 DEF BitmapAgrees, GetBitmapNum
  <1> QED BY <1>4, <1>6 DEF IInv, SpanInit

(* Taking bit b of word i, the lowest free slot, as AllocObject does. *)
LEMMA TakeBitInv ==
  ASSUME IInv, NEW i \in Words, NEW b \in Bits, IsFirstWord(i), TakeBit(i, b),
         UNCHANGED capacity
  PROVE  /\ IInv'
         /\ Slot(i, b) \in (0 .. (capacity - 1)) \ live
         /\ \A o \in (0 .. (capacity - 1)) \ live : Slot(i, b) <= o
  <1> DEFINE s == i * WordBits + b
  <1>0. /\ i \in Nat /\ b \in Nat /\ capacity \in Nat /\ s \in Nat
        /\ scan_cursor \in Nat /\ GetBitmapNum(capacity) \in Nat
        /\ i * WordBits \in Nat
    <2>1. capacity \in Nat
      BY Sizes DEF IInv, TypeOK
    <2>2. i \in Nat /\ b \in Nat /\ i * WordBits \in Nat
      BY Sizes DEF Words, Bits
    <2>3. GetBitmapNum(capacity) \in Nat
      BY <2>1, FullAndTail
    <2>4. scan_cursor \in Nat
      BY Sizes DEF IInv, TypeOK
    <2> QED BY <2>1, <2>2, <2>3, <2>4
  <1>1. i < GetBitmapNum(capacity) /\ b \in bitmap[i]
    BY <1>0 DEF IsFirstWord, TakeBit
  <1>2. s \in (0 .. (capacity - 1)) \ live
    BY <1>1 DEF IInv, BitmapAgrees
  <1>3. \A j \in Words : j < i => bitmap[j] = {}
    BY <1>0 DEF IInv, BitmapAgrees, IsFirstWord, Words
  <1>4. ASSUME NEW o \in (0 .. (capacity - 1)) \ live
        PROVE  s <= o
    <2> DEFINE j == o \div WordBits
               x == o % WordBits
    <2>1. o \in Nat /\ o < MaxObjects
      BY <1>0, Sizes DEF IInv, TypeOK
    <2>2. j \in Words /\ x \in Bits /\ j * WordBits + x = o
      BY <2>1, SlotOf, Sizes
    <2>3. j \in Nat /\ x \in Nat
      BY <2>2, Sizes DEF Words, Bits
    <2> HIDE DEF j, x
    <2>4. j < GetBitmapNum(capacity)
      BY <2>2, <2>3, <1>0, WordsSuffice
    <2>5. x \in bitmap[j]
      BY <2>2, <2>4 DEF IInv, BitmapAgrees
    <2>6. ~(j < i)
      BY <1>3, <2>2, <2>5
    <2>7. CASE j = i
      <3>1. b <= x
        BY <2>5, <2>7 DEF TakeBit
      <3> QED BY <3>1, <2>2, <2>3, <2>7, <1>0
    <2>8. CASE i < j
      <3>1. (i + 1) * WordBits <= j * WordBits
        BY <2>3, <2>8, <1>0, Sizes, SMT
      <3>2. (i + 1) * WordBits = i * WordBits + WordBits
        BY <1>0, Sizes, SMT
      <3>3. j * WordBits \in Nat
        BY <2>3, Sizes
      <3>4. b < WordBits
        BY Sizes DEF Bits
      <3> QED BY <3>1, <3>2, <3>3, <3>4, <2>2, <2>3, <1>0, Sizes
    <2> QED BY <2>3, <2>6, <2>7, <2>8, <1>0
  <1>5. live' = live \cup {s} /\ live' \subseteq 0 .. (capacity - 1)
    BY <1>2 DEF TakeBit, IInv
  <1>6. use_count' = Cardinality(live')
    <2>1. IsFiniteSet(live)
      BY <1>0, LiveBounded DEF IInv
    <2> QED BY <2>1, <1>2, <1>5, FS_AddElement DEF TakeBit, IInv, BitmapAgrees
  <1>7. TypeOK'
    <2>1. use_count' \in 0 .. MaxObjects
      BY <1>0, <1>5, <1>6, LiveBounded, Sizes DEF IInv, TypeOK
    <2>2. bitmap' \in [Words -> SUBSET Bits]
      BY DEF IInv, TypeOK, TakeBit
    <2>3. scan_cursor' \in 0 .. MaxWords
      BY <1>0, Sizes DEF TakeBit, Words
    <2>4. s \in 0 .. (MaxObjects - 1)
      BY <1>0, <1>2, Sizes DEF IInv, TypeOK
    <2>5. live' \in SUBSET (0 .. (MaxObjects - 1))
      BY <1>5, <2>4 DEF IInv, TypeOK
    <2>6. result' = s
      BY DEF TakeBit
    <2> QED BY <2>1, <2>2, <2>3, <2>4, <2>5, <2>6 DEF IInv, TypeOK
  <1>8. ASSUME NEW j \in Words, NEW x \in Bits, j < GetBitmapNum(capacity)
        PROVE  x \in bitmap'[j] <=>
                 j * WordBits + x \in (0 .. (capacity - 1)) \ live'
    <2>1. x \in bitmap[j] <=> j * WordBits + x \in (0 .. (capacity - 1)) \ live
      BY <1>8 DEF IInv, BitmapAgrees
    <2>2. j * WordBits + x = s <=> j = i /\ x = b
      <3>1. j \in Nat
        BY Sizes DEF Words
      <3> QED BY <3>1, <1>0, SlotInjective
    <2>3. x \in bitmap'[j] <=> x \in bitmap[j] /\ ~(j = i /\ x = b)
      BY DEF TakeBit, IInv, TypeOK
    <2> QED BY <2>1, <2>2, <2>3, <1>5
  <1>9. \A j \in Words : j < scan_cursor' => bitmap'[j] = {}
    <2>1. bitmap' = [bitmap EXCEPT ![i] = @ \ {b}]
          /\ scan_cursor' = IF bitmap[i] \ {b} = {} THEN i + 1 ELSE i
      BY DEF TakeBit
    <2>2. \A j \in Words : j \in Nat
      BY Sizes DEF Words
    <2> QED BY <1>3, <1>0, <2>1, <2>2 DEF IInv, TypeOK
  <1>10. BitmapAgrees'
    BY <1>6, <1>8, <1>9 DEF BitmapAgrees, GetBitmapNum
  <1> QED BY <1>2, <1>4, <1>5, <1>7, <1>10 DEF IInv, Slot

(* With a free slot and use_count < capacity the scan meets a free bit. *)
LEMMA ScanFinds ==
  ASSUME IInv, use_count < capacity
  PROVE  \E i \in Words : IsFirstWord(i)
  <1>0. capacity \in Nat /\ scan_cursor \in Nat /\ MaxWords \in Nat
    BY Sizes DEF IInv, TypeOK
  <1>1. PICK o \in 0 .. (capacity - 1) : o \notin live
    <2>1. Cardinality(live) # capacity /\ live \in SUBSET (0 .. (capacity - 1))
      BY <1>0, Sizes DEF IInv, TypeOK, BitmapAgrees
    <2> QED BY <1>0, <2>1, LiveBounded
  <1> DEFINE j == o \div WordBits
             x == o % WordBits
  <1>2. j \in Words /\ x \in Bits /\ j * WordBits + x = o /\ o \in Nat
    <2>1. o \in Nat /\ o < MaxObjects
      BY <1>0, Sizes DEF IInv, TypeOK
    <2> QED BY <2>1, SlotOf, Sizes
  <1> HIDE DEF j, x
  <1>3. j < GetBitmapNum(capacity)
    <2>1. j \in Nat /\ j * WordBits + x < capacity
      BY <1>0, <1>1, <1>2, Sizes DEF Words
    <2> QED BY <2>1, <1>0, <1>2, WordsSuffice
  <1>4. bitmap[j] # {} /\ ~(j < scan_cursor)
    BY <1>1, <1>2, <1>3 DEF IInv, BitmapAgrees
  <1> DEFINE Full == {k \in Nat : k \in Words /\ scan_cursor <= k /\ bitmap[k] # {}}
  <1>5. j \in Full
    BY <1>0, <1>2, <1>4, Sizes DEF Words
  <1>6. PICK m \in Full : \A k \in Full : m <= k
    <2>1. Full \subseteq Nat /\ Full # {}
      BY <1>5
    <2> QED BY <2>1, LeastNat
  <1>7. GetBitmapNum(capacity) \in Nat
    BY <1>0, FullAndTail
  <1>8. m \in scan_cursor .. (GetBitmapNum(capacity) - 1)
    BY <1>0, <1>3, <1>5, <1>6, <1>7
  <1>9. \A k \in scan_cursor .. (m - 1) : bitmap[k] = {}
    <2>1. ASSUME NEW k \in scan_cursor .. (m - 1)
          PROVE  k \in Words /\ k \in Nat /\ scan_cursor <= k /\ ~(m <= k)
      BY <1>0, <1>6, Sizes DEF Words
    <2> QED BY <2>1, <1>6
  <1> QED BY <1>6, <1>8, <1>9 DEF IsFirstWord

LEMMA AllocObjectInv ==
  ASSUME IInv, AllocObject
  PROVE  IInv'
  <1>1. CASE use_count < capacity /\ \E i \in Words : IsFirstWord(i)
    <2>1. PICK i \in Words, b \in Bits : IsFirstWord(i) /\ TakeBit(i, b)
      BY <1>1 DEF AllocObject
    <2> QED BY <2>1, TakeBitInv DEF AllocObject
  <1>2. CASE ~(use_count < capacity /\ \E i \in Words : IsFirstWord(i))
    <2>1. UNCHANGED <<capacity, bitmap, use_count, scan_cursor, live>> /\ result' = None
      BY <1>2 DEF AllocObject
    <2>2. TypeOK'
      BY <2>1 DEF IInv, TypeOK
    <2>3. BitmapAgrees'
      BY <2>1 DEF IInv, BitmapAgrees, GetBitmapNum
    <2> QED BY <2>1, <2>2, <2>3 DEF IInv
  <1> QED BY <1>1, <1>2

LEMMA FreeObjectInv ==
  ASSUME IInv, NEW o \in 0 .. (MaxObjects - 1), FreeObject(o)
  PROVE  IInv'
  <1> DEFINE j == o \div WordBits
             x == o % WordBits
  <1>0. capacity \in Nat /\ scan_cursor \in Nat /\ use_count \in Nat /\ o \in Nat
    BY Sizes DEF IInv, TypeOK
  <1>1. o \in live /\ o \in 0 .. (capacity - 1)
    BY DEF FreeObject, IInv
  <1>2. j \in Words /\ x \in Bits /\ j * WordBits + x = o /\ j \in Nat
    <2>1. o < MaxObjects
      BY Sizes
    <2> QED BY <2>1, <1>0, SlotOf, Sizes DEF Words
  <1>3. /\ bitmap' = [bitmap EXCEPT ![j] = @ \cup {x}]
        /\ use_count' = use_count - 1
        /\ scan_cursor' = IF j < scan_cursor THEN j ELSE scan_cursor
        /\ live' = live \ {o}
        /\ capacity' = capacity /\ result' = result
    BY DEF FreeObject
  <1> HIDE DEF j, x
  <1>4. use_count' = Cardinality(live') /\ use_count' \in 0 .. MaxObjects
    <2>1. IsFiniteSet(live)
      BY <1>0, LiveBounded DEF IInv
    <2>2. Cardinality(live') = Cardinality(live) - 1
      BY <2>1, <1>1, <1>3, FS_RemoveElement
    <2>3. live' \in SUBSET (0 .. (capacity - 1))
      BY <1>3 DEF IInv
    <2>4. Cardinality(live') \in 0 .. capacity
      BY <2>3, <1>0, LiveBounded
    <2> QED BY <2>2, <2>4, <1>0, <1>3, Sizes DEF IInv, BitmapAgrees, TypeOK
  <1>5. TypeOK'
    <2>1. bitmap' \in [Words -> SUBSET Bits]
      BY <1>2, <1>3 DEF IInv, TypeOK
    <2>2. scan_cursor' \in 0 .. MaxWords
      BY <1>2, <1>3, Sizes DEF IInv, TypeOK
    <2> QED BY <2>1, <2>2, <1>3, <1>4 DEF IInv, TypeOK
  <1>6. ASSUME NEW i \in Words, NEW b \in Bits, i < GetBitmapNum(capacity)
        PROVE  b \in bitmap'[i] <=>
                 i * WordBits + b \in (0 .. (capacity - 1)) \ live'
    <2>1. b \in bitmap[i] <=> i * WordBits + b \in (0 .. (capacity - 1)) \ live
      BY <1>6 DEF IInv, BitmapAgrees
    <2>2. i * WordBits + b = o <=> i = j /\ b = x
      <3>1. i \in Nat
        BY Sizes DEF Words
      <3> QED BY <3>1, <1>2, SlotInjective
    <2>3. b \in bitmap'[i] <=> b \in bitmap[i] \/ (i = j /\ b = x)
      BY <1>2, <1>3 DEF IInv, TypeOK
    <2> QED BY <2>1, <2>2, <2>3, <1>1, <1>3
  <1>7. \A i \in Words : i < scan_cursor' => bitmap'[i] = {}
    <2>1. ASSUME NEW i \in Words, i < scan_cursor'
          PROVE  bitmap'[i] = {}
      <3>1. i \in Nat
        BY Sizes DEF Words
      <3>2. i < scan_cursor /\ i # j
        BY <2>1, <3>1, <1>0, <1>2, <1>3
      <3> QED BY <3>2, <1>2, <1>3 DEF IInv, TypeOK, BitmapAgrees
    <2> QED BY <2>1
  <1>8. BitmapAgrees'
    BY <1>3, <1>4, <1>6, <1>7 DEF BitmapAgrees, GetBitmapNum
  <1> QED BY <1>3, <1>5, <1>8 DEF IInv

LEMMA NextInv == IInv /\ [Next]_vars => IInv'
  <1> SUFFICES ASSUME IInv, [Next]_vars PROVE IInv'
    OBVIOUS
  <1>1. ASSUME NEW c \in 1 .. MaxObjects, NEW n \in 1 .. MaxWords, SpanInit(c, n)
        PROVE  IInv'
    BY <1>1, SpanInitInv
  <1>2. CASE AllocObject
    BY <1>2, AllocObjectInv
  <1>3. ASSUME NEW o \in 0 .. (MaxObjects - 1), FreeObject(o)
        PROVE  IInv'
    BY <1>3, FreeObjectInv
  <1>4. CASE UNCHANGED vars
    BY <1>4 DEF vars, IInv, TypeOK, BitmapAgrees, GetBitmapNum
  <1> QED BY <1>1, <1>2, <1>3, <1>4 DEF Next

LEMMA Invariance == Spec => []IInv
  BY InitInv, NextInv, PTL DEF Spec

-----------------------------------------------------------------------------
(* Span::Init, AllocObject and FreeObject keep bitmap, use_count and        *)
(* scan_cursor consistent, for every word width and span size.              *)
THEOREM BitmapAlwaysAgrees == Spec => []BitmapAgrees
  <1>1. IInv => BitmapAgrees
    BY DEF IInv
  <1> QED BY <1>1, Invariance, PTL

(* AllocObject never returns nullptr while use_count < capacity.            *)
THEOREM AllocNeverMisses == Spec => AllocFindsFreeSlot
  <1>1. ASSUME IInv, AllocObject, use_count < capacity
        PROVE  result' \in (0 .. (capacity - 1)) \ live
    <2>1. PICK i \in Words, b \in Bits : IsFirstWord(i) /\ TakeBit(i, b)
      BY <1>1, ScanFinds DEF AllocObject
    <2>2. Slot(i, b) \in (0 .. (capacity - 1)) \ live
      BY <1>1, <2>1, TakeBitInv DEF AllocObject
    <2> QED BY <2>1, <2>2 DEF TakeBit, Slot
  <1>2. IInv /\ [Next]_vars =>
          [AllocObject /\ use_count < capacity =>
             result' \in (0 .. (capacity - 1)) \ live]_vars
    BY <1>1
  <1> QED BY <1>2, Invariance, PTL DEF AllocFindsFreeSlot, Spec

(* The bitmap implements the set of slots of module SpanObjects.            *)
THEOREM SpanImplementsObjects == Spec => ImplementsObjects
  <1>1. Init => Objects!Init
    BY DEF Init, Objects!Init
  <1>2. ASSUME IInv, [Next]_vars
        PROVE  [Objects!Next]_<<capacity, live, result>>
    <2>1. ASSUME NEW c \in 1 .. MaxObjects, NEW n \in 1 .. MaxWords, SpanInit(c, n)
          PROVE  Objects!Carve
      BY <2>1 DEF SpanInit, Objects!Carve
    <2>2. CASE AllocObject
      <3>1. CASE use_count < capacity
        <4>1. PICK i \in Words, b \in Bits : IsFirstWord(i) /\ TakeBit(i, b)
          BY <2>2, <3>1, <1>2, ScanFinds DEF AllocObject
        <4>2. /\ Slot(i, b) \in (0 .. (capacity - 1)) \ live
              /\ \A o \in (0 .. (capacity - 1)) \ live : Slot(i, b) <= o
          BY <1>2, <2>2, <4>1, TakeBitInv DEF AllocObject
        <4>3. result' = Slot(i, b) /\ live' = live \cup {result'} /\ capacity' = capacity
          BY <2>2, <4>1 DEF TakeBit, Slot, AllocObject
        <4>4. Objects!Alloc
          BY <4>2, <4>3 DEF Objects!Alloc, Objects!IsLowest, Objects!Free
        <4> QED BY <4>4 DEF Objects!Next
      <3>2. CASE ~(use_count < capacity)
        <4>1. result' = None /\ UNCHANGED <<live, capacity>>
          BY <2>2, <3>2 DEF AllocObject
        <4>2. capacity \in Nat /\ use_count \in Nat
          BY <1>2, Sizes DEF IInv, TypeOK
        <4>3. Cardinality(live) \in 0 .. capacity
              /\ (Cardinality(live) = capacity <=> live = 0 .. (capacity - 1))
          BY <1>2, <4>2, LiveBounded DEF IInv
        <4>4. Cardinality(live) = capacity
          BY <1>2, <3>2, <4>2, <4>3 DEF IInv, BitmapAgrees
        <4>5. Objects!Free = {}
          BY <4>3, <4>4 DEF Objects!Free
        <4> QED BY <4>1, <4>5 DEF Objects!Next, Objects!Alloc
      <3> QED BY <3>1, <3>2
    <2>3. ASSUME NEW o \in 0 .. (MaxObjects - 1), FreeObject(o)
          PROVE  Objects!Release
      BY <2>3 DEF FreeObject, Objects!Release
    <2>4. CASE UNCHANGED vars
      BY <2>4 DEF vars
    <2> QED BY <1>2, <2>1, <2>2, <2>3, <2>4 DEF Next, Objects!Next
  <1> QED BY <1>1, <1>2, Invariance, PTL DEF Spec, ImplementsObjects, Objects!Spec

=============================================================================
