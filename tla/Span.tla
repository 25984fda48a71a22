-------------------------------- MODULE Span --------------------------------
(***************************************************************************)
(* The object allocator inside one Span (span.cpp): a bitmap of free slots *)
(* in words of WordBits bits, a count of the slots in use, and a cursor    *)
(* that lets AllocObject skip the words it believes to be empty.  A word   *)
(* is the set of its bit positions that are 1.  Every operation runs under *)
(* the bucket lock of CentralCache, so each is one action.                 *)
(***************************************************************************)
EXTENDS Integers, FiniteSets

CONSTANTS
  WordBits,   \* bits of a bitmap word (64 in the code)
  MaxWords,   \* bound: bitmap words a span has room for
  None        \* nullptr, the result of a failed AllocObject

ASSUME BitmapAssumption ==
  /\ WordBits \in Nat \ {0}
  /\ MaxWords \in Nat \ {0}
  /\ None \notin Nat

Bits == 0 .. (WordBits - 1)
Words == 0 .. (MaxWords - 1)
MaxObjects == MaxWords * WordBits

VARIABLES
  capacity,     \* objects the span holds; 0 before the first Init
  bitmap,       \* bitmap[i]: the free bits of word i
  use_count,    \* objects handed out
  scan_cursor,  \* first word that may contain a free bit
  live,         \* the objects handed out and not yet returned
  result        \* what the last AllocObject returned

vars == <<capacity, bitmap, use_count, scan_cursor, live, result>>

(* A new Span has zero fields; its pages hold whatever was there before. *)
Init ==
  /\ capacity = 0
  /\ bitmap \in [Words -> SUBSET Bits]
  /\ use_count = 0
  /\ scan_cursor = 0
  /\ live = {}
  /\ result = None

(* GetBitmapNum: the words that capacity objects need. *)
GetBitmapNum(c) == (c + WordBits - 1) \div WordBits

(***************************************************************************)
(* Span::Init(aligned_object_size) lays out c objects behind n words.  The *)
(* estimate max_objs that n comes from is at least c, so n may exceed      *)
(* GetBitmapNum(c); the layout arithmetic itself is in module SizeClass.   *)
(* The words from n on hold object data and are not written.               *)
(***************************************************************************)
InitBitmap(c, n) ==
  LET full_bitmap_num == c \div WordBits
      tail_bits == c % WordBits
  IN  [i \in Words |->
         IF i < full_bitmap_num THEN Bits
         ELSE IF i = full_bitmap_num /\ i < n THEN 0 .. (tail_bits - 1)
         ELSE IF i < n THEN {}
         ELSE bitmap[i]]

SpanInit(c, n) ==
  /\ live = {}                       \* CentralCache took the span from PageCache
  /\ GetBitmapNum(c) <= n
  /\ capacity' = c
  /\ bitmap' = InitBitmap(c, n)
  /\ use_count' = 0
  /\ scan_cursor' = 0
  /\ UNCHANGED <<live, result>>

(* The first word, from the cursor on, that has a free bit. *)
IsFirstWord(i) ==
  /\ i \in scan_cursor .. (GetBitmapNum(capacity) - 1)
  /\ bitmap[i] # {}
  /\ \A j \in scan_cursor .. (i - 1) : bitmap[j] = {}

(* Alloc of bit b of word i: countr_zero picks the lowest bit. *)
TakeBit(i, b) ==
  /\ b \in bitmap[i] /\ \A x \in bitmap[i] : b <= x
  /\ bitmap' = [bitmap EXCEPT ![i] = @ \ {b}]
  /\ use_count' = use_count + 1
  /\ scan_cursor' = IF bitmap[i] \ {b} = {} THEN i + 1 ELSE i
  /\ live' = live \cup {i * WordBits + b}
  /\ result' = i * WordBits + b

AllocObject ==
  /\ capacity > 0
  /\ UNCHANGED capacity
  /\ IF use_count < capacity /\ \E i \in Words : IsFirstWord(i)
     THEN \E i \in Words, b \in Bits : IsFirstWord(i) /\ TakeBit(i, b)
     ELSE /\ result' = None
          /\ UNCHANGED <<bitmap, use_count, scan_cursor, live>>

(* Mutant: the cursor stays behind the freed slot. *)
FreeObjectKeepsCursor(o) ==
  /\ o \in live
  /\ bitmap' = [bitmap EXCEPT ![o \div WordBits] = @ \cup {o % WordBits}]
  /\ use_count' = use_count - 1
  /\ live' = live \ {o}
  /\ UNCHANGED <<capacity, scan_cursor, result>>

FreeObject(o) ==
  LET bitmap_idx == o \div WordBits IN
  /\ o \in live
  /\ bitmap' = [bitmap EXCEPT ![bitmap_idx] = @ \cup {o % WordBits}]
  /\ use_count' = use_count - 1
  /\ scan_cursor' = IF bitmap_idx < scan_cursor THEN bitmap_idx ELSE scan_cursor
  /\ live' = live \ {o}
  /\ UNCHANGED <<capacity, result>>

Next ==
  \/ \E c \in 1 .. MaxObjects, n \in 1 .. MaxWords : SpanInit(c, n)
  \/ AllocObject
  \/ \E o \in 0 .. (MaxObjects - 1) : FreeObject(o)

Spec == Init /\ [][Next]_vars

-----------------------------------------------------------------------------
TypeOK ==
  /\ capacity \in 0 .. MaxObjects
  /\ bitmap \in [Words -> SUBSET Bits]
  /\ use_count \in 0 .. MaxObjects
  /\ scan_cursor \in 0 .. MaxWords
  /\ live \in SUBSET (0 .. (MaxObjects - 1))
  /\ result \in (0 .. (MaxObjects - 1)) \cup {None}

(***************************************************************************)
(* The bitmap, the counter and the cursor of a span tell the same story:   *)
(* a bit of a word that AllocObject scans is set exactly when its slot is  *)
(* an object of the span that is not live, use_count is the number of live *)
(* objects, and every word before scan_cursor is empty.                    *)
(***************************************************************************)
BitmapAgrees ==
  /\ \A i \in Words, b \in Bits :
       i < GetBitmapNum(capacity) =>
         (b \in bitmap[i] <=> i * WordBits + b \in (0 .. (capacity - 1)) \ live)
  /\ use_count = Cardinality(live)
  /\ \A i \in Words : i < scan_cursor => bitmap[i] = {}

(***************************************************************************)
(* AllocObject returns nullptr only for a full span: the scan from         *)
(* scan_cursor does not overlook a slot that FreeObject gave back, also    *)
(* after the span was re-initialised for another object size.              *)
(***************************************************************************)
AllocFindsFreeSlot ==
  [][AllocObject /\ use_count < capacity =>
       result' \in (0 .. (capacity - 1)) \ live]_vars

(* The bitmap implements a set of slots served lowest first. *)
Objects == INSTANCE SpanObjects

ImplementsObjects == Objects!Spec

=============================================================================
