----------------------------- MODULE SizeClass -----------------------------
(***************************************************************************)
(* The sizes of an allocation: from the bytes requested of am_malloc to    *)
(* the size class that serves them (size_class.h), the layout of the span  *)
(* the class is carved from (Span::Init) and the pages of a large object.  *)
(* The geometry is the code's own; only size_t is narrower, so that the    *)
(* arithmetic near its maximum is within reach.                            *)
(***************************************************************************)
EXTENDS Naturals

CONSTANTS
  SizeBits,      \* the width of size_t (64 in the code)
  PageNumBits    \* the width of Span::page_num (32 in the code)

PAGE_SIZE == 4096
ALIGNMENT == 16
MAX_TC_SIZE == 32 * 1024
kStepsPerGroup == 4
kStepShift == 2
MAX_PAGE_NUM == 128
kMaxBatchSize == 512

VARIABLE request   \* the argument of am_malloc

-----------------------------------------------------------------------------
AtMost(a, b) == IF a < b THEN a ELSE b
AtLeast(a, b) == IF a < b THEN b ELSE a
DivUp(a, b) == (a + b - 1) \div b

(* std::bit_width. *)
BitWidth(n) == CHOOSE k \in 0 .. SizeBits : n < 2^k /\ (k = 0 \/ 2^(k - 1) <= n)

(* Mutant: the exact boundaries fall into the class above. *)
CalculateIndexPast(s) ==
  IF s <= 128 THEN s \div 8
  ELSE LET msb == BitWidth(s) - 1
           shift == msb - kStepShift
       IN  16 + (msb - 7) * kStepsPerGroup + ((s \div 2^shift) % kStepsPerGroup)

(* Eight-byte steps up to 128, then kStepsPerGroup steps per power of two. *)
CalculateIndex(s) ==
  IF s = 0 THEN 0
  ELSE IF s <= 128 THEN (s - 1) \div 8
  ELSE LET msb == BitWidth(s - 1) - 1
           shift == msb - kStepShift
       IN  16 + (msb - 7) * kStepsPerGroup
           + (((s - 1) \div 2^shift) % kStepsPerGroup)

CalculateSize(idx) ==
  IF idx < 16 THEN (idx + 1) * 8
  ELSE LET msb == (idx - 16) \div kStepsPerGroup + 7
           step == (idx - 16) % kStepsPerGroup
       IN  2^msb + (step + 1) * 2^(msb - kStepShift)

kNumSizeClasses == CalculateIndex(MAX_TC_SIZE) + 1
Classes == 0 .. (kNumSizeClasses - 1)

RoundUp(s) == IF s > MAX_TC_SIZE THEN s ELSE CalculateSize(CalculateIndex(s))

(* batch_table_ and move_page_table_, by the size of the class. *)
BatchSize(size) == AtMost(AtLeast(MAX_TC_SIZE \div size, 2), kMaxBatchSize)

MovePageNum(size) ==
  AtMost(DivUp(AtLeast(BatchSize(size) * 8 * size, 32 * 1024), PAGE_SIZE), MAX_PAGE_NUM)

-----------------------------------------------------------------------------
(* Span::Init: the bitmap words, the offset of the objects, their number. *)
TotalBytes(size) == MovePageNum(size) * PAGE_SIZE
BitmapNum(size) == DivUp((TotalBytes(size) * 8) \div (size * 8 + 1), 64)
ObjOffset(size) == DivUp(BitmapNum(size) * 8, ALIGNMENT) * ALIGNMENT
Capacity(size) == (TotalBytes(size) - ObjOffset(size)) \div size

(***************************************************************************)
(* A large object: AlignUp wraps near the maximum of size_t, and AllocSpan *)
(* refuses 0 pages and more pages than page_num can hold.                  *)
(***************************************************************************)
AlignUp(s, align) ==
  IF s = 0 THEN align ELSE (((s + align - 1) % 2^SizeBits) \div align) * align

PageNum(s) == AlignUp(s, PAGE_SIZE) \div PAGE_SIZE

RefusedPages(n) == n = 0 \/ n > 2^PageNumBits - 1

(* The bytes am_malloc(s) obtains, 0 when it returns null. *)
ServedBytes(s) ==
  IF s <= MAX_TC_SIZE THEN RoundUp(s)
  ELSE IF RefusedPages(PageNum(s)) THEN 0 ELSE PageNum(s) * PAGE_SIZE

Init == request = 0

(* Requests of every size. *)
am_malloc ==
  /\ request < 2^SizeBits - 1
  /\ request' = request + 1

Next == am_malloc

Spec == Init /\ [][Next]_request

-----------------------------------------------------------------------------
(***************************************************************************)
(* size_class.h:196, RoundUp "Returns the smallest size class >= size":    *)
(* the arithmetic of CalculateIndex agrees with that of CalculateSize for  *)
(* every size, where the static_asserts sample the boundaries, and less    *)
(* than a quarter is wasted beyond 128 bytes (size_class.h:106).           *)
(***************************************************************************)
RoundUpIsLeast ==
  request <= MAX_TC_SIZE =>
    /\ CalculateIndex(request) \in Classes
    /\ RoundUp(request) >= AtLeast(request, 1)
    /\ \A c \in Classes : CalculateSize(c) >= request => RoundUp(request) <= CalculateSize(c)
    /\ request > 128 => 4 * (RoundUp(request) - request) < request

(***************************************************************************)
(* Span::Init sizes the bitmap from an estimate and the capacity from what *)
(* the alignment leaves: every object has its bit, bitmap and objects do   *)
(* not overlap and stay inside the span, which can serve the demand and    *)
(* the prefetch of one FetchRange (size_class.h:244, "a single Span can    *)
(* satisfy multiple batch requests").                                      *)
(***************************************************************************)
LayoutFits ==
  request <= MAX_TC_SIZE =>
    LET size == RoundUp(request) IN
    /\ Capacity(size) <= 64 * BitmapNum(size)
    /\ BitmapNum(size) * 8 <= ObjOffset(size)
    /\ ObjOffset(size) + Capacity(size) * size <= TotalBytes(size)
    /\ BatchSize(size) >= 2 /\ Capacity(size) >= 2 * BatchSize(size)

(***************************************************************************)
(* ammalloc.h:11, "at least original_size bytes", or null: also where      *)
(* AlignUp wraps.  Null is only the answer when page_num cannot hold the   *)
(* number of pages.                                                        *)
(***************************************************************************)
ServedEnough ==
  LET needed == DivUp(request, PAGE_SIZE) IN
  IF ServedBytes(request) = 0 THEN needed > 2^PageNumBits - 1
  ELSE ServedBytes(request) >= request /\ PageNum(request) < 2^PageNumBits

=============================================================================
