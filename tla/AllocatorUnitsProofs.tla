------------------------ MODULE AllocatorUnitsProofs ------------------------
(***************************************************************************)
(* The proofs about the parts of the allocator that stand alone: the radix *)
(* tree of PageMap, ObjectPool, which its nodes come from, the quota of a  *)
(* ThreadCache list, and the sizes no list serves.                         *)
(*                                                                         *)
(* PageMap: the indices of a page number are its digits, so that two pages *)
(* with one path and one last index are the same page, and the pages of a  *)
(* node are a block of Coverage(k) pages.  From that MapInv is inductive,  *)
(* and MapsRange and LookupLinearizes follow.                              *)
(*                                                                         *)
(* ObjectPool: a chunk has room for an object behind its header wherever   *)
(* the first aligned address lies, so that PoolInv is inductive.           *)
(*                                                                         *)
(* ThreadCache: IInv adds to the bound on the occupancy that an excess     *)
(* object is only possible right after a decay, when the quota is at least *)
(* a batch and no overage is recorded, and that a list being trimmed or    *)
(* refilled has room.                                                      *)
(***************************************************************************)
EXTENDS PageMap, ObjectPool, ThreadCache, SequenceTheorems, TLAPS

(* The quota of a ThreadCache list, for every batch size. *)
IInv ==
  /\ TypeOK
  /\ OccupancyBounded
  /\ size = max_size + 1 => overages = 0 /\ max_size >= Batch
  /\ slow = "trim" => size + Batch <= max_size + 2 \/ size = 0
  /\ slow = "trim" /\ overages = kMaxOverages - 1 => size + Batch <= max_size + 1 \/ size = 0
  /\ slow = "fetch" => size = 0
  /\ slow = "drain" => size = 0

LEMMA Arithmetic ==
  ASSUME Parameters
  PROVE  /\ Batch \in Nat /\ Batch >= 2
         /\ Batch * QuotaScale \in Nat /\ Batch <= Batch * QuotaScale
         /\ Batch \div 8 \in Nat
  BY SMT DEF Parameters

LEMMA QuotaRange ==
  ASSUME Parameters, NEW m \in 1 .. (Batch * QuotaScale), NEW n \in 0 .. (kMaxOverages - 1)
  PROVE  /\ GrownQuota(m) \in 1 .. (Batch * QuotaScale)
         /\ GrownQuota(m) >= m
         /\ DecayedQuota(m, n) \in 1 .. (Batch * QuotaScale)
         /\ m >= Batch => DecayedQuota(m, n) >= Batch
         /\ NextOverages(m, n) \in 0 .. (kMaxOverages - 1)
  <1> DEFINE top == Batch * QuotaScale
             inc == Batch \div 8
  <1>1. top \in Nat /\ Batch \in Nat /\ Batch >= 1 /\ Batch <= top /\ inc \in Nat
    BY Arithmetic
  <1>2. m \in 1 .. top
    OBVIOUS
  <1> HIDE DEF top, inc
  <1>3. GrownQuota(m) = IF m < Batch THEN Lesser(Batch, m + Greater(1, m))
                        ELSE IF m < top THEN Lesser(top, m + Greater(1, inc)) ELSE m
    BY DEF GrownQuota, top, inc
  <1>4. GrownQuota(m) \in 1 .. top /\ GrownQuota(m) >= m
    BY <1>1, <1>2, <1>3 DEF Lesser, Greater
  <1>5. /\ DecayedQuota(m, n) \in 1 .. top
        /\ m >= Batch => DecayedQuota(m, n) >= Batch
        /\ NextOverages(m, n) \in 0 .. (kMaxOverages - 1)
    BY <1>1, <1>2 DEF DecayedQuota, NextOverages, Decays, Greater, kMaxOverages
  <1> QED BY <1>4, <1>5 DEF top

LEMMA InitInv == ASSUME Parameters PROVE Init => IInv
  BY Arithmetic DEF Init, IInv, TypeOK, OccupancyBounded, kMaxOverages

LEMMA NextInv == ASSUME Parameters PROVE IInv /\ [Next]_vars => IInv'
  <1> SUFFICES ASSUME IInv, [Next]_vars PROVE IInv'
    OBVIOUS
  <1> DEFINE top == Batch * QuotaScale
  <1>0. /\ Batch \in Nat /\ Batch >= 2 /\ top \in Nat /\ Batch <= top
        /\ size \in Nat /\ max_size \in 1 .. top /\ overages \in 0 .. 2
        /\ slow \in {"none", "fetch", "trim", "drain"}
    BY Arithmetic DEF IInv, TypeOK, kMaxOverages
  <1>a. /\ GrownQuota(max_size) \in 1 .. top /\ GrownQuota(max_size) >= max_size
        /\ DecayedQuota(max_size, overages) \in 1 .. top
        /\ NextOverages(max_size, overages) \in 0 .. 2
    BY QuotaRange DEF IInv, TypeOK, kMaxOverages
  <1>b. kMaxOverages = 3
    BY DEF kMaxOverages
  <1> HIDE DEF top
  <1>c. IInv' <=> (/\ size' \in Nat /\ max_size' \in 1 .. top /\ overages' \in 0 .. 2
                   /\ slow' \in {"none", "fetch", "trim", "drain"}
                   /\ size' <= max_size' + 1
                   /\ size' = max_size' + 1 => overages' = 0 /\ max_size' >= Batch
                   /\ slow' = "trim" => size' + Batch <= max_size' + 2 \/ size' = 0
                   /\ slow' = "trim" /\ overages' = 2 =>
                        size' + Batch <= max_size' + 1 \/ size' = 0
                   /\ slow' = "fetch" => size' = 0
                   /\ slow' = "drain" => size' = 0)
    BY <1>b DEF IInv, TypeOK, OccupancyBounded, top
  <1>d. /\ size <= max_size + 1
        /\ size = max_size + 1 => overages = 0 /\ max_size >= Batch
        /\ slow = "trim" => size + Batch <= max_size + 2 \/ size = 0
        /\ slow = "trim" /\ overages = 2 => size + Batch <= max_size + 1 \/ size = 0
        /\ slow = "fetch" => size = 0
        /\ slow = "drain" => size = 0
    BY <1>b DEF IInv, OccupancyBounded
  <1>1. CASE AllocateFast
    BY <1>1, <1>0, <1>c, <1>d DEF AllocateFast
  <1>2. CASE AllocateSlow
    BY <1>2, <1>0, <1>c, <1>d DEF AllocateSlow
  <1>3. ASSUME NEW n \in 1 .. Fetch, FetchReturns(n) PROVE IInv'
    <2>1. n \in Nat /\ n >= 1 /\ n <= max_size
      BY <1>0 DEF Fetch, Lesser
    <2> QED BY <1>3, <2>1, <1>0, <1>a, <1>c DEF FetchReturns
  <1>4. CASE FetchFails
    BY <1>4, <1>0, <1>c, <1>d DEF FetchFails
  <1>5. CASE DeallocateFast
    BY <1>5, <1>0, <1>c, <1>d DEF DeallocateFast
  <1>6. CASE DeallocateSlow
    BY <1>6, <1>0, <1>c, <1>d DEF DeallocateSlow, Trimmed, Lesser
  <1>7. CASE TrimReturns
    <2>1. CASE Decays(max_size, overages)
      <3>1. max_size > Batch /\ overages = 2
        BY <2>1, <1>0, <1>b DEF Decays
      <3>2. max_size' = Greater(max_size - Batch, Batch) /\ overages' = 0
        BY SMTT(30), <1>7, <2>1 DEF TrimReturns, DecayedQuota, NextOverages
      <3> QED BY <3>1, <3>2, <1>7, <1>0, <1>a, <1>c, <1>d DEF TrimReturns, Greater
    <2>2. CASE ~Decays(max_size, overages)
      <3>1. max_size' = max_size
        BY <1>7, <2>2 DEF TrimReturns, DecayedQuota
      <3>2. size # max_size + 1
        BY <1>7, <1>0, <1>d DEF TrimReturns
      <3> QED BY Zenon, <3>1, <3>2, <1>7, <1>0, <1>a, <1>c, <1>d DEF TrimReturns
    <2> QED BY <2>1, <2>2
  <1>8. CASE ReleaseAll
    BY <1>8, <1>0, <1>c, <1>d DEF ReleaseAll
  <1>9. CASE DrainReturns
    BY <1>9, <1>0, <1>c, <1>d DEF DrainReturns
  <1>10. CASE UNCHANGED vars
    BY <1>10, <1>0, <1>c, <1>d DEF vars
  <1> QED BY <1>1, <1>2, <1>3, <1>4, <1>5, <1>6, <1>7, <1>8, <1>9, <1>10 DEF Next

LEMMA Invariance == ASSUME Parameters PROVE Spec => []IInv
  <1>1. Init => IInv
    BY InitInv
  <1>2. IInv /\ [Next]_vars => IInv'
    BY NextInv
  <1> QED BY <1>1, <1>2, PTL DEF Spec

-----------------------------------------------------------------------------
(* Whatever the owner allocates, frees and drains, its list holds at most  *)
(* one object beyond the quota that thread_cache.cpp has set.              *)
THEOREM OccupancyAlwaysBounded == ASSUME Parameters PROVE Spec => []OccupancyBounded
  <1>0. Spec => []IInv
    BY Invariance
  <1>1. IInv => OccupancyBounded
    BY DEF IInv
  <1> QED BY <1>0, <1>1, PTL

(* DeallocateSlowPath's decay stops at one batch.                          *)
THEOREM QuotaKeepsFloor == ASSUME Parameters PROVE Spec => QuotaFloor
  <1>0. Spec => []IInv
    BY Invariance
  <1>1. IInv /\ [Next]_vars => [max_size >= Batch /\ slow # "drain" => max_size' >= Batch]_vars
    <2> SUFFICES ASSUME IInv, Next, max_size >= Batch, slow # "drain"
                 PROVE  max_size' >= Batch
      OBVIOUS
    <2>1. /\ max_size \in 1 .. (Batch * QuotaScale)
          /\ overages \in 0 .. (kMaxOverages - 1)
      BY DEF IInv, TypeOK
    <2>2. /\ GrownQuota(max_size) \in Nat /\ GrownQuota(max_size) >= max_size
          /\ DecayedQuota(max_size, overages) >= Batch
      BY <2>1, QuotaRange
    <2>3. max_size' \in {max_size, GrownQuota(max_size), DecayedQuota(max_size, overages)}
      BY DEF Next, AllocateFast, AllocateSlow, FetchReturns, FetchFails, DeallocateFast,
             DeallocateSlow, TrimReturns, ReleaseAll, DrainReturns
    <2> QED BY <2>1, <2>2, <2>3, Arithmetic
  <1> QED BY <1>0, <1>1, PTL DEF Spec, QuotaFloor

(* DeallocateSlowPath leaves objects in a list whose quota has warmed up.  *)
THEOREM TrimNeverDrains == ASSUME Parameters PROVE Spec => TrimLeavesSome
  <1>0. Spec => []IInv
    BY Invariance
  <1>1. IInv => [DeallocateSlow /\ max_size >= Batch => size' > 0 /\ size - size' < Batch]_vars
    BY Arithmetic DEF IInv, TypeOK, DeallocateSlow, Trimmed, Lesser
  <1> QED BY <1>0, <1>1, PTL DEF TrimLeavesSome

-----------------------------------------------------------------------------
(***************************************************************************)
(* The requests a ThreadCache does not serve.  am_malloc rounds them up to *)
(* pages, with an addition that wraps near the maximum of size_t.          *)
(***************************************************************************)
CONSTANTS SizeBits, PageNumBits
VARIABLE request

Sizes == INSTANCE SizeClass

(* size_t counts at least the bytes of the pages Span::page_num counts. *)
Widths ==
  \E k \in Nat \ {0}, n \in Nat \ {0} :
    2^PageNumBits = n /\ 2^SizeBits = 4096 * (k * n)

(* The sum of AlignUp wraps at most once. *)
LEMMA WrapsOnce ==
  ASSUME NEW x \in Nat, NEW m \in Nat, m > 0, x < m + m
  PROVE  x % m = IF x < m THEN x ELSE x - m
<1>1. CASE x < m
  BY <1>1, SMT
<1>2. CASE x >= m
  <2>1. PICK r \in Nat : x = m + r
    <3>1. x - m \in Nat /\ x = m + (x - m)
      BY <1>2, SMT
    <3> QED BY <3>1
  <2>2. r < m
    BY <2>1, SMT
  <2>3. (m + r) % m = r
    BY <2>2, Z3
  <2>4. r = x - m
    BY <2>1, SMT
  <2> QED BY <1>2, <2>1, <2>3, <2>4, SMT
<1> QED BY <1>1, <1>2, SMT

(* The pages of the sum when size_t counts p pages. *)
LEMMA PagesOfSum ==
  ASSUME NEW p \in Nat, NEW s \in Nat, 0 < s, s < 4096 * p
  PROVE  ((s + 4096 - 1) % (4096 * p)) \div 4096
           = IF s + 4095 < 4096 * p THEN (s + 4095) \div 4096 ELSE 0
<1> DEFINE m == 4096 * p
           x == s + 4095
<1>1. m \in Nat /\ m >= 4096 /\ x \in Nat /\ x < m + m /\ x < m + 4096
  BY SMT
<1>2. s + 4096 - 1 = x
  BY SMT
<1> HIDE DEF m, x
<1>3. x % m = IF x < m THEN x ELSE x - m
  BY <1>1, WrapsOnce, SMT
<1>4. (x % m) \div 4096 = IF x < m THEN x \div 4096 ELSE 0
  BY <1>1, <1>3, SMT
<1> QED BY <1>2, <1>4 DEF m, x

LEMMA LargeServed ==
  ASSUME Widths, request \in Nat, request < 2^SizeBits, request > Sizes!MAX_TC_SIZE
  PROVE  Sizes!ServedEnough
<1>1. PICK k \in Nat \ {0}, n \in Nat \ {0} :
        2^PageNumBits = n /\ 2^SizeBits = 4096 * (k * n)
  BY Zenon DEF Widths
<1> DEFINE p == k * n
           needed == (request + 4095) \div 4096
           pages == ((request + 4096 - 1) % (4096 * p)) \div 4096
<1>2. p \in Nat /\ p >= n
  <2>1. k \in Nat /\ n \in Nat /\ k >= 1 /\ n >= 1
    BY <1>1, SMT
  <2> QED BY <2>1, Z3
<1>3. 2^SizeBits = 4096 * p
  BY <1>1
<1>4. request > 32768 /\ request < 4096 * p
  BY <1>3, SMT DEF Sizes!MAX_TC_SIZE
<1>5. Sizes!PageNum(request) = (pages * 4096) \div 4096
  BY <1>3, <1>4, SMT DEF Sizes!PageNum, Sizes!AlignUp, Sizes!PAGE_SIZE
<1>6. Sizes!DivUp(request, Sizes!PAGE_SIZE) = needed
  BY SMT DEF Sizes!DivUp, Sizes!PAGE_SIZE
<1> HIDE DEF p
<1>7. pages = IF request + 4095 < 4096 * p THEN needed ELSE 0
  BY <1>2, <1>4, PagesOfSum, SMT
<1> HIDE DEF pages
<1>8. needed \in Nat /\ needed * 4096 >= request /\ needed >= 1
      /\ (~(request + 4095 < 4096 * p) => needed >= p)
  BY <1>2, <1>4, SMT
<1> HIDE DEF needed
<1>9. Sizes!PageNum(request) = IF request + 4095 < 4096 * p THEN needed ELSE 0
  BY <1>5, <1>7, <1>8, SMT
<1>10. Sizes!ServedBytes(request)
         = IF Sizes!PageNum(request) = 0 \/ Sizes!PageNum(request) > n - 1
           THEN 0 ELSE Sizes!PageNum(request) * 4096
  BY <1>1, <1>4, SMT
     DEF Sizes!ServedBytes, Sizes!RefusedPages, Sizes!PAGE_SIZE, Sizes!MAX_TC_SIZE
<1> QED
  BY <1>1, <1>2, <1>4, <1>6, <1>8, <1>9, <1>10, SMTT(30) DEF Sizes!ServedEnough

(***************************************************************************)
(* ammalloc.h:11, "at least original_size bytes", or null, of a request    *)
(* beyond MAX_TC_SIZE and for every width of size_t and of page_num: where *)
(* AlignUp wraps am_malloc returns null, never a span of fewer pages than  *)
(* the request needs, and null is only the answer when page_num cannot     *)
(* hold their number.                                                      *)
(***************************************************************************)
THEOREM LargeRequestsServed ==
  ASSUME Widths
  PROVE  Sizes!Spec => [](request > Sizes!MAX_TC_SIZE => Sizes!ServedEnough)
<1> DEFINE Requested == request \in Nat /\ request < 2^SizeBits
<1>1. PICK w \in Nat : 2^SizeBits = w /\ w >= 1
  <2>1. PICK k \in Nat \ {0}, n \in Nat \ {0} :
          2^PageNumBits = n /\ 2^SizeBits = 4096 * (k * n)
    BY Zenon DEF Widths
  <2>2. k \in Nat /\ n \in Nat /\ k >= 1 /\ n >= 1
    BY <2>1, SMT
  <2>3. k * n \in Nat /\ k * n >= 1
    BY <2>2, Z3
  <2> QED BY <2>1, <2>3, SMTT(30)
<1>2. Sizes!Init => Requested
  BY <1>1, SMT DEF Sizes!Init
<1>3. Requested /\ [Sizes!Next]_request => Requested'
  BY <1>1, SMT DEF Sizes!Next, Sizes!am_malloc
<1>4. Requested => (request > Sizes!MAX_TC_SIZE => Sizes!ServedEnough)
  BY LargeServed
<1> HIDE DEF Requested
<1> QED BY <1>2, <1>3, <1>4, PTL DEF Sizes!Spec

-----------------------------------------------------------------------------
(* PageMap *)

(* Quotient and remainder. *)
LEMMA DivMod ==
  ASSUME NEW x \in Nat, NEW N \in Nat \ {0}
  PROVE  /\ x \div N \in Nat /\ x % N \in Nat /\ x % N < N
         /\ x = N * (x \div N) + (x % N)
  BY SMT

(* Division in two steps. *)
LEMMA DivDiv ==
  ASSUME NEW a \in Nat, NEW M \in Nat \ {0}, NEW N \in Nat \ {0}
  PROVE  a \div (M * N) = (a \div M) \div N
  <1> DEFINE q == a \div M
             r == a % M
             s == q \div N
             u == q % N
  <1>1. q \in Nat /\ r \in Nat /\ r < M /\ a = M * q + r
    BY SMT
  <1>2. s \in Nat /\ u \in Nat /\ u < N /\ q = N * s + u
    BY <1>1, SMT
  <1> HIDE DEF q, r, s, u
  <1>3. M * u \in Nat /\ M * (N * s + u) = (M * N) * s + M * u
    BY <1>2, Z3
  <1>4. a = (M * N) * s + (M * u + r)
    BY <1>1, <1>2, <1>3, SMT
  <1>5. M * u + r < M * N
    <2>1. u + 1 <= N /\ M * (u + 1) = M * u + M
      BY <1>2, Z3
    <2>2. M * (u + 1) <= M * N
      BY <2>1, <1>2, Z3
    <2> QED
      BY <2>1, <2>2, <1>1, <1>3, SMT
  <1> DEFINE K == M * N
             v == M * u + r
  <1>6. K \in Nat \ {0} /\ v \in Nat /\ v < K /\ a = K * s + v
    BY <1>1, <1>3, <1>4, <1>5, SMT
  <1> HIDE DEF K, v
  <1>7. a \div K = s
    BY <1>2, <1>6, SMT
  <1> QED
    BY <1>7 DEF K, s, q

(* The pages below a node of each level. *)
LEMMA Coverages ==
  ASSUME MapParameters
  PROVE  /\ Coverage(3) = RADIX_NODE_SIZE
         /\ Coverage(2) = Coverage(3) * RADIX_NODE_SIZE
         /\ Coverage(1) = Coverage(2) * RADIX_NODE_SIZE
         /\ \A k \in 1 .. 3 : Coverage(k) \in Nat \ {0}
  <1> DEFINE N == RADIX_NODE_SIZE
  <1>1. Coverage(3) = N /\ Coverage(2) = N * N /\ Coverage(1) = N * N * N
    BY SMT DEF Coverage
  <1>2. N \in Nat \ {0}
    BY Zenon DEF MapParameters
  <1> HIDE DEF N
  <1>3. N * N \in Nat \ {0}
    BY <1>2, Z3
  <1> DEFINE M == N * N
  <1> HIDE DEF M
  <1>4. M \in Nat \ {0} /\ M * N \in Nat \ {0}
    BY <1>2, <1>3, Z3 DEF M
  <1>5. \A k \in 1 .. 3 : k = 1 \/ k = 2 \/ k = 3
    BY SMT
  <1> QED
    BY Zenon, <1>1, <1>2, <1>3, <1>4, <1>5 DEF M, N

(* What is left of a page number at each level. *)
LEMMA Quotients ==
  ASSUME MapParameters, NEW p \in Nat
  PROVE  /\ p \div Coverage(2) = (p \div Coverage(3)) \div RADIX_NODE_SIZE
         /\ p \div Coverage(1) = (p \div Coverage(2)) \div RADIX_NODE_SIZE
         /\ \A k \in 1 .. 3 : p \div Coverage(k) \in Nat
  <1>1. /\ Coverage(1) \in Nat \ {0} /\ Coverage(2) \in Nat \ {0} /\ Coverage(3) \in Nat \ {0}
        /\ RADIX_NODE_SIZE \in Nat \ {0}
        /\ Coverage(2) = Coverage(3) * RADIX_NODE_SIZE
        /\ Coverage(1) = Coverage(2) * RADIX_NODE_SIZE
    <2>1. 1 \in 1 .. 3 /\ 2 \in 1 .. 3 /\ 3 \in 1 .. 3
      BY SMT
    <2> QED
      BY Zenon, <2>1, Coverages DEF MapParameters
  <1>2. p \div (Coverage(3) * RADIX_NODE_SIZE) = (p \div Coverage(3)) \div RADIX_NODE_SIZE
    BY Zenon, <1>1, DivDiv
  <1>3. p \div (Coverage(2) * RADIX_NODE_SIZE) = (p \div Coverage(2)) \div RADIX_NODE_SIZE
    BY Zenon, <1>1, DivDiv
  <1>4. ASSUME NEW k \in 1 .. 3 PROVE p \div Coverage(k) \in Nat
    <2>1. Coverage(k) \in Nat \ {0}
      BY Zenon, Coverages
    <2> QED
      BY <2>1, SMT
  <1> QED
    BY Zenon, <1>1, <1>2, <1>3, <1>4

(* The indices of a page are in range. *)
LEMMA Indices ==
  ASSUME MapParameters, NEW p \in Nat
  PROVE  /\ I0(p) \in Nat /\ I1(p) \in Slots /\ I2(p) \in Slots /\ I3(p) \in Slots
         /\ p \in MapPages => I0(p) \in 0 .. (RADIX_ROOT_SIZE - 1)
  <1>1. 1 \in 1 .. 3 /\ 2 \in 1 .. 3 /\ 3 \in 1 .. 3
    BY SMT
  <1>2. /\ p \div Coverage(1) \in Nat /\ p \div Coverage(2) \in Nat /\ p \div Coverage(3) \in Nat
        /\ Coverage(1) \in Nat \ {0} /\ RADIX_NODE_SIZE \in Nat \ {0} /\ RADIX_ROOT_SIZE \in Nat \ {0}
    BY Zenon, <1>1, Quotients, Coverages DEF MapParameters
  <1>3. I0(p) \in Nat
    BY Zenon, <1>2 DEF I0
  <1>4. \A x \in Nat : x % RADIX_NODE_SIZE \in Slots
    BY <1>2, SMT DEF Slots
  <1>5. ASSUME p \in MapPages PROVE I0(p) \in 0 .. (RADIX_ROOT_SIZE - 1)
    <2> DEFINE C == Coverage(1)
               R == RADIX_ROOT_SIZE
               q == p \div C
    <2>1. p < R * C
      <3>1. p \in 0 .. (R * C - 1)
        BY Zenon, <1>5 DEF MapParameters
      <3>2. R * C \in Nat
        BY <1>2, Z3
      <3> QED
        BY <3>1, <3>2, SMT
    <2>2. q \in Nat /\ C * q <= p
      BY <1>2, SMT
    <2> HIDE DEF C, R, q
    <2>3. q < R
      <3>1. C \in Nat \ {0} /\ R \in Nat \ {0}
        BY Zenon, <1>2 DEF C, R
      <3>2. SUFFICES ASSUME q >= R PROVE FALSE
        BY <2>2, <3>1, SMT
      <3>3. C * q >= C * R /\ C * R = R * C
        BY <2>2, <3>1, <3>2, Z3
      <3> QED
        BY <2>1, <2>2, <3>1, <3>3, Z3
    <2> QED
      BY <1>2, <2>2, <2>3, SMT DEF I0, C, R, q
  <1> QED
    BY Zenon, <1>2, <1>3, <1>4, <1>5 DEF I1, I2, I3

(* The path to a node, written out. *)
LEMMA Paths ==
  ASSUME NEW p
  PROVE  /\ Path(p, 1) = <<I0(p)>>
         /\ Path(p, 2) = <<I0(p), I1(p)>>
         /\ Path(p, 3) = <<I0(p), I1(p), I2(p)>>
  <1> DEFINE S == {I0(p), I1(p), I2(p)}
             t == <<I0(p), I1(p), I2(p)>>
  <1>1. t \in Seq(S) /\ Len(t) = 3
    BY SMT
  <1>2. \A k \in 1 .. 3 : /\ SubSeq(t, 1, k) \in Seq(S) /\ Len(SubSeq(t, 1, k)) = k
                         /\ \A j \in 1 .. k : SubSeq(t, 1, k)[j] = t[j]
    BY <1>1, SMT
  <1>3. /\ <<I0(p)>> \in Seq(S) /\ Len(<<I0(p)>>) = 1
        /\ \A j \in 1 .. 1 : <<I0(p)>>[j] = t[j]
    BY SMT
  <1>4. /\ <<I0(p), I1(p)>> \in Seq(S) /\ Len(<<I0(p), I1(p)>>) = 2
        /\ \A j \in 1 .. 2 : <<I0(p), I1(p)>>[j] = t[j]
    BY SMT
  <1>5. 1 \in 1 .. 3 /\ 2 \in 1 .. 3 /\ 3 \in 1 .. 3
    BY SMT
  <1> HIDE DEF t, S
  <1>6. SubSeq(t, 1, 1) = <<I0(p)>>
    <2> DEFINE u == SubSeq(t, 1, 1)
               v == <<I0(p)>>
    <2>1. /\ u \in Seq(S) /\ v \in Seq(S) /\ Len(u) = Len(v)
          /\ \A j \in 1 .. Len(u) : u[j] = v[j]
      BY Zenon, <1>2, <1>3, <1>5
    <2> HIDE DEF u, v
    <2>2. u = v
      BY Zenon, <2>1, SeqEqual
    <2> QED
      BY Zenon, <2>2 DEF u, v
  <1>7. SubSeq(t, 1, 2) = <<I0(p), I1(p)>>
    <2> DEFINE u == SubSeq(t, 1, 2)
               v == <<I0(p), I1(p)>>
    <2>1. /\ u \in Seq(S) /\ v \in Seq(S) /\ Len(u) = Len(v)
          /\ \A j \in 1 .. Len(u) : u[j] = v[j]
      BY Zenon, <1>2, <1>4, <1>5
    <2> HIDE DEF u, v
    <2>2. u = v
      BY Zenon, <2>1, SeqEqual
    <2> QED
      BY Zenon, <2>2 DEF u, v
  <1>8. SubSeq(t, 1, 3) = t
    BY Zenon, <1>1, <1>2, <1>5, SeqEqual
  <1> QED
    BY Zenon, <1>6, <1>7, <1>8 DEF Path, t

(* Pages with the same quotient share the node. *)
LEMMA SamePath ==
  ASSUME MapParameters, NEW p \in Nat, NEW q \in Nat, NEW k \in 1 .. 3,
         p \div Coverage(k) = q \div Coverage(k)
  PROVE  \A j \in 1 .. k : Path(p, j) = Path(q, j)
  <1> DEFINE N == RADIX_NODE_SIZE
  <1>q. /\ p \div Coverage(2) = (p \div Coverage(3)) \div N
        /\ q \div Coverage(2) = (q \div Coverage(3)) \div N
        /\ p \div Coverage(1) = (p \div Coverage(2)) \div N
        /\ q \div Coverage(1) = (q \div Coverage(2)) \div N
    BY Zenon, Quotients
  <1>1. k = 3 => p \div Coverage(2) = q \div Coverage(2)
    <2> SUFFICES ASSUME k = 3 PROVE p \div Coverage(2) = q \div Coverage(2)
      BY Zenon
    <2>1. p \div Coverage(3) = q \div Coverage(3)
      BY Zenon
    <2> QED
      BY Zenon, <1>q, <2>1
  <1>2. k \in {2, 3} => p \div Coverage(1) = q \div Coverage(1)
    <2>1. k \in {2, 3} => p \div Coverage(2) = q \div Coverage(2)
      BY Zenon, <1>1
    <2> QED
      BY Zenon, <1>q, <2>1
  <1>3. k = 1 \/ k = 2 \/ k = 3
    BY SMT
  <1>4. I0(p) = I0(q)
    BY Zenon, <1>2, <1>3 DEF I0
  <1>5. k \in {2, 3} => I1(p) = I1(q)
    BY Zenon, <1>1, <1>3 DEF I1
  <1>6. k = 3 => I2(p) = I2(q)
    BY Zenon DEF I2
  <1>7. /\ k = 1 => \A j \in 1 .. k : j = 1
        /\ k = 2 => \A j \in 1 .. k : j = 1 \/ j = 2
        /\ k = 3 => \A j \in 1 .. k : j = 1 \/ j = 2 \/ j = 3
    BY SMT
  <1> QED
    BY Zenon, <1>3, <1>4, <1>5, <1>6, <1>7, Paths

(* What ClearRange skips lies below the node that is missing. *)
LEMMA Skipped ==
  ASSUME MapParameters, NEW p \in Nat, NEW q \in Nat, NEW k \in 1 .. 3,
         p <= q, q < p + (Coverage(k) - (p % Coverage(k)))
  PROVE  \A j \in 1 .. k : Path(p, j) = Path(q, j)
  <1> DEFINE C == Coverage(k)
  <1>1. C \in Nat \ {0}
    BY Zenon, Coverages
  <1>2. p <= q /\ q < p + (C - (p % C))
    OBVIOUS
  <1> HIDE DEF C
  <1>3. p \div C = q \div C
    <2> DEFINE d == p \div C
    <2>1. d \in Nat /\ p = C * d + (p % C)
      BY <1>1, SMT
    <2> HIDE DEF d
    <2>2. q - C * d \in Nat /\ q - C * d < C /\ q = C * d + (q - C * d)
      BY <1>1, <1>2, <2>1, SMT
    <2> DEFINE e == q - C * d
    <2> HIDE DEF e
    <2>3. e \in Nat /\ e < C /\ q = C * d + e
      BY Zenon, <2>2 DEF e
    <2>4. q \div C = d
      BY <1>1, <2>1, <2>3, SMT
    <2> QED
      BY Zenon, <2>4 DEF d
  <1> QED
    BY Zenon, <1>3, SamePath DEF C

(* Neighbours in one node of the last level. *)
LEMMA NextEntry ==
  ASSUME MapParameters, NEW p \in Nat, I3(p) + 1 < RADIX_NODE_SIZE
  PROVE  Path(p + 1, 3) = Path(p, 3) /\ I3(p + 1) = I3(p) + 1
  <1> DEFINE N == RADIX_NODE_SIZE
  <1>1. N \in Nat \ {0} /\ (p % N) + 1 < N /\ Coverage(3) = N
    BY Zenon, Coverages DEF I3, MapParameters
  <1>2. p + 1 \in Nat /\ p <= p + 1 /\ p + 1 < p + (N - (p % N))
    BY <1>1, SMT
  <1>3. (p + 1) % N = (p % N) + 1
    <2> DEFINE d == p \div N
               r == p % N
    <2>1. d \in Nat /\ r \in Nat /\ r + 1 < N /\ p + 1 = N * d + (r + 1)
      BY <1>1, SMT
    <2> HIDE DEF d, r
    <2> DEFINE x == p + 1
               e == r + 1
    <2>3. x \in Nat /\ e \in Nat /\ e < N /\ x = N * d + e
      BY <2>1, SMT
    <2> HIDE DEF x, e
    <2>4. x \div N = d
      BY <1>1, <2>1, <2>3, SMT
    <2>5. x % N \in Nat /\ x = N * (x \div N) + (x % N)
      BY Zenon, <1>1, <2>3, DivMod
    <2>6. N * d \in Nat
      BY <1>1, <2>1, SMT
    <2> DEFINE m == N * d
               w == x % N
    <2>7. m \in Nat /\ w \in Nat /\ x = m + w /\ x = m + e
      BY Zenon, <2>3, <2>4, <2>5, <2>6
    <2> HIDE DEF m, w
    <2>8. w = e
      BY <2>3, <2>7, SMT
    <2>2. (p + 1) % N = r + 1
      BY Zenon, <2>8 DEF w, x, e
    <2> QED
      BY Zenon, <2>2 DEF r
  <1>4. 3 \in 1 .. 3
    BY SMT
  <1> HIDE DEF N
  <1>5. Path(p + 1, 3) = Path(p, 3)
    BY Zenon, <1>1, <1>2, <1>4, Skipped
  <1> QED
    BY Zenon, <1>3, <1>5 DEF I3, N

(* An entry belongs to one page. *)
LEMMA SamePage ==
  ASSUME MapParameters, NEW p \in Nat, NEW q \in Nat,
         Path(p, 3) = Path(q, 3), I3(p) = I3(q)
  PROVE  p = q
  <1> DEFINE N == RADIX_NODE_SIZE
             p3 == p \div Coverage(3)
             p2 == p \div Coverage(2)
             q3 == q \div Coverage(3)
             q2 == q \div Coverage(2)
  <1>1. I0(p) = I0(q) /\ I1(p) = I1(q) /\ I2(p) = I2(q)
    <2>1. \A a, b, c, d, e, f : <<a, b, c>> = <<d, e, f>> => a = d /\ b = e /\ c = f
      BY SMT
    <2>2. <<I0(p), I1(p), I2(p)>> = <<I0(q), I1(q), I2(q)>>
      BY Zenon, Paths
    <2> QED
      BY Zenon, <2>1, <2>2
  <1>2. 2 \in 1 .. 3 /\ 3 \in 1 .. 3
    BY SMT
  <1>3. N \in Nat \ {0} /\ p3 \in Nat /\ p2 \in Nat /\ q3 \in Nat /\ q2 \in Nat
    BY Zenon, <1>2, Quotients DEF MapParameters
  <1>4. p2 \div N = q2 \div N /\ p2 % N = q2 % N
    BY Zenon, <1>1, Quotients DEF I0, I1
  <1>5. p2 = p3 \div N /\ q2 = q3 \div N /\ p3 % N = q3 % N
    BY Zenon, <1>1, Quotients DEF I2
  <1>6. p3 = p \div N /\ q3 = q \div N /\ p % N = q % N
    BY Zenon, Coverages DEF I3
  <1> HIDE DEF N, p2, p3, q2, q3
  <1>7. \A x, y \in Nat : x \div N = y \div N /\ x % N = y % N => x = y
    <2> SUFFICES ASSUME NEW x \in Nat, NEW y \in Nat, x \div N = y \div N, x % N = y % N
                 PROVE  x = y
      BY Zenon
    <2>1. x = N * (x \div N) + (x % N) /\ y = N * (y \div N) + (y % N)
      BY Zenon, <1>3, DivMod
    <2> QED
      BY Zenon, <2>1
  <1>8. p2 = q2
    BY Zenon, <1>3, <1>4, <1>7
  <1>9. p3 = q3
    BY Zenon, <1>3, <1>5, <1>7, <1>8
  <1> QED
    BY Zenon, <1>6, <1>7, <1>9

-----------------------------------------------------------------------------
(* The inductive invariant of PageMap. *)

(* The entry of page p, whether or not its node is there. *)
Entry(p) == leaf[Path(p, 3)][I3(p)]

(* Null entries stand for the nodes that are not there. *)
Tree ==
  /\ root \in BOOLEAN /\ (~root => nodes = {})
  /\ leaf \in [LastNodes -> [Slots -> Spans \cup {Null}]]
  /\ \A n \in LastNodes : n \notin nodes => \A k \in Slots : leaf[n][k] = Null
  /\ \A p \in Nat, k \in 1 .. 3 : Path(p, k) \in nodes => \A j \in 1 .. k : Path(p, j) \in nodes

(* The range of the writer, and what is left of it in the current node. *)
Writer ==
  /\ op \in {"idle", "set", "clear"} /\ span \in Spans \cup {Null}
  /\ first \in Nat /\ pos \in Nat /\ end \in Nat /\ cnt \in Nat
  /\ flat \in [MapPages -> Spans \cup {Null}]
  /\ op = "idle" => cnt = 0
  /\ op = "clear" => span = Null
  /\ op # "idle" => root /\ first <= pos /\ pos <= end /\ first .. (end - 1) \subseteq MapPages
  /\ cnt > 0 => /\ node = Path(pos, 3) /\ node \in nodes /\ idx = I3(pos)
                /\ pos + cnt <= end /\ idx + cnt <= RADIX_NODE_SIZE

(* The pages before pos have the new mapping, all others the old one. *)
Written(p) == op # "idle" /\ first <= p /\ p < pos

Progress == \A p \in MapPages : Entry(p) = IF Written(p) THEN span ELSE flat[p]

(* The nodes that the reader has passed stay in the tree. *)
Reader ==
  /\ level \in -1 .. 4 /\ page \in Nat
  /\ level >= 1 => root /\ I0(page) < RADIX_ROOT_SIZE
  /\ level = 2 => Path(page, 1) \in nodes
  /\ level = 3 => Path(page, 2) \in nodes
  /\ level = 4 => Path(page, 3) \in nodes

MapInv == Tree /\ Writer /\ Progress /\ Reader

(* The entry of a page is in the array of its node. *)
LEMMA Places ==
  ASSUME MapParameters
  PROVE  \A p \in MapPages : p \in Nat /\ Path(p, 3) \in LastNodes /\ I3(p) \in Slots
  <1> SUFFICES ASSUME NEW p \in MapPages
               PROVE  p \in Nat /\ Path(p, 3) \in LastNodes /\ I3(p) \in Slots
    BY Zenon
  <1>1. p \in Nat
    <2>1. p \in 0 .. (RADIX_ROOT_SIZE * Coverage(1) - 1)
      BY Zenon DEF MapParameters
    <2> QED
      BY <2>1, SMT
  <1>2. /\ I0(p) \in 0 .. (RADIX_ROOT_SIZE - 1)
        /\ I1(p) \in Slots /\ I2(p) \in Slots /\ I3(p) \in Slots
    BY Zenon, <1>1, Indices
  <1>3. <<I0(p), I1(p), I2(p)>> \in LastNodes
    BY <1>2, SMT DEF LastNodes
  <1> QED
    BY Zenon, <1>1, <1>2, <1>3, Paths

(* A path determines its length and its beginnings. *)
LEMMA Beginnings ==
  ASSUME MapParameters, NEW p \in Nat, NEW q \in Nat, NEW k \in 1 .. 3, NEW l \in 1 .. 3,
         Path(p, k) = Path(q, l)
  PROVE  k = l /\ \A j \in 1 .. k : Path(p, j) = Path(q, j)
  <1>1. /\ k = 1 \/ k = 2 \/ k = 3
        /\ l = 1 \/ l = 2 \/ l = 3
    BY SMT
  <1>2. \A a, b, c, d, e, f :
          /\ <<a>> # <<d, e>> /\ <<a>> # <<d, e, f>> /\ <<a, b>> # <<d, e, f>>
          /\ <<a>> = <<d>> => a = d
          /\ <<a, b>> = <<d, e>> => a = d /\ b = e
          /\ <<a, b, c>> = <<d, e, f>> => a = d /\ b = e /\ c = f
    BY SMT
  <1>3. k = l
    <2>1. \A r \in Nat : Len(Path(r, 1)) = 1 /\ Len(Path(r, 2)) = 2 /\ Len(Path(r, 3)) = 3
      <3>1. \A a, b, c : Len(<<a>>) = 1 /\ Len(<<a, b>>) = 2 /\ Len(<<a, b, c>>) = 3
        BY SMT
      <3> QED
        BY Zenon, <3>1, Paths
    <2>2. Len(Path(p, k)) = k /\ Len(Path(q, l)) = l
      BY Zenon, <1>1, <2>1
    <2> QED
      BY Zenon, <2>2
  <1>4. I0(p) = I0(q) /\ (k \in {2, 3} => I1(p) = I1(q)) /\ (k = 3 => I2(p) = I2(q))
    <2>1. CASE k = 1
      <3>1. <<I0(p)>> = <<I0(q)>>
        BY Zenon, <2>1, <1>3, Paths
      <3>2. k \notin {2, 3} /\ k # 3
        BY <2>1, SMT
      <3> QED
        BY Zenon, <1>2, <3>1, <3>2
    <2>2. CASE k = 2
      <3>1. <<I0(p), I1(p)>> = <<I0(q), I1(q)>>
        BY Zenon, <2>2, <1>3, Paths
      <3>2. k # 3
        BY <2>2, SMT
      <3> QED
        BY Zenon, <1>2, <3>1, <3>2
    <2>3. CASE k = 3
      <3>1. <<I0(p), I1(p), I2(p)>> = <<I0(q), I1(q), I2(q)>>
        BY Zenon, <2>3, <1>3, Paths
      <3> QED
        BY Zenon, <1>2, <3>1
    <2> QED
      BY Zenon, <1>1, <2>1, <2>2, <2>3
  <1>5. /\ k = 1 => \A j \in 1 .. k : j = 1
        /\ k = 2 => \A j \in 1 .. k : j = 1 \/ j = 2
        /\ k = 3 => \A j \in 1 .. k : j = 1 \/ j = 2 \/ j = 3
    BY SMT
  <1> QED
    BY Zenon, <1>1, <1>3, <1>4, <1>5, Paths

(* A reader that runs alone finds the entry. *)
LEMMA LookupIsEntry ==
  ASSUME MapParameters, Tree, NEW p \in MapPages
  PROVE  Lookup(p) = Entry(p)
  <1>1. p \in Nat /\ Path(p, 3) \in LastNodes /\ I3(p) \in Slots
    BY Zenon, Places
  <1>2. I0(p) < RADIX_ROOT_SIZE
    <2>1. I0(p) \in 0 .. (RADIX_ROOT_SIZE - 1) /\ RADIX_ROOT_SIZE \in Nat
      BY Zenon, <1>1, Indices DEF MapParameters
    <2> QED
      BY <2>1, SMT
  <1>3. 3 \in 1 .. 3
    BY SMT
  <1>4. CASE Path(p, 3) \in nodes
    <2>1. root /\ \A k \in 1 .. 3 : Path(p, k) \in nodes
      BY Zenon, <1>1, <1>3, <1>4 DEF Tree
    <2> QED
      BY Zenon, <1>2, <2>1 DEF Lookup, Entry
  <1>5. CASE Path(p, 3) \notin nodes
    <2>1. Entry(p) = Null
      BY Zenon, <1>1, <1>5 DEF Tree, Entry
    <2>2. ~ \A k \in 1 .. 3 : Path(p, k) \in nodes
      BY Zenon, <1>3, <1>5
    <2> QED
      BY Zenon, <2>1, <2>2 DEF Lookup
  <1> QED
    BY Zenon, <1>4, <1>5

(* The invariant says what MapsRange does. *)
LEMMA RangeMapped ==
  ASSUME MapParameters, MapInv
  PROVE  MapsRange
  <1> SUFFICES ASSUME NEW p \in MapPages
               PROVE  IF op # "idle" /\ first <= p /\ p < end
                      THEN Lookup(p) \in {flat[p], span} ELSE Lookup(p) = flat[p]
    BY Zenon DEF MapsRange
  <1>1. Lookup(p) = IF Written(p) THEN span ELSE flat[p]
    BY Zenon, LookupIsEntry DEF MapInv, Progress
  <1>2. Written(p) => op # "idle" /\ first <= p /\ p < end
    <2>1. /\ op # "idle" => pos <= end
          /\ pos \in Nat /\ end \in Nat /\ p \in Nat
      BY Zenon, Places DEF MapInv, Writer
    <2> QED
      BY <2>1, SMT DEF Written
  <1> QED
    BY Zenon, <1>1, <1>2

-----------------------------------------------------------------------------
(* Every step preserves the invariant. *)

(* The steps of a reader leave the tree and the writer alone. *)
LEMMA ReaderFrame ==
  ASSUME MapInv, UNCHANGED <<tree, writer>>
  PROVE  Tree' /\ Writer' /\ Progress'
  <1>1. /\ UNCHANGED root /\ UNCHANGED nodes /\ UNCHANGED leaf
        /\ UNCHANGED op /\ UNCHANGED span /\ UNCHANGED first /\ UNCHANGED pos /\ UNCHANGED end
        /\ UNCHANGED node /\ UNCHANGED idx /\ UNCHANGED cnt /\ UNCHANGED flat
    BY Zenon DEF tree, writer
  <1>2. Tree'
    BY Zenon, <1>1 DEF MapInv, Tree
  <1>3. Writer'
    BY Zenon, <1>1 DEF MapInv, Writer
  <1>4. Progress'
    BY Zenon, <1>1 DEF MapInv, Progress, Written, Entry
  <1> QED
    BY Zenon, <1>2, <1>3, <1>4

(* The steps of a writer leave the reader alone and remove no node. *)
LEMMA WriterFrame ==
  ASSUME MapInv, UNCHANGED reader, root => root', nodes \subseteq nodes'
  PROVE  Reader'
  <1>1. UNCHANGED page /\ UNCHANGED level
    BY Zenon DEF reader
  <1> QED
    BY Zenon, <1>1 DEF MapInv, Reader

(* A call starts with nothing written. *)
LEMMA BeginInv ==
  ASSUME MapInv, MapParameters, NEW name \in {"set", "clear"},
         NEW p \in MapPages, NEW n \in 1 .. MaxRange, NEW s \in Spans \cup {Null},
         p .. (p + n - 1) \subseteq MapPages,
         op = "idle", root', name = "clear" => s = Null, Begin(name, p, n, s)
  PROVE  MapInv'
  <1>1. /\ UNCHANGED nodes /\ UNCHANGED leaf /\ UNCHANGED cnt /\ UNCHANGED flat /\ UNCHANGED reader
        /\ op' = name /\ span' = s /\ first' = p /\ pos' = p /\ end' = p + n
    BY Zenon DEF Begin
  <1>2. p \in Nat /\ MaxRange \in Nat
    BY Zenon, Places DEF MapParameters
  <1>3. cnt = 0 /\ op' # "idle"
    BY Zenon, <1>1 DEF MapInv, Writer
  <1>4. Tree'
    <2>1. root' \in BOOLEAN /\ (~root' => nodes' = {})
      <3>1. root' \in BOOLEAN
        BY Zenon DEF Begin
      <3> QED
        BY Zenon, <3>1
    <2> QED
      BY Zenon, <1>1, <2>1 DEF MapInv, Tree
  <1>5. Writer'
    <2>1. /\ op' \in {"idle", "set", "clear"} /\ op' # "idle"
          /\ span' \in Spans \cup {Null}
          /\ flat' \in [MapPages -> Spans \cup {Null}]
          /\ cnt' = 0
          /\ op' = "clear" => span' = Null
      BY Zenon, <1>1, <1>3 DEF MapInv, Writer
    <2>2. p + n \in Nat /\ (p + n) - 1 = p + n - 1 /\ p <= p /\ p <= p + n /\ 0 \in Nat /\ ~ (0 > 0)
      BY <1>2, SMT
    <2>3. first' \in Nat /\ pos' \in Nat /\ end' \in Nat /\ cnt' \in Nat /\ ~ (cnt' > 0)
      BY Zenon, <1>1, <1>2, <2>1, <2>2
    <2>4. root' /\ first' <= pos' /\ pos' <= end'
      BY Zenon, <1>1, <2>2
    <2>5. first' .. (end' - 1) \subseteq MapPages
      BY Zenon, <1>1, <2>2
    <2> QED
      BY Zenon, <2>1, <2>3, <2>4, <2>5 DEF Writer
  <1>6. Progress'
    <2> SUFFICES ASSUME NEW q \in MapPages
                 PROVE  Entry(q)' = IF Written(q)' THEN span' ELSE flat'[q]
      BY Zenon DEF Progress
    <2>1. Entry(q)' = Entry(q) /\ flat'[q] = flat[q]
      BY Zenon, <1>1 DEF Entry
    <2>2. ~ Written(q)'
      <3>1. q \in Nat
        BY Zenon, Places
      <3>2. ~ (p <= q /\ q < p)
        BY <1>2, <3>1, SMT
      <3> QED
        BY Zenon, <1>1, <3>2 DEF Written
    <2>3. Entry(q) = flat[q]
      BY Zenon DEF MapInv, Progress, Written
    <2> QED
      BY Zenon, <2>1, <2>2, <2>3
  <1>7. Reader'
    BY Zenon, <1>1, WriterFrame
  <1> QED
    BY Zenon, <1>4, <1>5, <1>6, <1>7 DEF MapInv

(* The beginnings of a new node's path are there already. *)
LEMMA MakeNodeInv ==
  ASSUME MapInv, MapParameters, NEW k \in 1 .. 3, MakeNode(k)
  PROVE  MapInv'
  <1>1. /\ UNCHANGED root /\ UNCHANGED leaf /\ UNCHANGED writer /\ UNCHANGED reader
        /\ UNCHANGED op /\ UNCHANGED span /\ UNCHANGED first /\ UNCHANGED pos /\ UNCHANGED end
        /\ UNCHANGED node /\ UNCHANGED idx /\ UNCHANGED cnt /\ UNCHANGED flat
        /\ nodes' = nodes \cup {Path(pos, k)} /\ op # "idle" /\ pos \in Nat
        /\ \A j \in 1 .. (k - 1) : Path(pos, j) \in nodes
    BY Zenon DEF MakeNode, Missing, writer, MapInv, Writer
  <1>a. \A a \in Nat, b \in Nat, c \in 1 .. 3, d \in 1 .. 3 :
          Path(a, c) = Path(b, d) => c = d /\ \A i \in 1 .. c : Path(a, i) = Path(b, i)
    BY Zenon, Beginnings
  <1>b. \A a \in Nat, c \in 1 .. 3 :
          Path(a, c) = Path(pos, k) => c = k /\ \A i \in 1 .. c : Path(a, i) = Path(pos, i)
    <2>1. pos \in Nat /\ k \in 1 .. 3
      BY Zenon, <1>1
    <2> QED
      BY <1>a, <2>1, SMT
  <1>2. \A p \in Nat, l \in 1 .. 3 : Path(p, l) \in nodes' => \A j \in 1 .. l : Path(p, j) \in nodes'
    <2> SUFFICES ASSUME NEW p \in Nat, NEW l \in 1 .. 3, Path(p, l) \in nodes', NEW j \in 1 .. l
                 PROVE  Path(p, j) \in nodes'
      BY Zenon
    <2>1. CASE Path(p, l) \in nodes
      BY Zenon, <1>1, <2>1 DEF MapInv, Tree
    <2>2. CASE Path(p, l) = Path(pos, k)
      <3>p. pos \in Nat
        BY Zenon, <1>1
      <3>q. l = k /\ \A i \in 1 .. l : Path(p, i) = Path(pos, i)
        BY Zenon, <3>p, <2>2, <1>b
      <3>1. l = k /\ Path(p, j) = Path(pos, j)
        BY Zenon, <3>q
      <3>2. j = k \/ j \in 1 .. (k - 1)
        BY <3>1, SMT
      <3> QED
        BY Zenon, <1>1, <3>1, <3>2
    <2> QED
      BY Zenon, <1>1, <2>1, <2>2
  <1>3. root
    BY Zenon, <1>1 DEF MapInv, Writer
  <1>4. Tree'
    BY Zenon, <1>1, <1>2, <1>3 DEF MapInv, Tree
  <1>5. Writer'
    BY Zenon, <1>1 DEF MapInv, Writer
  <1>6. Progress'
    BY Zenon, <1>1 DEF MapInv, Progress, Written, Entry
  <1>7. Reader'
    BY Zenon, <1>1, WriterFrame
  <1> QED
    BY Zenon, <1>4, <1>5, <1>6, <1>7 DEF MapInv

(* The pages that a missing node would cover have null entries. *)
LEMMA SkipNodeInv ==
  ASSUME MapInv, MapParameters, NEW k \in 1 .. 3, SkipNode(k)
  PROVE  MapInv'
  <1> DEFINE C == Coverage(k)
  <1>1. /\ UNCHANGED root /\ UNCHANGED nodes /\ UNCHANGED leaf /\ UNCHANGED reader
        /\ UNCHANGED op /\ UNCHANGED span /\ UNCHANGED first /\ UNCHANGED end
        /\ UNCHANGED node /\ UNCHANGED idx /\ UNCHANGED cnt /\ UNCHANGED flat
        /\ pos' = pos + Smaller(end - pos, C - (pos % C))
        /\ op = "clear" /\ pos < end /\ cnt = 0 /\ Path(pos, k) \notin nodes
    BY Zenon DEF SkipNode, Missing, tree
  <1>2. /\ pos \in Nat /\ end \in Nat /\ first \in Nat /\ first <= pos /\ root
        /\ first .. (end - 1) \subseteq MapPages /\ span = Null
    <2>1. "clear" # "idle"
      BY SMT
    <2> QED
      BY Zenon, <1>1, <2>1 DEF MapInv, Writer
  <1>3. C \in Nat \ {0}
    BY Zenon, Coverages
  <1>4. /\ pos' \in Nat /\ pos <= pos' /\ pos' <= end /\ first <= pos'
        /\ pos' <= pos + (C - (pos % C))
    <2>1. pos % C \in Nat /\ pos % C < C
      BY Zenon, <1>2, <1>3, DivMod
    <2> HIDE DEF C
    <2> QED
      BY <1>1, <1>2, <1>3, <2>1, SMT DEF Smaller
  <1>5. Tree'
    BY Zenon, <1>1 DEF MapInv, Tree
  <1>6. Writer'
    <2>1. ~ (cnt' > 0)
      BY <1>1, SMT
    <2> QED
      BY Zenon, <1>1, <1>4, <2>1 DEF MapInv, Writer
  <1>7. Progress'
    <2> SUFFICES ASSUME NEW q \in MapPages
                 PROVE  Entry(q)' = IF Written(q)' THEN span' ELSE flat'[q]
      BY Zenon DEF Progress
    <2>1. q \in Nat /\ Path(q, 3) \in LastNodes /\ I3(q) \in Slots
      BY Zenon, Places
    <2>2. Entry(q)' = Entry(q) /\ flat'[q] = flat[q] /\ span' = span
      BY Zenon, <1>1 DEF Entry
    <2>3. Entry(q) = IF Written(q) THEN span ELSE flat[q]
      BY Zenon DEF MapInv, Progress
    <2>4. CASE pos <= q /\ q < pos'
      <3>1. q < pos + (C - (pos % C))
        <4>1. C - (pos % C) \in Int
          BY <1>2, <1>3, SMT
        <4> HIDE DEF C
        <4> DEFINE d == C - (pos % C)
        <4>2. d \in Int /\ pos' <= pos + d /\ q < pos'
          BY Zenon, <4>1, <1>4, <2>4
        <4> HIDE DEF d
        <4>3. q < pos + d
          BY <4>2, <1>2, <1>4, <2>1, SMT
        <4> QED
          BY Zenon, <4>3 DEF d
      <3>2. \A j \in 1 .. k : Path(pos, j) = Path(q, j)
        BY Zenon, <1>2, <2>1, <2>4, <3>1, Skipped
      <3>3. k \in 1 .. k /\ 3 \in 1 .. 3 /\ k \in 1 .. 3
        BY SMT
      <3>4. Path(q, 3) \notin nodes
        BY Zenon, <1>1, <2>1, <3>2, <3>3 DEF MapInv, Tree
      <3>5. Entry(q) = Null
        BY Zenon, <2>1, <3>4 DEF Entry, MapInv, Tree
      <3>6. Written(q)'
        <4>1. first <= q /\ q < pos'
          BY <1>2, <2>1, <2>4, SMT
        <4>2. "clear" # "idle"
          BY SMT
        <4> QED
          BY Zenon, <1>1, <4>1, <4>2 DEF Written
      <3> QED
        BY Zenon, <1>2, <2>2, <3>5, <3>6
    <2>5. CASE ~ (pos <= q /\ q < pos')
      <3>1. q < pos' <=> q < pos
        BY <1>2, <1>4, <2>1, <2>5, SMT
      <3>2. Written(q)' <=> Written(q)
        BY Zenon, <1>1, <3>1 DEF Written
      <3> QED
        BY Zenon, <2>2, <2>3, <3>2
    <2> QED
      BY Zenon, <2>4, <2>5
  <1>8. Reader'
    BY Zenon, <1>1, WriterFrame
  <1> QED
    BY Zenon, <1>5, <1>6, <1>7, <1>8 DEF MapInv

(* The entries to store lie in the node and in the range. *)
LEMMA EnterNodeInv ==
  ASSUME MapInv, MapParameters, EnterNode
  PROVE  MapInv'
  <1>1. /\ UNCHANGED root /\ UNCHANGED nodes /\ UNCHANGED leaf /\ UNCHANGED reader
        /\ UNCHANGED op /\ UNCHANGED span /\ UNCHANGED first /\ UNCHANGED pos /\ UNCHANGED end
        /\ UNCHANGED flat
        /\ node' = Path(pos, 3) /\ idx' = I3(pos) /\ Path(pos, 3) \in nodes
        /\ cnt' = Smaller(end - pos, RADIX_NODE_SIZE - I3(pos))
        /\ op # "idle" /\ pos < end /\ pos \in Nat /\ end \in Nat
    BY Zenon DEF EnterNode, tree, MapInv, Writer
  <1>2. I3(pos) \in Slots /\ RADIX_NODE_SIZE \in Nat \ {0}
    BY Zenon, <1>1, Indices DEF MapParameters
  <1>3. cnt' \in Nat /\ pos + cnt' <= end /\ I3(pos) + cnt' <= RADIX_NODE_SIZE
    BY <1>1, <1>2, SMT DEF Smaller, Slots
  <1>4. Tree'
    BY Zenon, <1>1 DEF MapInv, Tree
  <1>5. Writer'
    BY Zenon, <1>1, <1>3 DEF MapInv, Writer
  <1>6. Progress'
    BY Zenon, <1>1 DEF MapInv, Progress, Written, Entry
  <1>7. Reader'
    BY Zenon, <1>1, WriterFrame
  <1> QED
    BY Zenon, <1>4, <1>5, <1>6, <1>7 DEF MapInv

(* A store writes the entry of page pos and of no other page. *)
LEMMA StoreInv ==
  ASSUME MapInv, MapParameters, Store
  PROVE  MapInv'
  <1>1. /\ UNCHANGED root /\ UNCHANGED nodes /\ UNCHANGED reader
        /\ UNCHANGED op /\ UNCHANGED span /\ UNCHANGED first /\ UNCHANGED end
        /\ UNCHANGED node /\ UNCHANGED flat
        /\ leaf' = [leaf EXCEPT ![node][idx] = span]
        /\ idx' = idx + 1 /\ cnt' = cnt - 1 /\ pos' = pos + 1 /\ cnt > 0
    BY Zenon DEF Store
  <1>2. /\ pos \in Nat /\ end \in Nat /\ first \in Nat /\ cnt \in Nat
        /\ span \in Spans \cup {Null}
        /\ node = Path(pos, 3) /\ node \in nodes /\ idx = I3(pos)
        /\ pos + cnt <= end /\ idx + cnt <= RADIX_NODE_SIZE
    BY Zenon, <1>1 DEF MapInv, Writer
  <1>3. op # "idle"
    <2>1. ~ (0 > 0)
      BY SMT
    <2> QED
      BY Zenon, <1>1, <2>1 DEF MapInv, Writer
  <1>4. root /\ first <= pos /\ first .. (end - 1) \subseteq MapPages
    BY Zenon, <1>3 DEF MapInv, Writer
  <1>5. pos \in MapPages
    <2>1. pos \in first .. (end - 1)
      BY <1>1, <1>2, <1>4, SMT
    <2> QED
      BY Zenon, <1>4, <2>1
  <1>6. node \in LastNodes /\ idx \in Slots
    BY Zenon, <1>2, <1>5, Places
  <1>7. leaf \in [LastNodes -> [Slots -> Spans \cup {Null}]]
    BY Zenon DEF MapInv, Tree
  <1>8. /\ leaf' \in [LastNodes -> [Slots -> Spans \cup {Null}]]
        /\ \A n \in LastNodes : \A i \in Slots :
             leaf'[n][i] = IF n = node /\ i = idx THEN span ELSE leaf[n][i]
    <2> DEFINE V == Spans \cup {Null}
    <2>1. span \in V
      BY Zenon, <1>2
    <2>2. leaf \in [LastNodes -> [Slots -> V]]
      BY Zenon, <1>7
    <2> HIDE DEF V
    <2>3. /\ leaf' \in [LastNodes -> [Slots -> V]]
          /\ \A n \in LastNodes : \A i \in Slots :
               leaf'[n][i] = IF n = node /\ i = idx THEN span ELSE leaf[n][i]
      BY <1>1, <1>6, <2>1, <2>2, SMT
    <2> QED
      BY Zenon, <2>3 DEF V
  <1>9. Tree'
    <2>1. \A n \in LastNodes : n \notin nodes' => \A i \in Slots : leaf'[n][i] = Null
      BY Zenon, <1>1, <1>2, <1>8 DEF MapInv, Tree
    <2> QED
      BY Zenon, <1>1, <1>8, <2>1 DEF MapInv, Tree
  <1>10. Writer'
    <2>1. RADIX_NODE_SIZE \in Nat /\ idx \in Nat
      <3>1. RADIX_NODE_SIZE \in Nat \ {0}
        BY Zenon DEF MapParameters
      <3> QED
        BY <3>1, <1>6, SMT DEF Slots
    <2>2. pos' \in Nat /\ cnt' \in Nat /\ first' <= pos' /\ pos' <= end'
      BY <1>1, <1>2, <1>4, SMT
    <2>3. ASSUME cnt' > 0
          PROVE  /\ node' = Path(pos', 3) /\ node' \in nodes' /\ idx' = I3(pos')
                 /\ pos' + cnt' <= end' /\ idx' + cnt' <= RADIX_NODE_SIZE
      <3>1. pos' + cnt' <= end' /\ idx' + cnt' <= RADIX_NODE_SIZE /\ idx + 1 < RADIX_NODE_SIZE
        BY <1>1, <1>2, <2>1, <2>3, SMT
      <3>2. Path(pos + 1, 3) = Path(pos, 3) /\ I3(pos + 1) = I3(pos) + 1
        BY Zenon, <1>2, <3>1, NextEntry
      <3> QED
        BY Zenon, <1>1, <1>2, <3>1, <3>2
    <2>4. op' # "idle" /\ root' /\ first' .. (end' - 1) \subseteq MapPages
      BY Zenon, <1>1, <1>3, <1>4
    <2> QED
      BY Zenon, <1>1, <2>2, <2>3, <2>4 DEF MapInv, Writer
  <1>11. Progress'
    <2> SUFFICES ASSUME NEW q \in MapPages
                 PROVE  Entry(q)' = IF Written(q)' THEN span' ELSE flat'[q]
      BY Zenon DEF Progress
    <2>1. q \in Nat /\ Path(q, 3) \in LastNodes /\ I3(q) \in Slots
      BY Zenon, Places
    <2>2. CASE q = pos
      <3>1. Entry(q)' = span
        BY Zenon, <1>2, <1>6, <1>8, <2>2 DEF Entry
      <3>2. pos < pos + 1
        BY <1>2, SMT
      <3>3. Written(q)'
        BY Zenon, <1>1, <1>3, <1>4, <2>2, <3>2 DEF Written
      <3> QED
        BY Zenon, <1>1, <3>1, <3>3
    <2>3. CASE q # pos
      <3>1. ~ (Path(q, 3) = node /\ I3(q) = idx)
        BY Zenon, <1>2, <2>1, <2>3, SamePage
      <3>2. Entry(q)' = Entry(q)
        BY Zenon, <1>8, <2>1, <3>1 DEF Entry
      <3>3. q < pos + 1 <=> q < pos
        BY <1>2, <2>1, <2>3, SMT
      <3>4. Written(q)' <=> Written(q)
        BY Zenon, <1>1, <3>3 DEF Written
      <3> QED
        BY Zenon, <1>1, <3>2, <3>4 DEF MapInv, Progress
    <2> QED
      BY Zenon, <2>2, <2>3
  <1>12. Reader'
    BY Zenon, <1>1, WriterFrame
  <1> QED
    BY Zenon, <1>9, <1>10, <1>11, <1>12 DEF MapInv

(* At the end all of the range is written. *)
LEMMA DoneInv ==
  ASSUME MapInv, MapParameters, Done
  PROVE  MapInv'
  <1>1. /\ UNCHANGED root /\ UNCHANGED nodes /\ UNCHANGED leaf /\ UNCHANGED reader
        /\ UNCHANGED cnt /\ cnt = 0 /\ op # "idle" /\ pos >= end
        /\ op' = "idle" /\ span' = Null /\ first' = 0 /\ pos' = 0 /\ end' = 0
        /\ flat' = [p \in MapPages |-> IF first <= p /\ p < end THEN span ELSE flat[p]]
    BY Zenon DEF Done, tree
  <1>2. /\ pos \in Nat /\ end \in Nat /\ pos <= end /\ span \in Spans \cup {Null}
        /\ flat \in [MapPages -> Spans \cup {Null}]
    BY Zenon, <1>1 DEF MapInv, Writer
  <1>3. pos = end
    BY <1>1, <1>2, SMT
  <1>4. \A p \in MapPages : flat'[p] = IF first <= p /\ p < end THEN span ELSE flat[p]
    BY Zenon, <1>1
  <1>5. flat' \in [MapPages -> Spans \cup {Null}]
    BY Zenon, <1>1, <1>2
  <1>6. Tree'
    BY Zenon, <1>1 DEF MapInv, Tree
  <1>7. Writer'
    <2>1. 0 \in Nat /\ ~ (0 > 0) /\ "idle" # "clear"
      BY SMT
    <2> QED
      BY Zenon, <1>1, <1>5, <2>1 DEF Writer
  <1>8. Progress'
    <2> SUFFICES ASSUME NEW q \in MapPages
                 PROVE  Entry(q)' = flat'[q]
      BY Zenon, <1>1 DEF Progress, Written
    <2>1. Entry(q)' = Entry(q)
      BY Zenon, <1>1 DEF Entry
    <2>2. Entry(q) = IF Written(q) THEN span ELSE flat[q]
      BY Zenon DEF MapInv, Progress
    <2>3. Written(q) <=> first <= q /\ q < end
      BY Zenon, <1>1, <1>3 DEF Written
    <2> QED
      BY Zenon, <1>4, <2>1, <2>2, <2>3
  <1>9. Reader'
    BY Zenon, <1>1, WriterFrame
  <1> QED
    BY Zenon, <1>6, <1>7, <1>8, <1>9 DEF MapInv

(* The entries of an empty tree, and an empty map. *)
NoEntries == [n \in LastNodes |-> [k \in Slots |-> Null]]
NoPages == [p \in MapPages |-> Null]

(* An empty tree maps no page. *)
LEMMA EmptyTree ==
  ASSUME MapParameters
  PROVE  /\ NoEntries \in [LastNodes -> [Slots -> Spans \cup {Null}]]
         /\ \A n \in LastNodes : \A k \in Slots : NoEntries[n][k] = Null
         /\ NoPages \in [MapPages -> Spans \cup {Null}]
         /\ \A p \in MapPages : NoEntries[Path(p, 3)][I3(p)] = NoPages[p]
  <1>1. \A n \in LastNodes : \A k \in Slots : NoEntries[n][k] = Null
    BY Zenon DEF NoEntries
  <1>2. NoEntries \in [LastNodes -> [Slots -> Spans \cup {Null}]]
    BY Zenon DEF NoEntries
  <1>3. NoPages \in [MapPages -> Spans \cup {Null}] /\ \A p \in MapPages : NoPages[p] = Null
    BY Zenon DEF NoPages
  <1> QED
    BY Zenon, <1>1, <1>2, <1>3, Places

(* Reset starts over. *)
LEMMA ResetInv ==
  ASSUME MapInv, MapParameters, Reset
  PROVE  MapInv'
  <1>1. /\ root' = FALSE /\ nodes' = {} /\ op = "idle" /\ level = -1
        /\ UNCHANGED op /\ UNCHANGED span /\ UNCHANGED first /\ UNCHANGED pos /\ UNCHANGED end
        /\ UNCHANGED node /\ UNCHANGED idx /\ UNCHANGED cnt /\ UNCHANGED page /\ UNCHANGED level
        /\ leaf' = [n \in LastNodes |-> [k \in Slots |-> Null]]
        /\ flat' = [p \in MapPages |-> Null]
    BY Zenon DEF Reset, reader
  <1>2. /\ leaf' \in [LastNodes -> [Slots -> Spans \cup {Null}]]
        /\ \A n \in LastNodes : \A k \in Slots : leaf'[n][k] = Null
        /\ flat' \in [MapPages -> Spans \cup {Null}]
        /\ \A p \in MapPages : leaf'[Path(p, 3)][I3(p)] = flat'[p]
    <2>1. leaf' = NoEntries /\ flat' = NoPages
      BY Zenon, <1>1 DEF NoEntries, NoPages
    <2> QED
      BY Zenon, <2>1, EmptyTree
  <1>3. Tree'
    BY Zenon, <1>1, <1>2 DEF Tree
  <1>4. Writer'
    <2>1. cnt = 0 /\ ~ (0 > 0)
      <3>1. ~ (0 > 0)
        BY SMT
      <3> QED
        BY Zenon, <1>1, <3>1 DEF MapInv, Writer
    <2> QED
      BY Zenon, <1>1, <1>2, <2>1 DEF MapInv, Writer
  <1>5. Progress'
    BY Zenon, <1>1, <1>2 DEF Progress, Written, Entry
  <1>6. Reader'
    <2>1. ~ (-1 >= 1) /\ -1 # 2 /\ -1 # 3 /\ -1 # 4
      BY SMT
    <2> QED
      BY Zenon, <1>1, <2>1 DEF MapInv, Reader
  <1> QED
    BY Zenon, <1>3, <1>4, <1>5, <1>6 DEF MapInv

(* A reader passes a level only when the node is there. *)
LEMMA ReaderInv ==
  ASSUME MapInv, MapParameters,
         LoadRoot \/ LoadChild \/ LoadEntry \/ (\E p \in Lookups : CallGet(p))
  PROVE  MapInv'
  <1>f. UNCHANGED <<tree, writer>>
    BY Zenon DEF LoadRoot, LoadChild, LoadEntry, CallGet
  <1>u. UNCHANGED root /\ UNCHANGED nodes
    BY Zenon, <1>f DEF tree
  <1>t. level \in -1 .. 4 /\ page \in Nat
    BY Zenon DEF MapInv, Reader
  <1>n. /\ -1 \in -1 .. 4 /\ ~ (-1 >= 1) /\ -1 # 2 /\ -1 # 3 /\ -1 # 4 /\ 0 \in Nat
        /\ 0 \in -1 .. 4 /\ ~ (0 >= 1) /\ 0 # 2 /\ 0 # 3 /\ 0 # 4
        /\ 1 \in -1 .. 4 /\ 1 >= 1 /\ 1 # 2 /\ 1 # 3 /\ 1 # 4
    BY SMT
  <1>r. (\E v : Returns(v)) => Reader'
    BY Zenon, <1>n DEF Returns, Reader
  <1>1. CASE \E p \in Lookups : CallGet(p)
    <2>1. level' = 0 /\ page' \in Nat
      BY Zenon, <1>1 DEF CallGet, MapParameters
    <2>2. Reader'
      BY Zenon, <1>n, <2>1 DEF Reader
    <2> QED
      BY Zenon, <1>f, <2>2, ReaderFrame DEF MapInv
  <1>2. CASE LoadRoot
    <2>1. CASE root /\ I0(page) < RADIX_ROOT_SIZE
      <3>1. level' = 1 /\ page' = page
        BY Zenon, <1>2, <2>1 DEF LoadRoot
      <3> QED
        BY Zenon, <1>n, <1>t, <1>u, <2>1, <3>1, <1>f, ReaderFrame DEF Reader, MapInv
    <2>2. CASE ~ (root /\ I0(page) < RADIX_ROOT_SIZE)
      BY Zenon, <1>2, <1>r, <2>2, <1>f, ReaderFrame DEF LoadRoot, MapInv
    <2> QED
      BY Zenon, <2>1, <2>2
  <1>3. CASE LoadChild
    <2>1. CASE Path(page, level) \in nodes
      <3>1. level' = level + 1 /\ page' = page /\ level \in 1 .. 3
        BY Zenon, <1>3, <2>1 DEF LoadChild
      <3>2. /\ level' \in -1 .. 4 /\ level >= 1
            /\ level' = 2 => level = 1
            /\ level' = 3 => level = 2
            /\ level' = 4 => level = 3
        BY <3>1, SMT
      <3>3. Reader'
        BY Zenon, <1>t, <1>u, <2>1, <3>1, <3>2 DEF MapInv, Reader
      <3> QED
        BY Zenon, <1>f, <3>3, ReaderFrame DEF MapInv
    <2>2. CASE Path(page, level) \notin nodes
      BY Zenon, <1>3, <1>r, <2>2, <1>f, ReaderFrame DEF LoadChild, MapInv
    <2> QED
      BY Zenon, <2>1, <2>2
  <1>4. CASE LoadEntry
    BY Zenon, <1>4, <1>r, <1>f, ReaderFrame DEF LoadEntry, MapInv
  <1> QED
    BY Zenon, <1>1, <1>2, <1>3, <1>4

(* What a reader returns is what the tree maps its page to. *)
LEMMA ReturnsLookup ==
  ASSUME MapInv, MapParameters, [MapNext]_mapVars, level' = -1, level # -1
  PROVE  found' = Lookup(page)
  <1>n. 0 # -1 /\ 1 # -1 /\ (\A l \in 1 .. 3 : l + 1 # -1) /\ 3 \in 1 .. 3 /\ 4 >= 1
    BY SMT
  <1>1. CASE LoadRoot
    <2>1. ~ (root /\ I0(page) < RADIX_ROOT_SIZE)
      BY Zenon, <1>1, <1>n DEF LoadRoot
    <2>2. found' = Null
      BY Zenon, <1>1, <2>1 DEF LoadRoot, Returns
    <2> QED
      BY Zenon, <2>1, <2>2 DEF Lookup
  <1>2. CASE LoadChild
    <2>1. Path(page, level) \notin nodes /\ level \in 1 .. 3
      BY Zenon, <1>2, <1>n DEF LoadChild
    <2>2. found' = Null
      BY Zenon, <1>2, <2>1 DEF LoadChild, Returns
    <2> QED
      BY Zenon, <2>1, <2>2 DEF Lookup
  <1>3. CASE LoadEntry
    <2>1. level = 4 /\ found' = leaf[Path(page, 3)][I3(page)]
      BY Zenon, <1>3 DEF LoadEntry, Returns
    <2>2. root /\ I0(page) < RADIX_ROOT_SIZE /\ Path(page, 3) \in nodes /\ page \in Nat
      BY Zenon, <1>n, <2>1 DEF MapInv, Reader
    <2>3. \A k \in 1 .. 3 : Path(page, k) \in nodes
      BY Zenon, <1>n, <2>2 DEF MapInv, Tree
    <2> QED
      BY Zenon, <2>1, <2>2, <2>3 DEF Lookup
  <1>4. CASE UNCHANGED reader
    BY Zenon, <1>4 DEF reader
  <1>5. CASE \E p \in Lookups : CallGet(p)
    BY Zenon, <1>5 DEF CallGet
  <1>6. CASE \/ \E p \in MapPages, n \in 1 .. MaxRange :
                  CallClear(p, n) \/ \E s \in Spans : CallSet(p, n, s)
             \/ \E k \in 1 .. 3 : MakeNode(k) \/ SkipNode(k)
             \/ EnterNode \/ Store \/ Done \/ Reset
    BY Zenon, <1>4, <1>6
       DEF CallClear, CallSet, Begin, MakeNode, SkipNode, EnterNode, Store, Done, Reset, reader
  <1>7. CASE UNCHANGED mapVars
    BY Zenon, <1>4, <1>7 DEF mapVars
  <1> QED
    BY Zenon, <1>1, <1>2, <1>3, <1>5, <1>6, <1>7 DEF MapNext

-----------------------------------------------------------------------------
(***************************************************************************)
(* MapInv is an invariant of the map: the pages before the writer's        *)
(* position have the new mapping and all others the old one, whatever      *)
(* nodes SetSpan makes and ClearRange skips.                               *)
(***************************************************************************)
THEOREM MapInvariance ==
  ASSUME MapParameters
  PROVE  MapSpec => []MapInv
  <1>1. MapInit => MapInv
    <2> SUFFICES ASSUME MapInit PROVE MapInv
      BY Zenon
    <2>1. /\ leaf \in [LastNodes -> [Slots -> Spans \cup {Null}]]
          /\ \A n \in LastNodes : \A k \in Slots : leaf[n][k] = Null
          /\ flat \in [MapPages -> Spans \cup {Null}]
          /\ \A p \in MapPages : leaf[Path(p, 3)][I3(p)] = flat[p]
      <3>1. leaf = NoEntries /\ flat = NoPages
        BY Zenon DEF MapInit, NoEntries, NoPages
      <3> QED
        BY Zenon, <3>1, EmptyTree
    <2>2. /\ ~ (0 > 0) /\ 0 \in Nat /\ "idle" # "clear"
          /\ -1 \in -1 .. 4 /\ ~ (-1 >= 1) /\ -1 # 2 /\ -1 # 3 /\ -1 # 4
      BY SMT
    <2>3. Tree
      BY Zenon, <2>1 DEF MapInit, Tree
    <2>4. Writer
      BY Zenon, <2>1, <2>2 DEF MapInit, Writer
    <2>5. Progress
      BY Zenon, <2>1 DEF MapInit, Progress, Written, Entry
    <2>6. Reader
      BY Zenon, <2>2 DEF MapInit, Reader
    <2> QED
      BY Zenon, <2>3, <2>4, <2>5, <2>6 DEF MapInv
  <1>2. MapInv /\ [MapNext]_mapVars => MapInv'
    <2> SUFFICES ASSUME MapInv, [MapNext]_mapVars PROVE MapInv'
      BY Zenon
    <2>1. ASSUME NEW p \in MapPages, NEW n \in 1 .. MaxRange,
                 p .. (p + n - 1) \subseteq MapPages, CallClear(p, n)
          PROVE  MapInv'
      BY Zenon, <2>1, BeginInv DEF CallClear
    <2>2. ASSUME NEW p \in MapPages, NEW n \in 1 .. MaxRange,
                 p .. (p + n - 1) \subseteq MapPages, NEW s \in Spans, CallSet(p, n, s)
          PROVE  MapInv'
      <3>1. root' /\ "set" # "clear" /\ op = "idle" /\ Begin("set", p, n, s)
        BY Zenon, <2>2 DEF CallSet
      <3> QED
        BY Zenon, <2>2, <3>1, BeginInv
    <2>3. ASSUME NEW k \in 1 .. 3, MakeNode(k) \/ SkipNode(k)
          PROVE  MapInv'
      BY Zenon, <2>3, MakeNodeInv, SkipNodeInv
    <2>4. CASE EnterNode \/ Store \/ Done \/ Reset
      BY Zenon, <2>4, EnterNodeInv, StoreInv, DoneInv, ResetInv
    <2>5. CASE LoadRoot \/ LoadChild \/ LoadEntry \/ (\E p \in Lookups : CallGet(p))
      BY Zenon, <2>5, ReaderInv
    <2>6. CASE UNCHANGED mapVars
      <3>1. UNCHANGED <<tree, writer>> /\ UNCHANGED reader /\ UNCHANGED root /\ UNCHANGED nodes
        BY Zenon, <2>6 DEF mapVars, tree
      <3> QED
        BY Zenon, <3>1, ReaderFrame, WriterFrame DEF MapInv
    <2> QED
      BY Zenon, <2>1, <2>2, <2>3, <2>4, <2>5, <2>6 DEF MapNext
  <1> QED
    BY <1>1, <1>2, PTL DEF MapSpec

(***************************************************************************)
(* SetSpan and ClearRange map exactly the pages of their range, for every  *)
(* size of the nodes and of the root and every range below the root.       *)
(***************************************************************************)
THEOREM RangesMapped ==
  ASSUME MapParameters
  PROVE  MapSpec => []MapsRange
  <1>1. MapInv => MapsRange
    BY Zenon, RangeMapped
  <1> QED
    BY <1>1, MapInvariance, PTL

(***************************************************************************)
(* GetSpan takes effect at its last load, whatever a writer does while the *)
(* reader walks down.                                                      *)
(***************************************************************************)
THEOREM LookupsLinearize ==
  ASSUME MapParameters
  PROVE  MapSpec => LookupLinearizes
  <1>1. MapInv /\ [MapNext]_mapVars
        => [level' = -1 /\ level # -1 => found' = Lookup(page)]_mapVars
    BY Zenon, ReturnsLookup
  <1> QED
    BY <1>1, MapInvariance, PTL DEF MapSpec, LookupLinearizes

-----------------------------------------------------------------------------
(* The pool that the nodes come from: ranges of words. *)

(* Ranges one after the other do not overlap, and ranges inside of ranges. *)
LEMMA Ranges ==
  ASSUME NEW a \in Nat, NEW m \in Nat, NEW b \in Nat, NEW n \in Nat
  PROVE  /\ a + m <= b => WordsFrom(a, m) \cap WordsFrom(b, n) = {}
         /\ b <= a /\ a + m <= b + n => WordsFrom(a, m) \subseteq WordsFrom(b, n)
  BY SMT DEF WordsFrom

(* Sums and multiples of the alignment. *)
LEMMA Aligned ==
  ASSUME PoolParameters, NEW x \in Nat, x % AlignT = 0
  PROVE  (x + SizeT) % AlignT = 0
  <1>1. AlignT \in Nat \ {0} /\ SizeT \in Nat /\ SizeT % AlignT = 0
    <2>1. SizeT \in Nat \ {0} /\ AlignT \in Nat \ {0} /\ SizeT % AlignT = 0
      BY Zenon DEF PoolParameters
    <2> QED
      BY <2>1, SMT
  <1> DEFINE a == x \div AlignT
             b == SizeT \div AlignT
  <1>2. /\ a \in Nat /\ x % AlignT \in Nat /\ x = AlignT * a + (x % AlignT)
        /\ b \in Nat /\ SizeT % AlignT \in Nat /\ SizeT = AlignT * b + (SizeT % AlignT)
    BY Zenon, <1>1, DivMod
  <1>3. x = AlignT * a + 0 /\ SizeT = AlignT * b + 0
    BY Zenon, <1>1, <1>2
  <1> HIDE DEF a, b
  <1>4. x + SizeT = (a + b) * AlignT
    BY <1>1, <1>2, <1>3, Z3
  <1> DEFINE d == a + b
  <1>5. d \in Nat /\ x + SizeT = d * AlignT
    BY <1>2, <1>4, SMT
  <1> HIDE DEF d
  <1>6. (d * AlignT) % AlignT = 0
    <2>1. d \in Nat /\ AlignT \in Nat \ {0}
      BY Zenon, <1>1, <1>5
    <2> QED
      BY <2>1, Z3
  <1> QED
    BY Zenon, <1>5, <1>6

(* The bytes of a chunk. *)
ChunkBytes == page_num * PAGE_SIZE

(* A new chunk has room for an object, wherever its first aligned address is. *)
LEMMA ChunkRoom ==
  ASSUME PoolParameters, NEW p \in Nat
  PROVE  /\ p * PAGE_SIZE \in Nat /\ ChunkBytes \in Nat
         /\ aligned_data_start(p * PAGE_SIZE) \in Nat
         /\ aligned_data_start(p * PAGE_SIZE) % AlignT = 0
         /\ p * PAGE_SIZE + HeaderSize <= aligned_data_start(p * PAGE_SIZE)
         /\ aligned_data_start(p * PAGE_SIZE) + SizeT <= p * PAGE_SIZE + ChunkBytes
  <1> DEFINE ptr == p * PAGE_SIZE
             x == ptr + HeaderSize + AlignT - 1
             d == x \div AlignT
             m == CHUNK_SIZE \div SizeT
             y == needed_bytes + PAGE_SIZE - 1
  <1>1. /\ SizeT \in Nat \ {0} /\ AlignT \in Nat \ {0} /\ HeaderSize \in Nat
        /\ PAGE_SIZE \in Nat \ {0} /\ CHUNK_SIZE \in Nat /\ MinObjs \in Nat \ {0}
    BY Zenon DEF PoolParameters
  <1>2. ptr \in Nat
    BY <1>1, SMT
  <1>3. m \in Nat
    BY Zenon, <1>1, DivMod
  <1>4. num_objs \in Nat \ {0}
    <2> HIDE DEF m
    <2>1. num_objs = Larger(m, MinObjs)
      BY Zenon DEF num_objs, m
    <2> QED
      BY <1>1, <1>3, <2>1, SMT DEF Larger
  <1>5. num_objs * SizeT \in Nat /\ num_objs * SizeT >= SizeT
    <2> DEFINE n == num_objs
    <2>1. n \in Nat \ {0}
      BY Zenon, <1>4
    <2> HIDE DEF n
    <2>2. n * SizeT \in Nat /\ n * SizeT >= SizeT
      BY <1>1, <2>1, Z3
    <2> QED
      BY Zenon, <2>2 DEF n
  <1>6. needed_bytes \in Nat /\ needed_bytes >= HeaderSize + SizeT + AlignT - 1
    <2> DEFINE w == num_objs * SizeT
    <2>1. w \in Nat /\ w >= SizeT /\ needed_bytes = HeaderSize + w + AlignT - 1
      BY Zenon, <1>5 DEF needed_bytes
    <2> HIDE DEF w
    <2> QED
      BY <1>1, <2>1, SMT
  <1>7. ChunkBytes \in Nat /\ ChunkBytes >= needed_bytes
    <2> DEFINE q == y \div PAGE_SIZE
    <2>1. y \in Nat /\ y = needed_bytes + PAGE_SIZE - 1
      BY <1>1, <1>6, SMT
    <2>2. ChunkBytes = q * PAGE_SIZE
      BY Zenon DEF ChunkBytes, page_num
    <2> HIDE DEF y
    <2>3. q \in Nat /\ y % PAGE_SIZE \in Nat /\ y % PAGE_SIZE < PAGE_SIZE /\ y = PAGE_SIZE * q + (y % PAGE_SIZE)
      BY Zenon, <1>1, <2>1, DivMod
    <2> DEFINE e == y % PAGE_SIZE
    <2>4. e \in Nat /\ e < PAGE_SIZE /\ y = PAGE_SIZE * q + e
      BY Zenon, <2>3
    <2> HIDE DEF q, e
    <2>5. q * PAGE_SIZE \in Nat /\ q * PAGE_SIZE = PAGE_SIZE * q
      BY <1>1, <2>3, SMT
    <2> DEFINE v == PAGE_SIZE * q
    <2>6. v \in Nat /\ y = v + e /\ ChunkBytes = v
      BY Zenon, <2>2, <2>4, <2>5
    <2> HIDE DEF v
    <2> QED
      BY <1>1, <1>6, <2>1, <2>4, <2>6, SMT
  <1>8. /\ d * AlignT \in Nat /\ (d * AlignT) % AlignT = 0
        /\ ptr + HeaderSize <= d * AlignT /\ d * AlignT <= ptr + HeaderSize + AlignT - 1
    <2> HIDE DEF ptr
    <2>1. x \in Nat /\ x = ptr + HeaderSize + AlignT - 1
      BY <1>1, <1>2, SMT
    <2> HIDE DEF x
    <2> DEFINE e == x % AlignT
    <2>2. d \in Nat /\ e \in Nat /\ e < AlignT /\ x = AlignT * d + e
      BY Zenon, <1>1, <2>1, DivMod
    <2> HIDE DEF d, e
    <2>3. d * AlignT \in Nat /\ d * AlignT = AlignT * d
      BY <1>1, <2>2, SMT
    <2>4. (d * AlignT) % AlignT = 0
      BY <1>1, <2>2, Z3
    <2> DEFINE v == AlignT * d
    <2>5. v \in Nat /\ x = v + e /\ d * AlignT = v
      BY Zenon, <2>2, <2>3
    <2> HIDE DEF v
    <2>6. ptr + HeaderSize <= v /\ v <= ptr + HeaderSize + AlignT - 1
      BY <1>1, <1>2, <2>1, <2>2, <2>5, SMT
    <2> QED
      BY Zenon, <2>3, <2>4, <2>5, <2>6
  <1>9. aligned_data_start(p * PAGE_SIZE) = d * AlignT
    BY Zenon DEF aligned_data_start
  <1> DEFINE s == d * AlignT
  <1>10. /\ s \in Nat /\ s % AlignT = 0 /\ ptr + HeaderSize <= s
         /\ s <= ptr + HeaderSize + AlignT - 1
    BY Zenon, <1>8
  <1>11. aligned_data_start(p * PAGE_SIZE) = s
    BY Zenon, <1>9
  <1> HIDE DEF s
  <1>12. s + SizeT <= ptr + ChunkBytes
    <2> HIDE DEF ptr
    <2> QED
      BY <1>1, <1>2, <1>6, <1>7, <1>10, SMT
  <1> QED
    BY Zenon, <1>2, <1>7, <1>10, <1>11, <1>12

-----------------------------------------------------------------------------
(* The inductive invariant of ObjectPool. *)

Recycled(s) == {s[j] : j \in 1 .. Len(s)}

(* No address is twice on the free list. *)
Once(s) == \A i, j \in 1 .. Len(s) : s[i] = s[j] => i = j

(* What is left of the current chunk lies behind its header. *)
Rest ==
  remain > 0 => \E c \in chunks : c + HeaderSize <= data /\ data + remain <= c + ChunkBytes

PoolInv ==
  /\ chunks \subseteq Nat /\ objects \subseteq Nat
  /\ data \in Nat /\ remain \in Nat /\ data % AlignT = 0
  /\ free_list \in Seq(Nat) /\ Once(free_list)
  /\ Rest
  /\ ObjectsApart

(* The head leaves the free list. *)
LEMMA TailList ==
  ASSUME NEW s \in Seq(Nat), s # <<>>, Once(s)
  PROVE  /\ Head(s) \in Recycled(s) /\ Tail(s) \in Seq(Nat) /\ Once(Tail(s))
         /\ Recycled(Tail(s)) = Recycled(s) \ {Head(s)}
  <1> DEFINE t == Tail(s)
             h == Head(s)
             n == Len(s)
  <1>1. n \in Nat \ {0} /\ h = s[1]
    BY SMT
  <1>2. t \in Seq(Nat) /\ Len(t) = n - 1 /\ \A i \in 1 .. (n - 1) : t[i] = s[i + 1]
    BY SMT
  <1>o. \A i, j \in 1 .. n : s[i] = s[j] => i = j
    BY Zenon DEF Once
  <1>s. Recycled(s) = {s[j] : j \in 1 .. n}
    BY Zenon DEF Recycled
  <1>t. Recycled(t) = {t[j] : j \in 1 .. (n - 1)}
    BY Zenon, <1>2 DEF Recycled
  <1> HIDE DEF t, h, n
  <1>3. h \in Recycled(s)
    <2>1. 1 \in 1 .. n
      BY <1>1, SMT
    <2> QED
      BY Zenon, <1>1, <1>s, <2>1
  <1>4. Once(t)
    <2> SUFFICES ASSUME NEW i \in 1 .. (n - 1), NEW j \in 1 .. (n - 1), t[i] = t[j]
                 PROVE  i = j
      BY Zenon, <1>2 DEF Once
    <2>1. s[i + 1] = s[j + 1] /\ i + 1 \in 1 .. n /\ j + 1 \in 1 .. n
      <3>1. i + 1 \in 1 .. n /\ j + 1 \in 1 .. n
        BY <1>1, SMT
      <3> QED
        BY Zenon, <1>2, <3>1
    <2>2. i + 1 = j + 1
      BY Zenon, <1>o, <2>1
    <2> QED
      BY <1>1, <2>2, SMT
  <1>5. Recycled(t) = Recycled(s) \ {h}
    <2>1. ASSUME NEW i \in 1 .. (n - 1)
          PROVE  t[i] \in Recycled(s) /\ t[i] # h
      <3>1. i + 1 \in 1 .. n /\ i + 1 # 1 /\ 1 \in 1 .. n
        BY <1>1, SMT
      <3>2. t[i] = s[i + 1]
        BY Zenon, <1>2
      <3> QED
        BY Zenon, <1>1, <1>o, <1>s, <3>1, <3>2
    <2>2. ASSUME NEW i \in 1 .. n, s[i] # h
          PROVE  s[i] \in Recycled(t)
      <3>1. i # 1
        BY Zenon, <1>1, <2>2
      <3>2. i - 1 \in 1 .. (n - 1) /\ (i - 1) + 1 = i
        BY <1>1, <3>1, SMT
      <3>3. t[i - 1] = s[i]
        BY Zenon, <1>2, <3>2
      <3> QED
        BY Zenon, <1>t, <3>2, <3>3
    <2>3. \A v : v \in Recycled(t) <=> v \in Recycled(s) /\ v # h
      BY Zenon, <1>s, <1>t, <2>1, <2>2
    <2> QED
      BY Zenon, <2>3
  <1> QED
    BY Zenon, <1>2, <1>3, <1>4, <1>5 DEF t, h

(* A deleted object becomes the head of the free list. *)
LEMMA PushList ==
  ASSUME NEW s \in Seq(Nat), NEW o \in Nat, Once(s), o \notin Recycled(s)
  PROVE  /\ <<o>> \o s \in Seq(Nat) /\ Once(<<o>> \o s)
         /\ Recycled(<<o>> \o s) = Recycled(s) \cup {o}
  <1> DEFINE t == <<o>> \o s
             n == Len(s)
  <1>1. /\ n \in Nat /\ t \in Seq(Nat) /\ Len(t) = n + 1
        /\ t[1] = o /\ \A i \in 1 .. n : t[i + 1] = s[i]
    BY SMT
  <1>o. \A i, j \in 1 .. n : s[i] = s[j] => i = j
    BY Zenon DEF Once
  <1>s. Recycled(s) = {s[j] : j \in 1 .. n}
    BY Zenon DEF Recycled
  <1>t. Recycled(t) = {t[j] : j \in 1 .. (n + 1)}
    BY Zenon, <1>1 DEF Recycled
  <1> HIDE DEF t, n
  <1>2. \A i \in 1 .. (n + 1) : i = 1 \/ (i - 1 \in 1 .. n /\ (i - 1) + 1 = i)
    BY <1>1, SMT
  <1>3. 1 \in 1 .. (n + 1) /\ \A i \in 1 .. n : i + 1 \in 1 .. (n + 1)
    BY <1>1, SMT
  <1>4. \A i \in 1 .. (n + 1) : i # 1 => t[i] = s[i - 1] /\ t[i] # o
    <2> SUFFICES ASSUME NEW i \in 1 .. (n + 1), i # 1
                 PROVE  t[i] = s[i - 1] /\ t[i] # o
      BY Zenon
    <2>1. i - 1 \in 1 .. n /\ (i - 1) + 1 = i
      BY Zenon, <1>2
    <2>2. t[(i - 1) + 1] = s[i - 1] /\ s[i - 1] \in Recycled(s)
      BY Zenon, <1>1, <1>s, <2>1
    <2> QED
      BY Zenon, <2>1, <2>2
  <1>5. Once(t)
    <2> SUFFICES ASSUME NEW i \in 1 .. (n + 1), NEW j \in 1 .. (n + 1), t[i] = t[j]
                 PROVE  i = j
      BY Zenon, <1>1 DEF Once
    <2>1. CASE i = 1 \/ j = 1
      BY Zenon, <1>1, <1>4, <2>1
    <2>2. CASE i # 1 /\ j # 1
      <3>1. i - 1 = j - 1
        BY Zenon, <1>2, <1>4, <1>o, <2>2
      <3> QED
        BY <1>1, <3>1, SMT
    <2> QED
      BY Zenon, <2>1, <2>2
  <1>6. Recycled(t) = Recycled(s) \cup {o}
    <2>1. \A v : v \in Recycled(t) => v \in Recycled(s) \/ v = o
      <3>1. ASSUME NEW i \in 1 .. (n + 1)
            PROVE  t[i] \in Recycled(s) \/ t[i] = o
        BY ZenonT(40), <1>1, <1>2, <1>4, <1>s
      <3> QED
        BY Zenon, <1>t, <3>1
    <2>2. \A v : v \in Recycled(s) \/ v = o => v \in Recycled(t)
      BY Zenon, <1>1, <1>3, <1>s, <1>t
    <2> QED
      BY Zenon, <2>1, <2>2
  <1> QED
    BY Zenon, <1>1, <1>5, <1>6 DEF t

(* New and Delete only move an object between its owners. *)
LEMMA MovedInv ==
  ASSUME PoolInv, UNCHANGED <<chunks, data, remain>>,
         objects' \subseteq Nat, free_list' \in Seq(Nat), Once(free_list'),
         objects' \cup Recycled(free_list') = objects \cup Recycled(free_list),
         objects' \cap Recycled(free_list') = {}
  PROVE  PoolInv'
  <1>1. UNCHANGED chunks /\ UNCHANGED data /\ UNCHANGED remain
    BY Zenon
  <1>2. Listed = Recycled(free_list) /\ Listed' = Recycled(free_list')
    BY Zenon DEF Listed, Recycled
  <1>3. Rest'
    BY Zenon, <1>1 DEF PoolInv, Rest
  <1>4. Once(free_list)'
    BY Zenon DEF Once
  <1>5. ObjectsApart'
    <2>1. objects' \cap Listed' = {} /\ objects' \cup Listed' = objects \cup Listed
      BY Zenon, <1>2
    <2> QED
      BY Zenon, <1>1, <2>1 DEF PoolInv, ObjectsApart
  <1> QED
    BY Zenon, <1>1, <1>3, <1>4, <1>5 DEF PoolInv

(* The head of the free list goes to the caller. *)
LEMMA NewRecycledInv ==
  ASSUME PoolInv, NewRecycled
  PROVE  PoolInv'
  <1> DEFINE h == Head(free_list)
  <1>1. /\ free_list # <<>> /\ objects' = objects \cup {h} /\ free_list' = Tail(free_list)
        /\ UNCHANGED <<chunks, data, remain>>
    BY Zenon DEF NewRecycled
  <1>2. objects \subseteq Nat /\ free_list \in Seq(Nat) /\ Once(free_list) /\ objects \cap Recycled(free_list) = {}
    BY Zenon DEF PoolInv, ObjectsApart, Listed, Recycled
  <1>3. /\ h \in Recycled(free_list) /\ free_list' \in Seq(Nat) /\ Once(free_list')
        /\ Recycled(free_list') = Recycled(free_list) \ {h}
    BY Zenon, <1>1, <1>2, TailList
  <1>4. h \in Nat
    BY <1>1, <1>2, SMT
  <1> HIDE DEF h
  <1>5. /\ objects' \cup Recycled(free_list') = objects \cup Recycled(free_list)
        /\ objects' \cap Recycled(free_list') = {} /\ objects' \subseteq Nat
    BY Zenon, <1>1, <1>2, <1>3, <1>4
  <1> QED
    BY Zenon, <1>1, <1>3, <1>5, MovedInv

(* The object of a caller goes to the free list. *)
LEMMA DeleteInv ==
  ASSUME PoolInv, NEW o \in objects, Delete(o)
  PROVE  PoolInv'
  <1>1. /\ objects' = objects \ {o} /\ free_list' = <<o>> \o free_list
        /\ UNCHANGED <<chunks, data, remain>>
    BY Zenon DEF Delete
  <1>2. objects \subseteq Nat /\ free_list \in Seq(Nat) /\ Once(free_list) /\ objects \cap Recycled(free_list) = {}
    BY Zenon DEF PoolInv, ObjectsApart, Listed, Recycled
  <1>3. o \in Nat /\ o \notin Recycled(free_list)
    BY Zenon, <1>2
  <1>4. /\ free_list' \in Seq(Nat) /\ Once(free_list')
        /\ Recycled(free_list') = Recycled(free_list) \cup {o}
    BY Zenon, <1>1, <1>2, <1>3, PushList
  <1>5. /\ objects' \cup Recycled(free_list') = objects \cup Recycled(free_list)
        /\ objects' \cap Recycled(free_list') = {} /\ objects' \subseteq Nat
    BY Zenon, <1>1, <1>2, <1>3, <1>4
  <1> QED
    BY Zenon, <1>1, <1>4, <1>5, MovedInv

(* An object cut off at start, next to what is left behind it, within one  *)
(* chunk, and apart from the objects there were.                           *)
LEMMA CutInv ==
  ASSUME PoolInv, PoolParameters, NEW start \in Nat, NEW bytes \in Nat, NEW c \in chunks',
         start % AlignT = 0, bytes >= SizeT,
         c + HeaderSize <= start, start + bytes <= c + ChunkBytes, ChunkBytes \in Nat,
         \A o \in objects \cup Listed : Object(o) \cap WordsFrom(start, bytes) = {},
         chunks \subseteq chunks', chunks' \subseteq Nat, UNCHANGED free_list, Cut(start, bytes)
  PROVE  PoolInv'
  <1>1. objects' = objects \cup {start} /\ data' = start + SizeT /\ remain' = bytes - SizeT
    BY Zenon DEF Cut
  <1>2. SizeT \in Nat \ {0} /\ HeaderSize \in Nat /\ c \in Nat
    BY Zenon DEF PoolParameters
  <1>3. /\ data' \in Nat /\ remain' \in Nat /\ data' + remain' = start + bytes
        /\ start + SizeT <= data' /\ data' >= start /\ SizeT \in Nat /\ SizeT # 0
        /\ start + SizeT <= c + ChunkBytes /\ c + HeaderSize <= data'
    BY <1>1, <1>2, SMT
  <1>4. data' % AlignT = 0
    BY Zenon, <1>1, Aligned
  <1>5. Listed' = Listed
    BY Zenon DEF Listed
  <1>6. Rest'
    BY Zenon, <1>3 DEF Rest
  <1>7. /\ Object(start) \subseteq WordsFrom(start, bytes)
        /\ WordsFrom(data', remain') \subseteq WordsFrom(start, bytes)
        /\ Object(start) \cap WordsFrom(data', remain') = {}
        /\ Object(start) \subseteq Chunk(c) \ WordsFrom(c, HeaderSize)
        /\ WordsFrom(data', remain') \subseteq Chunk(c)
        /\ start \in Object(start)
    BY <1>1, <1>2, <1>3, SMT DEF Object, WordsFrom, Chunk, ChunkBytes
  <1>8. ObjectsApart'
    <2>1. start \notin objects \cup Listed
      <3>1. ASSUME start \in objects \cup Listed PROVE FALSE
        BY Zenon, <1>7, <3>1
      <3> QED
        BY Zenon, <3>1
    <2>2. /\ objects \cap Listed = {}
          /\ \A o \in objects \cup Listed :
               /\ o % AlignT = 0
               /\ \E e \in chunks : Object(o) \subseteq Chunk(e) \ WordsFrom(e, HeaderSize)
          /\ \A o1, o2 \in objects \cup Listed : o1 # o2 => Object(o1) \cap Object(o2) = {}
      BY Zenon DEF PoolInv, ObjectsApart
    <2>3. \A o \in objects' \cup Listed' : o = start \/ o \in objects \cup Listed
      BY Zenon, <1>1, <1>5
    <2>4. objects' \cap Listed' = {}
      BY Zenon, <1>1, <1>5, <2>1, <2>2
    <2>5. ASSUME NEW o \in objects' \cup Listed'
          PROVE  /\ o % AlignT = 0
                 /\ Object(o) \cap WordsFrom(data', remain') = {}
                 /\ \E e \in chunks' : Object(o) \subseteq Chunk(e) \ WordsFrom(e, HeaderSize)
      <3>1. CASE o = start
        BY Zenon, <1>7, <3>1
      <3>2. CASE o \in objects \cup Listed
        <4>1. Object(o) \cap WordsFrom(start, bytes) = {}
          BY Zenon, <3>2
        <4> QED
          BY Zenon, <1>7, <2>2, <3>2, <4>1
      <3> QED
        BY Zenon, <2>3, <3>1, <3>2
    <2>6. \A o \in objects \cup Listed : Object(o) \cap Object(start) = {} /\ Object(start) \cap Object(o) = {}
      BY Zenon, <1>7
    <2>7. ASSUME NEW o1 \in objects' \cup Listed', NEW o2 \in objects' \cup Listed', o1 # o2
          PROVE  Object(o1) \cap Object(o2) = {}
      BY Zenon, <2>2, <2>3, <2>6, <2>7
    <2> QED
      BY Zenon, <1>7, <2>4, <2>5, <2>7 DEF ObjectsApart
  <1>9. objects' \subseteq Nat
    BY Zenon, <1>1 DEF PoolInv
  <1>10. Once(free_list)' /\ (free_list \in Seq(Nat))'
    BY Zenon DEF PoolInv, Once
  <1> QED
    BY Zenon, <1>3, <1>4, <1>6, <1>8, <1>9, <1>10 DEF PoolInv

(* What is left of the current chunk has room for the object. *)
LEMMA NewCutInv ==
  ASSUME PoolInv, PoolParameters, NewCut
  PROVE  PoolInv'
  <1>1. remain >= SizeT /\ UNCHANGED chunks /\ UNCHANGED free_list /\ Cut(data, remain)
    BY Zenon DEF NewCut
  <1>2. data \in Nat /\ remain \in Nat /\ data % AlignT = 0 /\ SizeT \in Nat \ {0}
    BY Zenon DEF PoolInv, PoolParameters
  <1>3. remain > 0
    BY <1>1, <1>2, SMT
  <1>4. PICK c \in chunks : c + HeaderSize <= data /\ data + remain <= c + ChunkBytes
    BY Zenon, <1>3 DEF PoolInv, Rest
  <1>5. 0 \in Nat
    BY SMT
  <1>6. ChunkBytes \in Nat
    BY Zenon, <1>5, ChunkRoom
  <1>7. \A o \in objects \cup Listed : Object(o) \cap WordsFrom(data, remain) = {}
    BY Zenon DEF PoolInv, ObjectsApart
  <1>8. c \in chunks' /\ chunks \subseteq chunks' /\ chunks' \subseteq Nat
    BY Zenon, <1>1 DEF PoolInv
  <1> QED
    BY Zenon, <1>1, <1>2, <1>4, <1>6, <1>7, <1>8, CutInv

(* A new chunk overlaps none of the old ones, and so none of the objects. *)
LEMMA NewChunkInv ==
  ASSUME PoolInv, PoolParameters, NEW p \in 0 .. PoolLastPage, NewChunk(p)
  PROVE  PoolInv'
  <1> DEFINE ptr == p * PAGE_SIZE
             start == aligned_data_start(ptr)
             bytes == ChunkBytes - (start - ptr)
  <1>1. /\ \A c \in chunks : Chunk(c) \cap Chunk(ptr) = {}
        /\ chunks' = chunks \cup {ptr} /\ UNCHANGED free_list /\ Cut(start, bytes)
    BY Zenon DEF NewChunk, ChunkBytes
  <1>2. p \in Nat
    <2>1. PoolLastPage \in Nat
      BY Zenon DEF PoolParameters
    <2> QED
      BY <2>1, SMT
  <1>3. /\ ptr \in Nat /\ ChunkBytes \in Nat /\ start \in Nat /\ start % AlignT = 0
        /\ ptr + HeaderSize <= start /\ start + SizeT <= ptr + ChunkBytes
    BY Zenon, <1>2, ChunkRoom
  <1>4. SizeT \in Nat \ {0} /\ HeaderSize \in Nat
    BY Zenon DEF PoolParameters
  <1> HIDE DEF ptr, start
  <1>5. /\ bytes \in Nat /\ bytes >= SizeT /\ start + bytes <= ptr + ChunkBytes /\ ptr <= start
    BY <1>3, <1>4, SMT
  <1> HIDE DEF bytes
  <1>6. WordsFrom(start, bytes) \subseteq Chunk(ptr)
    <2>1. WordsFrom(start, bytes) \subseteq WordsFrom(ptr, ChunkBytes)
      BY ZenonT(40), <1>3, <1>5, Ranges
    <2> QED
      BY Zenon, <2>1 DEF Chunk, ChunkBytes
  <1>7. \A o \in objects \cup Listed : Object(o) \cap WordsFrom(start, bytes) = {}
    <2> SUFFICES ASSUME NEW o \in objects \cup Listed
                 PROVE  Object(o) \cap WordsFrom(start, bytes) = {}
      BY Zenon
    <2>1. PICK c \in chunks : Object(o) \subseteq Chunk(c)
      BY Zenon DEF PoolInv, ObjectsApart
    <2>2. Chunk(c) \cap Chunk(ptr) = {}
      BY Zenon, <1>1
    <2> QED
      BY Zenon, <1>6, <2>1, <2>2
  <1>8. ptr \in chunks' /\ chunks \subseteq chunks' /\ chunks' \subseteq Nat
    BY Zenon, <1>1, <1>3 DEF PoolInv
  <1> QED
    BY Zenon, <1>1, <1>3, <1>5, <1>7, <1>8, CutInv

(* An empty pool has nothing that could overlap. *)
LEMMA EmptyPool ==
  ASSUME PoolParameters,
         chunks = {}, data = 0, remain = 0, free_list = <<>>, objects = {}
  PROVE  PoolInv
  <1>1. AlignT \in Nat \ {0}
    BY Zenon DEF PoolParameters
  <1>2. 0 \in Nat /\ 0 % AlignT = 0 /\ ~ (0 > 0)
    BY <1>1, SMT
  <1>3. <<>> \in Seq(Nat) /\ 1 .. Len(<<>>) = {}
    BY SMT
  <1>4. Listed = {}
    BY Zenon, <1>3 DEF Listed
  <1>5. Once(free_list)
    BY Zenon, <1>3 DEF Once
  <1>6. Rest
    BY Zenon, <1>2 DEF Rest
  <1>7. ObjectsApart
    BY Zenon, <1>2, <1>4 DEF ObjectsApart
  <1> QED
    BY Zenon, <1>2, <1>3, <1>5, <1>6, <1>7 DEF PoolInv

(* ReleaseMemory leaves an empty pool. *)
LEMMA ReleaseMemoryInv ==
  ASSUME PoolParameters, ReleaseMemory
  PROVE  PoolInv'
  <1>1. chunks' = {} /\ data' = 0 /\ remain' = 0 /\ free_list' = <<>> /\ objects' = {}
    BY Zenon DEF ReleaseMemory
  <1>2. AlignT \in Nat \ {0}
    BY Zenon DEF PoolParameters
  <1>3. 0 \in Nat /\ 0 % AlignT = 0 /\ ~ (0 > 0)
    BY <1>2, SMT
  <1>4. <<>> \in Seq(Nat) /\ 1 .. Len(<<>>) = {}
    BY SMT
  <1>5. Listed' = {}
    BY Zenon, <1>1, <1>4 DEF Listed
  <1>6. Once(free_list)'
    BY Zenon, <1>1, <1>4 DEF Once
  <1>7. Rest'
    BY Zenon, <1>1, <1>3 DEF Rest
  <1>8. ObjectsApart'
    BY Zenon, <1>1, <1>3, <1>5 DEF ObjectsApart
  <1> QED
    BY Zenon, <1>1, <1>3, <1>4, <1>6, <1>7, <1>8 DEF PoolInv

(***************************************************************************)
(* ObjectPool never hands out overlapping storage: live objects, recycled  *)
(* objects and the rest of the current chunk stay apart, aligned and       *)
(* behind the chunk's header, for every size and alignment of T.           *)
(***************************************************************************)
THEOREM ObjectsStayApart ==
  ASSUME PoolParameters
  PROVE  PoolSpec => []ObjectsApart
  <1>1. PoolInit => PoolInv
    BY Zenon, EmptyPool DEF PoolInit
  <1>2. PoolInv /\ [PoolNext]_poolVars => PoolInv'
    <2> SUFFICES ASSUME PoolInv, [PoolNext]_poolVars PROVE PoolInv'
      BY Zenon
    <2>1. CASE NewRecycled \/ NewCut \/ ReleaseMemory
      BY Zenon, <2>1, NewRecycledInv, NewCutInv, ReleaseMemoryInv
    <2>2. ASSUME NEW p \in 0 .. PoolLastPage, NewChunk(p) PROVE PoolInv'
      BY Zenon, <2>2, NewChunkInv
    <2>3. ASSUME NEW o \in objects, Delete(o) PROVE PoolInv'
      BY Zenon, <2>3, DeleteInv
    <2>4. CASE UNCHANGED poolVars
      <3>1. /\ UNCHANGED chunks /\ UNCHANGED data /\ UNCHANGED remain
            /\ UNCHANGED free_list /\ UNCHANGED objects
        BY Zenon, <2>4 DEF poolVars
      <3>2. Rest' /\ Once(free_list)' /\ Listed' = Listed
        BY ZenonT(40), <3>1 DEF PoolInv, Rest, Once, Listed
      <3>3. ObjectsApart'
        BY Zenon, <3>1, <3>2 DEF PoolInv, ObjectsApart
      <3> QED
        BY Zenon, <3>1, <3>2, <3>3 DEF PoolInv
    <2> QED
      BY Zenon, <2>1, <2>2, <2>3, <2>4 DEF PoolNext
  <1>3. PoolInv => ObjectsApart
    BY Zenon DEF PoolInv
  <1> QED
    BY <1>1, <1>2, <1>3, PTL DEF PoolSpec

=============================================================================
