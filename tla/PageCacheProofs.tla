-------------------------- MODULE PageCacheProofs --------------------------
(***************************************************************************)
(* Proofs about PageCache for every number of pages, of span slots and of  *)
(* cached sizes: however AllocSpan, ReleaseSpan, Reset and the scavenger   *)
(* interleave, every mapped page has one span, PageMap finds it, and the   *)
(* ranges the callers have never overlap.                                  *)
(*                                                                         *)
(* The theorems assume that radix_node_pool_ always has a node; SetSpan    *)
(* that stops half way leaks pages.                                        *)
(***************************************************************************)
EXTENDS PageCache, TLAPS

(* The slots of span_pool_ that hold a span. *)
Taken == SpanIds \ pool

(***************************************************************************)
(* The spans partition the mapped pages, and PageMap knows the partition,  *)
(* but for the span being coalesced, whose new range is published last.    *)
(***************************************************************************)
NonEmpty == \A s \in Taken : num[s] >= 1

Apart ==
  \A s, r \in Taken :
    s # r => start[s] + num[s] <= start[r] \/ start[r] + num[r] <= start[s]

Inside == \A s \in Taken : \A p \in PagesOf(s) : p \in mapped

Covered == \A p \in mapped : \E s \in Taken : p \in PagesOf(s)

Found == \A s \in Taken : s # cur => \A p \in PagesOf(s) : page_map[p] = s

Blank == \A p \in Pages \ mapped : page_map[p] = None

Layout == NonEmpty /\ Apart /\ Inside /\ Covered /\ Found /\ Blank

(***************************************************************************)
(* What the holder of the mutex and the scavenger know at each step.       *)
(***************************************************************************)
Control ==
  /\ cur # None <=> op \in {"left", "right"}
  /\ cur # None => num[cur] <= MAX_PAGE_NUM
  /\ op = "alloc" => req >= 1
  /\ scav # "advise" => held = {}
  /\ scav \in {"scan", "advise"} => i \in Buckets
  /\ \A s \in held : num[s] = i

IInv == TypeOK /\ Layout /\ RolesApart /\ Control

(***************************************************************************)
(* The parts of RolesApart.                                                *)
(***************************************************************************)
InOwnList ==
  \A s \in SpanIds : \A n \in Buckets : s \in span_lists[n] => num[s] = n /\ ~used[s]

UsedElsewhere ==
  \A s \in SpanIds : s \in live \cup held \/ s = cur => used[s] /\ ~Listed(s)

Accounted == \A s \in SpanIds : Active(s) <=> s \notin pool

Distinct == live \cap held = {} /\ cur \notin live \cup held

LEMMA RolesSplit ==
  /\ RolesApart <=> InOwnList /\ UsedElsewhere /\ Accounted /\ Distinct
  /\ RolesApart' <=> InOwnList' /\ UsedElsewhere' /\ Accounted' /\ Distinct'
BY Zenon DEF RolesApart, InOwnList, UsedElsewhere, Accounted, Distinct

-----------------------------------------------------------------------------
(***************************************************************************)
(* Runs of pages.                                                          *)
(***************************************************************************)

(* Two runs without a common page lie one before the other. *)
LEMMA RunsApart ==
  ASSUME NEW a \in Nat, NEW m \in Nat, NEW b \in Nat, NEW n \in Nat,
         m >= 1, n >= 1, \A p \in Run(a, m) : p \notin Run(b, n)
  PROVE  a + m <= b \/ b + n <= a
<1>1. CASE a <= b
  <2>1. b \notin Run(a, m)
    BY DEF Run
  <2> QED BY <1>1, <2>1 DEF Run
<1>2. CASE b <= a
  <2>1. a \in Run(a, m)
    BY DEF Run
  <2> QED BY <1>2, <2>1 DEF Run
<1> QED BY <1>1, <1>2

(* A run of pages between 1 and m has a length between 1 and m. *)
LEMMA RunBounds ==
  ASSUME NEW a \in Nat, NEW n \in Nat, NEW m \in Nat, n >= 1,
         \A p \in Run(a, n) : p \in 1 .. m
  PROVE  a \in 1 .. m /\ n \in 1 .. m
<1>1. a \in Run(a, n)
  BY DEF Run
<1>2. a + n - 1 \in Run(a, n)
  BY DEF Run
<1>3. a \in 1 .. m /\ a + n - 1 \in 1 .. m
  BY <1>1, <1>2, Zenon
<1> QED BY <1>3

(* Two spans have no page in common. *)
LEMMA NoCommonPage ==
  ASSUME TypeOK, Apart, NEW s \in Taken, NEW r \in Taken, s # r, NEW p \in PagesOf(s)
  PROVE  p \notin PagesOf(r)
<1>1. start[s] \in Nat /\ num[s] \in Nat /\ start[r] \in Nat /\ num[r] \in Nat
  BY Zenon DEF TypeOK, Taken
<1>2. start[s] + num[s] <= start[r] \/ start[r] + num[r] <= start[s]
  BY Zenon DEF Apart
<1> QED BY <1>1, <1>2 DEF PagesOf, Run

-----------------------------------------------------------------------------
(***************************************************************************)
(* The layout after each kind of change of the spans.                      *)
(***************************************************************************)

(* Nothing is moved; at most a span begins to be coalesced. *)
LEMMA LayoutStays ==
  ASSUME TypeOK, Layout, cur = None \/ cur' = cur,
         UNCHANGED <<start, num, pool, mapped, page_map>>
  PROVE  Layout'
<1>1. \A s \in SpanIds : PagesOf(s)' = PagesOf(s)
  BY Zenon DEF PagesOf
<1>2. \A s \in Taken : s # cur' => s # cur
  BY Zenon, PageAssumption DEF Taken
<1>3. Found'
  BY Zenon, <1>1, <1>2 DEF Layout, Found, Taken
<1>4. NonEmpty' /\ Apart' /\ Blank'
  BY Zenon DEF Layout, NonEmpty, Apart, Blank, Taken
<1>5. Inside' /\ Covered'
  BY Zenon, <1>1 DEF Layout, Inside, Covered, Taken
<1> QED BY Zenon, <1>3, <1>4, <1>5 DEF Layout

(* A fresh slot takes pages that the system has just mapped. *)
LEMMA LayoutPlace ==
  ASSUME TypeOK, Layout, cur = None, cur' = None,
         NEW s \in pool, NEW a \in Nat, NEW n \in Nat, n >= 1, CanMap(a, n),
         pool' = pool \ {s},
         start' = [start EXCEPT ![s] = a],
         num' = [num EXCEPT ![s] = n],
         mapped' = mapped \cup Run(a, n),
         page_map' = SetSpan(page_map, a, n, s)
  PROVE  Layout'
<1>1. s \in SpanIds /\ s \notin Taken /\ Taken' = Taken \cup {s}
  BY Zenon DEF TypeOK, Taken
<1>2. PagesOf(s)' = Run(a, n) /\ start'[s] = a /\ num'[s] = n
  BY Zenon, <1>1 DEF TypeOK, PagesOf
<1>3. \A r \in Taken : /\ r # s /\ start'[r] = start[r] /\ num'[r] = num[r]
                       /\ PagesOf(r)' = PagesOf(r)
  BY Zenon, <1>1 DEF TypeOK, PagesOf, Taken
<1>4. \A r \in Taken : start[r] \in Nat /\ num[r] \in Nat /\ num[r] >= 1
  BY Zenon DEF TypeOK, Taken, Layout, NonEmpty
<1>5. \A p \in Run(a, n) : p \in Pages /\ p \notin mapped
  BY Zenon DEF CanMap
<1>6. NonEmpty'
  BY Zenon, <1>1, <1>2, <1>3, <1>4 DEF NonEmpty
<1>7. Apart'
  <2>1. ASSUME NEW r \in Taken
        PROVE  a + n <= start[r] \/ start[r] + num[r] <= a
    <3>1. \A p \in Run(a, n) : p \notin Run(start[r], num[r])
      BY Zenon, <1>5 DEF Layout, Inside, PagesOf
    <3> QED BY Zenon, <1>4, <3>1, RunsApart
  <2> QED BY <1>1, <1>2, <1>3, <2>1 DEF Layout, Apart
<1>8. Inside'
  BY Zenon, <1>1, <1>2, <1>3 DEF Layout, Inside
<1>9. Covered'
  BY Zenon, <1>1, <1>2, <1>3 DEF Layout, Covered
<1>10. Found'
  <2>1. ASSUME NEW p \in Run(a, n) PROVE page_map'[p] = s
    BY Zenon, <1>5 DEF SetSpan
  <2>2. ASSUME NEW r \in Taken, NEW p \in PagesOf(r) PROVE page_map'[p] = r
    <3>1. p \in mapped /\ p \in Pages
      BY Zenon DEF Layout, Inside, TypeOK
    <3>2. page_map[p] = r
      BY Zenon, PageAssumption DEF Layout, Found, Taken
    <3> QED BY Zenon, <1>5, <3>1, <3>2 DEF SetSpan
  <2> QED BY <1>1, <1>2, <1>3, <2>1, <2>2 DEF Found
<1>11. Blank'
  BY Zenon DEF Layout, Blank, SetSpan
<1> QED BY Zenon, <1>6, <1>7, <1>8, <1>9, <1>10, <1>11 DEF Layout

(* A span gives its first pages to a fresh slot. *)
LEMMA LayoutSplit ==
  ASSUME TypeOK, Layout, cur = None, cur' = None,
         NEW s \in pool, NEW big \in Taken, NEW q \in Nat, q >= 1, q < num[big],
         pool' = pool \ {s},
         start' = [start EXCEPT ![s] = start[big], ![big] = @ + q],
         num' = [num EXCEPT ![s] = q, ![big] = @ - q],
         mapped' = mapped,
         page_map' = SetSpan(SetSpan(page_map, start[big], q, s),
                             start[big] + q, num[big] - q, big)
  PROVE  Layout'
<1>1. /\ s \in SpanIds /\ s \notin Taken /\ Taken' = Taken \cup {s}
      /\ big \in SpanIds /\ big # s
  BY Zenon DEF TypeOK, Taken
<1>2. /\ start'[s] = start[big] /\ num'[s] = q
      /\ start'[big] = start[big] + q /\ num'[big] = num[big] - q
  BY Zenon, <1>1 DEF TypeOK
<1>3. \A r \in Taken : r # big => /\ r # s /\ start'[r] = start[r] /\ num'[r] = num[r]
                                  /\ PagesOf(r)' = PagesOf(r)
  BY Zenon, <1>1 DEF TypeOK, PagesOf, Taken
<1>4. \A r \in Taken : start[r] \in Nat /\ num[r] \in Nat /\ num[r] >= 1
  BY Zenon DEF TypeOK, Taken, Layout, NonEmpty
<1>5. \A p : p \in PagesOf(big) <=> p \in PagesOf(s)' \/ p \in PagesOf(big)'
  BY <1>2, <1>4 DEF PagesOf, Run
<1>6. NonEmpty'
  <2>1. num'[s] >= 1 /\ num'[big] >= 1
    BY <1>2, <1>4
  <2>2. \A r \in Taken : r # big => num'[r] >= 1
    BY <1>3, <1>4, Zenon
  <2> QED BY <1>1, <2>1, <2>2, Zenon DEF NonEmpty
<1>7. Apart'
  <2>1. \A r \in Taken : r # big => \/ start[big] + num[big] <= start[r]
                                    \/ start[r] + num[r] <= start[big]
    BY Zenon DEF Layout, Apart
  <2>2. ASSUME NEW r \in Taken, r # big
        PROVE  /\ \/ start'[s] + num'[s] <= start'[r]
                  \/ start'[r] + num'[r] <= start'[s]
               /\ \/ start'[big] + num'[big] <= start'[r]
                  \/ start'[r] + num'[r] <= start'[big]
    <3>1. start[r] \in Nat /\ num[r] \in Nat /\ start[big] \in Nat /\ num[big] \in Nat
      BY Zenon, <1>4
    <3>2. start'[r] = start[r] /\ num'[r] = num[r]
      BY Zenon, <1>3, <2>2
    <3>3. start[big] + num[big] <= start[r] \/ start[r] + num[r] <= start[big]
      BY Zenon, <2>1, <2>2
    <3> QED BY <1>2, <3>1, <3>2, <3>3
  <2>3. start'[s] + num'[s] <= start'[big]
    BY <1>2, <1>4
  <2>4. ASSUME NEW r \in Taken, NEW t \in Taken, r # t, r # big, t # big
        PROVE  start'[r] + num'[r] <= start'[t] \/ start'[t] + num'[t] <= start'[r]
    BY Zenon, <1>3, <2>4 DEF Layout, Apart
  <2> QED BY Zenon, <1>1, <2>2, <2>3, <2>4 DEF Apart
<1>8. Inside'
  BY Zenon, <1>1, <1>3, <1>5 DEF Layout, Inside
<1>9. Covered'
  BY Zenon, <1>1, <1>3, <1>5 DEF Layout, Covered
<1>10. Found'
  <2>1. \A p \in PagesOf(big) : p \in Pages
    BY Zenon DEF Layout, Inside, TypeOK
  <2>2. ASSUME NEW p \in PagesOf(s)' PROVE page_map'[p] = s
    <3>1. p \in Pages /\ p \in Run(start[big], q)
      BY Zenon, <1>2, <1>5, <2>1 DEF PagesOf
    <3>2. p \notin Run(start[big] + q, num[big] - q)
      BY <3>1, <1>4 DEF Run
    <3> QED BY Zenon, <3>1, <3>2 DEF SetSpan
  <2>3. ASSUME NEW p \in PagesOf(big)' PROVE page_map'[p] = big
    <3>1. p \in Pages /\ p \in Run(start[big] + q, num[big] - q)
      BY Zenon, <1>2, <1>5, <2>1 DEF PagesOf
    <3> QED BY Zenon, <3>1 DEF SetSpan
  <2>4. ASSUME NEW r \in Taken, r # big, NEW p \in PagesOf(r) PROVE page_map'[p] = r
    <3>1. p \in mapped /\ p \in Pages
      BY Zenon DEF Layout, Inside, TypeOK
    <3>2. page_map[p] = r
      BY Zenon, PageAssumption DEF Layout, Found, Taken
    <3>3. p \notin PagesOf(big)
      BY Zenon, <2>4, NoCommonPage DEF Layout
    <3>4. p \notin Run(start[big], q) /\ p \notin Run(start[big] + q, num[big] - q)
      BY <3>3, <1>4 DEF Run, PagesOf
    <3> QED BY Zenon, <3>1, <3>2, <3>4 DEF SetSpan
  <2> QED BY <1>1, <1>3, <2>2, <2>3, <2>4 DEF Found
<1>11. Blank'
  <2>1. ASSUME NEW p \in Pages \ mapped PROVE page_map'[p] = None
    <3>1. p \notin PagesOf(big)
      BY Zenon DEF Layout, Inside
    <3>2. p \notin Run(start[big], q) /\ p \notin Run(start[big] + q, num[big] - q)
      BY <3>1, <1>4 DEF Run, PagesOf
    <3> QED BY Zenon, <3>2 DEF SetSpan, Layout, Blank
  <2> QED BY Zenon, <2>1 DEF Blank
<1> QED BY Zenon, <1>6, <1>7, <1>8, <1>9, <1>10, <1>11 DEF Layout

(* The span being released takes over the pages of a neighbour. *)
LEMMA LayoutAbsorb ==
  ASSUME TypeOK, Layout, cur' = cur, cur \in Taken,
         NEW s \in Taken, s # cur, NEW a \in Nat,
         \/ start[s] + num[s] = start[cur] /\ a = start[s]
         \/ start[cur] + num[cur] = start[s] /\ a = start[cur],
         Delete(s, [start EXCEPT ![cur] = a], [num EXCEPT ![cur] = @ + num[s]]),
         UNCHANGED <<page_map, mapped>>
  PROVE  Layout'
<1>1. /\ s \in SpanIds /\ cur \in SpanIds /\ Taken' = Taken \ {s} /\ cur \in Taken'
  BY Zenon DEF TypeOK, Taken, Delete
<1>2. start'[cur] = a /\ num'[cur] = num[cur] + num[s]
  BY Zenon, <1>1 DEF TypeOK, Delete
<1>3. \A r \in Taken' : r # cur => /\ r \in Taken /\ r # s
                                   /\ start'[r] = start[r] /\ num'[r] = num[r]
                                   /\ PagesOf(r)' = PagesOf(r)
  BY Zenon, <1>1 DEF TypeOK, PagesOf, Taken, Delete
<1>4. \A r \in Taken : start[r] \in Nat /\ num[r] \in Nat /\ num[r] >= 1
  BY Zenon DEF TypeOK, Taken, Layout, NonEmpty
<1>5. \A p : p \in PagesOf(cur)' <=> p \in PagesOf(s) \/ p \in PagesOf(cur)
  BY <1>2, <1>4 DEF PagesOf, Run
<1>6. NonEmpty'
  BY <1>1, <1>2, <1>3, <1>4 DEF NonEmpty
<1>7. Apart'
  <2>1. ASSUME NEW r \in Taken', r # cur
        PROVE  \/ start'[cur] + num'[cur] <= start'[r]
               \/ start'[r] + num'[r] <= start'[cur]
    <3>1. /\ start[r] \in Nat /\ num[r] \in Nat /\ start[cur] \in Nat /\ num[cur] \in Nat
          /\ start[s] \in Nat /\ num[s] \in Nat /\ num[r] >= 1
      BY Zenon, <1>3, <1>4, <2>1
    <3>2. start'[r] = start[r] /\ num'[r] = num[r] /\ r \in Taken /\ r # s
      BY Zenon, <1>3, <2>1
    <3>3. start[cur] + num[cur] <= start[r] \/ start[r] + num[r] <= start[cur]
      BY Zenon, <2>1, <3>2 DEF Layout, Apart
    <3>4. start[s] + num[s] <= start[r] \/ start[r] + num[r] <= start[s]
      BY Zenon, <2>1, <3>2 DEF Layout, Apart
    <3> QED BY <1>2, <3>1, <3>2, <3>3, <3>4
  <2>2. ASSUME NEW r \in Taken', NEW t \in Taken', r # t, r # cur, t # cur
        PROVE  start'[r] + num'[r] <= start'[t] \/ start'[t] + num'[t] <= start'[r]
    BY Zenon, <1>3, <2>2 DEF Layout, Apart
  <2> QED BY Zenon, <1>1, <2>1, <2>2 DEF Apart
<1>8. Inside'
  BY Zenon, <1>1, <1>3, <1>5 DEF Layout, Inside
<1>9. Covered'
  BY Zenon, <1>1, <1>3, <1>5 DEF Layout, Covered, Taken, PagesOf
<1>10. Found'
  BY Zenon, <1>3 DEF Layout, Found
<1>11. Blank'
  BY Zenon DEF Layout, Blank
<1> QED BY Zenon, <1>6, <1>7, <1>8, <1>9, <1>10, <1>11 DEF Layout

(* The coalesced range is published. *)
LEMMA LayoutPublish ==
  ASSUME TypeOK, Layout, cur \in Taken, cur' = None,
         UNCHANGED <<start, num, pool, mapped>>,
         page_map' = SetSpan(page_map, start[cur], num[cur], cur)
  PROVE  Layout'
<1>1. \A s \in SpanIds : PagesOf(s)' = PagesOf(s)
  BY Zenon DEF PagesOf
<1>2. Found'
  <2>1. ASSUME NEW p \in PagesOf(cur) PROVE page_map'[p] = cur
    BY Zenon DEF PagesOf, SetSpan, Layout, Inside, TypeOK
  <2>2. ASSUME NEW r \in Taken, r # cur, NEW p \in PagesOf(r) PROVE page_map'[p] = r
    <3>1. p \in Pages
      BY Zenon DEF Layout, Inside, TypeOK
    <3>2. page_map[p] = r
      BY Zenon, <2>2 DEF Layout, Found
    <3>3. p \notin PagesOf(cur)
      BY Zenon, <2>2, NoCommonPage DEF Layout
    <3> QED BY Zenon, <3>1, <3>2, <3>3 DEF SetSpan, PagesOf
  <2> QED BY Zenon, <1>1, <2>1, <2>2 DEF Found, Taken
<1>3. NonEmpty' /\ Apart'
  BY Zenon DEF Layout, NonEmpty, Apart, Taken
<1>4. Inside' /\ Covered'
  BY Zenon, <1>1 DEF Layout, Inside, Covered, Taken
<1>5. Blank'
  BY Zenon DEF Layout, Blank, Inside, SetSpan, PagesOf
<1> QED BY Zenon, <1>2, <1>3, <1>4, <1>5 DEF Layout

(* A span and its pages go back to the system. *)
LEMMA LayoutFree ==
  ASSUME TypeOK, Layout, cur = None, cur' = None, NEW s \in Taken,
         Delete(s, start, num),
         mapped' = mapped \ PagesOf(s),
         page_map' = SetSpan(page_map, start[s], num[s], None)
  PROVE  Layout'
<1>1. s \in SpanIds /\ Taken' = Taken \ {s}
  BY Zenon DEF TypeOK, Taken, Delete
<1>2. \A r \in Taken' : /\ r \in Taken /\ r # s /\ r # cur
                        /\ start'[r] = start[r] /\ num'[r] = num[r]
                        /\ PagesOf(r)' = PagesOf(r)
  BY Zenon, <1>1, PageAssumption DEF TypeOK, PagesOf, Taken, Delete
<1>3. \A r \in Taken' : \A p \in PagesOf(r) : p \notin PagesOf(s) /\ p \in Pages
  BY Zenon, <1>2, NoCommonPage DEF Layout, Inside, TypeOK
<1>4. NonEmpty'
  BY Zenon, <1>2 DEF Layout, NonEmpty
<1>5. Apart'
  BY Zenon, <1>2 DEF Layout, Apart
<1>6. Inside'
  BY Zenon, <1>2, <1>3 DEF Layout, Inside
<1>7. Covered'
  BY Zenon, <1>1, <1>2 DEF Layout, Covered
<1>8. Found'
  BY Zenon, <1>2, <1>3 DEF Layout, Found, SetSpan, PagesOf
<1>9. Blank'
  BY Zenon DEF Layout, Blank, SetSpan, PagesOf
<1> QED BY Zenon, <1>4, <1>5, <1>6, <1>7, <1>8, <1>9 DEF Layout

-----------------------------------------------------------------------------
(***************************************************************************)
(* The actions of AllocSpan.                                               *)
(***************************************************************************)

(* While nobody coalesces, cur is no span. *)
LEMMA CurNone ==
  ASSUME IInv, op \in {"free", "alloc"}
  PROVE  cur = None /\ \A s \in SpanIds : s # cur
BY Zenon, PageAssumption DEF IInv, Control

(* Without failures of the node pool SetSpan publishes all pages. *)
LEMMA PublishesAll ==
  ASSUME ~NodeAllocFails, NEW a, NEW n
  PROVE  Published(a, n) = {n}
BY Zenon DEF Published

LEMMA InitInv == Init => IInv
<1> SUFFICES ASSUME Init PROVE IInv
  OBVIOUS
<1> USE PageAssumption
<1>1. TypeOK
  <2>1. /\ span_lists \in [Buckets -> SUBSET SpanIds]
        /\ page_map \in [Pages -> SpanIds \cup {None}]
    BY Zenon DEF Init
  <2>2. start \in [SpanIds -> Nat] /\ num \in [SpanIds -> Nat] /\ last_used \in [SpanIds -> Nat]
    BY Zenon DEF Init
  <2>3. used \in [SpanIds -> BOOLEAN] /\ committed \in [SpanIds -> BOOLEAN]
    BY Zenon DEF Init
  <2>4. mapped \in SUBSET Pages /\ live \in SUBSET SpanIds /\ pool \in SUBSET SpanIds
    BY Zenon DEF Init
  <2>5. held \in SUBSET SpanIds /\ todo \in SUBSET held
    BY Zenon DEF Init
  <2>6. /\ op \in {"free", "alloc", "left", "right"} /\ req \in Nat /\ cur \in SpanIds \cup {None}
        /\ scav \in {"off", "wait", "scan", "advise"} /\ stop \in BOOLEAN
    BY Zenon DEF Init
  <2>7. i \in 0 .. MAX_PAGE_NUM /\ now \in Nat /\ clock \in Nat
    BY DEF Init
  <2> QED BY Zenon, <2>1, <2>2, <2>3, <2>4, <2>5, <2>6, <2>7 DEF TypeOK
<1>2. Taken = {}
  BY Zenon DEF Init, Taken
<1>3. Layout
  BY Zenon, <1>2 DEF Init, Layout, NonEmpty, Apart, Inside, Covered, Found, Blank
<1>4. RolesApart
  BY Zenon DEF Init, RolesApart, Active, Listed, Buckets
<1>5. Control
  BY Zenon DEF Init, Control
<1> QED BY Zenon, <1>1, <1>3, <1>4, <1>5 DEF IInv

LEMMA CallAllocInv ==
  ASSUME IInv, NEW n \in 1 .. MaxRequest, CallAlloc(n)
  PROVE  IInv'
<1> USE PageAssumption
<1>1. TypeOK'
  BY DEF IInv, TypeOK, CallAlloc, cache, meta, scavenger
<1>2. Layout'
  BY Zenon, CurNone, LayoutStays DEF IInv, CallAlloc, cache, meta
<1>3. RolesApart'
  BY Zenon DEF IInv, RolesApart, Active, Listed, CallAlloc, cache, meta, scavenger
<1>4. Control'
  BY DEF IInv, Control, CallAlloc, cache, meta, scavenger
<1> QED BY Zenon, <1>1, <1>2, <1>3, <1>4 DEF IInv

LEMMA AllocOversizedInv ==
  ASSUME IInv, ~NodeAllocFails,
         NEW s \in SpanIds, NEW first \in Pages, AllocOversized(s, first)
  PROVE  IInv'
<1> USE PageAssumption
<1>1. cur = None /\ cur' = None /\ s \in pool /\ first \in Nat /\ req \in Nat /\ req >= 1
  BY CurNone DEF IInv, TypeOK, Control, AllocOversized, Unlock, Pages
<1>2. /\ page_map' = SetSpan(page_map, first, req, s)
      /\ live' = live \cup {s}
  BY SMTT(30), PublishesAll DEF AllocOversized
<1>3. TypeOK'
  <2>1. mapped' \in SUBSET Pages
    BY Zenon DEF IInv, TypeOK, AllocOversized, CanMap
  <2>2. page_map' \in [Pages -> SpanIds \cup {None}]
    BY Zenon, <1>2 DEF IInv, TypeOK, SetSpan
  <2>3. /\ start' \in [SpanIds -> Nat] /\ num' \in [SpanIds -> Nat]
        /\ used' \in [SpanIds -> BOOLEAN] /\ committed' \in [SpanIds -> BOOLEAN]
        /\ last_used' \in [SpanIds -> Nat] /\ pool' \in SUBSET SpanIds
        /\ live' \in SUBSET SpanIds
    BY Zenon, <1>1, <1>2 DEF IInv, TypeOK, AllocOversized
  <2> QED BY Zenon, <2>1, <2>2, <2>3 DEF IInv, TypeOK, AllocOversized, Unlock, scavenger
<1>4. Layout'
  <2>1. /\ CanMap(first, req) /\ pool' = pool \ {s}
        /\ start' = [start EXCEPT ![s] = first] /\ num' = [num EXCEPT ![s] = req]
        /\ mapped' = mapped \cup Run(first, req)
    BY Zenon DEF AllocOversized
  <2> QED BY <1>1, <1>2, <2>1, LayoutPlace, Zenon DEF IInv
<1>5. /\ span_lists' = span_lists /\ held' = held /\ pool' = pool \ {s}
      /\ used' = [used EXCEPT ![s] = TRUE] /\ num' = [num EXCEPT ![s] = req]
  BY Zenon DEF AllocOversized, scavenger
<1>6. RolesApart'
  <2>1. /\ \A r \in SpanIds : r # s => used'[r] = used[r] /\ num'[r] = num[r]
        /\ used'[s]
    BY Zenon, <1>5 DEF IInv, TypeOK
  <2>2. s \notin live /\ s \notin held /\ \A n \in Buckets : s \notin span_lists[n]
    BY Zenon, <1>1 DEF IInv, RolesApart, Active, Listed
  <2> QED BY <1>1, <1>2, <1>5, <2>1, <2>2 DEF IInv, RolesApart, Active, Listed
<1>7. Control'
  <2>1. \A r \in held : num'[r] = num[r]
    BY <1>1, <1>5 DEF IInv, TypeOK, RolesApart, Active
  <2> QED BY Zenon, <1>1, <1>5, <2>1 DEF IInv, Control, AllocOversized, Unlock, scavenger
<1> QED BY Zenon, <1>3, <1>4, <1>6, <1>7 DEF IInv

LEMMA AllocExactInv ==
  ASSUME IInv, NEW s \in SpanIds, AllocExact(s)
  PROVE  IInv'
<1> USE PageAssumption
<1>1. cur = None /\ cur' = None /\ req \in Buckets /\ s \in span_lists[req]
  BY Zenon, CurNone DEF AllocExact, Unlock
<1>2. TypeOK'
  BY Zenon DEF IInv, TypeOK, AllocExact, Unlock, scavenger
<1>3. Layout'
  BY Zenon, <1>1, LayoutStays DEF IInv, AllocExact
<1>4. /\ span_lists' = [span_lists EXCEPT ![req] = @ \ {s}]
      /\ used' = [used EXCEPT ![s] = TRUE] /\ live' = live \cup {s}
      /\ UNCHANGED <<num, held, pool>>
  BY Zenon DEF AllocExact, scavenger
<1>5. RolesApart'
  <2>1. /\ \A n \in Buckets : span_lists'[n] = span_lists[n] \ {s}
        /\ used'[s] /\ \A r \in SpanIds : r # s => used'[r] = used[r]
    BY <1>1, <1>4 DEF IInv, TypeOK, RolesApart
  <2>2. s \notin live /\ s \notin held /\ s \notin pool
    BY Zenon, <1>1 DEF IInv, RolesApart, Active, Listed
  <2> QED BY SMTT(30), <1>1, <1>4, <2>1, <2>2 DEF IInv, RolesApart, Active, Listed
<1>6. Control'
  BY Zenon, <1>1 DEF IInv, Control, AllocExact, Unlock, scavenger
<1> QED BY Zenon, <1>2, <1>3, <1>5, <1>6 DEF IInv

LEMMA RefillInv ==
  ASSUME IInv, ~NodeAllocFails,
         NEW s \in SpanIds, NEW first \in Pages, Refill(s, first)
  PROVE  IInv'
<1> USE PageAssumption
<1>1. /\ cur = None /\ cur' = None /\ s \in pool /\ first \in Nat
      /\ MAX_PAGE_NUM \in Nat /\ MAX_PAGE_NUM >= 1 /\ MAX_PAGE_NUM \in Buckets
  BY SMTT(30), CurNone, PublishesAll DEF IInv, TypeOK, Control, Refill, mutex, Pages, Buckets
<1>2. /\ page_map' = SetSpan(page_map, first, MAX_PAGE_NUM, s)
      /\ UNCHANGED <<op, req, cur, live>>
  BY SMTT(30), PublishesAll DEF Refill, mutex
<1>3. TypeOK'
  <2>1. mapped' \in SUBSET Pages
    BY Zenon DEF IInv, TypeOK, Refill, CanMap
  <2>2. page_map' \in [Pages -> SpanIds \cup {None}]
    BY Zenon, <1>2 DEF IInv, TypeOK, SetSpan
  <2>3. /\ start' \in [SpanIds -> Nat] /\ num' \in [SpanIds -> Nat]
        /\ used' \in [SpanIds -> BOOLEAN] /\ committed' \in [SpanIds -> BOOLEAN]
        /\ last_used' \in [SpanIds -> Nat] /\ pool' \in SUBSET SpanIds
    BY Zenon, <1>1 DEF IInv, TypeOK, Refill
  <2>4. span_lists' \in [Buckets -> SUBSET SpanIds]
    BY Zenon, <1>1 DEF IInv, TypeOK, Refill
  <2> QED BY Zenon, <1>2, <2>1, <2>2, <2>3, <2>4 DEF IInv, TypeOK, Refill, scavenger
<1>4. Layout'
  <2>1. /\ CanMap(first, MAX_PAGE_NUM) /\ pool' = pool \ {s}
        /\ start' = [start EXCEPT ![s] = first] /\ num' = [num EXCEPT ![s] = MAX_PAGE_NUM]
        /\ mapped' = mapped \cup Run(first, MAX_PAGE_NUM)
    BY Zenon DEF Refill
  <2> QED BY <1>1, <1>2, <2>1, LayoutPlace, Zenon DEF IInv
<1>5. /\ span_lists' = [span_lists EXCEPT ![MAX_PAGE_NUM] = @ \cup {s}]
      /\ held' = held /\ pool' = pool \ {s}
      /\ used' = [used EXCEPT ![s] = FALSE] /\ num' = [num EXCEPT ![s] = MAX_PAGE_NUM]
  BY Zenon DEF Refill, scavenger
<1>6. /\ \A r \in SpanIds : r # s => used'[r] = used[r] /\ num'[r] = num[r]
      /\ ~used'[s] /\ num'[s] = MAX_PAGE_NUM
  BY Zenon, <1>5 DEF IInv, TypeOK
<1>7. s \notin live /\ s \notin held /\ \A n \in Buckets : s \notin span_lists[n]
  BY Zenon, <1>1 DEF IInv, RolesApart, Active, Listed
<1>8. RolesApart'
  <2>1. \A n \in Buckets : span_lists'[n] = IF n = MAX_PAGE_NUM THEN span_lists[n] \cup {s}
                                                                 ELSE span_lists[n]
    BY Zenon, <1>1, <1>5 DEF IInv, TypeOK
  <2>2. \A r \in SpanIds : Listed(r)' <=> Listed(r) \/ r = s
    BY <1>1, <2>1, Zenon DEF Listed
  <2>3. Accounted'
    BY <1>1, <1>2, <1>5, <2>2, RolesSplit, Zenon DEF IInv, Accounted, Active
  <2>4. InOwnList'
    <3>1. ASSUME NEW n \in Buckets, s \in span_lists'[n]
          PROVE  num'[s] = n /\ ~used'[s]
      <4>1. n = MAX_PAGE_NUM
        BY <1>7, <2>1, <3>1, Zenon
      <4> QED BY Zenon, <1>6, <4>1
    <3>2. ASSUME NEW r \in SpanIds, r # s, NEW n \in Buckets, r \in span_lists'[n]
          PROVE  num'[r] = n /\ ~used'[r]
      <4>1. r \in span_lists[n]
        BY <2>1, <3>2, Zenon
      <4> QED BY <1>6, <3>2, <4>1, RolesSplit, Zenon DEF IInv, InOwnList
    <3> QED BY <3>1, <3>2, Zenon DEF InOwnList
  <2>5. UsedElsewhere'
    BY Zenon, <1>1, <1>2, <1>5, <1>6, <1>7, <2>2, RolesSplit DEF IInv, UsedElsewhere
  <2>6. Distinct'
    BY Zenon, <1>2, <1>5, RolesSplit DEF IInv, Distinct
  <2> QED BY Zenon, <2>3, <2>4, <2>5, <2>6, RolesSplit
<1>9. Control'
  <2>1. \A r \in held : num'[r] = num[r]
    BY Zenon, <1>6, <1>7 DEF IInv, TypeOK
  <2> QED BY Zenon, <1>1, <1>2, <1>5, <2>1 DEF IInv, Control, Refill, scavenger
<1> QED BY Zenon, <1>3, <1>4, <1>8, <1>9 DEF IInv

LEMMA AllocSplitInv ==
  ASSUME IInv, ~NodeAllocFails,
         NEW s \in SpanIds, NEW big \in SpanIds, NEW n \in Buckets, AllocSplit(s, n, big)
  PROVE  IInv'
<1> USE PageAssumption
<1>1. cur = None /\ cur' = None /\ s \in pool /\ big \in span_lists[n]
  BY Zenon, CurNone DEF AllocSplit, Unlock
<1>2. /\ req \in Nat /\ req >= 1 /\ n \in Nat /\ req < n /\ n - req \in Buckets /\ n - req # n
      /\ n - req \in Nat
  BY SMTT(30) DEF IInv, TypeOK, Control, AllocSplit, Buckets
<1>3. num[big] = n /\ big \in Taken /\ big \notin pool /\ big # s
  BY Zenon, <1>1 DEF IInv, RolesApart, Active, Listed, Taken
<1>4. /\ page_map' = SetSpan(SetSpan(page_map, start[big], req, s),
                             start[big] + req, n - req, big)
      /\ live' = live \cup {s}
  <2>1. Smaller(n, req) = req /\ Larger(n - req, 0) = n - req
    BY SMTT(30), <1>2 DEF Smaller, Larger
  <2> QED BY <2>1, PublishesAll DEF AllocSplit
<1>5. /\ pool' = pool \ {s}
      /\ start' = [start EXCEPT ![s] = start[big], ![big] = @ + req]
      /\ num' = [num EXCEPT ![s] = req, ![big] = @ - req]
      /\ used' = [used EXCEPT ![s] = TRUE, ![big] = FALSE]
      /\ span_lists' = [span_lists EXCEPT ![n] = @ \ {big}, ![n - req] = @ \cup {big}]
      /\ UNCHANGED <<mapped, held, scav, i>>
  BY Zenon DEF AllocSplit, scavenger
<1>6. /\ start[big] \in Nat /\ num[big] \in Nat
  BY Zenon DEF IInv, TypeOK
<1>7. TypeOK'
  <2>1. page_map' \in [Pages -> SpanIds \cup {None}]
    BY Zenon, <1>4 DEF IInv, TypeOK, SetSpan
  <2>2. start' \in [SpanIds -> Nat] /\ num' \in [SpanIds -> Nat]
    BY SMTT(30), <1>2, <1>3, <1>5, <1>6 DEF IInv, TypeOK
  <2>3. /\ used' \in [SpanIds -> BOOLEAN] /\ committed' \in [SpanIds -> BOOLEAN]
        /\ last_used' \in [SpanIds -> Nat] /\ pool' \in SUBSET SpanIds
        /\ live' \in SUBSET SpanIds
    BY ZenonT(40), <1>4 DEF IInv, TypeOK, AllocSplit
  <2>4. span_lists' \in [Buckets -> SUBSET SpanIds]
    BY ZenonT(40), <1>2, <1>5 DEF IInv, TypeOK
  <2>5. /\ UNCHANGED <<mapped, scav, stop, i, now, held, todo, clock>>
        /\ op' = "free" /\ req' \in Nat /\ cur' = None
    BY Zenon DEF AllocSplit, Unlock, scavenger
  <2> QED BY <2>1, <2>2, <2>3, <2>4, <2>5, Zenon DEF IInv, TypeOK
<1>8. Layout'
  BY <1>1, <1>2, <1>3, <1>4, <1>5, LayoutSplit, Zenon DEF IInv
<1>9. /\ \A r \in SpanIds : r # s /\ r # big => used'[r] = used[r] /\ num'[r] = num[r]
      /\ used'[s] /\ ~used'[big] /\ num'[big] = n - req
  BY Zenon, <1>3, <1>5, <1>6 DEF IInv, TypeOK
<1>10. s \notin live /\ s \notin held /\ \A m \in Buckets : s \notin span_lists[m]
  BY Zenon, <1>1 DEF IInv, RolesApart, Active, Listed
<1>11. /\ big \notin live /\ big \notin held
       /\ \A m \in Buckets : big \in span_lists[m] => m = n
  BY Zenon, <1>1 DEF IInv, RolesApart, Listed
<1>12. RolesApart'
  <2>1. /\ span_lists'[n] = span_lists[n] \ {big}
        /\ span_lists'[n - req] = span_lists[n - req] \cup {big}
        /\ \A m \in Buckets : m # n /\ m # n - req => span_lists'[m] = span_lists[m]
    BY Zenon, <1>2, <1>5 DEF IInv, TypeOK
  <2>2. \A r \in SpanIds : r # big =>
          \A m \in Buckets : r \in span_lists'[m] <=> r \in span_lists[m]
    BY Zenon, <1>2, <2>1
  <2>3. \A m \in Buckets : big \in span_lists'[m] <=> m = n - req
    BY Zenon, <1>2, <1>11, <2>1
  <2>4. \A r \in SpanIds : Listed(r)' <=> Listed(r)
    BY <1>1, <1>2, <2>2, <2>3, Zenon DEF Listed
  <2>5. Accounted'
    BY <1>1, <1>4, <1>5, <2>4, RolesSplit, Zenon DEF IInv, Accounted, Active
  <2>6. InOwnList'
    <3>1. ASSUME NEW r \in SpanIds, NEW m \in Buckets, r \in span_lists'[m]
          PROVE  num'[r] = m /\ ~used'[r]
      <4>1. CASE r = big
        BY <1>9, <2>3, <3>1, <4>1, Zenon
      <4>2. CASE r # big
        <5>1. r \in span_lists[m] /\ r # s
          BY <1>10, <2>2, <3>1, <4>2, Zenon
        <5> QED BY <1>9, <4>2, <5>1, RolesSplit, Zenon DEF IInv, InOwnList
      <4> QED BY Zenon, <4>1, <4>2
    <3> QED BY <3>1, Zenon DEF InOwnList
  <2>7. ~Listed(s)'
    BY <1>10, <2>4, Zenon DEF Listed
  <2>8. UsedElsewhere'
    <3>1. ASSUME NEW r \in SpanIds, r \in live' \cup held' \/ r = cur'
          PROVE  used'[r] /\ ~Listed(r)'
      <4>1. CASE r = s
        BY Zenon, <4>1, <1>9, <2>7
      <4>2. CASE r # s
        <5>1. r # big /\ r \in live \cup held
          BY Zenon, <1>1, <1>4, <1>5, <1>11, <3>1, <4>2
        <5> QED BY <1>9, <2>4, <4>2, <5>1, RolesSplit, Zenon DEF IInv, UsedElsewhere
      <4> QED BY Zenon, <4>1, <4>2
    <3> QED BY <3>1, Zenon DEF UsedElsewhere
  <2>9. Distinct'
    BY SMTT(30), <1>1, <1>4, <1>5, <1>10, RolesSplit DEF IInv, TypeOK, Distinct
  <2> QED BY Zenon, <2>5, <2>6, <2>8, <2>9, RolesSplit
<1>13. Control'
  <2>1. \A r \in held : num'[r] = num[r]
    BY ZenonT(40), <1>9, <1>10, <1>11 DEF IInv, TypeOK
  <2>2. op' = "free" /\ UNCHANGED <<held, scav, i>>
    BY Zenon DEF AllocSplit, Unlock, scavenger
  <2> QED BY Zenon, <1>1, <2>1, <2>2 DEF IInv, Control
<1> QED BY Zenon, <1>7, <1>8, <1>12, <1>13 DEF IInv

LEMMA AllocNullInv ==
  ASSUME IInv, AllocNull
  PROVE  IInv'
<1> USE PageAssumption
<1>1. cur = None /\ cur' = None
  BY Zenon, CurNone DEF AllocNull, Unlock
<1>2. TypeOK'
  BY Zenon DEF IInv, TypeOK, AllocNull, Unlock, cache, meta, scavenger
<1>3. Layout'
  BY Zenon, <1>1, LayoutStays DEF IInv, AllocNull, cache, meta
<1>4. RolesApart'
  BY Zenon, <1>1 DEF IInv, RolesApart, Active, Listed, AllocNull, cache, meta, scavenger
<1>5. Control'
  BY Zenon, <1>1 DEF IInv, Control, AllocNull, Unlock, cache, meta, scavenger
<1> QED BY Zenon, <1>2, <1>3, <1>4, <1>5 DEF IInv

-----------------------------------------------------------------------------
(***************************************************************************)
(* The actions of ReleaseSpan.                                             *)
(***************************************************************************)

(* A deleted slot keeps nothing, and the other spans keep their fields. *)
LEMMA DeleteType ==
  ASSUME IInv, NEW s \in SpanIds, NEW first \in [SpanIds -> Nat], NEW n \in [SpanIds -> Nat],
         Delete(s, first, n)
  PROVE  /\ pool' = pool \cup {s} /\ pool' \in SUBSET SpanIds
         /\ start' \in [SpanIds -> Nat] /\ num' \in [SpanIds -> Nat]
         /\ used' \in [SpanIds -> BOOLEAN] /\ committed' \in [SpanIds -> BOOLEAN]
         /\ last_used' \in [SpanIds -> Nat]
         /\ \A r \in SpanIds : r # s => /\ num'[r] = n[r]
                                        /\ used'[r] = used[r]
BY Zenon DEF IInv, TypeOK, Delete

LEMMA ReleaseOversizedInv ==
  ASSUME IInv, NEW s \in SpanIds, ReleaseOversized(s)
  PROVE  IInv'
<1> USE PageAssumption
<1>1. cur = None /\ cur' = None /\ s \in live /\ op = "free" /\ \A r \in SpanIds : r # cur
  BY Zenon, CurNone DEF ReleaseOversized, mutex
<1>2. s \in Taken /\ s \notin held /\ ~Listed(s)
  BY Zenon, <1>1 DEF IInv, RolesApart, Active, Taken
<1>3. /\ pool' = pool \cup {s} /\ pool' \in SUBSET SpanIds
      /\ start' \in [SpanIds -> Nat] /\ num' \in [SpanIds -> Nat]
      /\ used' \in [SpanIds -> BOOLEAN] /\ committed' \in [SpanIds -> BOOLEAN]
      /\ last_used' \in [SpanIds -> Nat]
      /\ \A r \in SpanIds : r # s => num'[r] = num[r] /\ used'[r] = used[r]
  BY SMTT(30), DeleteType DEF IInv, TypeOK, ReleaseOversized
<1>4. /\ live' = live \ {s} /\ mapped' = mapped \ PagesOf(s)
      /\ page_map' = SetSpan(page_map, start[s], num[s], None)
      /\ Delete(s, start, num)
      /\ UNCHANGED <<span_lists, op, req, cur, scav, stop, i, now, held, todo, clock>>
  BY Zenon DEF ReleaseOversized, mutex, scavenger
<1>5. TypeOK'
  <2>1. mapped' \in SUBSET Pages /\ live' \in SUBSET SpanIds
    BY Zenon, <1>4 DEF IInv, TypeOK
  <2>2. page_map' \in [Pages -> SpanIds \cup {None}]
    BY Zenon, <1>4 DEF IInv, TypeOK, SetSpan
  <2> QED BY <1>3, <1>4, <2>1, <2>2, Zenon DEF IInv, TypeOK
<1>6. Layout'
  BY <1>1, <1>2, <1>4, LayoutFree, Zenon DEF IInv
<1>7. RolesApart'
  <2>1. \A r \in SpanIds : Listed(r)' <=> Listed(r)
    BY Zenon, <1>4 DEF Listed
  <2>2. Accounted'
    BY Zenon, <1>1, <1>2, <1>3, <1>4, <2>1, RolesSplit DEF IInv, Accounted, Active
  <2>3. InOwnList'
    <3>1. ASSUME NEW r \in SpanIds, NEW n \in Buckets, r \in span_lists'[n]
          PROVE  num'[r] = n /\ ~used'[r]
      <4>1. r \in span_lists[n] /\ r # s
        BY Zenon, <1>2, <1>4, <3>1 DEF Listed
      <4> QED BY <1>3, <4>1, RolesSplit, Zenon DEF IInv, InOwnList
    <3> QED BY <3>1, Zenon DEF InOwnList
  <2>4. UsedElsewhere'
    <3>1. ASSUME NEW r \in SpanIds, r \in live' \cup held' \/ r = cur'
          PROVE  used'[r] /\ ~Listed(r)'
      <4>1. r # s /\ r \in live \cup held
        BY ZenonT(40), <1>1, <1>2, <1>4, <3>1
      <4> QED BY <1>3, <2>1, <4>1, RolesSplit, Zenon DEF IInv, UsedElsewhere
    <3> QED BY <3>1, Zenon DEF UsedElsewhere
  <2>5. Distinct'
    BY ZenonT(40), <1>4, RolesSplit DEF IInv, Distinct
  <2> QED BY Zenon, <2>2, <2>3, <2>4, <2>5, RolesSplit
<1>8. Control'
  <2>1. \A r \in held : num'[r] = num[r]
    BY Zenon, <1>2, <1>3 DEF IInv, TypeOK
  <2> QED BY Zenon, <1>1, <1>4, <2>1 DEF IInv, Control
<1> QED BY Zenon, <1>5, <1>6, <1>7, <1>8 DEF IInv

LEMMA CallReleaseInv ==
  ASSUME IInv, NEW s \in SpanIds, CallRelease(s)
  PROVE  IInv'
<1> USE PageAssumption
<1>1. cur = None /\ cur' = s /\ s \in live /\ s # None /\ \A r \in SpanIds : r # cur
  BY Zenon, CurNone DEF CallRelease
<1>2. /\ live' = live \ {s} /\ op' = "left" /\ num[s] <= MAX_PAGE_NUM
      /\ UNCHANGED <<span_lists, start, num, used, committed, last_used, pool, page_map,
                     mapped, req, scav, stop, i, now, held, todo, clock>>
  BY Zenon DEF CallRelease, meta, scavenger
<1>3. TypeOK'
  BY Zenon, <1>1, <1>2 DEF IInv, TypeOK
<1>4. Layout'
  BY Zenon, <1>1, <1>2, LayoutStays DEF IInv
<1>5. RolesApart'
  <2>1. \A r \in SpanIds : Listed(r)' <=> Listed(r)
    BY Zenon, <1>2 DEF Listed
  <2>2. Accounted'
    BY Zenon, <1>1, <1>2, <2>1, RolesSplit DEF IInv, Accounted, Active
  <2>3. InOwnList'
    BY Zenon, <1>2, RolesSplit DEF IInv, InOwnList
  <2>4. UsedElsewhere'
    BY Zenon, <1>1, <1>2, <2>1, RolesSplit DEF IInv, UsedElsewhere
  <2>5. Distinct'
    BY Zenon, <1>1, <1>2, RolesSplit DEF IInv, Distinct
  <2> QED BY Zenon, <2>2, <2>3, <2>4, <2>5, RolesSplit
<1>6. Control'
  BY Zenon, <1>1, <1>2 DEF IInv, Control
<1> QED BY Zenon, <1>3, <1>4, <1>5, <1>6 DEF IInv

(***************************************************************************)
(* A page outside the span being released whose map entry is a span that   *)
(* is not in use belongs to that span, and the span is in its free list.   *)
(***************************************************************************)
LEMMA Neighbour ==
  ASSUME IInv, op \in {"left", "right"},
         NEW p \in Pages, p \notin PagesOf(cur),
         NEW s, s = page_map[p], s # None, ~used[s]
  PROVE  /\ cur \in Taken /\ s \in Taken /\ s # cur /\ p \in PagesOf(s)
         /\ num[s] \in Buckets /\ s \in span_lists[num[s]]
<1> USE PageAssumption
<1>1. cur \in SpanIds
  BY Zenon DEF IInv, Control, TypeOK
<1>2. cur \in Taken /\ used[cur]
  BY Zenon, <1>1 DEF IInv, RolesApart, Active, Taken
<1>3. p \in mapped
  BY Zenon DEF IInv, Layout, Blank
<1>4. PICK r \in Taken : p \in PagesOf(r)
  BY Zenon, <1>3 DEF IInv, Layout, Covered
<1>5. r # cur
  BY Zenon, <1>4
<1>6. page_map[p] = r
  BY Zenon, <1>4, <1>5 DEF IInv, Layout, Found
<1>7. s = r /\ s \in SpanIds
  BY Zenon, <1>6 DEF Taken
<1>8. Active(s)
  BY Zenon, <1>7 DEF IInv, RolesApart, Taken
<1>9. s \notin live \cup held /\ s # cur
  BY Zenon, <1>5, <1>7 DEF IInv, RolesApart
<1>10. Listed(s)
  BY Zenon, <1>8, <1>9 DEF Active
<1>11. num[s] \in Buckets /\ s \in span_lists[num[s]]
  BY Zenon, <1>7, <1>10 DEF IInv, RolesApart, Listed
<1> QED BY Zenon, <1>2, <1>4, <1>7, <1>9, <1>11

(* Taking over the range of a cached neighbour keeps the invariant. *)
LEMMA AbsorbInv ==
  ASSUME IInv, cur \in Taken, NEW s \in Taken, s # cur, NEW a \in Nat,
         num[s] \in Buckets, s \in span_lists[num[s]],
         num[cur] + num[s] <= MAX_PAGE_NUM,
         \/ start[s] + num[s] = start[cur] /\ a = start[s]
         \/ start[cur] + num[cur] = start[s] /\ a = start[cur],
         Absorb(s, a)
  PROVE  IInv'
<1> USE PageAssumption
<1>1. s \in SpanIds /\ cur \in SpanIds /\ s \notin live \cup held /\ s # cur
  BY Zenon DEF IInv, RolesApart, Listed, Taken
<1>2. /\ span_lists' = [span_lists EXCEPT ![num[s]] = @ \ {s}]
      /\ Delete(s, [start EXCEPT ![cur] = a], [num EXCEPT ![cur] = @ + num[s]])
      /\ UNCHANGED <<page_map, mapped, live, op, req, cur, scav, stop, i, now, held, todo, clock>>
  BY Zenon DEF Absorb, mutex, scavenger
<1>3. num[cur] \in Nat /\ num[s] \in Nat
  BY Zenon, <1>1 DEF IInv, TypeOK
<1>5. /\ pool' = pool \cup {s} /\ pool' \in SUBSET SpanIds
      /\ start' \in [SpanIds -> Nat] /\ num' \in [SpanIds -> Nat]
      /\ used' \in [SpanIds -> BOOLEAN] /\ committed' \in [SpanIds -> BOOLEAN]
      /\ last_used' \in [SpanIds -> Nat]
      /\ \A r \in SpanIds : r # s => used'[r] = used[r]
      /\ \A r \in SpanIds : r # s /\ r # cur => num'[r] = num[r]
      /\ num'[cur] = num[cur] + num[s]
  <2> DEFINE A == [start EXCEPT ![cur] = a]
             B == [num EXCEPT ![cur] = @ + num[s]]
  <2>1. A \in [SpanIds -> Nat] /\ B \in [SpanIds -> Nat]
    BY SMTT(30), <1>1, <1>3 DEF IInv, TypeOK
  <2>2. /\ \A r \in SpanIds : r # cur => B[r] = num[r]
        /\ B[cur] = num[cur] + num[s]
    BY Zenon, <1>1, <1>3 DEF IInv, TypeOK
  <2>3. Delete(s, A, B)
    BY Zenon, <1>2
  <2> HIDE DEF A, B
  <2> QED BY SMTT(30), <1>1, <2>1, <2>2, <2>3, DeleteType
<1>7. TypeOK'
  <2>1. span_lists' \in [Buckets -> SUBSET SpanIds]
    BY Zenon, <1>2 DEF IInv, TypeOK
  <2> QED BY <1>2, <1>5, <2>1, Zenon DEF IInv, TypeOK
<1>8. Layout'
  BY Zenon, <1>2, LayoutAbsorb DEF IInv
<1>9. RolesApart'
  <2>1. \A n \in Buckets : span_lists'[n] = span_lists[n] \ {s}
    BY SMTT(30), <1>1, <1>2 DEF IInv, TypeOK, RolesApart
  <2>2. \A r \in SpanIds : Listed(r)' <=> Listed(r) /\ r # s
    <3>1. \A r \in SpanIds : \A n \in Buckets : r \in span_lists'[n] <=> r \in span_lists[n] /\ r # s
      BY SMTT(30), <2>1
    <3> QED BY Zenon, <3>1 DEF Listed
  <2>3. Accounted'
    BY Zenon, <1>1, <1>2, <1>5, <2>2, RolesSplit DEF IInv, Accounted, Active
  <2>4. InOwnList'
    <3>1. ASSUME NEW r \in SpanIds, NEW n \in Buckets, r \in span_lists'[n]
          PROVE  num'[r] = n /\ ~used'[r]
      <4>1. r \in span_lists[n] /\ r # s
        BY Zenon, <2>1, <3>1
      <4>2. r # cur
        BY Zenon, <1>1, <4>1, RolesSplit DEF IInv, UsedElsewhere, Listed
      <4> QED BY <1>5, <4>1, <4>2, RolesSplit, Zenon DEF IInv, InOwnList
    <3> QED BY <3>1, Zenon DEF InOwnList
  <2>5. UsedElsewhere'
    <3>1. ASSUME NEW r \in SpanIds, r \in live' \cup held' \/ r = cur'
          PROVE  used'[r] /\ ~Listed(r)'
      <4>1. r # s /\ (r \in live \cup held \/ r = cur)
        BY Zenon, <1>1, <1>2, <3>1
      <4> QED BY <1>5, <2>2, <4>1, RolesSplit, Zenon DEF IInv, UsedElsewhere
    <3> QED BY <3>1, Zenon DEF UsedElsewhere
  <2>6. Distinct'
    BY Zenon, <1>2, RolesSplit DEF IInv, Distinct
  <2> QED BY Zenon, <2>3, <2>4, <2>5, <2>6, RolesSplit
<1>10. Control'
  <2>1. \A r \in held : num'[r] = num[r]
    BY SMTT(30), <1>1, <1>5 DEF IInv, TypeOK, RolesApart
  <2> QED BY Zenon, <1>2, <1>5, <2>1 DEF IInv, Control
<1> QED BY Zenon, <1>7, <1>8, <1>9, <1>10 DEF IInv

LEMMA MergeLeftInv ==
  ASSUME IInv, MergeLeft
  PROVE  IInv'
<1> USE PageAssumption
<1> DEFINE p == start[cur] - 1
           s == Left
<1>1. op = "left" /\ s # None /\ ~used[s] /\ num[cur] + num[s] <= MAX_PAGE_NUM
      /\ Absorb(s, start[s])
  BY Zenon DEF MergeLeft, Mergeable
<1>2. cur \in SpanIds /\ start[cur] \in Nat
  BY Zenon, <1>1 DEF IInv, Control, TypeOK
<1>3. p \in Pages /\ s = page_map[p]
  BY Zenon, <1>1 DEF Left, GetSpan
<1>4. p \notin PagesOf(cur)
  BY SMTT(30), <1>2 DEF PagesOf, Run
<1> HIDE DEF s
<1>5. /\ cur \in Taken /\ s \in Taken /\ s # cur /\ p \in PagesOf(s)
      /\ num[s] \in Buckets /\ s \in span_lists[num[s]]
  BY Zenon, <1>1, <1>3, <1>4, Neighbour
<1>6. start[s] + num[s] = start[cur] /\ start[s] \in Nat
  <2>1. start[s] + num[s] <= start[cur] \/ start[cur] + num[cur] <= start[s]
    BY Zenon, <1>5 DEF IInv, Layout, Apart
  <2>2. start[s] \in Nat /\ num[s] \in Nat /\ num[cur] \in Nat /\ num[cur] >= 1
    BY Zenon, <1>5 DEF IInv, TypeOK, Layout, NonEmpty, Taken
  <2> QED BY SMTT(30), <1>2, <1>5, <2>1, <2>2 DEF PagesOf, Run
<1> QED BY ZenonT(40), <1>1, <1>5, <1>6, AbsorbInv

LEMMA MergeRightInv ==
  ASSUME IInv, MergeRight
  PROVE  IInv'
<1> USE PageAssumption
<1> DEFINE p == start[cur] + num[cur]
           s == Right
<1>1. op = "right" /\ s # None /\ ~used[s] /\ num[cur] + num[s] <= MAX_PAGE_NUM
      /\ Absorb(s, start[cur])
  BY Zenon DEF MergeRight, Mergeable
<1>2. cur \in SpanIds /\ start[cur] \in Nat /\ num[cur] \in Nat
  BY Zenon, <1>1 DEF IInv, Control, TypeOK
<1>3. p \in Pages /\ s = page_map[p]
  BY Zenon, <1>1 DEF Right, GetSpan
<1>4. p \notin PagesOf(cur)
  BY SMTT(30), <1>2 DEF PagesOf, Run
<1> HIDE DEF s
<1>5. /\ cur \in Taken /\ s \in Taken /\ s # cur /\ p \in PagesOf(s)
      /\ num[s] \in Buckets /\ s \in span_lists[num[s]]
  BY Zenon, <1>1, <1>3, <1>4, Neighbour
<1>6. start[cur] + num[cur] = start[s]
  <2>1. start[s] + num[s] <= start[cur] \/ start[cur] + num[cur] <= start[s]
    BY Zenon, <1>5 DEF IInv, Layout, Apart
  <2>2. start[s] \in Nat /\ num[s] \in Nat
    BY Zenon, <1>5 DEF IInv, TypeOK, Taken
  <2> QED BY SMTT(30), <1>2, <1>5, <2>1, <2>2 DEF PagesOf, Run
<1> QED BY Zenon, <1>1, <1>2, <1>5, <1>6, AbsorbInv

LEMMA ReleaseDoneInv ==
  ASSUME IInv, ReleaseDone
  PROVE  IInv'
<1> USE PageAssumption
<1>1. cur \in SpanIds /\ cur # None /\ op = "right"
  BY Zenon DEF ReleaseDone, IInv, Control, TypeOK
<1>2. /\ cur \in Taken /\ ~Listed(cur) /\ cur \notin live \cup held
      /\ num[cur] \in Buckets
  BY SMTT(30), <1>1 DEF IInv, TypeOK, RolesApart, Active, Taken, Control, Layout, NonEmpty, Buckets
<1>3. /\ used' = [used EXCEPT ![cur] = FALSE]
      /\ committed' = [committed EXCEPT ![cur] = TRUE]
      /\ last_used' = [last_used EXCEPT ![cur] = clock]
      /\ span_lists' = [span_lists EXCEPT ![num[cur]] = @ \cup {cur}]
      /\ page_map' = SetSpan(page_map, start[cur], num[cur], cur)
      /\ op' = "free" /\ req' = 0 /\ cur' = None
      /\ UNCHANGED <<start, num, pool, mapped, live, scav, stop, i, now, held, todo, clock>>
  BY Zenon DEF ReleaseDone, Unlock, scavenger
<1>4. TypeOK'
  <2>1. page_map' \in [Pages -> SpanIds \cup {None}]
    BY Zenon, <1>1, <1>3 DEF IInv, TypeOK, SetSpan
  <2>2. /\ used' \in [SpanIds -> BOOLEAN] /\ committed' \in [SpanIds -> BOOLEAN]
        /\ last_used' \in [SpanIds -> Nat]
    BY Zenon, <1>1, <1>3 DEF IInv, TypeOK
  <2>3. span_lists' \in [Buckets -> SUBSET SpanIds]
    BY ZenonT(40), <1>1, <1>2, <1>3 DEF IInv, TypeOK
  <2>4. 0 \in Nat
    OBVIOUS
  <2> QED BY <1>3, <2>1, <2>2, <2>3, <2>4, Zenon DEF IInv, TypeOK
<1>5. Layout'
  BY Zenon, <1>2, <1>3, LayoutPublish DEF IInv
<1>6. RolesApart'
  <2>1. /\ \A n \in Buckets : n # num[cur] => span_lists'[n] = span_lists[n]
        /\ span_lists'[num[cur]] = span_lists[num[cur]] \cup {cur}
    BY Zenon, <1>2, <1>3 DEF IInv, TypeOK
  <2>2. \A r \in SpanIds : r # cur =>
          \A n \in Buckets : r \in span_lists'[n] <=> r \in span_lists[n]
    BY Zenon, <2>1
  <2>3. \A n \in Buckets : cur \in span_lists'[n] <=> n = num[cur]
    BY Zenon, <1>2, <2>1 DEF Listed
  <2>4. \A r \in SpanIds : Listed(r)' <=> Listed(r) \/ r = cur
    BY <1>1, <1>2, <2>2, <2>3, Zenon DEF Listed
  <2>5. /\ \A r \in SpanIds : r # cur => used'[r] = used[r]
        /\ ~used'[cur]
    BY Zenon, <1>1, <1>3 DEF IInv, TypeOK
  <2>6. Accounted'
    BY Zenon, <1>1, <1>3, <2>4, RolesSplit DEF IInv, Accounted, Active
  <2>7. InOwnList'
    <3>1. ASSUME NEW r \in SpanIds, NEW n \in Buckets, r \in span_lists'[n]
          PROVE  num'[r] = n /\ ~used'[r]
      <4>1. CASE r = cur
        BY <1>3, <2>3, <2>5, <3>1, <4>1, Zenon
      <4>2. CASE r # cur
        <5>1. r \in span_lists[n]
          BY <2>2, <3>1, <4>2, Zenon
        <5> QED BY <1>3, <2>5, <4>2, <5>1, RolesSplit, Zenon DEF IInv, InOwnList
      <4> QED BY Zenon, <4>1, <4>2
    <3> QED BY <3>1, Zenon DEF InOwnList
  <2>8. UsedElsewhere'
    <3>1. ASSUME NEW r \in SpanIds, r \in live' \cup held' \/ r = cur'
          PROVE  used'[r] /\ ~Listed(r)'
      <4>1. r # cur /\ r \in live \cup held
        BY Zenon, <1>2, <1>3, <3>1
      <4> QED BY <2>4, <2>5, <4>1, RolesSplit, Zenon DEF IInv, UsedElsewhere
    <3> QED BY <3>1, Zenon DEF UsedElsewhere
  <2>9. Distinct'
    BY Zenon, <1>3, RolesSplit DEF IInv, TypeOK, Distinct
  <2> QED BY Zenon, <2>6, <2>7, <2>8, <2>9, RolesSplit
<1>7. Control'
  BY Zenon, <1>3 DEF IInv, Control
<1> QED BY Zenon, <1>4, <1>5, <1>6, <1>7 DEF IInv

LEMMA ResetInv ==
  ASSUME IInv, Reset
  PROVE  IInv'
<1> USE PageAssumption
<1>1. cur = None /\ held = {} /\ live = {} /\ op = "free" /\ \A s \in SpanIds : s # cur
  BY Zenon, CurNone DEF Reset, IInv, Control
<1>2. /\ span_lists' = [n \in Buckets |-> {}] /\ pool' = SpanIds
      /\ start' = [s \in SpanIds |-> 0] /\ num' = [s \in SpanIds |-> 0]
      /\ used' = [s \in SpanIds |-> FALSE] /\ committed' = [s \in SpanIds |-> FALSE]
      /\ last_used' = [s \in SpanIds |-> 0] /\ page_map' = [p \in Pages |-> None]
      /\ UNCHANGED <<live, op, req, cur, scav, stop, i, now, held, todo, clock>>
  BY Zenon DEF Reset, mutex, scavenger
<1>3. \A s \in Taken : Listed(s)
  BY Zenon, <1>1 DEF IInv, RolesApart, Active, Taken
<1>4. mapped' = {}
  <2>1. ASSUME NEW p \in mapped
        PROVE  p \in UNION {PagesOf(s) : s \in UNION {span_lists[n] : n \in Buckets}}
    <3>1. PICK s \in Taken : p \in PagesOf(s)
      BY Zenon DEF IInv, Layout, Covered
    <3>2. PICK n \in Buckets : s \in span_lists[n]
      BY Zenon, <1>3 DEF Listed
    <3>3. s \in UNION {span_lists[m] : m \in Buckets}
      BY Zenon, <3>2
    <3> QED BY Zenon, <3>1, <3>3
  <2>2. mapped' = mapped \ UNION {PagesOf(s) : s \in UNION {span_lists[n] : n \in Buckets}}
    BY Zenon DEF Reset
  <2> QED BY Zenon, <2>1, <2>2
<1>5. TypeOK'
  <2>1. /\ span_lists' \in [Buckets -> SUBSET SpanIds]
        /\ page_map' \in [Pages -> SpanIds \cup {None}]
    BY Zenon, <1>2
  <2>2. start' \in [SpanIds -> Nat] /\ num' \in [SpanIds -> Nat] /\ last_used' \in [SpanIds -> Nat]
    BY Zenon, <1>2
  <2>3. used' \in [SpanIds -> BOOLEAN] /\ committed' \in [SpanIds -> BOOLEAN]
    BY Zenon, <1>2
  <2>4. mapped' \in SUBSET Pages /\ pool' \in SUBSET SpanIds
    BY Zenon, <1>2, <1>4
  <2> QED BY <1>2, <2>1, <2>2, <2>3, <2>4, Zenon DEF IInv, TypeOK
<1>6. Layout'
  <2>1. Taken' = {}
    BY Zenon, <1>2 DEF Taken
  <2>2. NonEmpty' /\ Apart' /\ Inside' /\ Found'
    BY Zenon, <2>1 DEF NonEmpty, Apart, Inside, Found
  <2>3. Covered' /\ Blank'
    BY Zenon, <1>2, <1>4 DEF Covered, Blank
  <2> QED BY Zenon, <2>2, <2>3 DEF Layout
<1>7. RolesApart'
  <2>1. \A n \in Buckets : span_lists'[n] = {}
    BY Zenon, <1>2
  <2>2. /\ live' = {} /\ held' = {} /\ \A s \in SpanIds : s # cur'
    BY Zenon, <1>1, <1>2
  <2>3. \A s \in SpanIds : ~Listed(s)' /\ ~Active(s)'
    BY Zenon, <2>1, <2>2 DEF Listed, Active
  <2> QED BY Zenon, <1>2, <2>1, <2>2, <2>3 DEF RolesApart
<1>8. Control'
  BY Zenon, <1>1, <1>2 DEF IInv, Control
<1> QED BY Zenon, <1>5, <1>6, <1>7, <1>8 DEF IInv

-----------------------------------------------------------------------------
(***************************************************************************)
(* The scavenger, and the steps that move no span.                         *)
(***************************************************************************)

(* Steps that only move the program counters. *)
LEMMA IdleInv ==
  ASSUME IInv, UNCHANGED <<cache, req, cur, held>>, TypeOK', Control'
  PROVE  IInv'
<1>1. Layout'
  BY Zenon, LayoutStays DEF IInv, cache, meta
<1>2. RolesApart'
  BY Zenon DEF IInv, RolesApart, Active, Listed, cache, meta
<1> QED BY Zenon, <1>1, <1>2 DEF IInv

LEMMA LeftDoneInv ==
  ASSUME IInv, LeftDone
  PROVE  IInv'
<1>1. TypeOK'
  BY Zenon DEF IInv, TypeOK, LeftDone, cache, meta, scavenger
<1>2. Control'
  BY Zenon DEF IInv, Control, LeftDone, cache, meta, scavenger
<1> QED BY Zenon, <1>1, <1>2, IdleInv DEF LeftDone, scavenger

LEMMA StartInv ==
  ASSUME IInv, Start
  PROVE  IInv'
<1>1. TypeOK'
  BY Zenon DEF IInv, TypeOK, Start, cache, meta, mutex
<1>2. Control'
  BY Zenon DEF IInv, Control, Start, cache, meta, mutex
<1> QED BY Zenon, <1>1, <1>2, IdleInv DEF Start, mutex

LEMMA StopInv ==
  ASSUME IInv, Stop
  PROVE  IInv'
<1>1. TypeOK'
  BY Zenon DEF IInv, TypeOK, Stop, cache, meta, mutex
<1>2. Control'
  BY Zenon DEF IInv, Control, Stop, cache, meta, mutex
<1> QED BY Zenon, <1>1, <1>2, IdleInv DEF Stop, mutex

LEMMA WakeInv ==
  ASSUME IInv, Wake
  PROVE  IInv'
<1>1. \/ scav' = "off" /\ UNCHANGED <<i, now>>
      \/ scav' = "scan" /\ i' = MAX_PAGE_NUM /\ now' = clock
  BY Zenon DEF Wake
<1>2. MAX_PAGE_NUM \in 0 .. MAX_PAGE_NUM /\ MAX_PAGE_NUM \in Buckets
  BY SMTT(30), PageAssumption DEF Buckets
<1>3. /\ scav = "wait" /\ held = {}
      /\ UNCHANGED <<span_lists, start, num, used, committed, last_used, pool, page_map,
                     mapped, live, op, req, cur, stop, held, todo, clock>>
  BY Zenon DEF Wake, cache, meta, mutex, IInv, Control
<1>4. TypeOK'
  BY <1>1, <1>2, <1>3, Zenon DEF IInv, TypeOK
<1>5. Control'
  BY Zenon, <1>1, <1>2, <1>3 DEF IInv, Control
<1> QED BY Zenon, <1>3, <1>4, <1>5, IdleInv DEF cache, meta

LEMMA TickInv ==
  ASSUME IInv, Tick
  PROVE  IInv'
<1>1. TypeOK'
  BY SMTT(30) DEF IInv, TypeOK, Tick, cache, meta, mutex, scavenger
<1>2. Control'
  BY Zenon DEF IInv, Control, Tick, cache, meta, mutex, scavenger
<1> QED BY Zenon, <1>1, <1>2, IdleInv DEF Tick, mutex, scavenger

LEMMA AdviseInv ==
  ASSUME IInv, NEW s \in SpanIds, Advise(s)
  PROVE  IInv'
<1>1. UNCHANGED <<span_lists, start, num, used, last_used, pool, page_map, mapped, live,
                  op, req, cur, scav, stop, i, now, held, clock>>
  BY Zenon DEF Advise, mutex
<1>2. TypeOK'
  <2>1. todo' \in SUBSET held
    BY Zenon DEF IInv, TypeOK, Advise
  <2>2. committed' \in [SpanIds -> BOOLEAN]
    BY Zenon DEF IInv, TypeOK, Advise
  <2> QED BY <1>1, <2>1, <2>2, Zenon DEF IInv, TypeOK
<1>3. Layout'
  BY Zenon, <1>1, LayoutStays DEF IInv
<1>4. RolesApart'
  BY Zenon, <1>1 DEF IInv, RolesApart, Active, Listed
<1>5. Control'
  BY Zenon, <1>1 DEF IInv, Control
<1> QED BY Zenon, <1>2, <1>3, <1>4, <1>5 DEF IInv

(* The pass goes on with the next smaller bucket, or ends. *)
LEMMA NextBucketType ==
  ASSUME i \in Buckets, now \in Nat, NextBucket
  PROVE  /\ scav' \in {"wait", "scan"} /\ i' \in 0 .. MAX_PAGE_NUM /\ now' \in Nat
         /\ scav' = "scan" => i' \in Buckets
BY SMTT(30), PageAssumption DEF NextBucket, Buckets

(***************************************************************************)
(* The idle spans leave their list and become the scavenger's: used, so    *)
(* that coalescing leaves them alone.                                      *)
(***************************************************************************)
LEMMA DetachInv ==
  ASSUME IInv, Detach
  PROVE  IInv'
<1> USE PageAssumption
<1> DEFINE idle == {s \in span_lists[i] : Idle(s)}
<1>1. /\ scav = "scan" /\ op = "free" /\ cur = None /\ held = {} /\ i \in Buckets
      /\ \A s \in SpanIds : s # cur
  BY Zenon, CurNone DEF Detach, IInv, Control
<1>2. /\ span_lists' = [span_lists EXCEPT ![i] = @ \ idle]
      /\ used' = [s \in SpanIds |-> s \in idle \/ used[s]]
      /\ held' = idle /\ todo' = idle
      /\ UNCHANGED <<start, num, committed, last_used, pool, page_map, mapped, live,
                     op, req, cur, stop, clock>>
  BY Zenon DEF Detach, mutex
<1>3. \/ idle = {} /\ NextBucket
      \/ scav' = "advise" /\ UNCHANGED <<i, now>>
  BY Zenon DEF Detach
<1>4. idle \subseteq span_lists[i] /\ idle \subseteq SpanIds
  BY Zenon, <1>1 DEF IInv, TypeOK
<1> HIDE DEF idle
<1>5. /\ scav' \in {"wait", "scan", "advise"} /\ i' \in 0 .. MAX_PAGE_NUM /\ now' \in Nat
      /\ scav' # "advise" => idle = {}
      /\ scav' \in {"scan", "advise"} => i' \in Buckets
      /\ idle # {} => i' = i
  <2>1. i \in 0 .. MAX_PAGE_NUM /\ now \in Nat
    BY Zenon DEF IInv, TypeOK
  <2>2. CASE idle = {} /\ NextBucket
    BY Zenon, <1>1, <2>1, <2>2, NextBucketType
  <2>3. CASE scav' = "advise" /\ UNCHANGED <<i, now>>
    BY Zenon, <1>1, <2>1, <2>3
  <2> QED BY Zenon, <1>3, <2>2, <2>3
<1>6. TypeOK'
  <2>1. span_lists' \in [Buckets -> SUBSET SpanIds]
    BY Zenon, <1>1, <1>2 DEF IInv, TypeOK
  <2>2. used' \in [SpanIds -> BOOLEAN]
    BY Zenon, <1>2 DEF IInv, TypeOK
  <2> QED BY Zenon, <1>2, <1>4, <1>5, <2>1, <2>2 DEF IInv, TypeOK
<1>7. Layout'
  BY ZenonT(40), <1>1, <1>2, LayoutStays DEF IInv
<1>8. \A s \in idle : s \in SpanIds /\ num[s] = i /\ s \notin live /\ s \notin pool
  BY Zenon, <1>1, <1>4, RolesSplit DEF IInv, InOwnList, UsedElsewhere, Listed, Accounted, Active
<1>9. RolesApart'
  <2>1. /\ \A n \in Buckets : n # i => span_lists'[n] = span_lists[n]
        /\ span_lists'[i] = span_lists[i] \ idle
    BY Zenon, <1>1, <1>2 DEF IInv, TypeOK
  <2>2. \A s \in SpanIds, n \in Buckets :
          s \in span_lists'[n] <=> s \in span_lists[n] /\ s \notin idle
    <3>1. \A s \in idle, n \in Buckets : s \in span_lists[n] => n = i
      BY ZenonT(40), <1>8, RolesSplit DEF IInv, InOwnList
    <3> QED BY Zenon, <2>1, <3>1
  <2>3. \A s \in SpanIds : Listed(s)' <=> Listed(s) /\ s \notin idle
    BY <2>2, Zenon DEF Listed
  <2>4. \A s \in SpanIds : used'[s] <=> s \in idle \/ used[s]
    BY ZenonT(40), <1>2 DEF IInv, TypeOK
  <2>5. \A s \in idle : Listed(s)
    BY <1>1, <1>4, Zenon DEF Listed
  <2>6. Accounted'
    BY Zenon, <1>1, <1>2, <2>3, <2>5, RolesSplit DEF IInv, Accounted, Active
  <2>7. InOwnList'
    BY ZenonT(40), <1>2, <2>2, <2>4, RolesSplit DEF IInv, InOwnList
  <2>8. UsedElsewhere'
    BY Zenon, <1>1, <1>2, <2>3, <2>4, RolesSplit DEF IInv, UsedElsewhere
  <2>9. Distinct'
    BY ZenonT(40), <1>1, <1>2, <1>8, RolesSplit DEF IInv, TypeOK, Distinct
  <2> QED BY Zenon, <2>6, <2>7, <2>8, <2>9, RolesSplit
<1>10. Control'
  BY Zenon, <1>1, <1>2, <1>5, <1>8 DEF IInv, Control
<1> QED BY Zenon, <1>6, <1>7, <1>9, <1>10 DEF IInv

(* The detached spans are free again, in the list they came from. *)
LEMMA ReinsertInv ==
  ASSUME IInv, Reinsert
  PROVE  IInv'
<1> USE PageAssumption
<1>1. /\ scav = "advise" /\ op = "free" /\ cur = None /\ todo = {} /\ i \in Buckets
      /\ \A s \in SpanIds : s # cur
  BY Zenon, CurNone DEF Reinsert, IInv, Control
<1>2. /\ span_lists' = [span_lists EXCEPT ![i] = @ \cup held]
      /\ used' = [s \in SpanIds |-> s \notin held /\ used[s]]
      /\ last_used' = [s \in SpanIds |-> IF s \in held THEN clock ELSE last_used[s]]
      /\ held' = {} /\ NextBucket
      /\ UNCHANGED <<start, num, committed, pool, page_map, mapped, live,
                     op, req, cur, stop, todo, clock>>
  BY Zenon DEF Reinsert, mutex
<1>3. /\ scav' \in {"wait", "scan"} /\ i' \in 0 .. MAX_PAGE_NUM /\ now' \in Nat
      /\ scav' = "scan" => i' \in Buckets
  BY Zenon, <1>1, <1>2, NextBucketType DEF IInv, TypeOK
<1>4. TypeOK'
  <2>1. span_lists' \in [Buckets -> SUBSET SpanIds]
    BY Zenon, <1>1, <1>2 DEF IInv, TypeOK
  <2>2. used' \in [SpanIds -> BOOLEAN] /\ last_used' \in [SpanIds -> Nat]
    BY Zenon, <1>2 DEF IInv, TypeOK
  <2>3. held' \in SUBSET SpanIds /\ todo' \in SUBSET held'
    BY Zenon, <1>1, <1>2
  <2> QED BY Zenon, <1>2, <1>3, <2>1, <2>2, <2>3 DEF IInv, TypeOK
<1>5. Layout'
  BY ZenonT(40), <1>1, <1>2, LayoutStays DEF IInv
<1>6. \A s \in held : s \in SpanIds /\ num[s] = i /\ s \notin live /\ ~Listed(s)
  BY ZenonT(40), RolesSplit DEF IInv, TypeOK, Control, UsedElsewhere, Distinct
<1>7. RolesApart'
  <2>1. /\ \A n \in Buckets : n # i => span_lists'[n] = span_lists[n]
        /\ span_lists'[i] = span_lists[i] \cup held
    BY Zenon, <1>1, <1>2 DEF IInv, TypeOK
  <2>2. \A s \in SpanIds, n \in Buckets :
          s \in span_lists'[n] <=> s \in span_lists[n] \/ (s \in held /\ n = i)
    BY Zenon, <2>1
  <2>3. \A s \in SpanIds : Listed(s)' <=> Listed(s) \/ s \in held
    BY <1>1, <2>2, Zenon DEF Listed
  <2>4. \A s \in SpanIds : used'[s] <=> s \notin held /\ used[s]
    BY ZenonT(40), <1>2 DEF IInv, TypeOK
  <2>5. Accounted'
    BY Zenon, <1>1, <1>2, <2>3, RolesSplit DEF IInv, Accounted, Active
  <2>6. InOwnList'
    <3>1. ASSUME NEW r \in SpanIds, NEW n \in Buckets, r \in span_lists'[n]
          PROVE  num'[r] = n /\ ~used'[r]
      <4>1. num'[r] = num[r]
        BY <1>2, Zenon
      <4>2. CASE r \in span_lists[n]
        BY <2>4, <4>1, <4>2, RolesSplit, Zenon DEF IInv, InOwnList
      <4>3. CASE r \in held /\ n = i
        BY <1>6, <2>4, <4>1, <4>3, Zenon
      <4> QED BY <2>2, <3>1, <4>2, <4>3, Zenon
    <3> QED BY <3>1, Zenon DEF InOwnList
  <2>7. UsedElsewhere'
    BY Zenon, <1>1, <1>2, <1>6, <2>3, <2>4, RolesSplit DEF IInv, UsedElsewhere
  <2>8. Distinct'
    BY Zenon, <1>1, <1>2, RolesSplit DEF IInv, TypeOK, Distinct
  <2> QED BY Zenon, <2>5, <2>6, <2>7, <2>8, RolesSplit
<1>8. Control'
  BY Zenon, <1>1, <1>2, <1>3 DEF IInv, Control
<1> QED BY Zenon, <1>4, <1>5, <1>7, <1>8 DEF IInv

-----------------------------------------------------------------------------
(***************************************************************************)
(* The theorems.                                                           *)
(***************************************************************************)

(* Each step of a caller or of the scavenger preserves the invariant. *)
LEMMA StepInv ==
  ASSUME IInv, ~NodeAllocFails, [Next]_vars
  PROVE  IInv'
<1>1. CASE UNCHANGED vars
  <2>1. TypeOK'
    BY Zenon, <1>1 DEF IInv, TypeOK, vars, cache, meta, mutex, scavenger
  <2>2. Control'
    BY Zenon, <1>1 DEF IInv, Control, vars, cache, meta, mutex, scavenger
  <2> QED BY Zenon, <1>1, <2>1, <2>2, IdleInv DEF vars, mutex, scavenger
<1>2. CASE \E n \in 1 .. MaxRequest : CallAlloc(n)
  BY Zenon, <1>2, CallAllocInv
<1>3. CASE AllocStep
  BY Zenon, <1>3, AllocOversizedInv, RefillInv, AllocExactInv, AllocSplitInv, AllocNullInv DEF AllocStep
<1>4. CASE \E s \in SpanIds : ReleaseOversized(s) \/ CallRelease(s)
  BY Zenon, <1>4, ReleaseOversizedInv, CallReleaseInv
<1>5. CASE ReleaseStep
  BY Zenon, <1>5, MergeLeftInv, LeftDoneInv, MergeRightInv, ReleaseDoneInv DEF ReleaseStep
<1>6. CASE Reset \/ Start \/ Stop \/ Tick
  BY Zenon, <1>6, ResetInv, StartInv, StopInv, TickInv
<1>7. CASE ScavengeStep
  BY Zenon, <1>7, WakeInv, DetachInv, AdviseInv, ReinsertInv DEF ScavengeStep
<1> QED BY Zenon, <1>1, <1>2, <1>3, <1>4, <1>5, <1>6, <1>7 DEF Next

(***************************************************************************)
(* The inductive invariant holds of page_cache.cpp and the scavenger as    *)
(* long as SetSpan finds its radix nodes.                                  *)
(***************************************************************************)
THEOREM Invariance ==
  ASSUME ~NodeAllocFails
  PROVE  Spec => []IInv
<1>1. Init => IInv
  BY Zenon, InitInv
<1>2. IInv /\ [Next]_vars => IInv'
  BY Zenon, StepInv
<1> QED BY <1>1, <1>2, PTL DEF Spec

(* The layout in terms of the roles of the spans. *)
LEMMA OwnedOnce == IInv => PagesOwnedOnce
<1> SUFFICES ASSUME IInv PROVE PagesOwnedOnce
  OBVIOUS
<1>1. \A s \in SpanIds : Active(s) <=> s \in Taken
  BY Zenon DEF IInv, RolesApart, Taken
<1>2. ASSUME NEW s \in SpanIds, NEW r \in SpanIds, Active(s), Active(r), s # r
      PROVE  PagesOf(s) \cap PagesOf(r) = {}
  <2>1. \A p \in PagesOf(s) : p \notin PagesOf(r)
    BY Zenon, <1>1, <1>2, NoCommonPage DEF IInv, Layout
  <2> QED BY Zenon, <2>1
<1>3. ASSUME NEW p \in mapped
      PROVE  p \in UNION {PagesOf(s) : s \in {r \in SpanIds : Active(r)}}
  <2>1. PICK s \in Taken : p \in PagesOf(s)
    BY Zenon DEF IInv, Layout, Covered
  <2>2. s \in {r \in SpanIds : Active(r)}
    BY Zenon, <1>1 DEF Taken
  <2> QED BY Zenon, <2>1, <2>2
<1>4. ASSUME NEW p \in UNION {PagesOf(s) : s \in {r \in SpanIds : Active(r)}}
      PROVE  p \in mapped
  <2>1. PICK s \in SpanIds : Active(s) /\ p \in PagesOf(s)
    OBVIOUS
  <2> QED BY Zenon, <1>1, <2>1 DEF IInv, Layout, Inside
<1>5. mapped = UNION {PagesOf(s) : s \in {r \in SpanIds : Active(r)}}
  BY Zenon, <1>3, <1>4
<1> QED BY Zenon, <1>2, <1>5 DEF PagesOwnedOnce

(***************************************************************************)
(* Every mapped page belongs to exactly one span, for all sizes and all    *)
(* interleavings of AllocSpan, ReleaseSpan, Reset and the scavenger: no    *)
(* two callers share a page, and splitting and coalescing lose none.       *)
(***************************************************************************)
THEOREM PagesHaveOneOwner ==
  ASSUME ~NodeAllocFails
  PROVE  Spec => []PagesOwnedOnce
BY Invariance, OwnedOnce, PTL

(***************************************************************************)
(* PageMap::GetSpan finds the span of every page of a caller, of a free    *)
(* list and of the scavenger, and nothing for a page given back.           *)
(***************************************************************************)
THEOREM PageMapIsExact ==
  ASSUME ~NodeAllocFails
  PROVE  Spec => []MapExact
<1>1. IInv => MapExact
  BY Zenon DEF IInv, RolesApart, Layout, Found, Blank, Taken, MapExact
<1> QED BY <1>1, Invariance, PTL

(***************************************************************************)
(* A span has one role at a time, and its used flag tells coalescing which *)
(* neighbours it may take: the cached ones and no others.                  *)
(***************************************************************************)
THEOREM RolesStayApart ==
  ASSUME ~NodeAllocFails
  PROVE  Spec => []RolesApart
<1>1. IInv => RolesApart
  BY Zenon DEF IInv
<1> QED BY <1>1, Invariance, PTL

-----------------------------------------------------------------------------
(***************************************************************************)
(* PageCache implements PageRanges.                                        *)
(***************************************************************************)
InUse == {<<start[s], num[s]>> : s \in live}

(* The spans of the callers keep their ranges. *)
Steady == \A s \in live \cap live' : start'[s] = start[s] /\ num'[s] = num[s]

LEMMA RangesStay ==
  ASSUME Steady, live' = live
  PROVE  InUse' = InUse
BY Zenon DEF Steady, InUse

LEMMA RangesAlloc ==
  ASSUME IInv, IInv', Steady, NEW s \in SpanIds, s \notin live, live' = live \cup {s}
  PROVE  Ranges!Next
<1> DEFINE r == <<start'[s], num'[s]>>
<1>1. /\ s \in Taken' /\ \A t \in live : t \in Taken' /\ t # s
  BY SMTT(30) DEF IInv, TypeOK, RolesApart, Active, Taken
<1>2. /\ start'[s] \in Nat /\ num'[s] \in Nat /\ num'[s] >= 1
      /\ \A p \in Run(start'[s], num'[s]) : p \in 1 .. LastPage
  BY Zenon, <1>1 DEF IInv, TypeOK, Taken, Layout, NonEmpty, Inside, PagesOf, Pages
<1>3. start'[s] \in 1 .. LastPage /\ num'[s] \in 1 .. LastPage
  <2>1. LastPage \in Nat
    BY Zenon, PageAssumption
  <2> QED BY <1>2, <2>1, RunBounds, Zenon
<1>4. Ranges!Range(r) = Run(start'[s], num'[s])
  BY Zenon DEF Ranges!Range, Run
<1>5. ASSUME NEW q \in InUse PROVE Ranges!Range(q) \cap Ranges!Range(r) = {}
  <2>1. PICK t \in live : q = <<start[t], num[t]>>
    BY Zenon DEF InUse
  <2>2. Ranges!Range(q) = PagesOf(t)'
    BY Zenon, <2>1 DEF Ranges!Range, Run, PagesOf, Steady
  <2>3. \A p \in PagesOf(t)' : p \notin PagesOf(s)'
    <3>1. /\ start'[t] \in Nat /\ num'[t] \in Nat
          /\ (start'[t] + num'[t] <= start'[s] \/ start'[s] + num'[s] <= start'[t])
      BY Zenon, <1>1 DEF IInv, TypeOK, Taken, Layout, Apart
    <3> QED BY SMTT(30), <1>2, <3>1 DEF PagesOf, Run
  <2> QED BY Zenon, <1>4, <2>2, <2>3 DEF PagesOf
<1>6. InUse' = InUse \cup {r}
  BY Zenon DEF InUse, Steady
<1>7. Ranges!Alloc(r)
  BY Zenon, <1>2, <1>4, <1>5, <1>6 DEF Ranges!Alloc, Ranges!Pages, InUse
<1>8. r \in Ranges!Pages \X Ranges!Pages
  BY <1>3, Zenon DEF Ranges!Pages
<1> HIDE DEF r
<1> QED BY <1>7, <1>8, Zenon DEF Ranges!Next, Ranges!Alloc, Ranges!Release

LEMMA RangesRelease ==
  ASSUME IInv, Steady, NEW s \in live, live' = live \ {s}
  PROVE  Ranges!Next
<1> DEFINE r == <<start[s], num[s]>>
<1>1. \A t \in live : t \in Taken
  BY Zenon DEF IInv, TypeOK, RolesApart, Active, Taken
<1>2. /\ start[s] \in Nat /\ num[s] \in Nat /\ num[s] >= 1
      /\ \A p \in Run(start[s], num[s]) : p \in 1 .. LastPage
  BY Zenon, <1>1 DEF IInv, TypeOK, Taken, Layout, NonEmpty, Inside, PagesOf, Pages
<1>3. start[s] \in 1 .. LastPage /\ num[s] \in 1 .. LastPage
  <2>1. LastPage \in Nat
    BY Zenon, PageAssumption
  <2> QED BY <1>2, <2>1, RunBounds, Zenon
<1>4. ASSUME NEW t \in live, t # s PROVE start[t] # start[s]
  <2>1. start[s] + num[s] <= start[t] \/ start[t] + num[t] <= start[s]
    BY Zenon, <1>1, <1>4 DEF IInv, Layout, Apart
  <2>2. start[t] \in Nat /\ num[t] \in Nat /\ num[t] >= 1
    BY Zenon, <1>1 DEF IInv, TypeOK, Taken, Layout, NonEmpty
  <2> QED BY <1>2, <2>1, <2>2
<1>5. InUse' = {<<start[t], num[t]>> : t \in live \ {s}}
  BY Zenon DEF InUse, Steady
<1>6. InUse' = InUse \ {r} /\ r \in InUse
  BY SMTT(30), <1>4, <1>5 DEF InUse
<1>7. Ranges!Release(r)
  BY Zenon, <1>6 DEF Ranges!Release, InUse
<1>8. r \in Ranges!Pages \X Ranges!Pages
  BY <1>3, Zenon DEF Ranges!Pages
<1> HIDE DEF r
<1> QED BY <1>7, <1>8, Zenon DEF Ranges!Next, Ranges!Alloc, Ranges!Release

(* The steps that give a caller a span. *)
LEMMA AllocRanges ==
  ASSUME IInv, IInv', ~NodeAllocFails, AllocStep
  PROVE  Ranges!Next \/ InUse' = InUse
<1>1. \A t \in live : t \in SpanIds /\ t \notin pool /\ ~Listed(t)
  BY Zenon, RolesSplit DEF IInv, TypeOK, UsedElsewhere, Accounted, Active
<1>2. ASSUME NEW s \in SpanIds, NEW first \in Pages, AllocOversized(s, first)
      PROVE  Ranges!Next
  <2>1. s \in pool /\ live' = live \cup {s}
    BY ZenonT(40), <1>2, PublishesAll DEF AllocOversized
  <2>2. start' = [start EXCEPT ![s] = first] /\ num' = [num EXCEPT ![s] = req]
    BY Zenon, <1>2 DEF AllocOversized
  <2>3. Steady
    BY <1>1, <2>1, <2>2 DEF IInv, TypeOK, Steady
  <2> QED BY Zenon, <1>1, <2>1, <2>3, RangesAlloc
<1>3. ASSUME NEW s \in SpanIds, NEW first \in Pages, Refill(s, first)
      PROVE  InUse' = InUse
  <2>1. s \in pool /\ live' = live
    BY Zenon, <1>3 DEF Refill
  <2>2. start' = [start EXCEPT ![s] = first] /\ num' = [num EXCEPT ![s] = MAX_PAGE_NUM]
    BY Zenon, <1>3 DEF Refill
  <2>3. Steady
    BY ZenonT(40), <1>1, <2>1, <2>2 DEF IInv, TypeOK, Steady
  <2> QED BY Zenon, <2>1, <2>3, RangesStay
<1>4. ASSUME NEW s \in SpanIds, AllocExact(s)
      PROVE  Ranges!Next
  <2>1. req \in Buckets /\ s \in span_lists[req] /\ live' = live \cup {s}
    BY Zenon, <1>4 DEF AllocExact
  <2>2. s \notin live
    BY Zenon, <1>1, <2>1 DEF Listed
  <2>3. Steady
    BY Zenon, <1>4 DEF AllocExact, Steady
  <2> QED BY Zenon, <2>1, <2>2, <2>3, RangesAlloc
<1>5. ASSUME NEW s \in SpanIds, NEW big \in SpanIds, NEW n \in Buckets, AllocSplit(s, n, big)
      PROVE  Ranges!Next
  <2>1. s \in pool /\ big \in span_lists[n]
    BY Zenon, <1>5 DEF AllocSplit
  <2>2. live' = live \cup {s}
    BY SMTT(30), <1>5, PublishesAll DEF AllocSplit
  <2>3. /\ start' = [start EXCEPT ![s] = start[big], ![big] = @ + req]
        /\ num' = [num EXCEPT ![s] = req, ![big] = @ - req]
    BY Zenon, <1>5 DEF AllocSplit
  <2>4. s \notin live /\ big \notin live
    BY Zenon, <1>1, <2>1 DEF Listed
  <2>5. Steady
    BY Zenon, <1>1, <2>2, <2>3, <2>4 DEF IInv, TypeOK, Steady
  <2> QED BY Zenon, <2>2, <2>4, <2>5, RangesAlloc
<1>6. ASSUME AllocNull
      PROVE  InUse' = InUse
  BY Zenon, <1>6, RangesStay DEF AllocNull, cache, meta, Steady
<1> QED BY Zenon, <1>2, <1>3, <1>4, <1>5, <1>6 DEF AllocStep

(* The steps of ReleaseSpan after the caller has given its span up. *)
LEMMA ReleaseRanges ==
  ASSUME IInv, ReleaseStep
  PROVE  InUse' = InUse
<1>1. /\ \A t \in live : t \in SpanIds /\ used[t] /\ t # cur
  BY Zenon, RolesSplit DEF IInv, TypeOK, UsedElsewhere, Distinct
<1>2. ASSUME NEW s, s \notin live, NEW a, Absorb(s, a)
      PROVE  InUse' = InUse
  <2>1. live' = live
    BY Zenon, <1>2 DEF Absorb
  <2>2. /\ start' = [[start EXCEPT ![cur] = a] EXCEPT ![s] = 0]
        /\ num' = [[num EXCEPT ![cur] = @ + num[s]] EXCEPT ![s] = 0]
    BY Zenon, <1>2 DEF Absorb, Delete
  <2>3. Steady
    BY Zenon, <1>1, <1>2, <2>1, <2>2 DEF IInv, TypeOK, Steady
  <2> QED BY Zenon, <2>1, <2>3, RangesStay
<1>3. CASE MergeLeft
  BY Zenon, <1>1, <1>2, <1>3 DEF MergeLeft, Mergeable
<1>4. CASE MergeRight
  BY Zenon, <1>1, <1>2, <1>4 DEF MergeRight, Mergeable
<1>5. CASE LeftDone \/ ReleaseDone
  BY Zenon, <1>5, RangesStay DEF LeftDone, ReleaseDone, cache, meta, Steady
<1> QED BY Zenon, <1>3, <1>4, <1>5 DEF ReleaseStep

(* A caller gives its span up. *)
LEMMA CallReleaseRanges ==
  ASSUME IInv, NEW s \in SpanIds, ReleaseOversized(s) \/ CallRelease(s)
  PROVE  Ranges!Next
<1>1. s \in live /\ live' = live \ {s}
  BY Zenon DEF ReleaseOversized, CallRelease
<1>2. Steady
  <2>1. CASE ReleaseOversized(s)
    <3>1. start' = [start EXCEPT ![s] = 0] /\ num' = [num EXCEPT ![s] = 0]
      BY Zenon, <2>1 DEF ReleaseOversized, Delete
    <3> QED BY Zenon, <1>1, <3>1 DEF IInv, TypeOK, Steady
  <2>2. CASE CallRelease(s)
    BY Zenon, <2>2 DEF CallRelease, meta, Steady
  <2> QED BY Zenon, <2>1, <2>2
<1> QED BY Zenon, <1>1, <1>2, RangesRelease

(* Every step allocates or releases one range of PageRanges, or none. *)
LEMMA StepRanges ==
  ASSUME IInv, IInv', ~NodeAllocFails, [Next]_vars
  PROVE  Ranges!Next \/ InUse' = InUse
<1>1. CASE AllocStep
  BY Zenon, <1>1, AllocRanges
<1>2. CASE \E s \in SpanIds : ReleaseOversized(s) \/ CallRelease(s)
  BY Zenon, <1>2, CallReleaseRanges
<1>3. CASE ReleaseStep
  BY Zenon, <1>3, ReleaseRanges
<1>4. CASE Reset
  <2>1. live = {} /\ live' = {}
    BY Zenon, <1>4 DEF Reset
  <2> QED BY Zenon, <2>1 DEF InUse
<1>5. CASE (\E n \in 1 .. MaxRequest : CallAlloc(n)) \/ Start \/ Stop \/ Tick \/ UNCHANGED vars
  <2>1. UNCHANGED cache
    BY Zenon, <1>5 DEF CallAlloc, Start, Stop, Tick, vars
  <2> QED BY Zenon, <2>1, RangesStay DEF cache, meta, Steady
<1>6. CASE ScavengeStep
  <2>1. UNCHANGED <<start, num, live>>
    BY Zenon, <1>6 DEF ScavengeStep, Wake, Detach, Advise, Reinsert, cache, meta
  <2> QED BY Zenon, <2>1, RangesStay DEF Steady
<1> QED BY Zenon, <1>1, <1>2, <1>3, <1>4, <1>5, <1>6 DEF Next

(***************************************************************************)
(* AllocSpan and ReleaseSpan implement the allocation of ranges that do    *)
(* not overlap: every behaviour of page_cache.cpp and the scavenger, seen  *)
(* through the ranges the callers have, is one of PageRanges.              *)
(***************************************************************************)
THEOREM RefinesRanges ==
  ASSUME ~NodeAllocFails
  PROVE  Spec => ImplementsRanges
<1>1. Init => Ranges!Init
  BY Zenon DEF Init, Ranges!Init
<1>2. IInv /\ IInv' /\ [Next]_vars => [Ranges!Next]_InUse
  BY Zenon, StepRanges
<1>3. IInv /\ IInv' /\ [Next]_vars => [Ranges!Next]_{<<start[s], num[s]>> : s \in live}
  BY Zenon, <1>2 DEF InUse
<1> QED BY <1>1, <1>3, Invariance, PTL DEF Spec, ImplementsRanges, Ranges!Spec

=============================================================================
