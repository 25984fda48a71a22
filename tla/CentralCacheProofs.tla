------------------------- MODULE CentralCacheProofs -------------------------
(***************************************************************************)
(* For any number of threads and spans, any batch size and any             *)
(* TransferCache capacity: every object of a bucket has one owner, and     *)
(* PageCache only gets spans whose objects are all free.  The last part    *)
(* adds the thread caches and the program.                                 *)
(***************************************************************************)
EXTENDS SmallObjects, FiniteSetTheorems, TLAPS

(* Who holds span_list_lock. *)
LockHeld == \A t \in Threads : pc[t] \in {"outer", "take", "free"} <=> lock = t

(* The local arrays and chains that are empty at each point of the code. *)
Locals ==
  \A t \in Threads :
    /\ pc[t] \in {"idle", "grab"} => got[t] = {}
    /\ pc[t] \in {"idle", "grab", "absorb", "rlock", "free", "page", "ret"} => pre[t] = {}
    /\ pc[t] \notin {"absorb", "rlock", "free", "page"} => rel[t] = {}
    /\ pc[t] \notin {"rlock", "free", "page"} => chunk[t] = {}

(* The span a thread works on or carries. *)
Working ==
  \A t \in Threads :
    /\ pc[t] = "take" => span[t] \in Spans /\ InList(span[t], span_list)
    /\ pc[t] \in {"relock", "page"} => span[t] \in Spans

(* Only a span that FetchRange is about to use may be listed unused. *)
Fresh ==
  /\ \A t \in Threads : pc[t] \in {"alloc", "relock"} => ~Extracted(t)
  /\ \A s \in Spans :
       InList(s, span_list) /\ free[s] = Slots =>
         \E t \in Threads : pc[t] = "take" /\ span[t] = s /\ ~Extracted(t)

IInv ==
  /\ TypeOK
  /\ LockHeld
  /\ Locals
  /\ Working
  /\ OwnedOnce
  /\ ReleasedSpansUnused
  /\ NoDup(span_list)
  /\ Fresh

-----------------------------------------------------------------------------
(* SpanList: what erase and the two pushes do to the members. *)
LEMMA EraseFacts ==
  ASSUME NEW L \in Seq(Spans), NoDup(L), NEW s \in Spans, InList(s, L)
  PROVE  /\ Erase(L, s) \in Seq(Spans)
         /\ NoDup(Erase(L, s))
         /\ \A x \in Spans : InList(x, Erase(L, s)) <=> InList(x, L) /\ x # s
  <1> DEFINE k == CHOOSE i \in 1 .. Len(L) : L[i] = s
             E == Erase(L, s)
  <1>1. k \in 1 .. Len(L) /\ L[k] = s
    BY Zenon DEF InList
  <1>2. Len(L) \in Nat /\ Len(L) >= 1
    BY <1>1
  <1>3. E = [i \in 1 .. (Len(L) - 1) |-> IF i < k THEN L[i] ELSE L[i + 1]]
    BY Zenon DEF Erase
  <1> HIDE DEF k, E
  <1>4. E \in Seq(Spans) /\ Len(E) = Len(L) - 1
    <2>1. \A i \in 1 .. (Len(L) - 1) : (IF i < k THEN L[i] ELSE L[i + 1]) \in Spans
      BY <1>2
    <2> QED BY <1>2, <1>3, <2>1
  <1>5. \A i \in 1 .. Len(E) : E[i] = IF i < k THEN L[i] ELSE L[i + 1]
    BY Zenon, <1>3, <1>4
  <1>6. NoDup(E)
    BY <1>1, <1>2, <1>4, <1>5, SMTT(40) DEF NoDup
  <1>7. ASSUME NEW x \in Spans, InList(x, E) PROVE InList(x, L) /\ x # s
    <2>1. PICK i \in 1 .. Len(E) : E[i] = x
      BY Zenon, <1>7 DEF InList
    <2>2. CASE i < k
      BY <2>1, <2>2, <1>1, <1>2, <1>4, <1>5 DEF InList, NoDup
    <2>3. CASE ~(i < k)
      <3>1. i + 1 \in 1 .. Len(L) /\ x = L[i + 1] /\ i + 1 # k
        BY SMTT(30), <2>1, <2>3, <1>1, <1>2, <1>4, <1>5
      <3> QED BY Zenon, <3>1, <1>1 DEF InList, NoDup
    <2> QED BY Zenon, <2>2, <2>3
  <1>8. ASSUME NEW x \in Spans, InList(x, L), x # s PROVE InList(x, E)
    <2>1. PICK i \in 1 .. Len(L) : L[i] = x
      BY Zenon, <1>8 DEF InList
    <2>2. CASE i < k
      <3>1. i \in 1 .. Len(E) /\ E[i] = x
        BY <2>1, <2>2, <1>1, <1>2, <1>4, <1>5
      <3> QED BY Zenon, <3>1 DEF InList
    <2>3. CASE ~(i < k)
      <3>1. i # k
        BY Zenon, <2>1, <1>1, <1>8
      <3>2. i - 1 \in 1 .. Len(E) /\ ~(i - 1 < k)
        BY <3>1, <2>3, <1>1, <1>2, <1>4
      <3>3. E[i - 1] = x
        BY <3>2, <2>1, <1>5
      <3> QED BY Zenon, <3>2, <3>3 DEF InList
    <2> QED BY Zenon, <2>2, <2>3
  <1> QED BY Zenon, <1>4, <1>6, <1>7, <1>8 DEF E

LEMMA PushFacts ==
  ASSUME NEW L \in Seq(Spans), NoDup(L), NEW s \in Spans, ~InList(s, L)
  PROVE  /\ PushFront(L, s) \in Seq(Spans) /\ NoDup(PushFront(L, s))
         /\ PushBack(L, s) \in Seq(Spans) /\ NoDup(PushBack(L, s))
         /\ \A x \in Spans : InList(x, PushFront(L, s)) <=> InList(x, L) \/ x = s
         /\ \A x \in Spans : InList(x, PushBack(L, s)) <=> InList(x, L) \/ x = s
  <1> DEFINE F == PushFront(L, s)
             B == PushBack(L, s)
             n == Len(L)
  <1>1. n \in Nat
    OBVIOUS
  <1>2. F \in Seq(Spans) /\ Len(F) = n + 1 /\ F[1] = s
        /\ \A i \in 1 .. n : F[i + 1] = L[i]
    BY DEF PushFront
  <1>3. B \in Seq(Spans) /\ Len(B) = n + 1 /\ B[n + 1] = s
        /\ \A i \in 1 .. n : B[i] = L[i]
    BY DEF PushBack
  <1> HIDE DEF F, B
  <1>4. \A i \in 1 .. n : L[i] # s
    BY Zenon DEF InList
  <1>5. \A i \in 1 .. (n + 1) : i = 1 \/ (i - 1 \in 1 .. n /\ F[i] = L[i - 1])
    BY <1>1, <1>2
  <1>6. \A i \in 1 .. (n + 1) : i = n + 1 \/ (i \in 1 .. n /\ B[i] = L[i])
    BY <1>1, <1>3
  <1>7. NoDup(F)
    <2> SUFFICES ASSUME NEW i \in 1 .. (n + 1), NEW j \in 1 .. (n + 1), F[i] = F[j]
                 PROVE  i = j
      BY Zenon, <1>2 DEF NoDup
    <2>1. \A a, b \in 1 .. n : L[a] = L[b] => a = b
      BY Zenon DEF NoDup
    <2>2. CASE i = 1 \/ j = 1
      BY Zenon, <2>2, <1>1, <1>2, <1>4, <1>5
    <2>3. CASE i # 1 /\ j # 1
      <3>1. i - 1 \in 1 .. n /\ j - 1 \in 1 .. n /\ L[i - 1] = L[j - 1]
        BY Zenon, <2>3, <1>5
      <3> QED BY <3>1, <2>1
    <2> QED BY Zenon, <2>2, <2>3
  <1>8. NoDup(B)
    <2> SUFFICES ASSUME NEW i \in 1 .. (n + 1), NEW j \in 1 .. (n + 1), B[i] = B[j]
                 PROVE  i = j
      BY Zenon, <1>3 DEF NoDup
    <2>1. \A a, b \in 1 .. n : L[a] = L[b] => a = b
      BY Zenon DEF NoDup
    <2> QED BY Zenon, <2>1, <1>1, <1>3, <1>4, <1>6
  <1>9. ASSUME NEW x \in Spans PROVE InList(x, F) <=> InList(x, L) \/ x = s
    <2>1. InList(x, F) => InList(x, L) \/ x = s
      BY <1>1, <1>2, <1>5 DEF InList
    <2>2. x = s => InList(x, F)
      BY <1>1, <1>2 DEF InList
    <2>3. ASSUME NEW i \in 1 .. n, L[i] = x PROVE InList(x, F)
      <3>1. i + 1 \in 1 .. Len(F) /\ F[i + 1] = x
        BY SMTT(30), <2>3, <1>1, <1>2
      <3> QED BY Zenon, <3>1 DEF InList
    <2> QED BY Zenon, <2>1, <2>2, <2>3 DEF InList
  <1>10. ASSUME NEW x \in Spans PROVE InList(x, B) <=> InList(x, L) \/ x = s
    <2>1. InList(x, B) => InList(x, L) \/ x = s
      BY Zenon, <1>1, <1>3, <1>6 DEF InList
    <2>2. x = s => InList(x, B)
      BY <1>1, <1>3 DEF InList
    <2>3. ASSUME NEW i \in 1 .. n, L[i] = x PROVE InList(x, B)
      <3>1. i \in 1 .. Len(B) /\ B[i] = x
        BY SMTT(30), <2>3, <1>1, <1>3
      <3> QED BY Zenon, <3>1 DEF InList
    <2> QED BY Zenon, <2>1, <2>2, <2>3 DEF InList
  <1> QED BY Zenon, <1>2, <1>3, <1>7, <1>8, <1>9, <1>10 DEF F, B

-----------------------------------------------------------------------------
(* The shared places and the hands of thread t, and that object o is in at *)
(* most one of them.                                                       *)
Reach(t, o) == IsFree(o) \/ o \in tc \/ o \in out \/ InHand(t, o)

AtMostOne(t, o) ==
  /\ IsFree(o) => o \notin tc /\ o \notin out /\ ~InHand(t, o)
  /\ o \in tc => o \notin out /\ ~InHand(t, o)
  /\ o \in out => ~InHand(t, o)
  /\ o \in got[t] => o \notin pre[t] /\ o \notin rel[t] /\ o \notin chunk[t]
  /\ o \in pre[t] => o \notin rel[t] /\ o \notin chunk[t]
  /\ o \in rel[t] => o \notin chunk[t]

LEMMA OnePlace ==
  ASSUME OwnedOnce, NEW t \in Threads, NEW o \in Objects
  PROVE  AtMostOne(t, o)
  BY Zenon DEF OwnedOnce, AtMostOne, InHand

(* A step of thread t that only moves objects between the places it can    *)
(* reach keeps every object in one place.                                  *)
LEMMA Transfer ==
  ASSUME OwnedOnce, NEW t \in Threads,
         \A u \in Threads \ {t} : /\ got'[u] = got[u] /\ pre'[u] = pre[u]
                                  /\ rel'[u] = rel[u] /\ chunk'[u] = chunk[u],
         \A o \in Objects : Reach(t, o)' <=> Reach(t, o),
         \A o \in Objects : AtMostOne(t, o)'
  PROVE  OwnedOnce'
  <1> SUFFICES ASSUME NEW o \in Objects
               PROVE
    (/\ o \in tc => ~IsFree(o) /\ o \notin out
     /\ o \in out => ~IsFree(o)
     /\ \A v \in Threads :
          /\ InHand(v, o) => ~IsFree(o) /\ o \notin tc /\ o \notin out
          /\ \A u \in Threads : InHand(v, o) /\ InHand(u, o) => u = v
          /\ o \in got[v] => o \notin pre[v] \cup rel[v] \cup chunk[v]
          /\ o \in pre[v] => o \notin rel[v] \cup chunk[v]
          /\ o \in rel[v] => o \notin chunk[v]
     /\ IsFree(o) \/ o \in tc \/ o \in out \/ \E v \in Threads : InHand(v, o))'
    BY Zenon DEF OwnedOnce
  <1>1. \A u \in Threads \ {t} : InHand(u, o)' <=> InHand(u, o)
    BY Zenon DEF InHand
  <1>2. AtMostOne(t, o)' /\ (Reach(t, o)' <=> Reach(t, o))
    OBVIOUS
  <1>3. \A u \in Threads \ {t} : InHand(u, o) => ~Reach(t, o)
    BY Zenon DEF OwnedOnce, Reach
  <1>4. \A u, v \in Threads \ {t} : InHand(u, o) /\ InHand(v, o) => u = v
    BY Zenon DEF OwnedOnce
  <1>5. \A u \in Threads \ {t} : InHand(u, o)' => ~Reach(t, o)'
    BY Zenon, <1>1, <1>2, <1>3
  <1>6. ASSUME NEW v \in Threads
        PROVE  (InHand(v, o) => ~IsFree(o) /\ o \notin tc /\ o \notin out)'
    <2>1. CASE v = t
      BY Zenon, <2>1, <1>2 DEF AtMostOne
    <2>2. CASE v # t
      BY Zenon, <2>2, <1>5 DEF Reach
    <2> QED BY Zenon, <2>1, <2>2
  <1>7. ASSUME NEW u \in Threads, NEW v \in Threads, InHand(u, o)', InHand(v, o)'
        PROVE  u = v
    <2>1. CASE u # t /\ v # t
      BY Zenon, <2>1, <1>1, <1>4, <1>7
    <2>2. CASE u = t /\ v # t
      BY Zenon, <2>2, <1>5, <1>7 DEF Reach
    <2>3. CASE v = t /\ u # t
      BY Zenon, <2>3, <1>5, <1>7 DEF Reach
    <2> QED BY Zenon, <2>1, <2>2, <2>3
  <1>8. ASSUME NEW v \in Threads
        PROVE  (/\ o \in got[v] => o \notin pre[v] \cup rel[v] \cup chunk[v]
                /\ o \in pre[v] => o \notin rel[v] \cup chunk[v]
                /\ o \in rel[v] => o \notin chunk[v])'
    <2>1. CASE v = t
      BY Zenon, <2>1, <1>2 DEF AtMostOne
    <2>2. CASE v # t
      BY Zenon, <2>2 DEF OwnedOnce
    <2> QED BY Zenon, <2>1, <2>2
  <1>9. (IsFree(o) \/ o \in tc \/ o \in out \/ \E v \in Threads : InHand(v, o))'
    <2>1. CASE Reach(t, o)
      BY Zenon, <2>1, <1>2 DEF Reach
    <2>2. CASE ~Reach(t, o)
      <3>1. PICK v \in Threads : InHand(v, o)
        BY Zenon, <2>2 DEF OwnedOnce, Reach
      <3>2. v # t
        BY Zenon, <3>1, <2>2 DEF Reach
      <3> QED BY Zenon, <3>1, <3>2, <1>1
    <2> QED BY Zenon, <2>1, <2>2
  <1>10. (o \in tc => ~IsFree(o) /\ o \notin out)' /\ (o \in out => ~IsFree(o))'
    BY Zenon, <1>2 DEF AtMostOne
  <1> QED BY Zenon, <1>6, <1>7, <1>8, <1>9, <1>10

(* Steps that leave the objects, or the spans, where they are. *)
LEMMA OwnedFrame ==
  ASSUME OwnedOnce, UNCHANGED <<tc, out, free, got, pre, rel, chunk>>
  PROVE  OwnedOnce'
  BY SMTT(30) DEF OwnedOnce, InHand, IsFree

LEMMA SpansFrame ==
  ASSUME ReleasedSpansUnused, UNCHANGED <<free, pool, span_list>>,
         \A u \in Threads, s \in Spans : Carries(u, s)' <=> Carries(u, s)
  PROVE  ReleasedSpansUnused'
  BY Zenon DEF ReleasedSpansUnused, InList

(* Thread t goes to label l and carries no span before or after. *)
LEMMA NotCarrying ==
  ASSUME TypeOK, NEW t \in Threads, NEW l, pc' = [pc EXCEPT ![t] = l],
         pc[t] \notin {"relock", "page"}, l \notin {"relock", "page"},
         \A u \in Threads \ {t} : span'[u] = span[u]
  PROVE  \A u \in Threads, s \in Spans : Carries(u, s)' <=> Carries(u, s)
  BY Zenon DEF Carries, TypeOK

LEMMA FreshFrame ==
  ASSUME Fresh, UNCHANGED <<span_list, free>>,
         \A u \in Threads :
           /\ pc'[u] \in {"alloc", "relock"} => ~Extracted(u)'
           /\ pc[u] = "take" /\ ~Extracted(u) =>
                pc'[u] = "take" /\ span'[u] = span[u] /\ ~Extracted(u)'
  PROVE  Fresh'
  BY DEF Fresh, InList

(* The same, for a step of thread t to label l. *)
LEMMA FreshStep ==
  ASSUME TypeOK, Fresh, NEW t \in Threads, NEW l, pc' = [pc EXCEPT ![t] = l],
         UNCHANGED <<span_list, free>>,
         \A u \in Threads \ {t} : /\ span'[u] = span[u] /\ got'[u] = got[u]
                                  /\ pre'[u] = pre[u] /\ want'[u] = want[u],
         pc[t] = "take" => Extracted(t),
         l \in {"alloc", "relock"} => ~Extracted(t)'
  PROVE  Fresh'
  <1>1. \A u \in Threads \ {t} : pc'[u] = pc[u] /\ (Extracted(u)' <=> Extracted(u))
    BY Zenon DEF TypeOK, Extracted
  <1>2. pc'[t] = l
    BY Zenon DEF TypeOK
  <1>3. ASSUME NEW u \in Threads
        PROVE  /\ pc'[u] \in {"alloc", "relock"} => ~Extracted(u)'
               /\ pc[u] = "take" /\ ~Extracted(u) =>
                    pc'[u] = "take" /\ span'[u] = span[u] /\ ~Extracted(u)'
    <2>1. CASE u = t
      BY Zenon, <2>1, <1>2
    <2>2. CASE u # t
      BY Zenon, <2>2, <1>1 DEF Fresh
    <2> QED BY Zenon, <2>1, <2>2
  <1> QED BY Zenon, <1>3, FreshFrame

-----------------------------------------------------------------------------
LEMMA InitInv == Init => IInv
  <1> SUFFICES ASSUME Init PROVE IInv
    OBVIOUS
  <1> USE BucketAssumption DEF Init
  <1>1. TypeOK
    <2>1. span_list \in Seq(Spans)
      OBVIOUS
    <2>2. want \in [Threads -> 0 .. Batch]
      OBVIOUS
    <2> QED BY Zenon, <2>1, <2>2 DEF TypeOK, Labels
  <1>2. LockHeld /\ Locals /\ Working /\ NoDup(span_list)
    BY DEF LockHeld, Locals, Working, NoDup
  <1>3. OwnedOnce
    BY ZenonT(40) DEF OwnedOnce, InHand, IsFree, Objects
  <1>4. ReleasedSpansUnused /\ Fresh
    BY DEF ReleasedSpansUnused, Carries, InList, Fresh
  <1> QED BY ZenonT(40), <1>1, <1>2, <1>3, <1>4 DEF IInv

LEMMA CallFetchInv ==
  ASSUME IInv, NEW t \in Threads, NEW n \in 1 .. Batch, CallFetch(t, n)
  PROVE  IInv'
  <1>0. /\ TypeOK /\ OwnedOnce /\ ReleasedSpansUnused /\ Fresh /\ NoDup(span_list)
        /\ LockHeld /\ Locals /\ Working
    BY Zenon DEF IInv
  <1> USE BucketAssumption DEF CallFetch, Goto, bucket
  <1>1. TypeOK'
    BY SMTT(30), <1>0 DEF TypeOK, Labels
  <1>2. LockHeld'
    BY Zenon, <1>0 DEF TypeOK, LockHeld
  <1>3. Locals'
    BY Zenon, <1>0 DEF TypeOK, Locals
  <1>4. Working'
    BY ZenonT(40), <1>0 DEF TypeOK, Working, LockHeld, InList
  <1>5. OwnedOnce'
    BY Zenon, <1>0, OwnedFrame
  <1>6. ReleasedSpansUnused'
    <2>1. \A u \in Threads, s \in Spans : Carries(u, s)' <=> Carries(u, s)
      BY ZenonT(40), <1>0, NotCarrying
    <2> QED BY Zenon, <1>0, <2>1, SpansFrame
  <1>7. NoDup(span_list)'
    BY Zenon, <1>0 DEF NoDup
  <1>8. Fresh'
    <2>1. \A u \in Threads \ {t} : want'[u] = want[u]
      BY Zenon, <1>0 DEF TypeOK
    <2> QED BY Zenon, <1>0, <2>1, FreshStep
  <1> QED BY ZenonT(40), <1>1, <1>2, <1>3, <1>4, <1>5, <1>6, <1>7, <1>8 DEF IInv

LEMMA LockInv ==
  ASSUME IInv, NEW t \in Threads, Lock(t)
  PROVE  IInv'
  <1>0. /\ TypeOK /\ OwnedOnce /\ ReleasedSpansUnused /\ Fresh /\ NoDup(span_list)
        /\ LockHeld /\ Locals /\ Working
    BY Zenon DEF IInv
  <1> USE BucketAssumption DEF Lock, Goto, bucket
  <1>1. TypeOK'
    BY Zenon, <1>0 DEF TypeOK, Labels
  <1>2. LockHeld'
    BY Zenon, <1>0 DEF TypeOK, LockHeld
  <1>3. Locals'
    BY Zenon, <1>0 DEF TypeOK, Locals
  <1>4. Working'
    BY Zenon, <1>0 DEF TypeOK, Working, LockHeld, InList
  <1>5. OwnedOnce'
    BY Zenon, <1>0, OwnedFrame
  <1>6. ReleasedSpansUnused'
    <2>1. \A u \in Threads, s \in Spans : Carries(u, s)' <=> Carries(u, s)
      BY ZenonT(40), <1>0, NotCarrying
    <2> QED BY Zenon, <1>0, <2>1, SpansFrame
  <1>7. NoDup(span_list)'
    BY Zenon, <1>0 DEF NoDup
  <1>8. Fresh'
    BY Zenon, <1>0, FreshStep
  <1> QED BY ZenonT(40), <1>1, <1>2, <1>3, <1>4, <1>5, <1>6, <1>7, <1>8 DEF IInv

LEMMA UnlockInv ==
  ASSUME IInv, NEW t \in Threads, Unlock(t)
  PROVE  IInv'
  <1>0. /\ TypeOK /\ OwnedOnce /\ ReleasedSpansUnused /\ Fresh /\ NoDup(span_list)
        /\ LockHeld /\ Locals /\ Working
    BY Zenon DEF IInv
  <1> USE BucketAssumption DEF Unlock, Goto, bucket
  <1>1. TypeOK'
    BY Zenon, <1>0 DEF TypeOK, Labels
  <1>2. LockHeld'
    BY Zenon, <1>0 DEF TypeOK, LockHeld
  <1>3. Locals'
    BY Zenon, <1>0 DEF TypeOK, Locals
  <1>4. Working'
    BY ZenonT(40), <1>0 DEF TypeOK, Working, LockHeld, InList
  <1>5. OwnedOnce'
    BY Zenon, <1>0, OwnedFrame
  <1>6. ReleasedSpansUnused'
    <2>1. \A u \in Threads, s \in Spans : Carries(u, s)' <=> Carries(u, s)
      <3>1. \A u \in Threads \ {t} : span'[u] = span[u]
        BY Zenon, <1>0 DEF TypeOK
      <3> QED BY ZenonT(40), <1>0, <3>1, NotCarrying
    <2> QED BY Zenon, <1>0, <2>1, SpansFrame
  <1>7. NoDup(span_list)'
    BY Zenon, <1>0 DEF NoDup
  <1>8. Fresh'
    <2>1. \A u \in Threads \ {t} : span'[u] = span[u]
      BY Zenon, <1>0 DEF TypeOK
    <2> QED BY Zenon, <1>0, <2>1, FreshStep
  <1> QED BY ZenonT(40), <1>1, <1>2, <1>3, <1>4, <1>5, <1>6, <1>7, <1>8 DEF IInv

LEMMA RLockInv ==
  ASSUME IInv, NEW t \in Threads, RLock(t)
  PROVE  IInv'
  <1>0. /\ TypeOK /\ OwnedOnce /\ ReleasedSpansUnused /\ Fresh /\ NoDup(span_list)
        /\ LockHeld /\ Locals /\ Working
    BY Zenon DEF IInv
  <1> USE BucketAssumption DEF RLock, Goto, bucket
  <1>1. TypeOK'
    BY Zenon, <1>0 DEF TypeOK, Labels
  <1>2. LockHeld'
    BY Zenon, <1>0 DEF TypeOK, LockHeld
  <1>3. Locals'
    BY Zenon, <1>0 DEF TypeOK, Locals
  <1>4. Working'
    BY Zenon, <1>0 DEF TypeOK, Working, LockHeld, InList
  <1>5. OwnedOnce'
    BY Zenon, <1>0, OwnedFrame
  <1>6. ReleasedSpansUnused'
    <2>1. \A u \in Threads, s \in Spans : Carries(u, s)' <=> Carries(u, s)
      BY ZenonT(40), <1>0, NotCarrying
    <2> QED BY Zenon, <1>0, <2>1, SpansFrame
  <1>7. NoDup(span_list)'
    BY Zenon, <1>0 DEF NoDup
  <1>8. Fresh'
    BY Zenon, <1>0, FreshStep
  <1> QED BY Zenon, <1>1, <1>2, <1>3, <1>4, <1>5, <1>6, <1>7, <1>8 DEF IInv

LEMMA RUnlockInv ==
  ASSUME IInv, NEW t \in Threads, RUnlock(t)
  PROVE  IInv'
  <1>0. /\ TypeOK /\ OwnedOnce /\ ReleasedSpansUnused /\ Fresh /\ NoDup(span_list)
        /\ LockHeld /\ Locals /\ Working
    BY Zenon DEF IInv
  <1> USE BucketAssumption DEF RUnlock, Goto, bucket
  <1>1. TypeOK'
    BY Zenon, <1>0 DEF TypeOK, Labels
  <1>2. LockHeld'
    BY Zenon, <1>0 DEF TypeOK, LockHeld
  <1>3. Locals'
    BY Zenon, <1>0 DEF TypeOK, Locals
  <1>4. Working'
    BY Zenon, <1>0 DEF TypeOK, Working, LockHeld, InList
  <1>5. OwnedOnce'
    BY Zenon, <1>0, OwnedFrame
  <1>6. ReleasedSpansUnused'
    <2>1. \A u \in Threads, s \in Spans : Carries(u, s)' <=> Carries(u, s)
      BY SMTT(30), <1>0, NotCarrying
    <2> QED BY Zenon, <1>0, <2>1, SpansFrame
  <1>7. NoDup(span_list)'
    BY Zenon, <1>0 DEF NoDup
  <1>8. Fresh'
    BY Zenon, <1>0, FreshStep
  <1> QED BY Zenon, <1>1, <1>2, <1>3, <1>4, <1>5, <1>6, <1>7, <1>8 DEF IInv

LEMMA AllocSpanFailsInv ==
  ASSUME IInv, NEW t \in Threads, AllocSpanFails(t)
  PROVE  IInv'
  <1>0. /\ TypeOK /\ OwnedOnce /\ ReleasedSpansUnused /\ Fresh /\ NoDup(span_list)
        /\ LockHeld /\ Locals /\ Working
    BY Zenon DEF IInv
  <1> USE DEF AllocSpanFails, bucket
  <1>1. TypeOK' /\ LockHeld' /\ Locals' /\ Working' /\ NoDup(span_list)'
    BY SMTT(30), <1>0 DEF TypeOK, LockHeld, Locals, Working, NoDup, InList
  <1>2. OwnedOnce'
    BY Zenon, <1>0, OwnedFrame
  <1>3. ReleasedSpansUnused'
    BY Zenon, <1>0, SpansFrame DEF Carries
  <1>4. Fresh'
    BY Zenon, <1>0, FreshFrame DEF Extracted, Fresh
  <1> QED BY Zenon, <1>1, <1>2, <1>3, <1>4 DEF IInv

(* Grab moves objects from the TransferCache to got[t]. *)
LEMMA GrabInv ==
  ASSUME IInv, NEW t \in Threads, Grab(t)
  PROVE  IInv'
  <1>0. /\ TypeOK /\ OwnedOnce /\ ReleasedSpansUnused /\ Fresh /\ NoDup(span_list)
        /\ LockHeld /\ Locals /\ Working
    BY Zenon DEF IInv
  <1>a. PICK S \in SUBSET tc :
          /\ tc' = tc \ S
          /\ got' = [got EXCEPT ![t] = S]
          /\ pc' = [pc EXCEPT ![t] = IF Cardinality(S) < want[t] THEN "lock" ELSE "ret"]
    BY ZenonT(40) DEF Grab, Goto
  <1>b. /\ pc[t] = "grab" /\ got[t] = {}
        /\ UNCHANGED <<tc_capacity, span_list, lock, free, pool, out, want, pre, rel,
                       chunk, span, terminated>>
    BY Zenon, <1>0 DEF Grab, Locals
  <1>1. TypeOK'
    BY Zenon, <1>0, <1>a, <1>b DEF TypeOK, Labels
  <1>2. LockHeld'
    BY Zenon, <1>0, <1>a, <1>b DEF TypeOK, LockHeld
  <1>3. Locals'
    BY Zenon, <1>0, <1>a, <1>b DEF TypeOK, Locals
  <1>4. Working'
    BY Zenon, <1>0, <1>a, <1>b DEF TypeOK, Working, InList
  <1>c. got'[t] = S /\ \A u \in Threads \ {t} : got'[u] = got[u]
    BY Zenon, <1>0, <1>a DEF TypeOK
  <1>5. OwnedOnce'
    <2>1. ASSUME NEW o \in Objects
          PROVE  (Reach(t, o)' <=> Reach(t, o)) /\ AtMostOne(t, o)'
      <3>1. AtMostOne(t, o)
        BY Zenon, <1>0, OnePlace
      <3>2. IsFree(o)' <=> IsFree(o)
        BY Zenon, <1>b DEF IsFree
      <3> QED BY Zenon, <3>1, <3>2, <1>a, <1>b, <1>c DEF AtMostOne, Reach, InHand
    <2> QED BY ZenonT(40), <2>1, <1>0, <1>b, <1>c, Transfer
  <1>6. ReleasedSpansUnused'
    <2>1. \A u \in Threads, s \in Spans : Carries(u, s)' <=> Carries(u, s)
      <3>1. PICK l \in {"lock", "ret"} : pc' = [pc EXCEPT ![t] = l]
        BY Zenon, <1>a
      <3> QED BY Zenon, <1>0, <1>b, <3>1, NotCarrying
    <2> QED BY Zenon, <1>0, <1>b, <2>1, SpansFrame
  <1>7. NoDup(span_list)'
    BY Zenon, <1>0, <1>b DEF NoDup
  <1>8. Fresh'
    BY Zenon, <1>0, <1>a, <1>b, <1>c, FreshStep
  <1> QED BY Zenon, <1>1, <1>2, <1>3, <1>4, <1>5, <1>6, <1>7, <1>8 DEF IInv

LEMMA OuterInv ==
  ASSUME IInv, NEW t \in Threads, Outer(t)
  PROVE  IInv'
  <1>0. /\ TypeOK /\ OwnedOnce /\ ReleasedSpansUnused /\ Fresh /\ NoDup(span_list)
        /\ LockHeld /\ Locals /\ Working
    BY Zenon DEF IInv
  <1>a. /\ pc[t] = "outer" /\ ~Extracted(t) /\ lock = t
        /\ UNCHANGED <<tc, tc_capacity, span_list, free, pool, out, want, got, pre, rel,
                       chunk, terminated>>
    BY Zenon, <1>0 DEF Outer, LockHeld
  <1>b. Extracted(t)' <=> Extracted(t)
    BY Zenon, <1>a DEF Extracted
  <1>5. OwnedOnce'
    BY Zenon, <1>0, <1>a, OwnedFrame
  <1>7. NoDup(span_list)'
    BY Zenon, <1>0, <1>a DEF NoDup
  <1>9. CASE NoCandidate
    <2>1. lock' = None /\ span' = span /\ pc' = [pc EXCEPT ![t] = "alloc"]
      BY Zenon, <1>9 DEF Outer, Goto
    <2>2. TypeOK' /\ LockHeld'
      BY Zenon, <1>0, <1>a, <2>1, BucketAssumption DEF TypeOK, Labels, LockHeld
    <2>3. Locals' /\ Working'
      BY ZenonT(40), <1>0, <1>a, <2>1 DEF TypeOK, Locals, Working, InList
    <2>4. ReleasedSpansUnused'
      BY Zenon, <1>0, <1>a, <2>1, NotCarrying, SpansFrame
    <2>5. Fresh'
      BY Zenon, <1>0, <1>a, <1>b, <2>1, FreshStep
    <2> QED BY Zenon, <1>5, <1>7, <2>2, <2>3, <2>4, <2>5 DEF IInv
  <1>10. CASE ~NoCandidate
    <2>1. /\ lock' = lock /\ span' = [span EXCEPT ![t] = span_list[1]]
          /\ pc' = [pc EXCEPT ![t] = "take"]
      BY Zenon, <1>10 DEF Outer, Goto
    <2>2. span_list[1] \in Spans /\ InList(span_list[1], span_list)
      <3>1. span_list \in Seq(Spans) /\ span_list # <<>>
        BY Zenon, <1>0, <1>10 DEF TypeOK, NoCandidate
      <3>2. 1 \in 1 .. Len(span_list)
        BY <3>1
      <3> QED BY SMTT(30), <3>1, <3>2 DEF InList
    <2>c. \A u \in Threads \ {t} : span'[u] = span[u]
      BY Zenon, <1>0, <2>1 DEF TypeOK
    <2>3. TypeOK' /\ LockHeld'
      BY Zenon, <1>0, <1>a, <2>1, <2>2 DEF TypeOK, Labels, LockHeld
    <2>4. Locals' /\ Working'
      BY Zenon, <1>0, <1>a, <2>1, <2>2 DEF TypeOK, Locals, Working, InList
    <2>5. ReleasedSpansUnused'
      BY ZenonT(40), <1>0, <1>a, <2>1, <2>c, NotCarrying, SpansFrame
    <2>6. Fresh'
      BY Zenon, <1>0, <1>a, <2>1, <2>c, FreshStep
    <2> QED BY ZenonT(40), <1>5, <1>7, <2>3, <2>4, <2>5, <2>6 DEF IInv
  <1> QED BY ZenonT(40), <1>9, <1>10

(* Take moves the lowest free slot of span[t] to got[t] or pre[t]. *)
LEMMA TakeInv ==
  ASSUME IInv, NEW t \in Threads, Take(t)
  PROVE  IInv'
  <1>0. /\ TypeOK /\ OwnedOnce /\ ReleasedSpansUnused /\ Fresh /\ NoDup(span_list)
        /\ LockHeld /\ Locals /\ Working
    BY Zenon DEF IInv
  <1> DEFINE s == span[t]
  <1>a. /\ pc[t] = "take" /\ lock = t /\ s \in Spans /\ InList(s, span_list)
        /\ rel[t] = {} /\ chunk[t] = {}
        /\ UNCHANGED <<tc, tc_capacity, span_list, lock, pool, out, pc, want, rel, chunk,
                       span, terminated>>
    BY Zenon, <1>0 DEF Take, LockHeld, Working, Locals
  <1>b. PICK k \in free[s] :
          /\ free' = [free EXCEPT ![s] = @ \ {k}]
          /\ \/ got' = [got EXCEPT ![t] = @ \cup {<<s, k>>}] /\ pre' = pre
             \/ pre' = [pre EXCEPT ![t] = @ \cup {<<s, k>>}] /\ got' = got
    BY Zenon DEF Take
  <1> HIDE DEF s
  <1>c. k \in Slots /\ <<s, k>> \in Objects
    BY ZenonT(40), <1>0, <1>a, <1>b DEF TypeOK, Objects
  <1>d. \A x \in Spans : free'[x] = IF x = s THEN free[s] \ {k} ELSE free[x]
    BY Zenon, <1>0, <1>a, <1>b DEF TypeOK
  <1>e. \A u \in Threads \ {t} : got'[u] = got[u] /\ pre'[u] = pre[u]
    BY Zenon, <1>0, <1>b DEF TypeOK
  <1>f. \/ got'[t] = got[t] \cup {<<s, k>>} /\ pre'[t] = pre[t]
        \/ pre'[t] = pre[t] \cup {<<s, k>>} /\ got'[t] = got[t]
    BY Zenon, <1>0, <1>b DEF TypeOK
  <1>1. TypeOK'
    <2>1. free' \in [Spans -> SUBSET Slots]
      BY Zenon, <1>0, <1>a, <1>b DEF TypeOK
    <2>2. got' \in [Threads -> SUBSET Objects] /\ pre' \in [Threads -> SUBSET Objects]
      <3>1. got \in [Threads -> SUBSET Objects] /\ pre \in [Threads -> SUBSET Objects]
        BY Zenon, <1>0 DEF TypeOK
      <3>2. CASE got' = [got EXCEPT ![t] = @ \cup {<<s, k>>}] /\ pre' = pre
        BY Zenon, <3>1, <3>2, <1>c
      <3>3. CASE pre' = [pre EXCEPT ![t] = @ \cup {<<s, k>>}] /\ got' = got
        BY Zenon, <3>1, <3>3, <1>c
      <3> QED BY Zenon, <3>2, <3>3, <1>b
    <2> QED BY Zenon, <1>0, <1>a, <2>1, <2>2 DEF TypeOK
  <1>2. LockHeld'
    BY Zenon, <1>0, <1>a DEF LockHeld
  <1>3. Locals'
    <2>1. ASSUME NEW u \in Threads
          PROVE  /\ pc[u] \in {"idle", "grab"} => got'[u] = {}
                 /\ pc[u] \in {"idle", "grab", "absorb", "rlock", "free", "page", "ret"} => pre'[u] = {}
                 /\ pc[u] \notin {"absorb", "rlock", "free", "page"} => rel[u] = {}
                 /\ pc[u] \notin {"rlock", "free", "page"} => chunk[u] = {}
      <3>1. CASE u = t
        BY Zenon, <3>1, <1>a
      <3>2. CASE u # t
        BY Zenon, <3>2, <1>0, <1>e DEF Locals
      <3> QED BY Zenon, <3>1, <3>2
    <2> QED BY Zenon, <2>1, <1>a DEF Locals
  <1>4. Working'
    BY Zenon, <1>0, <1>a DEF Working, InList
  <1>5. OwnedOnce'
    <2>1. ASSUME NEW o \in Objects
          PROVE  (Reach(t, o)' <=> Reach(t, o)) /\ AtMostOne(t, o)'
      <3>1. AtMostOne(t, o)
        BY Zenon, <1>0, OnePlace
      <3>2. IsFree(o)' <=> IsFree(o) /\ o # <<s, k>>
        BY <1>d DEF IsFree, Objects
      <3>3. IsFree(<<s, k>>)
        BY Zenon, <1>b DEF IsFree
      <3>4. CASE o = <<s, k>>
        BY ZenonT(40), <3>1, <3>2, <3>3, <3>4, <1>a, <1>f DEF AtMostOne, Reach, InHand
      <3>5. CASE o # <<s, k>>
        <4>1. (o \in got'[t] <=> o \in got[t]) /\ (o \in pre'[t] <=> o \in pre[t])
          BY Zenon, <3>5, <1>f
        <4> QED BY ZenonT(40), <3>1, <3>2, <3>5, <4>1, <1>a DEF AtMostOne, Reach, InHand
      <3> QED BY Zenon, <3>4, <3>5
    <2> QED BY Zenon, <2>1, <1>0, <1>a, <1>e, Transfer
  <1>6. ReleasedSpansUnused'
    <2>1. \A u \in Threads, x \in Spans : Carries(u, x)' <=> Carries(u, x)
      BY Zenon, <1>a DEF Carries
    <2>2. s \notin pool /\ \A u \in Threads : ~Carries(u, s)
      BY Zenon, <1>0, <1>a DEF ReleasedSpansUnused
    <2>3. \A x \in Spans : InList(x, span_list)' <=> InList(x, span_list)
      <3>1. span_list' = span_list
        BY Zenon, <1>a
      <3> QED BY Zenon, <3>1 DEF InList
    <2> QED BY ZenonT(40), <1>0, <1>a, <1>d, <2>1, <2>2, <2>3 DEF ReleasedSpansUnused
  <1>7. NoDup(span_list)'
    BY Zenon, <1>0, <1>a DEF NoDup
  <1>8. Fresh'
    <2>1. ASSUME NEW u \in Threads, pc'[u] \in {"alloc", "relock"} PROVE ~Extracted(u)'
      <3>1. u # t /\ ~Extracted(u)
        BY Zenon, <2>1, <1>0, <1>a DEF Fresh
      <3> QED BY Zenon, <3>1, <1>a, <1>e DEF Extracted
    <2>2. ASSUME NEW x \in Spans, InList(x, span_list)', free'[x] = Slots PROVE FALSE
      <3>1. x # s
        BY Zenon, <2>2, <1>c, <1>d
      <3>2. InList(x, span_list) /\ free[x] = Slots
        BY Zenon, <2>2, <3>1, <1>a, <1>d DEF InList
      <3>3. PICK u \in Threads : pc[u] = "take" /\ span[u] = x
        BY ZenonT(40), <1>0, <3>2 DEF Fresh
      <3>4. u = t
        BY Zenon, <3>3, <1>0, <1>a DEF LockHeld
      <3> QED BY Zenon, <3>1, <3>3, <3>4 DEF s
    <2> QED BY Zenon, <2>1, <2>2 DEF Fresh
  <1> QED BY Zenon, <1>1, <1>2, <1>3, <1>4, <1>5, <1>6, <1>7, <1>8 DEF IInv

(* A full span moves to the back: the members of the list stay the same. *)
LEMMA FullInv ==
  ASSUME IInv, NEW t \in Threads, Full(t)
  PROVE  IInv'
  <1>0. /\ TypeOK /\ OwnedOnce /\ ReleasedSpansUnused /\ Fresh /\ NoDup(span_list)
        /\ LockHeld /\ Locals /\ Working
    BY Zenon DEF IInv
  <1> DEFINE s == span[t]
  <1>a. /\ pc[t] = "take" /\ lock = t /\ s \in Spans /\ InList(s, span_list)
        /\ free[s] = {}
        /\ span_list' = PushBack(Erase(span_list, s), s)
        /\ span' = [span EXCEPT ![t] = None]
        /\ pc' = [pc EXCEPT ![t] = "outer"]
        /\ UNCHANGED <<tc, tc_capacity, lock, free, pool, out, want, got, pre, rel,
                       chunk, terminated>>
    BY Zenon, <1>0 DEF Full, LockHeld, Working, Goto
  <1> HIDE DEF s
  <1>b. /\ span_list' \in Seq(Spans) /\ NoDup(span_list')
        /\ \A x \in Spans : InList(x, span_list') <=> InList(x, span_list)
    <2>1. /\ Erase(span_list, s) \in Seq(Spans) /\ NoDup(Erase(span_list, s))
          /\ \A x \in Spans : InList(x, Erase(span_list, s)) <=>
                                InList(x, span_list) /\ x # s
      BY Zenon, <1>0, <1>a, EraseFacts DEF TypeOK
    <2> QED BY Zenon, <1>a, <2>1, PushFacts
  <1>c. \A x \in Spans : InList(x, span_list)' <=> InList(x, span_list)
    BY Zenon, <1>b DEF InList
  <1>d. \A u \in Threads \ {t} : span'[u] = span[u] /\ pc'[u] = pc[u]
    BY Zenon, <1>0, <1>a DEF TypeOK
  <1>1. TypeOK'
    BY Zenon, <1>0, <1>a, <1>b DEF TypeOK, Labels
  <1>2. LockHeld'
    BY Zenon, <1>0, <1>a DEF TypeOK, LockHeld
  <1>3. Locals'
    BY Zenon, <1>0, <1>a DEF TypeOK, Locals
  <1>4. Working'
    <2>1. pc'[t] = "outer"
      BY Zenon, <1>0, <1>a DEF TypeOK
    <2> QED BY Zenon, <2>1, <1>0, <1>c, <1>d DEF Working
  <1>5. OwnedOnce'
    BY Zenon, <1>0, <1>a, OwnedFrame
  <1>6. ReleasedSpansUnused'
    <2>1. \A u \in Threads, x \in Spans : Carries(u, x)' <=> Carries(u, x)
      <3>1. pc'[t] = "outer"
        BY Zenon, <1>0, <1>a DEF TypeOK
      <3> QED BY Zenon, <1>a, <1>d, <3>1 DEF Carries
    <2> QED BY Zenon, <1>0, <1>a, <1>c, <2>1 DEF ReleasedSpansUnused
  <1>7. NoDup(span_list)'
    BY Zenon, <1>b DEF NoDup
  <1>8. Fresh'
    <2>1. ASSUME NEW u \in Threads, pc'[u] \in {"alloc", "relock"} PROVE ~Extracted(u)'
      BY Zenon, <2>1, <1>0, <1>a DEF Fresh, TypeOK, Extracted
    <2>2. ASSUME NEW x \in Spans, InList(x, span_list)', free'[x] = Slots PROVE FALSE
      <3>1. PICK u \in Threads : pc[u] = "take" /\ span[u] = x
        BY Zenon, <1>0, <1>a, <1>c, <2>2 DEF Fresh
      <3>2. x = s
        BY Zenon, <3>1, <1>0, <1>a DEF LockHeld, s
      <3>3. Slots # {}
        BY BucketAssumption DEF Slots
      <3> QED BY Zenon, <3>2, <3>3, <2>2, <1>a
    <2> QED BY Zenon, <2>1, <2>2 DEF Fresh
  <1> QED BY Zenon, <1>1, <1>2, <1>3, <1>4, <1>5, <1>6, <1>7, <1>8 DEF IInv

(* A span leaves PageCache with all its slots free. *)
LEMMA AllocSpanInv ==
  ASSUME IInv, NEW t \in Threads, NEW s \in Spans, AllocSpan(t, s)
  PROVE  IInv'
  <1>0. /\ TypeOK /\ OwnedOnce /\ ReleasedSpansUnused /\ Fresh /\ NoDup(span_list)
        /\ LockHeld /\ Locals /\ Working
    BY Zenon DEF IInv
  <1>a. /\ pc[t] = "alloc" /\ s \in pool /\ pool' = pool \ {s}
        /\ span' = [span EXCEPT ![t] = s]
        /\ pc' = [pc EXCEPT ![t] = "relock"]
        /\ UNCHANGED <<tc, tc_capacity, span_list, lock, out, want, got, pre, rel, chunk,
                       terminated>>
    BY Zenon DEF AllocSpan, Goto
  <1>b. free' = free
    <2>1. free[s] = Slots /\ free \in [Spans -> SUBSET Slots]
      BY Zenon, <1>0, <1>a DEF ReleasedSpansUnused, TypeOK
    <2> QED BY Zenon, <2>1 DEF AllocSpan
  <1>c. \A u \in Threads \ {t} : span'[u] = span[u] /\ pc'[u] = pc[u]
    BY Zenon, <1>0, <1>a DEF TypeOK
  <1>d. span'[t] = s /\ pc'[t] = "relock"
    BY Zenon, <1>0, <1>a DEF TypeOK
  <1>1. TypeOK'
    BY Zenon, <1>0, <1>a, <1>b DEF TypeOK, Labels
  <1>2. LockHeld'
    BY Zenon, <1>0, <1>a DEF TypeOK, LockHeld
  <1>3. Locals'
    BY Zenon, <1>0, <1>a DEF TypeOK, Locals
  <1>4. Working'
    BY ZenonT(40), <1>0, <1>a, <1>c, <1>d DEF Working, InList
  <1>5. OwnedOnce'
    BY Zenon, <1>0, <1>a, <1>b, OwnedFrame
  <1>6. ReleasedSpansUnused'
    <2>1. \A u \in Threads, x \in Spans :
            Carries(u, x)' <=> Carries(u, x) \/ (u = t /\ x = s)
      BY Zenon, <1>a, <1>c, <1>d DEF Carries
    <2>2. \A x \in Spans : InList(x, span_list)' <=> InList(x, span_list)
      BY Zenon, <1>a DEF InList
    <2>3. \A u \in Threads : ~Carries(u, s)
      BY Zenon, <1>0, <1>a DEF ReleasedSpansUnused
    <2>4. ~InList(s, span_list) /\ free[s] = Slots
      BY Zenon, <1>0, <1>a DEF ReleasedSpansUnused
    <2> SUFFICES ASSUME NEW x \in Spans
                 PROVE  (/\ x \in pool => free[x] = Slots /\ ~InList(x, span_list)
                         /\ \A u \in Threads :
                              Carries(u, x) => /\ free[x] = Slots /\ x \notin pool
                                               /\ ~InList(x, span_list)
                                               /\ \A v \in Threads : Carries(v, x) => v = u
                         /\ x \in pool \/ InList(x, span_list) \/ \E u \in Threads : Carries(u, x))'
      BY Zenon DEF ReleasedSpansUnused
    <2>5. CASE x = s
      BY Zenon, <2>1, <2>2, <2>3, <2>4, <2>5, <1>a, <1>b
    <2>6. CASE x # s
      BY Zenon, <2>1, <2>2, <2>6, <1>0, <1>a, <1>b DEF ReleasedSpansUnused
    <2> QED BY Zenon, <2>5, <2>6
  <1>7. NoDup(span_list)'
    BY Zenon, <1>0, <1>a DEF NoDup
  <1>8. Fresh'
    <2>1. ~Extracted(t)'
      BY Zenon, <1>0, <1>a DEF Fresh, Extracted
    <2> QED BY Zenon, <2>1, <1>0, <1>a, <1>b, <1>c, FreshStep
  <1> QED BY ZenonT(40), <1>1, <1>2, <1>3, <1>4, <1>5, <1>6, <1>7, <1>8 DEF IInv

(* GetOneSpan inserts the span it carries at the front. *)
LEMMA RelockInv ==
  ASSUME IInv, NEW t \in Threads, Relock(t)
  PROVE  IInv'
  <1>0. /\ TypeOK /\ OwnedOnce /\ ReleasedSpansUnused /\ Fresh /\ NoDup(span_list)
        /\ LockHeld /\ Locals /\ Working
    BY Zenon DEF IInv
  <1> DEFINE s == span[t]
  <1>a. /\ pc[t] = "relock" /\ lock = None /\ lock' = t /\ s \in Spans
        /\ span_list' = PushFront(span_list, s)
        /\ pc' = [pc EXCEPT ![t] = "take"]
        /\ UNCHANGED <<tc, tc_capacity, free, pool, out, want, got, pre, rel, chunk, span,
                       terminated>>
    BY ZenonT(40), <1>0 DEF Relock, Goto, Working
  <1>b. /\ Carries(t, s) /\ ~InList(s, span_list) /\ s \notin pool /\ free[s] = Slots
        /\ \A u \in Threads : Carries(u, s) => u = t
    <2>1. Carries(t, s)
      BY Zenon, <1>a DEF Carries
    <2> QED BY Zenon, <2>1, <1>0, <1>a DEF ReleasedSpansUnused
  <1>c. \A u \in Threads \ {t} : pc'[u] = pc[u] /\ lock # u
    BY Zenon, <1>0, <1>a, BucketAssumption DEF TypeOK
  <1>d. pc'[t] = "take"
    BY Zenon, <1>0, <1>a DEF TypeOK
  <1>e. span'[t] = s
    BY Zenon, <1>a
  <1> HIDE DEF s
  <1>f. /\ span_list' \in Seq(Spans) /\ NoDup(span_list')
        /\ \A x \in Spans : InList(x, span_list') <=> InList(x, span_list) \/ x = s
    BY Zenon, <1>0, <1>a, <1>b, PushFacts DEF TypeOK
  <1>g. \A x \in Spans : InList(x, span_list)' <=> InList(x, span_list) \/ x = s
    BY Zenon, <1>f DEF InList
  <1>1. TypeOK'
    BY Zenon, <1>0, <1>a, <1>f DEF TypeOK, Labels
  <1>2. LockHeld'
    BY Zenon, <1>0, <1>a, <1>c, <1>d DEF LockHeld
  <1>3. Locals'
    BY Zenon, <1>0, <1>a DEF TypeOK, Locals
  <1>4. Working'
    BY Zenon, <1>0, <1>a, <1>c, <1>d, <1>e, <1>g DEF Working
  <1>5. OwnedOnce'
    BY Zenon, <1>0, <1>a, OwnedFrame
  <1>6. ReleasedSpansUnused'
    <2>1. \A u \in Threads, x \in Spans : Carries(u, x)' <=> Carries(u, x) /\ x # s
      BY Zenon, <1>a, <1>b, <1>c, <1>d, <1>e DEF Carries, s
    <2> QED BY Zenon, <2>1, <1>0, <1>a, <1>b, <1>g DEF ReleasedSpansUnused
  <1>7. NoDup(span_list)'
    BY Zenon, <1>f DEF NoDup
  <1>8. Fresh'
    <2>1. ~Extracted(t) /\ \A u \in Threads : Extracted(u)' <=> Extracted(u)
      BY Zenon, <1>0, <1>a DEF Fresh, Extracted
    <2>2. ASSUME NEW u \in Threads, pc'[u] \in {"alloc", "relock"} PROVE ~Extracted(u)'
      BY Zenon, <2>1, <2>2, <1>0, <1>c, <1>d DEF Fresh
    <2>3. ASSUME NEW x \in Spans, InList(x, span_list)', free'[x] = Slots PROVE x = s
      <3>1. SUFFICES ASSUME x # s PROVE FALSE
        OBVIOUS
      <3>2. PICK u \in Threads : pc[u] = "take"
        BY Zenon, <3>1, <2>3, <1>0, <1>a, <1>g DEF Fresh
      <3> QED BY Zenon, <3>2, <1>0, <1>a, BucketAssumption DEF LockHeld
    <2> QED BY Zenon, <2>1, <2>2, <2>3, <1>d, <1>e DEF Fresh
  <1> QED BY ZenonT(40), <1>1, <1>2, <1>3, <1>4, <1>5, <1>6, <1>7, <1>8 DEF IInv

LEMMA ReleaseSpanInv ==
  ASSUME IInv, NEW t \in Threads, ReleaseSpan(t)
  PROVE  IInv'
  <1>0. /\ TypeOK /\ OwnedOnce /\ ReleasedSpansUnused /\ Fresh /\ NoDup(span_list)
        /\ LockHeld /\ Locals /\ Working
    BY Zenon DEF IInv
  <1> DEFINE s == span[t]
  <1>a. /\ pc[t] = "page" /\ s \in Spans /\ pool' = pool \cup {s}
        /\ span' = [span EXCEPT ![t] = None]
        /\ pc' = [pc EXCEPT ![t] = "rlock"]
        /\ UNCHANGED <<tc, tc_capacity, span_list, lock, free, out, want, got, pre, rel,
                       chunk, terminated>>
    BY Zenon, <1>0 DEF ReleaseSpan, Goto, Working
  <1>b. /\ Carries(t, s) /\ ~InList(s, span_list) /\ s \notin pool /\ free[s] = Slots
        /\ \A u \in Threads : Carries(u, s) => u = t
    <2>1. Carries(t, s)
      BY Zenon, <1>a DEF Carries
    <2> QED BY Zenon, <2>1, <1>0, <1>a DEF ReleasedSpansUnused
  <1>c. \A u \in Threads \ {t} : span'[u] = span[u] /\ pc'[u] = pc[u]
    BY Zenon, <1>0, <1>a DEF TypeOK
  <1>d. pc'[t] = "rlock"
    BY Zenon, <1>0, <1>a DEF TypeOK
  <1>1. TypeOK'
    <2>1. span' \in [Threads -> Spans \cup {None}]
      BY Zenon, <1>0, <1>a DEF TypeOK
    <2>2. pool' \in SUBSET Spans
      BY Zenon, <1>0, <1>a DEF TypeOK
    <2> QED BY Zenon, <1>0, <1>a, <2>1, <2>2 DEF TypeOK, Labels
  <1>2. LockHeld'
    BY Zenon, <1>0, <1>a DEF TypeOK, LockHeld
  <1>3. Locals'
    BY Zenon, <1>0, <1>a DEF TypeOK, Locals
  <1>4. Working'
    BY ZenonT(40), <1>0, <1>a, <1>c, <1>d DEF Working, InList
  <1>5. OwnedOnce'
    BY Zenon, <1>0, <1>a, OwnedFrame
  <1>6. ReleasedSpansUnused'
    <2>1. \A u \in Threads, x \in Spans : Carries(u, x)' <=> Carries(u, x) /\ x # s
      BY Zenon, <1>a, <1>b, <1>c, <1>d DEF Carries
    <2>2. \A x \in Spans : InList(x, span_list)' <=> InList(x, span_list)
      BY Zenon, <1>a DEF InList
    <2> HIDE DEF s
    <2> QED BY Zenon, <2>1, <2>2, <1>0, <1>a, <1>b DEF ReleasedSpansUnused
  <1>7. NoDup(span_list)'
    BY Zenon, <1>0, <1>a DEF NoDup
  <1>8. Fresh'
    BY Zenon, <1>0, <1>a, <1>c, FreshStep
  <1> QED BY ZenonT(40), <1>1, <1>2, <1>3, <1>4, <1>5, <1>6, <1>7, <1>8 DEF IInv

(* Prefetched objects move to the TransferCache or to the chain rel[t]. *)
LEMMA PublishInv ==
  ASSUME IInv, NEW t \in Threads, Publish(t)
  PROVE  IInv'
  <1>0. /\ TypeOK /\ OwnedOnce /\ ReleasedSpansUnused /\ Fresh /\ NoDup(span_list)
        /\ LockHeld /\ Locals /\ Working
    BY Zenon DEF IInv
  <1>a. PICK Rest \in SUBSET pre[t] :
          /\ tc' = tc \cup (pre[t] \ Rest)
          /\ rel' = [rel EXCEPT ![t] = Rest]
          /\ pc' = [pc EXCEPT ![t] = IF Rest = {} THEN "ret" ELSE "absorb"]
    BY Zenon DEF Publish, PushTransferCache, Goto
  <1>b. /\ pc[t] = "publish" /\ rel[t] = {} /\ chunk[t] = {}
        /\ pre' = [pre EXCEPT ![t] = {}]
        /\ UNCHANGED <<tc_capacity, span_list, lock, free, pool, out, want, got, chunk,
                       span, terminated>>
    BY Zenon, <1>0 DEF Publish, Locals
  <1>1. TypeOK'
    BY Zenon, <1>0, <1>a, <1>b DEF TypeOK, Labels
  <1>2. LockHeld'
    BY Zenon, <1>0, <1>a, <1>b DEF TypeOK, LockHeld
  <1>3. Locals'
    BY Zenon, <1>0, <1>a, <1>b DEF TypeOK, Locals
  <1>4. Working'
    BY Zenon, <1>0, <1>a, <1>b DEF TypeOK, Working, InList
  <1>c. /\ rel'[t] = Rest /\ pre'[t] = {}
        /\ \A u \in Threads \ {t} : rel'[u] = rel[u] /\ pre'[u] = pre[u]
    BY Zenon, <1>0, <1>a, <1>b DEF TypeOK
  <1>5. OwnedOnce'
    <2>1. ASSUME NEW o \in Objects
          PROVE  (Reach(t, o)' <=> Reach(t, o)) /\ AtMostOne(t, o)'
      <3>1. AtMostOne(t, o)
        BY Zenon, <1>0, OnePlace
      <3>2. IsFree(o)' <=> IsFree(o)
        BY Zenon, <1>b DEF IsFree
      <3> QED BY Zenon, <3>1, <3>2, <1>a, <1>b, <1>c DEF AtMostOne, Reach, InHand
    <2> QED BY Zenon, <2>1, <1>0, <1>b, <1>c, Transfer
  <1>6. ReleasedSpansUnused'
    <2>1. PICK l \in {"ret", "absorb"} : pc' = [pc EXCEPT ![t] = l]
      BY Zenon, <1>a
    <2>2. \A u \in Threads, s \in Spans : Carries(u, s)' <=> Carries(u, s)
      BY Zenon, <1>0, <1>b, <2>1, NotCarrying
    <2> QED BY Zenon, <1>0, <1>b, <2>2, SpansFrame
  <1>7. NoDup(span_list)'
    BY Zenon, <1>0, <1>b DEF NoDup
  <1>8. Fresh'
    <2>1. PICK l \in {"ret", "absorb"} : pc' = [pc EXCEPT ![t] = l]
      BY Zenon, <1>a
    <2>2. l \notin {"alloc", "relock"} /\ pc[t] # "take"
      BY Zenon, <2>1, <1>b
    <2> QED BY ZenonT(40), <1>0, <1>b, <1>c, <2>1, <2>2, FreshStep
  <1> QED BY ZenonT(40), <1>1, <1>2, <1>3, <1>4, <1>5, <1>6, <1>7, <1>8 DEF IInv

LEMMA CallReleaseInv ==
  ASSUME IInv, NEW t \in Threads, NEW S \in SUBSET out, CallRelease(t, S)
  PROVE  IInv'
  <1>0. /\ TypeOK /\ OwnedOnce /\ ReleasedSpansUnused /\ Fresh /\ NoDup(span_list)
        /\ LockHeld /\ Locals /\ Working
    BY Zenon DEF IInv
  <1>a. /\ out' = out \ S
        /\ rel' = [rel EXCEPT ![t] = S]
        /\ pc' = [pc EXCEPT ![t] = "absorb"]
    BY Zenon DEF CallRelease, Goto
  <1>b. /\ pc[t] = "idle" /\ rel[t] = {} /\ chunk[t] = {}
        /\ UNCHANGED <<tc, tc_capacity, span_list, lock, free, pool, want, got, pre, chunk,
                       span, terminated>>
    BY Zenon, <1>0 DEF CallRelease, Locals, bucket
  <1>1. TypeOK'
    BY Zenon, <1>0, <1>a, <1>b DEF TypeOK, Labels
  <1>2. LockHeld'
    BY Zenon, <1>0, <1>a, <1>b DEF TypeOK, LockHeld
  <1>3. Locals'
    BY Zenon, <1>0, <1>a, <1>b DEF TypeOK, Locals
  <1>4. Working'
    BY Zenon, <1>0, <1>a, <1>b DEF TypeOK, Working, InList
  <1>c. rel'[t] = S /\ \A u \in Threads \ {t} : rel'[u] = rel[u]
    BY Zenon, <1>0, <1>a DEF TypeOK
  <1>5. OwnedOnce'
    <2>1. ASSUME NEW o \in Objects
          PROVE  (Reach(t, o)' <=> Reach(t, o)) /\ AtMostOne(t, o)'
      <3>1. AtMostOne(t, o)
        BY Zenon, <1>0, OnePlace
      <3>2. IsFree(o)' <=> IsFree(o)
        BY Zenon, <1>b DEF IsFree
      <3> QED BY Zenon, <3>1, <3>2, <1>a, <1>b, <1>c DEF AtMostOne, Reach, InHand
    <2> QED BY Zenon, <2>1, <1>0, <1>b, <1>c, Transfer
  <1>6. ReleasedSpansUnused'
    <2>1. PICK l \in {"absorb"} : pc' = [pc EXCEPT ![t] = l]
      BY Zenon, <1>a
    <2>2. \A u \in Threads, s \in Spans : Carries(u, s)' <=> Carries(u, s)
      BY Zenon, <1>0, <1>b, <2>1, NotCarrying
    <2> QED BY Zenon, <1>0, <1>b, <2>2, SpansFrame
  <1>7. NoDup(span_list)'
    BY Zenon, <1>0, <1>b DEF NoDup
  <1>8. Fresh'
    <2>1. PICK l \in {"absorb"} : pc' = [pc EXCEPT ![t] = l]
      BY Zenon, <1>a
    <2>2. l \notin {"alloc", "relock"} /\ pc[t] # "take"
      BY Zenon, <2>1, <1>b
    <2> QED BY Zenon, <1>0, <1>b, <1>c, <2>1, <2>2, FreshStep
  <1> QED BY ZenonT(40), <1>1, <1>2, <1>3, <1>4, <1>5, <1>6, <1>7, <1>8 DEF IInv

(* A chunk of the chain moves to the TransferCache or to local_ptrs. *)
LEMMA AbsorbInv ==
  ASSUME IInv, NEW t \in Threads, Absorb(t)
  PROVE  IInv'
  <1>0. /\ TypeOK /\ OwnedOnce /\ ReleasedSpansUnused /\ Fresh /\ NoDup(span_list)
        /\ LockHeld /\ Locals /\ Working
    BY Zenon DEF IInv
  <1>a. PICK C \in SUBSET rel[t], Rest \in SUBSET rel[t] :
          /\ Rest \subseteq C
          /\ tc' = tc \cup (C \ Rest)
          /\ rel' = [rel EXCEPT ![t] = @ \ C]
          /\ chunk' = [chunk EXCEPT ![t] = Rest]
          /\ pc' = [pc EXCEPT ![t] = IF Rest # {} THEN "rlock"
                                     ELSE IF C = rel[t] THEN "ret" ELSE "absorb"]
    BY Zenon DEF Absorb, PushTransferCache, Goto
  <1>b. /\ pc[t] = "absorb" /\ chunk[t] = {} /\ pre[t] = {}
        /\ UNCHANGED <<tc_capacity, span_list, lock, free, pool, out, want, got, pre, span,
                       terminated>>
    BY Zenon, <1>0 DEF Absorb, Locals
  <1>1. TypeOK'
    BY Zenon, <1>0, <1>a, <1>b DEF TypeOK, Labels
  <1>2. LockHeld'
    BY Zenon, <1>0, <1>a, <1>b DEF TypeOK, LockHeld
  <1>3. Locals'
    BY Zenon, <1>0, <1>a, <1>b DEF TypeOK, Locals
  <1>4. Working'
    BY Zenon, <1>0, <1>a, <1>b DEF TypeOK, Working, InList
  <1>c. /\ rel'[t] = rel[t] \ C /\ chunk'[t] = Rest
        /\ \A u \in Threads \ {t} : rel'[u] = rel[u] /\ chunk'[u] = chunk[u]
    BY Zenon, <1>0, <1>a DEF TypeOK
  <1>5. OwnedOnce'
    <2>1. ASSUME NEW o \in Objects
          PROVE  (Reach(t, o)' <=> Reach(t, o)) /\ AtMostOne(t, o)'
      <3>1. AtMostOne(t, o)
        BY Zenon, <1>0, OnePlace
      <3>2. IsFree(o)' <=> IsFree(o)
        BY Zenon, <1>b DEF IsFree
      <3> QED BY Zenon, <3>1, <3>2, <1>a, <1>b, <1>c DEF AtMostOne, Reach, InHand
    <2> QED BY Zenon, <2>1, <1>0, <1>b, <1>c, Transfer
  <1>6. ReleasedSpansUnused'
    <2>1. PICK l \in {"rlock", "ret", "absorb"} : pc' = [pc EXCEPT ![t] = l]
      BY Zenon, <1>a
    <2>2. \A u \in Threads, s \in Spans : Carries(u, s)' <=> Carries(u, s)
      BY Zenon, <1>0, <1>b, <2>1, NotCarrying
    <2> QED BY Zenon, <1>0, <1>b, <2>2, SpansFrame
  <1>7. NoDup(span_list)'
    BY Zenon, <1>0, <1>b DEF NoDup
  <1>8. Fresh'
    <2>1. PICK l \in {"rlock", "ret", "absorb"} : pc' = [pc EXCEPT ![t] = l]
      BY Zenon, <1>a
    <2>2. l \notin {"alloc", "relock"} /\ pc[t] # "take"
      BY Zenon, <2>1, <1>b
    <2> QED BY Zenon, <1>0, <1>b, <1>c, <2>1, <2>2, FreshStep
  <1> QED BY ZenonT(40), <1>1, <1>2, <1>3, <1>4, <1>5, <1>6, <1>7, <1>8 DEF IInv

LEMMA ReturnInv ==
  ASSUME IInv, NEW t \in Threads, Return(t)
  PROVE  IInv'
  <1>0. /\ TypeOK /\ OwnedOnce /\ ReleasedSpansUnused /\ Fresh /\ NoDup(span_list)
        /\ LockHeld /\ Locals /\ Working
    BY Zenon DEF IInv
  <1>a. /\ out' = out \cup got[t]
        /\ got' = [got EXCEPT ![t] = {}]
        /\ want' = [want EXCEPT ![t] = 0]
        /\ pc' = [pc EXCEPT ![t] = "idle"]
    BY Zenon DEF Return, Goto
  <1>b. /\ pc[t] = "ret" /\ pre[t] = {} /\ rel[t] = {} /\ chunk[t] = {}
        /\ UNCHANGED <<tc, tc_capacity, span_list, lock, free, pool, pre, rel, chunk,
                       span, terminated>>
    BY Zenon, <1>0 DEF Return, Locals, bucket
  <1>1. TypeOK'
    <2>1. out' \in SUBSET Objects
      BY Zenon, <1>0, <1>a DEF TypeOK
    <2>2. got' \in [Threads -> SUBSET Objects]
      BY Zenon, <1>0, <1>a DEF TypeOK
    <2>3. want' \in [Threads -> 0..Batch]
      <3>1. 0 \in 0..Batch
        BY SMTT(30), BucketAssumption
      <3> QED BY Zenon, <3>1, <1>0, <1>a DEF TypeOK
    <2>4. pc' \in [Threads -> Labels]
      <3>1. "idle" \in Labels
        BY Zenon DEF Labels
      <3> QED BY Zenon, <3>1, <1>0, <1>a DEF TypeOK
    <2> QED BY Zenon, <2>1, <2>2, <2>3, <2>4, <1>0, <1>b DEF TypeOK
  <1>2. LockHeld'
    BY Zenon, <1>0, <1>a, <1>b DEF TypeOK, LockHeld
  <1>3. Locals'
    BY Zenon, <1>0, <1>a, <1>b DEF TypeOK, Locals
  <1>4. Working'
    BY Zenon, <1>0, <1>a, <1>b DEF TypeOK, Working, InList
  <1>c. got'[t] = {} /\ \A u \in Threads \ {t} : got'[u] = got[u] /\ want'[u] = want[u]
    BY Zenon, <1>0, <1>a DEF TypeOK
  <1>5. OwnedOnce'
    <2>1. ASSUME NEW o \in Objects
          PROVE  (Reach(t, o)' <=> Reach(t, o)) /\ AtMostOne(t, o)'
      <3>1. AtMostOne(t, o)
        BY Zenon, <1>0, OnePlace
      <3>2. IsFree(o)' <=> IsFree(o)
        BY ZenonT(40), <1>b DEF IsFree
      <3> QED BY Zenon, <3>1, <3>2, <1>a, <1>b, <1>c DEF AtMostOne, Reach, InHand
    <2> QED BY Zenon, <2>1, <1>0, <1>b, <1>c, Transfer
  <1>6. ReleasedSpansUnused'
    <2>1. PICK l \in {"idle"} : pc' = [pc EXCEPT ![t] = l]
      BY Zenon, <1>a
    <2>2. \A u \in Threads, s \in Spans : Carries(u, s)' <=> Carries(u, s)
      BY ZenonT(40), <1>0, <1>b, <2>1, NotCarrying
    <2> QED BY Zenon, <1>0, <1>b, <2>2, SpansFrame
  <1>7. NoDup(span_list)'
    BY Zenon, <1>0, <1>b DEF NoDup
  <1>8. Fresh'
    <2>1. PICK l \in {"idle"} : pc' = [pc EXCEPT ![t] = l]
      BY Zenon, <1>a
    <2>2. l \notin {"alloc", "relock"} /\ pc[t] # "take"
      BY Zenon, <2>1, <1>b
    <2> QED BY Zenon, <1>0, <1>b, <1>c, <2>1, <2>2, FreshStep
  <1> QED BY ZenonT(40), <1>1, <1>2, <1>3, <1>4, <1>5, <1>6, <1>7, <1>8 DEF IInv

(* Freeing object o: its span is listed, because it has an object in use.  *)
(* The span leaves the list exactly when its last object is freed.         *)
LEMMA FreeInv ==
  ASSUME IInv, NEW t \in Threads, Free(t)
  PROVE  IInv'
  <1>0. /\ TypeOK /\ OwnedOnce /\ ReleasedSpansUnused /\ Fresh /\ NoDup(span_list)
        /\ LockHeld /\ Locals /\ Working
    BY Zenon DEF IInv
  <1>a. PICK o \in chunk[t] :
          LET s == o[1]
              now_free == free[s] \cup {o[2]}
              moved == IF Cardinality(now_free) = 1
                       THEN PushFront(Erase(span_list, s), s) ELSE span_list
          IN  /\ free' = [free EXCEPT ![s] = now_free]
              /\ chunk' = [chunk EXCEPT ![t] = @ \ {o}]
              /\ IF now_free = Slots
                 THEN /\ span_list' = Erase(moved, s)
                      /\ lock' = None
                      /\ span' = [span EXCEPT ![t] = s]
                      /\ pc' = [pc EXCEPT ![t] = "page"]
                 ELSE span_list' = moved /\ UNCHANGED <<lock, span, pc>>
    BY Zenon DEF Free, Goto
  <1> DEFINE s == o[1]
             now == free[s] \cup {o[2]}
             moved == IF Cardinality(now) = 1
                      THEN PushFront(Erase(span_list, s), s) ELSE span_list
  <1>b. /\ free' = [free EXCEPT ![s] = now]
        /\ chunk' = [chunk EXCEPT ![t] = @ \ {o}]
        /\ now = Slots => /\ span_list' = Erase(moved, s) /\ lock' = None
                          /\ span' = [span EXCEPT ![t] = s]
                          /\ pc' = [pc EXCEPT ![t] = "page"]
        /\ now # Slots => /\ span_list' = moved /\ lock' = lock /\ span' = span /\ pc' = pc
    BY Zenon, <1>a
  <1>c. /\ pc[t] = "free" /\ lock = t
        /\ UNCHANGED <<tc, tc_capacity, pool, out, want, got, pre, rel, terminated>>
    BY Zenon, <1>0 DEF Free, LockHeld
  <1>d. o \in Objects /\ s \in Spans /\ o[2] \in Slots /\ o = <<s, o[2]>>
    BY <1>0 DEF TypeOK, Objects
  <1>e. ~IsFree(o) /\ free[s] # Slots
    <2>1. ~IsFree(o)
      BY Zenon, <1>0, <1>d DEF OwnedOnce, InHand
    <2> QED BY Zenon, <2>1, <1>d DEF IsFree
  <1>f. s \notin pool /\ InList(s, span_list) /\ \A u \in Threads : ~Carries(u, s)
    BY Zenon, <1>0, <1>d, <1>e DEF ReleasedSpansUnused
  <1>g. /\ moved \in Seq(Spans) /\ NoDup(moved)
        /\ \A x \in Spans : InList(x, moved) <=> InList(x, span_list)
    <2>1. /\ Erase(span_list, s) \in Seq(Spans) /\ NoDup(Erase(span_list, s))
          /\ \A x \in Spans : InList(x, Erase(span_list, s)) <=>
                                InList(x, span_list) /\ x # s
      BY Zenon, <1>0, <1>d, <1>f, EraseFacts DEF TypeOK
    <2>2. ~InList(s, Erase(span_list, s))
      BY Zenon, <2>1, <1>d
    <2> DEFINE F == PushFront(Erase(span_list, s), s)
    <2>3. /\ F \in Seq(Spans) /\ NoDup(F)
          /\ \A x \in Spans : InList(x, F) <=> InList(x, Erase(span_list, s)) \/ x = s
      BY Zenon, <2>1, <2>2, <1>d, PushFacts
    <2>4. \A x \in Spans : InList(x, F) <=> InList(x, span_list)
      BY Zenon, <2>1, <2>3, <1>f
    <2>5. span_list \in Seq(Spans)
      BY Zenon, <1>0 DEF TypeOK
    <2> HIDE DEF F
    <2>6. moved = F \/ moved = span_list
      BY Zenon DEF F
    <2> HIDE DEF moved
    <2> QED BY Zenon, <1>0, <2>3, <2>4, <2>5, <2>6
  <1> HIDE DEF moved
  <1>h. /\ span_list' \in Seq(Spans) /\ NoDup(span_list')
        /\ \A x \in Spans : InList(x, span_list') <=>
                              InList(x, span_list) /\ (x = s => now # Slots)
    <2>1. CASE now = Slots
      <3>1. /\ Erase(moved, s) \in Seq(Spans) /\ NoDup(Erase(moved, s))
            /\ \A x \in Spans : InList(x, Erase(moved, s)) <=> InList(x, moved) /\ x # s
        BY Zenon, <1>d, <1>f, <1>g, EraseFacts
      <3> QED BY Zenon, <2>1, <3>1, <1>b, <1>g
    <2>2. CASE now # Slots
      BY Zenon, <2>2, <1>b, <1>g
    <2> QED BY Zenon, <2>1, <2>2
  <1>i. \A x \in Spans : InList(x, span_list)' <=>
                           InList(x, span_list) /\ (x = s => now # Slots)
    BY Zenon, <1>h DEF InList
  <1>j. \A x \in Spans : free'[x] = IF x = s THEN now ELSE free[x]
    BY Zenon, <1>0, <1>b, <1>d DEF TypeOK
  <1>k. chunk'[t] = chunk[t] \ {o} /\ \A u \in Threads \ {t} : chunk'[u] = chunk[u]
    BY Zenon, <1>0, <1>b DEF TypeOK
  <1>l. /\ \A u \in Threads \ {t} : pc'[u] = pc[u] /\ span'[u] = span[u]
        /\ now = Slots => pc'[t] = "page" /\ span'[t] = s
        /\ now # Slots => pc'[t] = "free"
    BY Zenon, <1>0, <1>b, <1>c DEF TypeOK
  <1>m. now \in SUBSET Slots
    BY Zenon, <1>0, <1>d DEF TypeOK
  <1>n. \A u \in Threads : pc[u] \in {"outer", "take", "free"} => u = t
    BY Zenon, <1>0, <1>c DEF LockHeld
  <1> HIDE DEF s, now
  <1>1. TypeOK'
    <2>1. free' \in [Spans -> SUBSET Slots]
      BY Zenon, <1>0, <1>b, <1>d, <1>m DEF TypeOK
    <2>2. chunk' \in [Threads -> SUBSET Objects]
      BY Zenon, <1>0, <1>b DEF TypeOK
    <2>3. /\ pc' \in [Threads -> Labels] /\ span' \in [Threads -> Spans \cup {None}]
          /\ lock' \in Threads \cup {None}
      BY ZenonT(40), <1>0, <1>b, <1>d DEF TypeOK, Labels
    <2> QED BY Zenon, <1>0, <1>c, <1>h, <2>1, <2>2, <2>3 DEF TypeOK
  <1>2. LockHeld'
    <2>1. CASE now = Slots
      <3>1. lock' = None /\ \A u \in Threads : lock' # u
        BY Zenon, <2>1, <1>b, BucketAssumption
      <3> QED BY Zenon, <2>1, <3>1, <1>l, <1>n DEF LockHeld
    <2>2. CASE now # Slots
      BY Zenon, <2>2, <1>0, <1>b DEF LockHeld
    <2> QED BY Zenon, <2>1, <2>2
  <1>3. Locals'
    <2>1. ASSUME NEW u \in Threads
          PROVE  /\ pc'[u] \in {"idle", "grab"} => got[u] = {}
                 /\ pc'[u] \in {"idle", "grab", "absorb", "rlock", "free", "page", "ret"} => pre[u] = {}
                 /\ pc'[u] \notin {"absorb", "rlock", "free", "page"} => rel[u] = {}
                 /\ pc'[u] \notin {"rlock", "free", "page"} => chunk'[u] = {}
      <3>1. CASE u = t
        BY Zenon, <3>1, <1>0, <1>c, <1>l DEF Locals
      <3>2. CASE u # t
        BY Zenon, <3>2, <1>0, <1>k, <1>l DEF Locals
      <3> QED BY Zenon, <3>1, <3>2
    <2> QED BY Zenon, <2>1, <1>c DEF Locals
  <1>4. Working'
    <2>1. ASSUME NEW u \in Threads
          PROVE  /\ pc'[u] # "take"
                 /\ pc'[u] \in {"relock", "page"} => span'[u] \in Spans
      <3>1. CASE u = t
        BY Zenon, <3>1, <1>d, <1>l
      <3>2. CASE u # t
        BY Zenon, <3>2, <1>0, <1>l, <1>n DEF Working
      <3> QED BY Zenon, <3>1, <3>2
    <2> QED BY Zenon, <2>1 DEF Working
  <1>5. OwnedOnce'
    <2>1. ASSUME NEW p \in Objects
          PROVE  (Reach(t, p)' <=> Reach(t, p)) /\ AtMostOne(t, p)'
      <3>1. AtMostOne(t, p)
        BY Zenon, <1>0, OnePlace
      <3>2. IsFree(p)' <=> IsFree(p) \/ p = o
        BY SMTT(30), <1>d, <1>j DEF IsFree, Objects, now
      <3> QED BY Zenon, <3>1, <3>2, <1>c, <1>k DEF AtMostOne, Reach, InHand
    <2> QED BY Zenon, <2>1, <1>0, <1>c, <1>k, Transfer
  <1>6. ReleasedSpansUnused'
    <2>1. \A u \in Threads, x \in Spans :
            Carries(u, x)' <=> Carries(u, x) \/ (u = t /\ x = s /\ now = Slots)
      BY Zenon, <1>c, <1>l DEF Carries
    <2> SUFFICES ASSUME NEW x \in Spans
                 PROVE  (/\ x \in pool => free[x] = Slots /\ ~InList(x, span_list)
                         /\ \A u \in Threads :
                              Carries(u, x) => /\ free[x] = Slots /\ x \notin pool
                                               /\ ~InList(x, span_list)
                                               /\ \A v \in Threads : Carries(v, x) => v = u
                         /\ x \in pool \/ InList(x, span_list) \/ \E u \in Threads : Carries(u, x))'
      BY Zenon DEF ReleasedSpansUnused
    <2>2. CASE x = s
      BY Zenon, <2>1, <2>2, <1>c, <1>f, <1>i, <1>j
    <2>3. CASE x # s
      BY Zenon, <2>1, <2>3, <1>0, <1>c, <1>i, <1>j DEF ReleasedSpansUnused
    <2> QED BY Zenon, <2>2, <2>3
  <1>7. NoDup(span_list)'
    BY Zenon, <1>h DEF NoDup
  <1>8. Fresh'
    <2>1. ASSUME NEW u \in Threads, pc'[u] \in {"alloc", "relock"} PROVE ~Extracted(u)'
      <3>1. u # t /\ pc[u] \in {"alloc", "relock"}
        BY Zenon, <2>1, <1>l
      <3> QED BY Zenon, <3>1, <1>0, <1>c DEF Fresh, Extracted
    <2>2. ASSUME NEW x \in Spans, InList(x, span_list)', free'[x] = Slots PROVE FALSE
      <3>1. x # s /\ InList(x, span_list) /\ free[x] = Slots
        BY Zenon, <2>2, <1>i, <1>j
      <3>2. PICK u \in Threads : pc[u] = "take"
        BY Zenon, <3>1, <1>0 DEF Fresh
      <3> QED BY Zenon, <3>2, <1>c, <1>n
    <2> QED BY Zenon, <2>1, <2>2 DEF Fresh
  <1> QED BY Zenon, <1>1, <1>2, <1>3, <1>4, <1>5, <1>6, <1>7, <1>8 DEF IInv

(* After Reset every slot is free and every span is with PageCache. *)
LEMMA ResetInv ==
  ASSUME IInv, Reset
  PROVE  IInv'
  <1>0. /\ TypeOK /\ OwnedOnce /\ ReleasedSpansUnused /\ Fresh /\ NoDup(span_list)
        /\ LockHeld /\ Locals /\ Working
    BY Zenon DEF IInv
  <1>a. /\ \A t \in Threads : pc[t] = "idle"
        /\ out = {} /\ tc' = {} /\ tc_capacity' = 0 /\ span_list' = <<>>
        /\ free' = [s \in Spans |-> free[s] \cup {k \in Slots : <<s, k>> \in tc}]
        /\ pool' = pool \cup {s \in Spans : InList(s, span_list)}
        /\ UNCHANGED <<lock, out, pc, want, got, pre, rel, chunk, span, terminated>>
    BY Zenon DEF Reset, Quiescent
  <1>b. \A t \in Threads : got[t] = {} /\ pre[t] = {} /\ rel[t] = {} /\ chunk[t] = {}
    BY Zenon, <1>0, <1>a DEF Locals
  <1>c. \A s \in Spans : free'[s] = Slots
    <2>1. ASSUME NEW s \in Spans, NEW k \in Slots PROVE k \in free'[s]
      <3>1. <<s, k>> \in Objects
        BY Zenon DEF Objects
      <3>2. k \in free[s] \/ <<s, k>> \in tc
        BY Zenon, <3>1, <1>0, <1>a, <1>b DEF OwnedOnce, IsFree, InHand
      <3> QED BY Zenon, <3>2, <1>a
    <2>2. \A s \in Spans : free'[s] \subseteq Slots
      BY Zenon, <1>0, <1>a DEF TypeOK
    <2> QED BY ZenonT(40), <2>1, <2>2
  <1>d. \A s \in Spans : ~InList(s, span_list)'
    <2>1. span_list' = <<>>
      BY Zenon, <1>a
    <2>2. \A s \in Spans : ~InList(s, <<>>)
      BY SMTT(30) DEF InList
    <2> QED BY Zenon, <2>1, <2>2
  <1>e. \A t \in Threads, s \in Spans : ~Carries(t, s) /\ ~Carries(t, s)'
    <2>1. \A t \in Threads : pc[t] = "idle" /\ pc'[t] = "idle"
      BY Zenon, <1>a
    <2> QED BY Zenon, <2>1 DEF Carries
  <1>1. TypeOK'
    <2>1. span_list' \in Seq(Spans) /\ pool' \in SUBSET Spans /\ tc' \in SUBSET Objects
      BY <1>0, <1>a, SMTT(40) DEF TypeOK
    <2>2. free' \in [Spans -> SUBSET Slots]
      BY Zenon, <1>0, <1>a DEF TypeOK
    <2> QED BY Zenon, <1>0, <1>a, <2>1, <2>2 DEF TypeOK
  <1>2. LockHeld'
    BY Zenon, <1>0, <1>a DEF LockHeld
  <1>3. Locals'
    BY Zenon, <1>0, <1>a DEF Locals
  <1>4. Working'
    BY Zenon, <1>a DEF Working
  <1>5. OwnedOnce'
    <2>1. \A o \in Objects : IsFree(o)'
      BY Zenon, <1>c DEF IsFree, Objects
    <2>2. \A t \in Threads, o \in Objects : ~InHand(t, o)'
      BY Zenon, <1>a, <1>b DEF InHand
    <2> QED BY Zenon, <2>1, <2>2, <1>a, <1>b DEF OwnedOnce
  <1>6. ReleasedSpansUnused'
    <2>1. \A s \in Spans : s \in pool'
      BY Zenon, <1>0, <1>a, <1>e DEF ReleasedSpansUnused
    <2> QED BY Zenon, <2>1, <1>c, <1>d, <1>e DEF ReleasedSpansUnused
  <1>7. NoDup(span_list)'
    <2>1. span_list' = <<>>
      BY Zenon, <1>a
    <2> QED BY <2>1 DEF NoDup
  <1>8. Fresh'
    BY Zenon, <1>a, <1>d DEF Fresh
  <1> QED BY Zenon, <1>1, <1>2, <1>3, <1>4, <1>5, <1>6, <1>7, <1>8 DEF IInv

-----------------------------------------------------------------------------
LEMMA NextInv == IInv /\ [Next]_vars => IInv'
  <1> SUFFICES ASSUME IInv, [Next]_vars PROVE IInv'
    OBVIOUS
  <1>1. ASSUME NEW t \in Threads, NEW n \in 1 .. Batch, CallFetch(t, n) PROVE IInv'
    BY Zenon, <1>1, CallFetchInv
  <1>2. ASSUME NEW t \in Threads, NEW S \in SUBSET out, CallRelease(t, S) PROVE IInv'
    BY Zenon, <1>2, CallReleaseInv
  <1>3. ASSUME NEW t \in Threads, FetchStep(t) PROVE IInv'
    BY Zenon, <1>3, GrabInv, LockInv, OuterInv, TakeInv, FullInv, UnlockInv, AllocSpanInv,
       AllocSpanFailsInv, RelockInv, PublishInv DEF FetchStep
  <1>4. ASSUME NEW t \in Threads, ReleaseStep(t) PROVE IInv'
    BY Zenon, <1>4, AbsorbInv, RLockInv, FreeInv, ReleaseSpanInv, RUnlockInv DEF ReleaseStep
  <1>5. ASSUME NEW t \in Threads, Return(t) PROVE IInv'
    BY ZenonT(40), <1>5, ReturnInv
  <1>6. CASE Reset
    BY Zenon, <1>6, ResetInv
  <1>7. CASE UNCHANGED vars
    <2>1. UNCHANGED <<tc, tc_capacity, span_list, lock, free, pool, out, pc, want, got,
                      pre, rel, chunk, span, terminated>>
      BY Zenon, <1>7 DEF vars, bucket
    <2>2. TypeOK' /\ LockHeld' /\ Locals' /\ Working' /\ NoDup(span_list)'
      BY Zenon, <2>1 DEF IInv, TypeOK, LockHeld, Locals, Working, NoDup, InList
    <2>3. OwnedOnce'
      BY Zenon, <2>1, OwnedFrame DEF IInv
    <2>4. ReleasedSpansUnused'
      BY Zenon, <2>1, SpansFrame DEF IInv, Carries
    <2>5. Fresh'
      BY Zenon, <2>1, FreshFrame DEF IInv, Extracted, Fresh
    <2> QED BY Zenon, <2>2, <2>3, <2>4, <2>5 DEF IInv
  <1> QED BY Zenon, <1>1, <1>2, <1>3, <1>4, <1>5, <1>6, <1>7 DEF Next, Step

LEMMA Invariance == Spec => []IInv
  BY InitInv, NextInv, PTL DEF Spec

(* FetchRange and ReleaseListToSpans never duplicate or lose an object of   *)
(* the bucket, whatever the threads, spans, batch and capacities.           *)
THEOREM ObjectsOwnedOnce == Spec => []OwnedOnce
  <1>1. IInv => OwnedOnce
    BY Zenon DEF IInv
  <1> QED BY <1>1, Invariance, PTL

(* ReleaseListToSpans gives PageCache only spans without live objects, each *)
(* once, and never one that the bucket still lists.                         *)
THEOREM SpansReturnedUnused == Spec => []ReleasedSpansUnused
  <1>1. IInv => ReleasedSpansUnused
    BY Zenon DEF IInv
  <1> QED BY <1>1, Invariance, PTL

(* Between critical sections every listed span has an object in use.        *)
THEOREM NoIdleSpanListed == Spec => []ListedSpansInUse
  <1>1. ASSUME IInv PROVE ListedSpansInUse
    <2>1. SUFFICES ASSUME lock = None, NEW i \in 1 .. Len(span_list)
                   PROVE  UseCount(span_list[i]) > 0
      BY Zenon, <1>1 DEF ListedSpansInUse, IInv
    <2> DEFINE s == span_list[i]
    <2>2. s \in Spans /\ InList(s, span_list)
      BY <1>1, SMTT(40) DEF IInv, TypeOK, InList
    <2>3. \A t \in Threads : pc[t] # "take"
      BY Zenon, <1>1, <2>1, BucketAssumption DEF IInv, LockHeld
    <2>4. free[s] # Slots
      BY Zenon, <1>1, <2>2, <2>3 DEF IInv, Fresh
    <2>5. free[s] \in SUBSET Slots
      BY Zenon, <1>1, <2>2 DEF IInv, TypeOK
    <2>6. IsFiniteSet(Slots) /\ Cardinality(Slots) = capacity /\ capacity \in Nat
      BY SMTT(30), FS_Interval, BucketAssumption DEF Slots
    <2>7. /\ IsFiniteSet(free[s]) /\ Cardinality(free[s]) <= capacity
          /\ Cardinality(free[s]) # capacity
      BY Zenon, <2>4, <2>5, <2>6, FS_Subset
    <2>8. Cardinality(free[s]) \in Nat
      BY Zenon, <2>7, FS_CardinalityType
    <2> QED BY <2>6, <2>7, <2>8 DEF UseCount
  <1> QED BY <1>1, Invariance, PTL

(* Reset finds every span in its list or already in PageCache, and every    *)
(* object free or in the TransferCache.                                     *)
THEOREM TeardownIsComplete == Spec => TeardownReturnsAll
  <1>1. ASSUME IInv, Reset PROVE pool' = Spans /\ free' = [s \in Spans |-> Slots]
    <2>1. /\ \A t \in Threads : pc[t] = "idle"
          /\ out = {}
          /\ free' = [s \in Spans |-> free[s] \cup {k \in Slots : <<s, k>> \in tc}]
          /\ pool' = pool \cup {s \in Spans : InList(s, span_list)}
      BY Zenon, <1>1 DEF Reset, Quiescent
    <2>2. \A s \in Spans : s \in pool \/ InList(s, span_list)
      BY Zenon, <1>1, <2>1 DEF IInv, ReleasedSpansUnused, Carries
    <2>3. pool' = Spans
      BY Zenon, <1>1, <2>1, <2>2 DEF IInv, TypeOK
    <2>4. \A t \in Threads, o \in Objects : ~InHand(t, o)
      BY Zenon, <1>1, <2>1 DEF IInv, Locals, InHand
    <2>5. \A s \in Spans : free[s] \cup {k \in Slots : <<s, k>> \in tc} = Slots
      <3> SUFFICES ASSUME NEW s \in Spans, NEW k \in Slots
                   PROVE  k \in free[s] \/ <<s, k>> \in tc
        BY Zenon, <1>1 DEF IInv, TypeOK
      <3>1. <<s, k>> \in Objects
        BY Zenon DEF Objects
      <3>2. IsFree(<<s, k>>) \/ <<s, k>> \in tc
        BY Zenon, <1>1, <2>1, <2>4, <3>1 DEF IInv, OwnedOnce
      <3> QED BY Zenon, <3>2 DEF IsFree
    <2>6. free' = [s \in Spans |-> Slots]
      BY Zenon, <2>1, <2>5
    <2> QED BY Zenon, <2>3, <2>6
  <1>2. IInv => [Reset => pool' = Spans /\ free' = [s \in Spans |-> Slots]]_vars
    BY Zenon, <1>1
  <1> QED BY <1>2, Invariance, PTL DEF TeardownReturnsAll

-----------------------------------------------------------------------------
(***************************************************************************)
(* The front end over the bucket (SmallObjects).  Each of its steps is a   *)
(* step of CentralCache or leaves it alone, so the theorems above carry    *)
(* over; CachesApart then follows from the places OwnedOnce keeps apart.   *)
(***************************************************************************)

(* Thread t is not inside FetchRange. *)
Outside(t) == got[t] = {} /\ pc[t] \in {"idle", "absorb", "rlock", "free", "page", "ret"}

(***************************************************************************)
(* The list of a thread is empty while its refill is in CentralCache, so   *)
(* the refill overwrites nothing.                                          *)
(***************************************************************************)
SmallInv ==
  /\ IInv
  /\ max_size \in [Threads -> Nat \ {0}]
  /\ overages \in [Threads -> Nat]
  /\ list \in [Threads -> SUBSET Objects]
  /\ live \in SUBSET Objects
  /\ op \in [Threads -> {"none", "fetch", "trim", "drain", "late"}]
  /\ \A t \in Threads : op[t] = "fetch" => list[t] = {}
  /\ \A t \in Threads : op[t] # "fetch" => Outside(t)
  /\ CachesApart

LEMMA QuotaPositive ==
  ASSUME NEW t \in Threads, NEW m \in Nat \ {0}, NEW n \in Nat
  PROVE  /\ TC(t)!GrownQuota(m) \in Nat \ {0}
         /\ TC(t)!DecayedQuota(m, n) \in Nat \ {0}
         /\ TC(t)!NextOverages(m, n) \in Nat
  <1>1. Batch \in Nat /\ Batch >= 1 /\ Batch * QuotaScale \in Nat /\ Batch \div 8 \in Nat
    BY SMTT(30), FrontEndAssumption, BucketAssumption, SMT
  <1>3. TC(t)!GrownQuota(m) \in Nat \ {0}
    BY SMTT(30), <1>1 DEF TC!GrownQuota, TC!Lesser, TC!Greater
  <1>4. TC(t)!DecayedQuota(m, n) \in Nat \ {0}
    BY <1>1 DEF TC!DecayedQuota, TC!Decays, TC!Greater
  <1>5. TC(t)!NextOverages(m, n) \in Nat
    BY <1>1 DEF TC!NextOverages
  <1> QED BY Zenon, <1>3, <1>4, <1>5

(* A step of the front end is a step of the bucket or leaves it alone. *)
LEMMA StepMaps ==
  ASSUME SmallInv, [SmallNext]_allVars PROVE [Next]_vars
  <1>1. CASE UNCHANGED allVars
    BY Zenon, <1>1 DEF allVars
  <1>2. ASSUME NEW t \in Threads, MallocSlow(t) PROVE Next
    <2> DEFINE n == IF Batch < max_size[t] THEN Batch ELSE max_size[t]
    <2>1. n \in 1 .. Batch
      BY FrontEndAssumption, BucketAssumption DEF SmallInv
    <2> QED BY Zenon, <1>2, <2>1 DEF MallocSlow, Next
  <1>3. ASSUME NEW t \in Threads, NEW S, CallRelease(t, S) PROVE Next
    BY Zenon, <1>3 DEF CallRelease, Next
  <1>4. ASSUME NEW t \in Threads, ThreadExit(t) PROVE [Next]_vars
    BY Zenon, <1>4, <1>3 DEF ThreadExit
  <1>5. ASSUME NEW t \in Threads, NEW o, FreeSlow(t, o) \/ FreeLate(t, o) PROVE Next
    BY Zenon, <1>5, <1>3 DEF FreeSlow, FreeLate
  <1>6. ASSUME NEW t \in Threads, Return(t) \/ CentralStep(t) PROVE Next
    BY Zenon, <1>6 DEF Next, Step, CentralStep
  <1>7. ASSUME NEW t \in Threads,
               MallocReturns(t) \/ TrimReturns(t) \/ LateReturns(t) \/ DrainReturns(t)
        PROVE  Next
    BY Zenon, <1>7, <1>6 DEF MallocReturns, TrimReturns, LateReturns, DrainReturns
  <1>8. ASSUME NEW t \in Threads, NEW o, MallocFast(t) \/ FreeFast(t, o)
        PROVE  UNCHANGED vars
    BY Zenon, <1>8 DEF MallocFast, FreeFast
  <1>9. CentralReset => Next
    BY Zenon DEF CentralReset, Next
  <1> QED BY Zenon, <1>1, <1>2, <1>4, <1>5, <1>6, <1>7, <1>8, <1>9 DEF SmallNext

LEMMA SmallInitInv == SmallInit => SmallInv
  BY SMTT(30), InitInv DEF SmallInit, Init, SmallInv, CachesApart, Outside

(* The bucket steps of a slow path do not touch what is outside. *)
LEMMA InsideFrame ==
  ASSUME NEW t \in Threads, FetchStep(t) \/ ReleaseStep(t) PROVE UNCHANGED out
  BY Zenon DEF FetchStep, ReleaseStep, Grab, Lock, Outer, Take, Full, Unlock, AllocSpan,
         AllocSpanFails, Relock, Publish, Absorb, RLock, Free, ReleaseSpan, RUnlock, bucket

(* No step of thread t moves another one, and releasing is not fetching. *)
LEMMA OthersFrame ==
  ASSUME IInv, NEW t \in Threads, NEW u \in Threads \ {t},
         FetchStep(t) \/ ReleaseStep(t) \/ Return(t) \/ (\E S : CallRelease(t, S))
         \/ (\E n : CallFetch(t, n))
  PROVE  pc'[u] = pc[u] /\ got'[u] = got[u]
  <1>0. pc \in [Threads -> Labels] /\ got \in [Threads -> SUBSET Objects]
    BY Zenon DEF IInv, TypeOK
  <1>1. CASE FetchStep(t)
    BY Zenon, <1>0, <1>1 DEF FetchStep, Grab, Lock, Outer, Take, Full, Unlock, AllocSpan,
                      AllocSpanFails, Relock, Publish, Goto
  <1>2. CASE ReleaseStep(t)
    BY Zenon, <1>0, <1>2 DEF ReleaseStep, Absorb, RLock, Free, ReleaseSpan, RUnlock, Goto
  <1>3. CASE Return(t) \/ (\E S : CallRelease(t, S)) \/ (\E n : CallFetch(t, n))
    BY ZenonT(40), <1>0, <1>3 DEF Return, CallRelease, CallFetch, Goto
  <1> QED BY Zenon, <1>1, <1>2, <1>3

LEMMA OutsideStays ==
  ASSUME IInv, NEW t \in Threads, Outside(t),
         FetchStep(t) \/ ReleaseStep(t) \/ Return(t) \/ (\E S : CallRelease(t, S))
  PROVE  Outside(t)'
  <1>0. pc \in [Threads -> Labels] /\ got \in [Threads -> SUBSET Objects]
    BY Zenon DEF IInv, TypeOK
  <1>1. ~FetchStep(t)
    BY Zenon DEF Outside, FetchStep, Grab, Lock, Outer, Take, Full, Unlock, AllocSpan,
           AllocSpanFails, Relock, Publish
  <1>2. CASE ReleaseStep(t)
    <2>1. UNCHANGED got
      BY Zenon, <1>2 DEF ReleaseStep, Absorb, RLock, Free, ReleaseSpan, RUnlock
    <2>2. PICK l \in {"absorb", "rlock", "free", "page", "ret"} :
            pc' = [pc EXCEPT ![t] = l]
      <3>1. CASE Absorb(t)
        BY Zenon, <3>1 DEF Absorb, Goto
      <3>2. CASE RLock(t) \/ ReleaseSpan(t) \/ RUnlock(t)
        BY Zenon, <3>2 DEF RLock, ReleaseSpan, RUnlock, Goto
      <3>3. CASE Free(t)
        <4>1. pc' = pc \/ pc' = [pc EXCEPT ![t] = "page"]
          BY Zenon, <3>3 DEF Free, Goto
        <4>2. pc = [pc EXCEPT ![t] = "free"]
          BY Zenon, <3>3, <1>0 DEF Free
        <4> QED BY Zenon, <4>1, <4>2
      <3> QED BY Zenon, <1>2, <3>1, <3>2, <3>3 DEF ReleaseStep
    <2> QED BY Zenon, <2>1, <2>2, <1>0 DEF Outside
  <1>3. CASE Return(t) \/ (\E S : CallRelease(t, S))
    BY Zenon, <1>0, <1>3 DEF Return, CallRelease, Goto, Outside
  <1> QED BY Zenon, <1>1, <1>2, <1>3

(* The conjuncts about the front end, one step after another. *)
LEMMA SmallNextInv == SmallInv /\ [SmallNext]_allVars => SmallInv'
  <1> SUFFICES ASSUME SmallInv, [SmallNext]_allVars PROVE SmallInv'
    OBVIOUS
  <1>0. /\ max_size \in [Threads -> Nat \ {0}] /\ overages \in [Threads -> Nat]
        /\ list \in [Threads -> SUBSET Objects] /\ live \in SUBSET Objects
        /\ op \in [Threads -> {"none", "fetch", "trim", "drain", "late"}]
        /\ \A t \in Threads : op[t] = "fetch" => list[t] = {}
    BY Zenon DEF SmallInv
  <1>a. /\ out = live \cup UNION {list[t] : t \in Threads}
        /\ \A t \in Threads :
             /\ list[t] \cap live = {}
             /\ \A u \in Threads \ {t} : list[t] \cap list[u] = {}
    BY Zenon DEF SmallInv, CachesApart
  <1>1. IInv'
    BY Zenon, StepMaps, NextInv DEF SmallInv
  <1> DEFINE Types == /\ max_size' \in [Threads -> Nat \ {0}] /\ overages' \in [Threads -> Nat]
                      /\ list' \in [Threads -> SUBSET Objects] /\ live' \in SUBSET Objects
                      /\ op' \in [Threads -> {"none", "fetch", "trim", "drain", "late"}]
                      /\ \A t \in Threads : op'[t] = "fetch" => list'[t] = {}
  <1> DEFINE OutsideAll == \A u \in Threads : op'[u] # "fetch" => Outside(u)'
  <1>o. OutsideAll
    <2>0. IInv /\ \A u \in Threads : op[u] # "fetch" => Outside(u)
      BY Zenon DEF SmallInv
    <2>1. ASSUME UNCHANGED <<pc, got, op>> PROVE OutsideAll
      BY Zenon, <2>0, <2>1 DEF Outside
    <2>2. ASSUME NEW t \in Threads, FetchStep(t) \/ ReleaseStep(t) \/ Return(t)
                   \/ (\E S : CallRelease(t, S)),
                 UNCHANGED op \/ (op[t] # "fetch" /\ \E l : op' = [op EXCEPT ![t] = l])
          PROVE  OutsideAll
      <3>1. ASSUME NEW u \in Threads \ {t}, op'[u] # "fetch" PROVE Outside(u)'
        BY Zenon, <2>0, <2>2, <3>1, OthersFrame, <1>0 DEF Outside
      <3>2. ASSUME op'[t] # "fetch" PROVE Outside(t)'
        BY Zenon, <2>0, <2>2, <3>2, OutsideStays, <1>0
      <3> QED BY Zenon, <3>1, <3>2
    <2>3. ASSUME NEW t \in Threads, MallocSlow(t) PROVE OutsideAll
      <3>1. op' = [op EXCEPT ![t] = "fetch"] /\ \E n : CallFetch(t, n)
        BY Zenon, <2>3 DEF MallocSlow, Begin
      <3> QED BY Zenon, <2>0, <3>1, OthersFrame, <1>0 DEF Outside
    <2>4. ASSUME NEW t \in Threads, MallocReturns(t) PROVE OutsideAll
      <3>1. op' = [op EXCEPT ![t] = "none"] /\ Return(t)
        BY Zenon, <2>4 DEF MallocReturns, Begin
      <3>2. Outside(t)'
        BY ZenonT(40), <2>0, <3>1 DEF Outside, Return, Goto, IInv, TypeOK
      <3> QED BY ZenonT(40), <2>0, <3>1, <3>2, OthersFrame, <1>0 DEF Outside
    <2>5. ASSUME NEW t \in Threads, NEW o, FreeSlow(t, o) \/ FreeLate(t, o) PROVE OutsideAll
      <3>1. op[t] # "fetch" /\ (\E l : op' = [op EXCEPT ![t] = l]) /\ \E S : CallRelease(t, S)
        BY Zenon, <2>5 DEF FreeSlow, FreeLate, Begin
      <3> QED BY Zenon, <3>1, <2>2
    <2>6. ASSUME NEW t \in Threads, TrimReturns(t) \/ LateReturns(t) \/ DrainReturns(t)
          PROVE  OutsideAll
      <3>1. op[t] # "fetch" /\ (\E l : op' = [op EXCEPT ![t] = l]) /\ Return(t)
        BY Zenon, <2>6 DEF TrimReturns, LateReturns, DrainReturns, Begin
      <3> QED BY Zenon, <3>1, <2>2
    <2>7. ASSUME NEW t \in Threads, ThreadExit(t) PROVE OutsideAll
      <3>1. \/ UNCHANGED <<vars, op>>
            \/ op[t] # "fetch" /\ (\E l : op' = [op EXCEPT ![t] = l]) /\ \E S : CallRelease(t, S)
        BY Zenon, <2>7 DEF ThreadExit, Begin
      <3> QED BY ZenonT(40), <3>1, <2>1, <2>2 DEF vars
    <2>8. ASSUME NEW t \in Threads, CentralStep(t) PROVE OutsideAll
      BY Zenon, <2>8, <2>2 DEF CentralStep, front
    <2>9. ASSUME NEW t \in Threads, NEW o, MallocFast(t) \/ FreeFast(t, o) PROVE OutsideAll
      BY Zenon, <2>9, <2>1 DEF MallocFast, FreeFast, vars
    <2>10. CASE CentralReset
      BY Zenon, <2>10, <2>1 DEF CentralReset, Reset, front
    <2>11. CASE UNCHANGED allVars
      BY Zenon, <2>11, <2>1 DEF allVars, vars, front
    <2> QED BY ZenonT(40), <2>3, <2>4, <2>5, <2>6, <2>7, <2>8, <2>9, <2>10, <2>11 DEF SmallNext
  <1>2. SUFFICES Types /\ CachesApart'
    BY Zenon, <1>1, <1>o DEF SmallInv
  <1>f. ASSUME UNCHANGED <<out, list, live>> PROVE CachesApart'
    BY Zenon, <1>f, <1>a DEF CachesApart
  <1>g. ASSUME NEW t \in Threads, NEW L, NEW V, list' = [list EXCEPT ![t] = L], live' = V,
               L \cap V = {}, \A u \in Threads \ {t} : list[u] \cap (L \cup V) = {},
               out' = V \cup L \cup UNION {list[u] : u \in Threads \ {t}}
        PROVE  CachesApart'
    <2>1. list'[t] = L /\ \A u \in Threads \ {t} : list'[u] = list[u]
      BY Zenon, <1>g, <1>0
    <2>2. UNION {list'[u] : u \in Threads} = L \cup UNION {list[u] : u \in Threads \ {t}}
      BY Zenon, <2>1
    <2>3. out' = live' \cup UNION {list'[u] : u \in Threads}
      BY Zenon, <2>2, <1>g
    <2>4. \A u \in Threads : /\ list'[u] \cap live' = {}
                             /\ \A v \in Threads \ {u} : list'[u] \cap list'[v] = {}
      BY ZenonT(40), <2>1, <1>g, <1>a
    <2> QED BY Zenon, <2>3, <2>4 DEF CachesApart
  <1>h. ASSUME NEW t \in Threads
        PROVE  out = live \cup list[t] \cup UNION {list[u] : u \in Threads \ {t}}
    BY Zenon, <1>a
  <1>3. CASE UNCHANGED allVars
    BY Zenon, <1>3, <1>0, <1>f DEF allVars, vars, front
  <1>4. ASSUME NEW t \in Threads, MallocFast(t) PROVE Types /\ CachesApart'
    <2>1. PICK o \in list[t] : /\ list' = [list EXCEPT ![t] = list[t] \ {o}]
                               /\ live' = live \cup {o}
      BY Zenon, <1>4 DEF MallocFast
    <2>2. UNCHANGED <<out, max_size, overages, op>> /\ op[t] = "none"
      BY Zenon, <1>4 DEF MallocFast, vars
    <2>3. CachesApart'
      <3>1. \A u \in Threads \ {t} : list[u] \cap ((list[t] \ {o}) \cup (live \cup {o})) = {}
        BY Zenon, <2>1, <1>a
      <3>2. (list[t] \ {o}) \cap (live \cup {o}) = {}
        BY Zenon, <2>1, <1>a
      <3>3. out' = (live \cup {o}) \cup (list[t] \ {o}) \cup UNION {list[u] : u \in Threads \ {t}}
        BY Zenon, <2>1, <2>2, <1>h
      <3> QED BY Zenon, <2>1, <3>1, <3>2, <3>3, <1>g
    <2> QED BY Zenon, <2>1, <2>2, <2>3, <1>0
  <1>5. ASSUME NEW t \in Threads, MallocSlow(t) PROVE Types /\ CachesApart'
    <2>1. UNCHANGED <<out, list, live, max_size, overages>> /\ list[t] = {}
          /\ op' = [op EXCEPT ![t] = "fetch"]
      BY Zenon, <1>5 DEF MallocSlow, CallFetch, Begin
    <2> QED BY Zenon, <2>1, <1>0, <1>f
  <1>6. ASSUME NEW t \in Threads, MallocReturns(t) PROVE Types /\ CachesApart'
    <2>1. PICK o \in got[t] : /\ list' = [list EXCEPT ![t] = got[t] \ {o}]
                              /\ live' = live \cup {o}
      BY Zenon, <1>6 DEF MallocReturns
    <2>2. /\ out' = out \cup got[t]
          /\ max_size' = [max_size EXCEPT ![t] = TC(t)!GrownQuota(max_size[t])]
          /\ overages' = [overages EXCEPT ![t] = 0]
          /\ op' = [op EXCEPT ![t] = "none"]
          /\ op[t] = "fetch"
      BY Zenon, <1>6 DEF MallocReturns, Return, Begin
    <2>3. got[t] \in SUBSET Objects /\ got[t] \cap out = {}
      BY Zenon DEF SmallInv, IInv, TypeOK, OwnedOnce, InHand
    <2>4. CachesApart'
      <3>1. list[t] = {}
        BY Zenon, <2>2, <1>0
      <3>2. \A u \in Threads \ {t} : list[u] \cap ((got[t] \ {o}) \cup (live \cup {o})) = {}
        BY <2>1, <2>3, <1>a
      <3>3. (got[t] \ {o}) \cap (live \cup {o}) = {}
        BY Zenon, <2>1, <2>3, <1>a
      <3>4. out' = (live \cup {o}) \cup (got[t] \ {o}) \cup UNION {list[u] : u \in Threads \ {t}}
        BY Zenon, <2>1, <2>2, <3>1, <1>h
      <3> QED BY ZenonT(40), <2>1, <3>2, <3>3, <3>4, <1>g
    <2>5. TC(t)!GrownQuota(max_size[t]) \in Nat \ {0}
      BY Zenon, <1>0, QuotaPositive
    <2> QED BY Zenon, <2>1, <2>2, <2>3, <2>4, <2>5, <1>0
  <1>7. ASSUME NEW t \in Threads, NEW o \in live, FreeFast(t, o) PROVE Types /\ CachesApart'
    <2>1. /\ list' = [list EXCEPT ![t] = list[t] \cup {o}]
          /\ live' = live \ {o}
          /\ UNCHANGED <<out, max_size, overages, op>> /\ op[t] = "none"
      BY Zenon, <1>7 DEF FreeFast, vars
    <2>2. CachesApart'
      <3>1. \A u \in Threads \ {t} : list[u] \cap ((list[t] \cup {o}) \cup (live \ {o})) = {}
        BY Zenon, <1>a
      <3>2. (list[t] \cup {o}) \cap (live \ {o}) = {}
        BY Zenon, <1>a
      <3>3. out' = (live \ {o}) \cup (list[t] \cup {o}) \cup UNION {list[u] : u \in Threads \ {t}}
        BY Zenon, <2>1, <1>h
      <3> QED BY Zenon, <2>1, <3>1, <3>2, <3>3, <1>g
    <2> QED BY Zenon, <2>1, <2>2, <1>0
  <1>8. ASSUME NEW t \in Threads, NEW o \in live, FreeSlow(t, o) PROVE Types /\ CachesApart'
    <2>1. PICK S \in SUBSET list[t] : /\ CallRelease(t, S \cup {o})
                                      /\ list' = [list EXCEPT ![t] = list[t] \ S]
      BY Zenon, <1>8 DEF FreeSlow
    <2>2. /\ out' = out \ (S \cup {o})
          /\ live' = live \ {o}
          /\ op' = [op EXCEPT ![t] = "trim"]
          /\ UNCHANGED <<max_size, overages>>
      BY Zenon, <1>8, <2>1 DEF FreeSlow, CallRelease, Begin
    <2>3. CachesApart'
      <3>1. \A u \in Threads \ {t} : list[u] \cap ((list[t] \ S) \cup (live \ {o})) = {}
        BY Zenon, <1>a
      <3>2. (list[t] \ S) \cap (live \ {o}) = {}
        BY Zenon, <1>a
      <3>3. \A u \in Threads \ {t} : list[u] \cap (S \cup {o}) = {}
        BY Zenon, <1>a
      <3>4. live \cap S = {} /\ list[t] \cap {o} = {}
        BY Zenon, <1>a
      <3>5. out' = (live \ {o}) \cup (list[t] \ S) \cup UNION {list[u] : u \in Threads \ {t}}
        BY SMTT(30), <2>2, <3>3, <3>4, <1>h
      <3> QED BY Zenon, <2>1, <2>2, <3>1, <3>2, <3>5, <1>g
    <2> QED BY Zenon, <2>1, <2>2, <2>3, <1>0
  <1>9. ASSUME NEW t \in Threads, NEW o \in live, FreeLate(t, o) PROVE Types /\ CachesApart'
    <2>1. /\ out' = out \ {o}
          /\ live' = live \ {o}
          /\ op' = [op EXCEPT ![t] = "late"]
          /\ UNCHANGED <<list, max_size, overages>>
      BY Zenon, <1>9 DEF FreeLate, CallRelease, Begin
    <2>2. CachesApart'
      BY ZenonT(40), <2>1, <1>a DEF CachesApart
    <2> QED BY Zenon, <2>1, <2>2, <1>0
  <1>10. ASSUME NEW t \in Threads, TrimReturns(t) \/ LateReturns(t) \/ DrainReturns(t)
         PROVE  Types /\ CachesApart'
    <2>1. UNCHANGED <<list, live>> /\ op' = [op EXCEPT ![t] = "none"] /\ op[t] # "fetch"
          /\ Return(t)
      BY Zenon, <1>10 DEF TrimReturns, LateReturns, DrainReturns, Begin
    <2>2. got[t] = {}
      BY Zenon, <2>1 DEF SmallInv, Outside
    <2>3. UNCHANGED out
      BY Zenon, <2>1, <2>2 DEF Return
    <2>4. /\ max_size' \in [Threads -> Nat \ {0}] /\ overages' \in [Threads -> Nat]
      <3>1. /\ TC(t)!DecayedQuota(max_size[t], overages[t]) \in Nat \ {0}
            /\ TC(t)!NextOverages(max_size[t], overages[t]) \in Nat
        BY Zenon, <1>0, QuotaPositive
      <3> QED BY SMTT(30), <1>10, <1>0, <3>1 DEF TrimReturns, LateReturns, DrainReturns
    <2> QED BY Zenon, <2>1, <2>3, <2>4, <1>0, <1>f
  <1>11. ASSUME NEW t \in Threads, ThreadExit(t) PROVE Types /\ CachesApart'
    <2>1. UNCHANGED <<max_size, overages, live>> /\ op[t] = "none"
      BY Zenon, <1>11 DEF ThreadExit
    <2>2. CASE UNCHANGED <<vars, list, op>>
      BY ZenonT(40), <2>1, <2>2, <1>0, <1>f DEF vars
    <2>3. CASE ~UNCHANGED <<vars, list, op>>
      <3>1. /\ out' = out \ list[t] /\ list' = [list EXCEPT ![t] = {}]
            /\ op' = [op EXCEPT ![t] = "drain"]
        BY Zenon, <1>11, <2>3 DEF ThreadExit, CallRelease, Begin
      <3>2. \A u \in Threads \ {t} : list[u] \cap ({} \cup live) = {}
        BY Zenon, <1>a
      <3>3. out' = live \cup {} \cup UNION {list[u] : u \in Threads \ {t}}
        BY SMTT(30), <3>1, <1>a, <1>h
      <3>4. CachesApart'
        <4> DEFINE L == {}
        <4>1. list' = [list EXCEPT ![t] = L] /\ live' = live /\ L \cap live = {}
              /\ (\A u \in Threads \ {t} : list[u] \cap (L \cup live) = {})
              /\ out' = live \cup L \cup UNION {list[u] : u \in Threads \ {t}}
          BY ZenonT(40), <2>1, <3>1, <3>2, <3>3
        <4> HIDE DEF L
        <4> QED BY Zenon, <4>1, <1>g
      <3> QED BY Zenon, <2>1, <3>1, <3>4, <1>0
    <2> QED BY Zenon, <2>2, <2>3
  <1>12. ASSUME NEW t \in Threads, CentralStep(t) PROVE Types /\ CachesApart'
    <2>1. UNCHANGED front /\ UNCHANGED out
      BY Zenon, <1>12, InsideFrame DEF CentralStep
    <2> QED BY Zenon, <2>1, <1>0, <1>f DEF front
  <1>13. CASE CentralReset
    BY Zenon, <1>13, <1>0, <1>f DEF CentralReset, Reset, front
  <1> QED BY ZenonT(40), <1>3, <1>4, <1>5, <1>6, <1>7, <1>8, <1>9, <1>10, <1>11, <1>12, <1>13 DEF SmallNext

LEMMA SmallInvariance == SmallSpec => []SmallInv
  BY SmallInitInv, SmallNextInv, PTL DEF SmallSpec

-----------------------------------------------------------------------------
(* am_malloc and am_free keep what the program has apart from what the      *)
(* thread caches hold, for any number of threads.                           *)
THEOREM ProgramObjectsApart == SmallSpec => []CachesApart
  <1>1. SmallInv => CachesApart
    BY Zenon DEF SmallInv
  <1> QED BY <1>1, SmallInvariance, PTL

(* The front end calls FetchRange and ReleaseListToSpans only as module     *)
(* CentralCache assumes, so the theorems about the bucket hold in it.       *)
THEOREM FrontEndUsesBucket == SmallSpec => UsesCentralCache
  <1>1. SmallInit => Init
    BY Zenon DEF SmallInit
  <1>2. SmallInv /\ [SmallNext]_allVars => [Next]_vars
    BY Zenon, StepMaps
  <1> QED BY <1>1, <1>2, SmallInvariance, PTL DEF SmallSpec, UsesCentralCache, Spec

=============================================================================
