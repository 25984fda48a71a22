------------------------------ MODULE PageMap ------------------------------
(***************************************************************************)
(* PageMap (page_cache.cpp): a radix tree of four levels that maps page    *)
(* numbers to spans.  One writer at a time, which holds the lock of the    *)
(* PageCache shard, publishes or clears a range of pages; readers walk the *)
(* tree without a lock.  Every atomic store and load is a step.            *)
(***************************************************************************)
EXTENDS Integers, Sequences

CONSTANTS
  RADIX_NODE_SIZE,
  RADIX_ROOT_SIZE,
  MapPages,    \* bound: the pages that spans cover
  Lookups,     \* bound: the pages that readers ask for
  MaxRange,    \* bound: the longest range
  Spans,
  Null         \* the null pointer

Slots == 0 .. (RADIX_NODE_SIZE - 1)

VARIABLES
  root,    \* root_ is not null
  nodes,   \* the paths <<i0>>, <<i0, i1>>, <<i0, i1, i2>> of the nodes
  leaf,    \* leaf[n][k]: the entry k of the node n of the last level
  op,      \* the writer: "idle", "set" or "clear"
  span,    \* what it stores
  first,   \* the first page of its range
  pos,     \* start, or cur_page_id
  end,     \* the page after its range
  node,    \* p3
  idx,     \* i3 + k
  cnt,     \* the entries of p3 still to be stored
  flat,    \* what the finished operations have mapped
  page,    \* the reader's page
  level,   \* the levels it has passed, -1 when it is idle
  found    \* what GetSpan returned

tree == <<root, nodes, leaf>>
writer == <<op, span, first, pos, end, node, idx, cnt, flat>>
reader == <<page, level, found>>
mapVars == <<tree, writer, reader>>

-----------------------------------------------------------------------------
(* The pages below one node of level k: the shifts of page numbers. *)
Coverage(k) ==
  CASE k = 1 -> RADIX_NODE_SIZE * RADIX_NODE_SIZE * RADIX_NODE_SIZE
    [] k = 2 -> RADIX_NODE_SIZE * RADIX_NODE_SIZE
    [] k = 3 -> RADIX_NODE_SIZE

(* The index of page p at each level. *)
I0(p) == p \div Coverage(1)
I1(p) == (p \div Coverage(2)) % RADIX_NODE_SIZE
I2(p) == (p \div Coverage(3)) % RADIX_NODE_SIZE
I3(p) == p % RADIX_NODE_SIZE

Path(p, k) == SubSeq(<<I0(p), I1(p), I2(p)>>, 1, k)
LastNodes == (0 .. (RADIX_ROOT_SIZE - 1)) \X Slots \X Slots

(* The first level of the tree that lacks a node for page p. *)
Missing(p, k) == Path(p, k) \notin nodes /\ \A j \in 1 .. (k - 1) : Path(p, j) \in nodes

(* The pages that spans cover lie below the root. *)
MapParameters ==
  /\ RADIX_NODE_SIZE \in Nat \ {0} /\ RADIX_ROOT_SIZE \in Nat \ {0}
  /\ MapPages \subseteq 0 .. (RADIX_ROOT_SIZE * Coverage(1) - 1)
  /\ Lookups \subseteq Nat /\ MaxRange \in Nat /\ Null \notin Spans

Smaller(a, b) == IF a < b THEN a ELSE b

MapInit ==
  /\ root = FALSE
  /\ nodes = {}
  /\ leaf = [n \in LastNodes |-> [k \in Slots |-> Null]]
  /\ op = "idle" /\ span = Null /\ first = 0 /\ pos = 0 /\ end = 0
  /\ node = <<>> /\ idx = 0 /\ cnt = 0
  /\ flat = [p \in MapPages |-> Null]
  /\ page = 0 /\ level = -1 /\ found = Null

-----------------------------------------------------------------------------
(* SetSpan and ClearRange take the range of their caller. *)
Begin(name, p, n, s) ==
  /\ op' = name /\ span' = s
  /\ first' = p /\ pos' = p /\ end' = p + n
  /\ UNCHANGED <<nodes, leaf, node, idx, cnt, flat, reader>>

CallSet(p, n, s) ==
  /\ op = "idle"
  /\ root' = TRUE
  /\ Begin("set", p, n, s)

(* Without a root ClearRange returns at once. *)
CallClear(p, n) ==
  /\ op = "idle" /\ root
  /\ UNCHANGED root
  /\ Begin("clear", p, n, Null)

(* SetSpan allocates a missing node; its entries are null. *)
MakeNode(k) ==
  /\ op = "set" /\ pos < end /\ cnt = 0
  /\ Missing(pos, k)
  /\ nodes' = nodes \cup {Path(pos, k)}
  /\ UNCHANGED <<root, leaf, writer, reader>>

(* Mutant: the skip is that of the level above. *)
SkipNodeWide(k) ==
  LET coverage == RADIX_NODE_SIZE * Coverage(k) IN
  /\ op = "clear" /\ pos < end /\ cnt = 0
  /\ Missing(pos, k)
  /\ pos' = pos + Smaller(end - pos, coverage - (pos % coverage))
  /\ UNCHANGED <<tree, op, span, first, end, node, idx, cnt, flat, reader>>

(* ClearRange skips what a missing node would cover. *)
SkipNode(k) ==
  /\ op = "clear" /\ pos < end /\ cnt = 0
  /\ Missing(pos, k)
  /\ pos' = pos + Smaller(end - pos, Coverage(k) - (pos % Coverage(k)))
  /\ UNCHANGED <<tree, op, span, first, end, node, idx, cnt, flat, reader>>

(* The entries of one node that the range covers... *)
EnterNode ==
  /\ op # "idle" /\ pos < end /\ cnt = 0
  /\ Path(pos, 3) \in nodes
  /\ node' = Path(pos, 3)
  /\ idx' = I3(pos)
  /\ cnt' = Smaller(end - pos, RADIX_NODE_SIZE - I3(pos))
  /\ UNCHANGED <<tree, op, span, first, pos, end, flat, reader>>

(* ... are stored one after the other. *)
Store ==
  /\ cnt > 0
  /\ leaf' = [leaf EXCEPT ![node][idx] = span]
  /\ idx' = idx + 1
  /\ cnt' = cnt - 1
  /\ pos' = pos + 1
  /\ UNCHANGED <<root, nodes, op, span, first, end, node, flat, reader>>

Done ==
  /\ op # "idle" /\ pos >= end /\ cnt = 0
  /\ flat' = [p \in MapPages |-> IF first <= p /\ p < end THEN span ELSE flat[p]]
  /\ op' = "idle" /\ span' = Null /\ first' = 0 /\ pos' = 0 /\ end' = 0
  /\ node' = <<>> /\ idx' = 0
  /\ UNCHANGED <<tree, cnt, reader>>

(* Reset needs quiescence: no writer and no reader. *)
Reset ==
  /\ op = "idle" /\ level = -1
  /\ root' = FALSE /\ nodes' = {}
  /\ leaf' = [n \in LastNodes |-> [k \in Slots |-> Null]]
  /\ flat' = [p \in MapPages |-> Null]
  /\ UNCHANGED <<op, span, first, pos, end, node, idx, cnt, reader>>

-----------------------------------------------------------------------------
(* GetSpan(p): load root_, three children, and the entry. *)
CallGet(p) ==
  /\ level = -1
  /\ page' = p /\ level' = 0 /\ found' = Null
  /\ UNCHANGED <<tree, writer>>

Returns(value) == found' = value /\ level' = -1 /\ page' = 0

LoadRoot ==
  /\ level = 0
  /\ IF root /\ I0(page) < RADIX_ROOT_SIZE
     THEN level' = 1 /\ UNCHANGED <<page, found>> ELSE Returns(Null)
  /\ UNCHANGED <<tree, writer>>

LoadChild ==
  /\ level \in 1 .. 3
  /\ IF Path(page, level) \in nodes
     THEN level' = level + 1 /\ UNCHANGED <<page, found>> ELSE Returns(Null)
  /\ UNCHANGED <<tree, writer>>

(* Mutant: the entry of another page. *)
LoadEntryOff ==
  /\ level = 4
  /\ Returns(leaf[Path(page, 3)][I2(page)])
  /\ UNCHANGED <<tree, writer>>

LoadEntry ==
  /\ level = 4
  /\ Returns(leaf[Path(page, 3)][I3(page)])
  /\ UNCHANGED <<tree, writer>>

MapNext ==
  \/ \E p \in MapPages, n \in 1 .. MaxRange :
       /\ p .. (p + n - 1) \subseteq MapPages
       /\ CallClear(p, n) \/ \E s \in Spans : CallSet(p, n, s)
  \/ \E k \in 1 .. 3 : MakeNode(k) \/ SkipNode(k)
  \/ EnterNode \/ Store \/ Done \/ Reset
  \/ \E p \in Lookups : CallGet(p)
  \/ LoadRoot \/ LoadChild \/ LoadEntry

MapSpec == MapInit /\ [][MapNext]_mapVars

-----------------------------------------------------------------------------
MapTypeOK ==
  /\ root \in BOOLEAN
  /\ \A n \in nodes : Len(n) \in 1 .. 3
  /\ leaf \in [LastNodes -> [Slots -> Spans \cup {Null}]]
  /\ op \in {"idle", "set", "clear"}
  /\ cnt \in 0 .. RADIX_NODE_SIZE
  /\ idx \in 0 .. RADIX_NODE_SIZE
  /\ pos <= end
  /\ level \in -1 .. 4

(* What a reader that runs alone finds. *)
Lookup(p) ==
  IF /\ root /\ I0(p) < RADIX_ROOT_SIZE
     /\ \A k \in 1 .. 3 : Path(p, k) \in nodes
  THEN leaf[Path(p, 3)][I3(p)] ELSE Null

(***************************************************************************)
(* SetSpan publishes, and ClearRange clears, exactly the pages of the      *)
(* range, whatever nodes it crosses or skips.  While the writer is at work *)
(* a page outside of its range keeps its mapping, and a page inside has    *)
(* the old or the new one.                                                 *)
(***************************************************************************)
MapsRange ==
  \A p \in MapPages :
    IF op # "idle" /\ first <= p /\ p < end
    THEN Lookup(p) \in {flat[p], span}
    ELSE Lookup(p) = flat[p]

(***************************************************************************)
(* The lock-free GetSpan takes effect at its last load: whatever the       *)
(* writer did while the reader walked down, it returns what the tree maps  *)
(* the page to at that moment.                                             *)
(***************************************************************************)
LookupLinearizes == [][level' = -1 /\ level # -1 => found' = Lookup(page)]_mapVars

=============================================================================
