----------------------------- MODULE ObjectPool -----------------------------
(***************************************************************************)
(* ObjectPool<T> (page_allocator.h): a mutex-protected pool that cuts      *)
(* objects of one size from chunks of pages and recycles them through an   *)
(* intrusive free list.  Addresses are numbers of words.                   *)
(***************************************************************************)
EXTENDS Integers, Sequences, FiniteSets

CONSTANTS
  SizeT,        \* sizeof(T)
  AlignT,       \* alignof(T)
  HeaderSize,   \* sizeof(ChunkHeader)
  PAGE_SIZE,
  CHUNK_SIZE,
  MinObjs,      \* the least number of objects of a chunk, 10 in the code
  PoolLastPage  \* bound: the address space

(* The objects of T keep its alignment in an array. *)
PoolParameters ==
  /\ SizeT \in Nat \ {0} /\ AlignT \in Nat \ {0} /\ SizeT % AlignT = 0
  /\ HeaderSize \in Nat /\ PAGE_SIZE \in Nat \ {0} /\ CHUNK_SIZE \in Nat
  /\ MinObjs \in Nat \ {0} /\ PoolLastPage \in Nat

Larger(a, b) == IF a > b THEN a ELSE b
WordsFrom(a, n) == a .. (a + n - 1)
Object(o) == WordsFrom(o, SizeT)

(* The size of a new chunk: room for num_objs objects wherever the first   *)
(* aligned address lies.                                                   *)
num_objs == Larger(CHUNK_SIZE \div SizeT, MinObjs)
needed_bytes == HeaderSize + num_objs * SizeT + AlignT - 1
page_num == (needed_bytes + PAGE_SIZE - 1) \div PAGE_SIZE
aligned_data_start(ptr) == ((ptr + HeaderSize + AlignT - 1) \div AlignT) * AlignT

VARIABLES
  chunks,       \* chunk_list_: the first words of the chunks
  data,         \* data_
  remain,       \* remain_bytes_
  free_list,    \* the addresses in free_list_, the head first
  objects       \* the objects the callers have

poolVars == <<chunks, data, remain, free_list, objects>>

Chunk(c) == WordsFrom(c, page_num * PAGE_SIZE)

PoolInit ==
  /\ chunks = {} /\ data = 0 /\ remain = 0 /\ free_list = <<>> /\ objects = {}

-----------------------------------------------------------------------------
(* Mutant: the head stays on the free list. *)
NewRecycledKeeps ==
  /\ free_list # <<>>
  /\ objects' = objects \cup {Head(free_list)}
  /\ UNCHANGED <<chunks, data, remain, free_list>>

(* New takes the head of the free list... *)
NewRecycled ==
  /\ free_list # <<>>
  /\ objects' = objects \cup {Head(free_list)}
  /\ free_list' = Tail(free_list)
  /\ UNCHANGED <<chunks, data, remain>>

(* ... or else cuts the object off the current chunk... *)
Cut(start, bytes) ==
  /\ objects' = objects \cup {start}
  /\ data' = start + SizeT
  /\ remain' = bytes - SizeT

NewCut ==
  /\ free_list = <<>> /\ remain >= SizeT
  /\ Cut(data, remain)
  /\ UNCHANGED <<chunks, free_list>>

(* ... or of a new one, which SystemAlloc maps at page p (external).  When *)
(* that fails New throws before it changes anything.                       *)
NewChunk(p) ==
  LET ptr == p * PAGE_SIZE
      start == aligned_data_start(ptr)
  IN
  /\ free_list = <<>> /\ remain < SizeT
  /\ Chunk(ptr) \subseteq WordsFrom(0, (PoolLastPage + 1) * PAGE_SIZE)
  /\ \A c \in chunks : Chunk(c) \cap Chunk(ptr) = {}
  /\ chunks' = chunks \cup {ptr}
  /\ Cut(start, page_num * PAGE_SIZE - (start - ptr))
  /\ UNCHANGED free_list

Delete(o) ==
  /\ objects' = objects \ {o}
  /\ free_list' = <<o>> \o free_list
  /\ UNCHANGED <<chunks, data, remain>>

(* ReleaseMemory: the callers have given up their objects. *)
ReleaseMemory ==
  /\ chunks # {}
  /\ chunks' = {} /\ data' = 0 /\ remain' = 0 /\ free_list' = <<>> /\ objects' = {}

PoolNext ==
  \/ NewRecycled \/ NewCut \/ (\E p \in 0 .. PoolLastPage : NewChunk(p))
  \/ \E o \in objects : Delete(o)
  \/ ReleaseMemory

PoolSpec == PoolInit /\ [][PoolNext]_poolVars

-----------------------------------------------------------------------------
Listed == {free_list[j] : j \in 1 .. Len(free_list)}

PoolTypeOK ==
  /\ chunks \subseteq Nat
  /\ data \in Nat /\ remain \in Nat
  /\ Listed \subseteq Nat /\ objects \subseteq Nat
  /\ Cardinality(Listed) = Len(free_list)

(***************************************************************************)
(* The storage of the live and of the recycled objects, and what is left   *)
(* of the current chunk, never overlap; each object is aligned and lies in *)
(* a chunk behind its header.  In particular remain_bytes_ never wraps,    *)
(* and an object is not handed out while it is live.                       *)
(***************************************************************************)
ObjectsApart ==
  LET storage == objects \cup Listed IN
  /\ objects \cap Listed = {}
  /\ \A o \in storage :
       /\ o % AlignT = 0
       /\ Object(o) \cap WordsFrom(data, remain) = {}
       /\ \E c \in chunks : Object(o) \subseteq Chunk(c) \ WordsFrom(c, HeaderSize)
  /\ \A o1, o2 \in storage : o1 # o2 => Object(o1) \cap Object(o2) = {}
  /\ remain > 0 => \E c \in chunks : WordsFrom(data, remain) \subseteq Chunk(c)

=============================================================================
