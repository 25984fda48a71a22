--------------------------- MODULE RobinHoodTable ---------------------------
(***************************************************************************)
(* ska::flat_hash_map and flat_hash_set, include/container/               *)
(* flat_hash_map.hpp: open addressing with linear probing, where every     *)
(* entry stores its distance from the slot its hash asks for and an entry  *)
(* further from home takes the place of one nearer to it.  The array has   *)
(* max_lookups entries past the last slot, so probing never wraps, and its *)
(* last entry is a sentinel that stops the iterators.                      *)
(***************************************************************************)
EXTENDS HashPolicies, FiniteSets, TLC

CONSTANTS
  Keys,
  Elements,      \* the [key, value] pairs the program inserts
  Setups,        \* the [policy, hash] pairs considered
  LoadFactors,   \* values of max_load_factor, in percent
  Requests,      \* arguments of rehash and reserve
  min_lookups    \* the least max_lookups, 4 in the code

VARIABLES
  table,         \* one sherwood_v3_table
  hash,          \* its hash function
  want           \* what the calls so far say it holds

(* sherwood_v3_entry: distance_from_desired is -1 in an empty entry and 0  *)
(* in the sentinel, whose value is never read.                             *)
Empty == [distance |-> -1]
Sentinel == [distance |-> 0]
has_value(entry) == entry.distance >= 0
is_at_desired_position(entry) == entry.distance <= 0
Holding(d, kv) == [distance |-> d, key |-> kv.key, value |-> kv.value]

compute_max_lookups(num_buckets) == Larger(min_lookups, log2(num_buckets))
bucket_count(t) == IF t.num_slots_minus_one = 0 THEN 0 ELSE t.num_slots_minus_one + 1

(* Positions are counted from 0 as in the code; entries is a sequence.     *)
At(t, p) == t.entries[p + 1]
End(t) == t.num_slots_minus_one + t.max_lookups
Cells(t) == 0 .. End(t) - 1

Blank(n) == Append([i \in 1 .. n - 1 |-> Empty], Sentinel)

reset_to_empty_state(t) ==
  [t EXCEPT !.entries = Blank(min_lookups),
            !.num_slots_minus_one = 0,
            !.max_lookups = min_lookups - 1]

NewTable(policy, factor) ==
  [entries |-> Blank(min_lookups), num_slots_minus_one |-> 0,
   max_lookups |-> min_lookups - 1, num_elements |-> 0,
   max_load_factor |-> factor, policy |-> policy]

-----------------------------------------------------------------------------
Home(t, k) == index_for_hash(t.policy, hash[k], t.num_slots_minus_one)

(* The probe of find and of emplace ends at the key or at the first entry  *)
(* that is nearer to its home than the key would be.                       *)
Probe(t, k) ==
  LET home == Home(t, k) IN
  home + Least({d \in 0 .. End(t) - home :
                  \/ At(t, home + d).distance < d
                  \/ At(t, home + d).key = k})

find(t, k) ==
  LET p == Probe(t, k) IN
  IF At(t, p).distance >= p - Home(t, k) THEN p ELSE End(t)

num_buckets_for_reserve(t, n) == CeilDiv(n * 100, Smaller(50, t.max_load_factor))

(* The second half of emplace_new_key: the entry in hand is put down at    *)
(* the first empty place, or in the place of an entry nearer to its home,  *)
(* which is then carried on.  "over" when one has come max_lookups far.    *)
RECURSIVE Displace(_, _, _, _, _)
Displace(entries, p, d, hand, max_lookups) ==
  LET here == entries[p + 1] IN
  IF ~has_value(here) THEN
    [over |-> FALSE, hand |-> hand, entries |-> [entries EXCEPT ![p + 1] = Holding(d, hand)]]
  ELSE IF here.distance < d THEN
    Displace([entries EXCEPT ![p + 1] = Holding(d, hand)], p + 1, here.distance + 1, here, max_lookups)
  ELSE IF d + 1 = max_lookups THEN
    [over |-> TRUE, hand |-> hand, entries |-> entries]
  ELSE Displace(entries, p + 1, d + 1, hand, max_lookups)

RECURSIVE Emplace(_, _), Rehash(_, _), EmplaceAll(_, _)

Grow(t) == Rehash(t, Larger(4, 2 * bucket_count(t)))

emplace_new_key(t, p, d, kv) ==
  IF \/ t.num_slots_minus_one = 0
     \/ d = t.max_lookups
     \/ (t.num_elements + 1) * 100 > (t.num_slots_minus_one + 1) * t.max_load_factor
  THEN Emplace(Grow(t), kv)
  ELSE LET put == Displace(t.entries, p, d, kv, t.max_lookups) IN
       IF put.over
       THEN Emplace(Grow([t EXCEPT !.entries =
                            [put.entries EXCEPT ![p + 1] = Holding(@.distance, put.hand)]]), kv)
       ELSE [t EXCEPT !.entries = put.entries, !.num_elements = @ + 1]

Emplace(t, kv) ==
  LET p == Probe(t, kv.key)
      d == p - Home(t, kv.key) IN
  IF At(t, p).distance >= d THEN t ELSE emplace_new_key(t, p, d, kv)

EmplaceAll(t, kvs) ==
  IF kvs = <<>> THEN t ELSE EmplaceAll(Emplace(t, Head(kvs)), Tail(kvs))

(* What the iterators visit, from position p on.                           *)
From(t, p) == SelectSeq(SubSeq(t.entries, p + 1, End(t)), has_value)
Iteration(t) == From(t, 0)
Iterators(t) == {p \in Cells(t) : has_value(At(t, p))} \cup {End(t)}

Rehash(t, num_buckets) ==
  LET wanted == Larger(num_buckets, CeilDiv(t.num_elements * 100, t.max_load_factor))
      slots == next_size_over(t.policy, wanted)
      lookups == compute_max_lookups(slots)
  IN IF wanted = 0 THEN reset_to_empty_state(t)
     ELSE IF slots = bucket_count(t) THEN t
     ELSE EmplaceAll([t EXCEPT !.entries = Blank(slots + lookups),
                               !.num_slots_minus_one = slots - 1,
                               !.max_lookups = lookups,
                               !.num_elements = 0],
                     Iteration(t))

rehash_for_other_container(t, other) ==
  Rehash(t, Smaller(num_buckets_for_reserve(t, other.num_elements), bucket_count(other)))


(* erase(it): the entries that follow shift back until one is at home.     *)
EraseAt(t, p) ==
  LET stop == Least({q \in p + 1 .. End(t) : is_at_desired_position(At(t, q))}) IN
  [t EXCEPT !.num_elements = @ - 1,
            !.entries = <<>> \o [i \in DOMAIN @ |->
              IF i - 1 \in p .. stop - 2 THEN [@[i + 1] EXCEPT !.distance = @ - 1]
              ELSE IF i = stop THEN Empty ELSE @[i]]]

(* convertible_to_iterator                                                 *)
Resume(t, p) ==
  IF has_value(At(t, p)) THEN p
  ELSE Least({q \in p + 1 .. End(t) : has_value(At(t, q))})

(* The moving loop of erase(begin, end): each entry goes back by the gap,  *)
(* or by its own distance when that is less.                               *)
RECURSIVE CloseGap(_, _, _)
CloseGap(entries, p, gap) ==
  LET here == entries[p + 1] IN
  IF is_at_desired_position(here) THEN entries
  ELSE LET moved == [entries EXCEPT ![p - gap + 1] = [here EXCEPT !.distance = @ - gap],
                                    ![p + 1] = Empty]
       IN CloseGap(moved, p + 1, Smaller(moved[p + 2].distance, gap))

EraseRange(t, b, e) ==
  LET cleared == <<>> \o [i \in DOMAIN t.entries |->
                    IF i - 1 \in b .. e - 1 THEN Empty ELSE t.entries[i]]
      left == t.num_elements - Cardinality({p \in b .. e - 1 : has_value(At(t, p))})
      gap == Smaller(At(t, e).distance, e - b)
  IN IF b = e THEN [table |-> t, next |-> b]
     ELSE IF e = End(t)
     THEN [table |-> [t EXCEPT !.entries = cleared, !.num_elements = left], next |-> e]
     ELSE [table |-> [t EXCEPT !.entries = CloseGap(cleared, e, gap), !.num_elements = left],
           next |-> e - gap]

-----------------------------------------------------------------------------
Init ==
  \E s \in Setups : hash = s.hash /\ table = NewTable(s.policy, 50) /\ want = <<>>

(* insert, emplace, emplace_hint and operator[]: keep what is there.       *)
Insert(kv) ==
  table' = Emplace(table, kv)

insert_or_assign(kv) ==
  LET p == find(table, kv.key) IN
  table' = IF p = End(table) THEN Emplace(table, kv)
           ELSE [table EXCEPT !.entries[p + 1].value = kv.value]

EraseKey(k) ==
  LET p == find(table, k) IN
  table' = IF p = End(table) THEN table ELSE EraseAt(table, p)

(* erase(begin, end) for two iterators of the table, begin before end.     *)
EraseBetween(b, e) ==
  /\ b <= e
  /\ table' = EraseRange(table, b, e).table

rehash(n) ==
  table' = Rehash(table, n)

reserve(n) ==
  LET required == num_buckets_for_reserve(table, n) IN
  table' = IF required > bucket_count(table) THEN Rehash(table, required) ELSE table

clear ==
  table' = [table EXCEPT !.num_elements = 0,
                         !.entries = Blank(Len(@))]

shrink_to_fit ==
  table' = rehash_for_other_container(table, table)

(* The copy constructor, and with it the copy assignment to a fresh table. *)
Copied(t) == EmplaceAll(rehash_for_other_container(NewTable(t.policy, t.max_load_factor), t), Iteration(t))

(* The program goes on with a copy and drops the original.                 *)
CopyTable ==
  table' = Copied(table)

(* The table is moved from: swap_pointers with a table just constructed.   *)
MoveAway ==
  table' = NewTable(table.policy, 50)

max_load_factor(f) ==
  table' = [table EXCEPT !.max_load_factor = f]

(* What is left of the contents wanted without the keys K. *)
Less(K) == [k \in DOMAIN want \ K |-> want[k]]
KeysOf(kvs) == {kvs[i].key : i \in DOMAIN kvs}

Next ==
  /\ UNCHANGED hash
  /\ \/ \E kv \in Elements : Insert(kv) /\ want' = want @@ kv.key :> kv.value
     \/ \E kv \in Elements : insert_or_assign(kv) /\ want' = kv.key :> kv.value @@ want
     \/ \E k \in Keys : EraseKey(k) /\ want' = Less({k})
     \/ \E b, e \in Iterators(table) :
          EraseBetween(b, e) /\ want' = Less(KeysOf(From(table, b)) \ KeysOf(From(table, e)))
     \/ (clear \/ MoveAway) /\ want' = Less(DOMAIN want)
     \/ UNCHANGED want /\ \E n \in Requests : rehash(n) \/ reserve(n)
     \/ UNCHANGED want /\ (shrink_to_fit \/ CopyTable \/ \E f \in LoadFactors : max_load_factor(f))

Spec == Init /\ [][Next]_<<table, hash, want>>

-----------------------------------------------------------------------------
Contents(t) ==
  LET place == [k \in Keys |-> find(t, k)] IN
  [k \in {x \in Keys : place[x] # End(t)} |-> At(t, place[k]).value]
Pairs(kvs) == {<<kvs[i].key, kvs[i].value>> : i \in DOMAIN kvs}

TypeOK ==
  /\ Len(table.entries) = table.num_slots_minus_one + 1 + table.max_lookups
  /\ table.num_elements \in 0 .. Cardinality(Keys)
  /\ \A p \in Cells(table) : At(table, p).distance \in -1 .. table.max_lookups - 1

(* find and the iterators agree: every element the iterators visit is      *)
(* found under its key, none is visited twice, and size() counts them.     *)
FoundIsVisited(t) ==
  LET seen == Iteration(t)
      found == Contents(t) IN
  /\ Len(seen) = t.num_elements
  /\ Cardinality(Pairs(seen)) = Len(seen)
  /\ Pairs(seen) = {<<k, found[k]>> : k \in DOMAIN found}
  /\ At(t, End(t)) = Sentinel

(* Erasing through an iterator, or a range of them, removes exactly those  *)
(* elements, and the iterator returned goes on with the elements that      *)
(* followed, in the order they had.                                        *)
EraseResumes(t) ==
  \A b, e \in Iterators(t) :
    b < e =>
      LET r == EraseRange(t, b, e)
          one == EraseAt(t, b)
          kvs(seq) == [i \in DOMAIN seq |-> <<seq[i].key, seq[i].value>>]
      IN /\ FoundIsVisited(r.table)
         /\ Len(Iteration(r.table)) = Len(Iteration(t)) - Len(From(t, b)) + Len(From(t, e))
         /\ kvs(From(r.table, r.next)) = kvs(From(t, e))
         /\ kvs(From(one, Resume(one, b))) = kvs(Tail(From(t, b)))
=============================================================================
