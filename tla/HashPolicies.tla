---------------------------- MODULE HashPolicies ----------------------------
(***************************************************************************)
(* The hash policies of include/container/flat_hash_map.hpp, which         *)
(* bytell_hash_map.hpp shares, over hashes of HashBits bits: how many      *)
(* slots a request is rounded up to, and which slot a hash asks for.       *)
(***************************************************************************)
EXTENDS Integers, Sequences

CONSTANT HashBits   \* 64 in the code

ASSUME HashBitsAssumption == HashBits \in Nat \ {0}

Least(S) == CHOOSE x \in S : \A y \in S : x <= y
Larger(a, b) == IF a >= b THEN a ELSE b
Smaller(a, b) == IF a <= b THEN a ELSE b
CeilDiv(a, b) == (a + b - 1) \div b

log2(n) == CHOOSE b \in 0 .. HashBits + 1 : 2^b <= n /\ n < 2^(b + 1)
next_power_of_two(n) == Least({m \in {2^b : b \in 0 .. HashBits + 1} : m >= n})

prime_list == <<2, 3, 5, 7, 11, 13, 17, 23, 29, 37, 47, 59, 73, 97>>

next_size_over(policy, n) ==
  CASE policy = "fibonacci"    -> Larger(2, next_power_of_two(n))
    [] policy = "power_of_two" -> next_power_of_two(n)
    [] policy = "prime"        -> Least({p \in {prime_list[i] : i \in DOMAIN prime_list} : p >= n})

(* The high bits, the low bits or the remainder.  A table that was never   *)
(* sized, or was reset, has shift 63 and mod0.                             *)
index_for_hash(policy, h, num_slots_minus_one) ==
  CASE policy = "fibonacci"    -> h \div 2^(HashBits - log2(Larger(2, num_slots_minus_one + 1)))
    [] policy = "power_of_two" -> h % (num_slots_minus_one + 1)
    [] policy = "prime"        -> h % (num_slots_minus_one + 1)

keep_in_range(policy, index, num_slots_minus_one) == index % (num_slots_minus_one + 1)
=============================================================================
