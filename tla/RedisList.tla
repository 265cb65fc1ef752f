----------------------------- MODULE RedisList -----------------------------
(***************************************************************************)
(* The commands on Redis lists that the code uses.  LREM is written with   *)
(* indices rather than recursion, so that its facts can be proved          *)
(* (NetworkRoomTheorems).                                                  *)
(***************************************************************************)
EXTENDS Integers, Sequences, FiniteSets

\* LRANGE 0 n-1, and what LPOP (n = 1) or LTRIM n -1 leaves.
First(list, n) == SubSeq(list, 1, IF n <= Len(list) THEN n ELSE Len(list))
Rest(list, n) == SubSeq(list, n + 1, Len(list))

\* The k-th smallest of a set of indices.
Upto(kept, i) == {j \in kept : j <= i}
Nth(kept, k) == CHOOSE i \in kept : Cardinality(Upto(kept, i)) = k

\* LREM 0: the list without any occurrence of value.
LRem(list, value) ==
  LET kept == {i \in DOMAIN list : list[i] # value}
  IN [k \in 1..Cardinality(kept) |-> list[Nth(kept, k)]]

NoDuplicates(list) ==
  \A i, j \in DOMAIN list : list[i] = list[j] => i = j
=============================================================================
