------------------------------- MODULE Paging -------------------------------
(***************************************************************************)
(* How lists are cut: the batches of merchants of a poll (chunkMerchants)  *)
(* and the pages of a settlement, where the first page is shorter.         *)
(***************************************************************************)
EXTENDS Integers, Sequences

AtMost(n, bound) == IF n < bound THEN n ELSE bound

(* JavaScript's slice(from, to), whose end may lie behind the list. *)
Slice(s, from, to) == SubSeq(s, from + 1, AtMost(to, Len(s)))

(* Starts of the cuts of n rows, from the row with index first on. *)
NumberOfCuts(n, first, size) ==
  IF n > first THEN (n - first + size - 1) \div size ELSE 0

Chunks(s, first, size) ==
  [i \in 1..NumberOfCuts(Len(s), first, size) |->
     Slice(s, first + (i - 1) * size, first + i * size)]

chunkMerchants(merchants, size) == Chunks(merchants, 0, size)

CutWithOffset(rows, firstPageRows, nextPageRows) ==   \* mutant: starts behind a full page
  <<Slice(rows, 0, firstPageRows)>> \o Chunks(rows, nextPageRows, nextPageRows)
SettlementPages(rows, firstPageRows, nextPageRows) ==
  <<Slice(rows, 0, firstPageRows)>> \o Chunks(rows, firstPageRows, nextPageRows)
=============================================================================
