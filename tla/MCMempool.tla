----------------------------- MODULE MCMempool -----------------------------
(* Pools small enough for TLC to exhaust: every pool fills up, and the node  *)
(* pool and the object pool each run out while the other has room.           *)
EXTENDS Mempool, TLC

CONSTANTS a, b    \* two Lisp objects

MCItems == {a, b}
ItemSymmetry == Permutations(MCItems)
\* 100 - 8 stands for what make-string asks for when its argument is INT_MAX:
\* INT_MIN of a 4-bit int, converted to a size_t with SIZE_MOD = 100.
MCStringRequests == {1, 2, 100 - 8}
MCArrayRequests == {0, 1, 2, 3}
=============================================================================
