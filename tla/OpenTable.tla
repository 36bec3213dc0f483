------------------------------ MODULE OpenTable ------------------------------
(***************************************************************************)
(* The hash tables of mlisj: open addressing with linear probing and no    *)
(* deletion.  The symbol table (symbol.c) and the function table           *)
(* (functable.c) use the same search; they differ in what a key is.        *)
(*                                                                         *)
(* A table of size n is a function from 0 .. n-1 to entries [key, val] or  *)
(* Vacant, the NULL key of the code.                                       *)
(***************************************************************************)
EXTENDS Integers

CONSTANT Vacant

NotFound == -1

\* The slot d probes after h.
Slot(n, h, d) == IF h + d < n THEN h + d ELSE h + d - n

Matches(table, i, key) == table[i] # Vacant /\ table[i].key = key

\* The probes at which the loop returns.
Stops(n, table, h, key) ==
    {d \in 0 .. (n - 1) : LET i == Slot(n, h, d)
                          IN  table[i] = Vacant \/ Matches(table, i, key)}

\* hash_table_search and func_hash_table_search for a key that hashes to h: the
\* first vacant or matching slot, NotFound after a full round.
Search(n, table, h, key) ==
    LET stops == Stops(n, table, h, key)
    IN  IF stops = {} THEN NotFound
        ELSE Slot(n, h, CHOOSE d \in stops : \A e \in stops : d <= e)

Taken(n, table) == {i \in 0 .. (n - 1) : table[i] # Vacant}
-----------------------------------------------------------------------------
(* What makes every entry findable.                                          *)

\* The number of probes from h to slot i.
Distance(n, h, i) == IF i >= h THEN i - h ELSE i - h + n

\* No vacant slot lies between the home of an entry and the entry.
PathsFull(n, table, hash) ==
    \A i \in Taken(n, table) :
        \A d \in 0 .. Distance(n, hash[table[i].key], i) :
            table[Slot(n, hash[table[i].key], d)] # Vacant

KeysUnique(n, table) ==
    \A i, j \in Taken(n, table) : table[i].key = table[j].key => i = j
=============================================================================
