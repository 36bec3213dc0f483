---------------------------- MODULE MCFuncTable ----------------------------
(* Four names, three of which share a home slot near the end of the table,   *)
(* so that probing wraps; a function table smaller than the symbol table.    *)
EXTENDS FuncTable, TLC

CONSTANTS car, concat, yy, other, f, g

MCNames == {car, concat, yy, other}
MCFunctions == {f, g}
\* The two functions behave alike, and so do two of the names.
LookAlikes == Permutations({f, g}) \cup Permutations({car, yy})
MCNameLength == (car :> 1) @@ (concat :> 2) @@ (yy :> 1) @@ (other :> 1)
MCNameHash == (car :> 2) @@ (concat :> 2) @@ (yy :> 2) @@ (other :> 0)
\* All literals have one home, the places in the pool are spread.
MCAddressHash == [x \in Addresses |-> IF x[1] = "literal" THEN 1 ELSE (x[2] \div 2) % FUNC_TABLE_SIZE]
=============================================================================
