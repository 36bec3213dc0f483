------------------------------- MODULE Arena -------------------------------
(***************************************************************************)
(* What the memory pools of mlisj promise to the rest of the interpreter   *)
(* (the allocators declared in mempool.h), without saying how.             *)
(*                                                                         *)
(* A request asks each pool for a number of consecutive cells.  It is      *)
(* served as a whole or refused as a whole, and refused only when some     *)
(* pool has no free place for it.  An area that was handed out never       *)
(* moves, shares no cell with another one and is never taken back: the     *)
(* README's "No GC" is the absence of an action that does so.              *)
(***************************************************************************)
EXTENDS Integers

CONSTANTS Pools,      \* the names of the pools
          Capacity,   \* the number of cells of each pool
          Requests    \* what clients ask for: a set of functions from Pools

VARIABLES areas,      \* the areas handed out so far
          outcome     \* the last request and whether it was served

vars == <<areas, outcome>>

Area(p, first, n) == [pool |-> p, first |-> first, size |-> n]

CellsOf(a) == a.first .. (a.first + a.size - 1)

AreasOf(as, p) == {a \in as : a.pool = p}

Occupied(as) == UNION {CellsOf(a) : a \in as}

FreeCells(as, p) == (0 .. (Capacity[p] - 1)) \ Occupied(AreasOf(as, p))

Addresses == UNION {0 .. (Capacity[p] - 1) : p \in Pools}

Touched(req) == {p \in Pools : req[p] > 0}

\* n consecutive cells of pool p from address first are free.
IsFree(p, first, n) == CellsOf(Area(p, first, n)) \subseteq FreeCells(areas, p)

CanServe(req) == \A p \in Touched(req) : \E first \in Addresses : IsFree(p, first, req[p])

Outcome(req, served) == [request |-> req, served |-> served]

Init == areas = {} /\ outcome = Outcome([p \in Pools |-> 0], TRUE)

Serve(req) ==
    /\ outcome' = Outcome(req, TRUE)
    /\ \E at \in [Touched(req) -> Addresses] :
          /\ \A p \in Touched(req) : IsFree(p, at[p], req[p])
          /\ areas' = areas \cup {Area(p, at[p], req[p]) : p \in Touched(req)}

Refuse(req) ==
    /\ outcome' = Outcome(req, FALSE)
    /\ ~ CanServe(req)
    /\ UNCHANGED areas

Next == \E req \in Requests : Serve(req) \/ Refuse(req)

Spec == Init /\ [][Next]_vars
=============================================================================
