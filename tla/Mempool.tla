------------------------------ MODULE Mempool ------------------------------
(***************************************************************************)
(* The memory pools of mlisj (mempool.c, mempool.h): four arrays with a    *)
(* "used" counter each.  Every datum of one evaluation lives in them and   *)
(* nothing is ever given back before the whole environment is destroyed.   *)
(*                                                                         *)
(* The clients are the reader, the evaluator and the built-in functions.   *)
(* Besides calling the allocators they do one thing to the pools that      *)
(* matters here: they fill the items of the array they created last, in    *)
(* ascending order (reader.c:231, eval.c:67, func-skk-gadgets.c:489).      *)
(***************************************************************************)
EXTENDS Integers

CONSTANTS
    LISPOBJECT_POOL_SIZE, STRING_POOL_SIZE, FLOAT_POOL_SIZE, NARRAY_NODE_POOL_SIZE,
    SIZE_MOD,         \* 2^w for a size_t of w bits
    ArrayRequests,    \* the sizes asked of new_narray
    StringRequests,   \* the sizes asked of new_string_area, NUL included
    Items,            \* the Lisp objects a list can hold
    Garbage           \* what malloc leaves in a cell

NULL == -1

Pools == {"lispobject", "string", "float", "narray"}

Capacity == [lispobject |-> LISPOBJECT_POOL_SIZE, string |-> STRING_POOL_SIZE,
             float |-> FLOAT_POOL_SIZE, narray |-> NARRAY_NODE_POOL_SIZE]

\* No request makes the sum "used + n" of the allocators leave size_t.  The
\* callers ask for at most strlen + 1 bytes of strings that lie in the pools, or
\* for make-string's n + 1: as an int that is at most 2^31 - 1, or INT_MIN when
\* n is INT_MAX, and INT_MIN converted to size_t is 2^64 - 2^31.
ASSUME SizeAssumption ==
    /\ Garbage \notin Items
    /\ \A p \in Pools : Capacity[p] \in Nat \ {0}
    /\ SIZE_MOD \in Nat
    /\ \A p \in Pools : Capacity[p] + 1 < SIZE_MOD
    /\ ArrayRequests \subseteq Nat
    /\ StringRequests \subseteq Nat \ {0}
    /\ \A n \in ArrayRequests : n + LISPOBJECT_POOL_SIZE < SIZE_MOD
    /\ \A n \in StringRequests : n + STRING_POOL_SIZE < SIZE_MOD

VARIABLES
    used,             \* the four ..._pool_used counters
    lispobject_pool,  \* cell -> Lisp object
    narray_node_pool, \* node -> [size, data], and the ghosts filled and tailOf
    areas,            \* ghost: the areas handed out, as in Arena
    outcome           \* ghost: the last request and whether it was served

vars == <<used, lispobject_pool, narray_node_pool, areas, outcome>>

NoRequest == [p \in Pools |-> 0]
StringRequest(n) == [NoRequest EXCEPT !["string"] = n]
FloatRequest == [NoRequest EXCEPT !["float"] = 1]
NArrayRequest(n) == [NoRequest EXCEPT !["narray"] = 1, !["lispobject"] = n]

A == INSTANCE Arena WITH
        Requests <- {NoRequest, FloatRequest} \cup {StringRequest(n) : n \in StringRequests}
                        \cup {NArrayRequest(n) : n \in ArrayRequests \cup {0}}

ObjectCells == 0 .. (LISPOBJECT_POOL_SIZE - 1)
NodeCells == 0 .. (NARRAY_NODE_POOL_SIZE - 1)

\* filled: how many items the creator has stored so far.
\* tailOf: the node cdr_narray was applied to, NULL for one from new_narray.
Node(size, data, filled, tailOf) ==
    [size |-> size, data |-> data, filled |-> filled, tailOf |-> tailOf]

Init ==
    /\ used = [p \in Pools |-> 0]
    /\ lispobject_pool = [c \in ObjectCells |-> Garbage]
    /\ narray_node_pool = [k \in NodeCells |-> Node(0, NULL, 0, NULL)]
    /\ A!Init
-----------------------------------------------------------------------------
(* The tests of the allocators and the effect of a request on the counters *)

\* x + y in size_t
SizeAdd(x, y) == IF x + y >= SIZE_MOD THEN x + y - SIZE_MOD ELSE x + y

\* Mutant: refuses the request that would fill the pool to its last cell.
FitsStrictly(p, n) == SizeAdd(used[p], n) < Capacity[p]

\* The test of new_lispobject_array and new_string_area.
Fits(p, n) == SizeAdd(used[p], n) <= Capacity[p]

\* Mutant: one cell too many.
HasRoomOffByOne(p) == used[p] <= Capacity[p]

\* The test of cdouble2float, new_narray and cdr_narray, for a single cell.
HasRoom(p) == used[p] # Capacity[p]

\* Mutant: the counter counts requests instead of cells.
ServeCountsOnce(req) ==
    /\ used' = [p \in Pools |-> SizeAdd(used[p], IF req[p] > 0 THEN 1 ELSE 0)]
    /\ areas' = areas \cup {A!Area(p, used[p], req[p]) : p \in A!Touched(req)}
    /\ outcome' = A!Outcome(req, TRUE)

\* The caller gets the address of the first cell after the used ones.
Serve(req) ==
    /\ used' = [p \in Pools |-> SizeAdd(used[p], req[p])]
    /\ areas' = areas \cup {A!Area(p, used[p], req[p]) : p \in A!Touched(req)}
    /\ outcome' = A!Outcome(req, TRUE)

\* Mutant: new_narray takes the node before it asks for the body.
RefuseTakingNode(req) ==
    /\ outcome' = A!Outcome(req, FALSE)
    /\ used' = [used EXCEPT !["narray"] = IF HasRoom("narray") THEN @ + req["narray"] ELSE @]
    /\ UNCHANGED <<areas, lispobject_pool, narray_node_pool>>

Refuse(req) ==
    /\ outcome' = A!Outcome(req, FALSE)
    /\ UNCHANGED <<used, areas, lispobject_pool, narray_node_pool>>

AddNode(node) == narray_node_pool' = [narray_node_pool EXCEPT ![used["narray"]] = node]
-----------------------------------------------------------------------------
(* The operations *)

\* new_string_area, and copy_to_string_area with n = strlen + 1
NewStringArea(n) ==
    IF Fits("string", n)
    THEN Serve(StringRequest(n)) /\ UNCHANGED <<lispobject_pool, narray_node_pool>>
    ELSE Refuse(StringRequest(n))

CDouble2Float ==
    IF HasRoom("float")
    THEN Serve(FloatRequest) /\ UNCHANGED <<lispobject_pool, narray_node_pool>>
    ELSE Refuse(FloatRequest)

\* The node pool is asked first, and the object pool only for a body.
CanNewNArray(n) == HasRoom("narray") /\ (n > 0 => Fits("lispobject", n))

NewNArray(n) ==
    IF CanNewNArray(n)
    THEN /\ Serve(NArrayRequest(n))
         /\ AddNode(Node(n, IF n > 0 THEN used["lispobject"] ELSE NULL, 0, NULL))
         /\ UNCHANGED lispobject_pool
    ELSE Refuse(NArrayRequest(n))

\* Mutants: the node of the tail keeps the size, or the first item.
TailNodeKeepsSize(k) ==
    Node(narray_node_pool[k].size, narray_node_pool[k].data + 1, narray_node_pool[k].size, k)

TailNodeKeepsHead(k) ==
    LET size == narray_node_pool[k].size - 1
    IN  Node(size, IF size = 0 THEN NULL ELSE narray_node_pool[k].data, size, k)

\* The list that stands for the tail of list k: its own node, k's body.
TailNode(k) ==
    LET size == narray_node_pool[k].size - 1
    IN  Node(size, IF size = 0 THEN NULL ELSE narray_node_pool[k].data + 1, size, k)

Lists == {k \in NodeCells : k < used["narray"]}
Complete(k) == narray_node_pool[k].filled = narray_node_pool[k].size

CdrNArray(k) ==
    IF narray_node_pool[k].size = 0
    THEN /\ outcome' = A!Outcome(NoRequest, TRUE)       \* returns k itself
         /\ UNCHANGED <<used, areas, lispobject_pool, narray_node_pool>>
    ELSE IF HasRoom("narray")
         THEN Serve(NArrayRequest(0)) /\ AddNode(TailNode(k)) /\ UNCHANGED lispobject_pool
         ELSE Refuse(NArrayRequest(0))

\* The creator of the newest unfinished array stores its next item.
FillItem(k, v) ==
    /\ ~ Complete(k)
    /\ \A j \in Lists : j > k => Complete(j)
    /\ LET node == narray_node_pool[k]
       IN  /\ lispobject_pool' = [lispobject_pool EXCEPT ![node.data + node.filled] = v]
           /\ narray_node_pool' = [narray_node_pool EXCEPT ![k].filled = node.filled + 1]
    /\ UNCHANGED <<used, areas, outcome>>

Next ==
    \/ \E n \in StringRequests : NewStringArea(n)
    \/ CDouble2Float
    \/ \E n \in ArrayRequests : NewNArray(n)
    \/ \E k \in Lists : Complete(k) /\ CdrNArray(k)
    \/ \E k \in Lists, v \in Items : FillItem(k, v)

Spec == Init /\ [][Next]_vars
-----------------------------------------------------------------------------
(* Correctness *)

TypeOK ==
    /\ used \in [Pools -> Nat]
    /\ \A p \in Pools : used[p] <= Capacity[p]
    /\ lispobject_pool \in [ObjectCells -> Items \cup {Garbage}]
    /\ narray_node_pool \in [NodeCells -> [size : Nat, data : ObjectCells \cup {NULL},
                                           filled : Nat, tailOf : NodeCells \cup {NULL}]]

\* The areas handed out are pairwise disjoint and together they are exactly the
\* cells below the counter: no byte, float, node or item is given out twice and
\* none is lost, also when new_narray is refused after the node pool had room.
AreasTilePools ==
    \A p \in Pools :
        LET own == A!AreasOf(areas, p)
        IN  /\ A!Occupied(own) = 0 .. (used[p] - 1)
            /\ \A a, b \in own : a # b => A!CellsOf(a) \cap A!CellsOf(b) = {}

Body(k) == narray_node_pool[k].data ..
              (narray_node_pool[k].data + narray_node_pool[k].size - 1)

\* The items of list k.
ItemsOf(k) == [i \in 0 .. (narray_node_pool[k].size - 1) |->
                  lispobject_pool[narray_node_pool[k].data + i]]

\* car, concat or call_lambda never read an item nobody stored: every finished
\* list, cdr views included, holds Lisp objects only, all inside one area.
FinishedListsReadable ==
    \A k \in Lists :
        (Complete(k) /\ narray_node_pool[k].size > 0) =>
            /\ \E a \in areas : a.pool = "lispobject" /\ Body(k) \subseteq A!CellsOf(a)
            /\ \A c \in Body(k) : lispobject_pool[c] \in Items

\* The list cdr_narray returns is the tail of its argument, and stays so
\* although the two share one body.
CdrIsTail ==
    \A k \in Lists :
        LET j == narray_node_pool[k].tailOf
        IN  j # NULL => ItemsOf(k) = [i \in 0 .. (narray_node_pool[j].size - 2) |->
                                        ItemsOf(j)[i + 1]]

\* README "Datum are immutable at the Lisp level": once its creator has filled a
\* list, no later allocation, cdr or fill changes its size or its items.
DatumImmutable ==
    [][\A k \in Lists : Complete(k) =>
          /\ narray_node_pool'[k] = narray_node_pool[k]
          /\ ItemsOf(k)' = ItemsOf(k)]_vars

\* The pools implement the arena: served or refused as a whole, refused only
\* when full, never overlapping, never taken back.
ImplementsArena == A!Spec
=============================================================================
