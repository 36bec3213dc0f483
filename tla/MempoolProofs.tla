--------------------------- MODULE MempoolProofs ---------------------------
(* Proofs of the correctness properties of Mempool for pools of every size.  *)
EXTENDS Mempool, TLAPS

-----------------------------------------------------------------------------
(* The inductive invariant.  Apart from the properties themselves it says    *)
(* where the body of a list lies, how a cdr view relates to its source, and  *)
(* that nobody shares the body of a list that is still being filled.         *)

AreasTyped == areas \subseteq [pool : Pools, first : Nat, size : Nat \ {0}]

ListPlaced(k) ==
    LET node == narray_node_pool[k]
    IN  /\ node.filled <= node.size
        /\ node.size > 0 => /\ node.data \in ObjectCells
                            /\ \E a \in areas : /\ a.pool = "lispobject"
                                                /\ a.first <= node.data
                                                /\ node.data + node.size <= a.first + a.size
        /\ \A c \in node.data .. (node.data + node.filled - 1) : lispobject_pool[c] \in Items

TailPlaced(k) ==
    LET node == narray_node_pool[k]
        j == node.tailOf
    IN  j # NULL => /\ j \in Lists /\ Complete(j) /\ Complete(k)
                    /\ narray_node_pool[j].size = node.size + 1
                    /\ node.size > 0 => node.data = narray_node_pool[j].data + 1

UnfinishedAlone ==
    \A k, j \in Lists : (k # j /\ ~ Complete(k)) => Body(k) \cap Body(j) = {}

ListsOK == (\A k \in Lists : ListPlaced(k) /\ TailPlaced(k)) /\ UnfinishedAlone

IInv == TypeOK /\ AreasTyped /\ AreasTilePools /\ ListsOK
\* Every pool has the cells the request asks it for.
HasSpace(req) == \A p \in Pools : used[p] + req[p] <= Capacity[p]
-----------------------------------------------------------------------------
(* Serving a request that fits. *)

\* The pool sizes are positive and well below the modulus of size_t.
LEMMA CapacityFacts ==
    /\ Capacity["lispobject"] = LISPOBJECT_POOL_SIZE
    /\ Capacity["string"] = STRING_POOL_SIZE
    /\ Capacity["float"] = FLOAT_POOL_SIZE
    /\ Capacity["narray"] = NARRAY_NODE_POOL_SIZE
    /\ \A p \in Pools : Capacity[p] \in Nat /\ Capacity[p] > 0 /\ Capacity[p] + 1 < SIZE_MOD
  BY SizeAssumption DEF Capacity, Pools

\* The pool sizes as numbers.
LEMMA SizeTypes ==
    /\ LISPOBJECT_POOL_SIZE \in Nat /\ STRING_POOL_SIZE \in Nat
    /\ FLOAT_POOL_SIZE \in Nat /\ NARRAY_NODE_POOL_SIZE \in Nat
  BY CapacityFacts DEF Pools

\* A served request that fits moves the counters by exactly what was asked,
\* keeps the areas a tiling of the used cells, and is a step of the arena.
LEMMA ServeKeepsTiling ==
    ASSUME TypeOK, AreasTyped, AreasTilePools,
           NEW req \in [Pools -> Nat],
           \A p \in Pools : used[p] + req[p] <= Capacity[p],
           Serve(req)
    PROVE  /\ used' = [p \in Pools |-> used[p] + req[p]]
           /\ AreasTyped'
           /\ AreasTilePools'
           /\ areas \subseteq areas'
           /\ A!Serve(req)
  <1> DEFINE new(p) == A!Area(p, used[p], req[p])
  <1>1. used' = [p \in Pools |-> used[p] + req[p]]
    BY CapacityFacts, SizeAssumption DEF Serve, SizeAdd, TypeOK
  <1>2. areas' = areas \cup {new(p) : p \in A!Touched(req)}
    BY DEF Serve
  <1>3. AreasTyped'
    BY <1>2 DEF AreasTyped, A!Touched, A!Area, TypeOK
  <1>4. ASSUME NEW p \in Pools, NEW c
        PROVE  c \in A!FreeCells(areas, p) <=> c \in used[p] .. (Capacity[p] - 1)
    BY CapacityFacts DEF AreasTilePools, A!FreeCells, TypeOK
  <1>5. ASSUME NEW p \in Pools
        PROVE  (LET own == A!AreasOf(areas, p)
                IN  /\ A!Occupied(own) = 0 .. (used[p] - 1)
                    /\ \A a, b \in own :
                          a # b => A!CellsOf(a) \cap A!CellsOf(b) = {})'
    <2> DEFINE own == A!AreasOf(areas, p)
    <2>1. /\ A!Occupied(own) = 0 .. (used[p] - 1)
          /\ \A a, b \in own : a # b => A!CellsOf(a) \cap A!CellsOf(b) = {}
      BY DEF AreasTilePools
    <2>2. CASE req[p] = 0
      <3>1. own' = own
        BY <1>2, <2>2 DEF A!Touched, A!Area, A!AreasOf
      <3>2. used'[p] = used[p]
        BY <1>1, <2>2 DEF TypeOK
      <3>3. QED
        BY <2>1, <3>1, <3>2
    <2>3. CASE req[p] > 0
      <3>1. own' = own \cup {new(p)}
        BY <1>2, <2>3 DEF A!Touched, A!Area, A!AreasOf
      <3>2. used'[p] = used[p] + req[p]
        BY <1>1
      <3>3. A!CellsOf(new(p)) = used[p] .. (used[p] + req[p] - 1)
        BY DEF A!CellsOf, A!Area
      <3>4. \A a \in own : A!CellsOf(a) \subseteq 0 .. (used[p] - 1)
        BY <2>1 DEF A!Occupied
      <3>5. used[p] \in Nat /\ req[p] \in Nat
        BY DEF TypeOK
      <3>6. A!Occupied(own')
               = A!Occupied(own) \cup A!CellsOf(new(p))
        BY <3>1 DEF A!Occupied
      <3>7. A!Occupied(own') = 0 .. (used'[p] - 1)
        <4>1. (0 .. (used[p] - 1)) \cup (used[p] .. (used[p] + req[p] - 1))
                  = 0 .. (used[p] + req[p] - 1)
          BY <3>5
        <4>2. A!Occupied(own) \cup A!CellsOf(new(p))
                  = 0 .. (used[p] + req[p] - 1)
          BY <2>1, <3>3, <4>1
        <4>3. A!Occupied(own') = 0 .. (used[p] + req[p] - 1)
          BY <3>6, <4>2
        <4>4. QED
          BY <3>2, <3>5, <4>3
      <3>8. \A a \in own : A!CellsOf(a) \cap A!CellsOf(new(p)) = {}
        BY <3>3, <3>4, <3>5
      <3>9. \A a, b \in own' : a # b => A!CellsOf(a) \cap A!CellsOf(b) = {}
        BY <2>1, <3>1, <3>8
      <3>10. QED
        BY <3>7, <3>9
    <2>4. QED
      BY <2>2, <2>3
  <1>6. AreasTilePools'
    BY <1>5 DEF AreasTilePools
  <1>7. A!Serve(req)
    <2> DEFINE at == [p \in A!Touched(req) |-> used[p]]
    <2>1. at \in [A!Touched(req) -> A!Addresses]
      BY CapacityFacts DEF A!Touched, A!Addresses, TypeOK
    <2>2. ASSUME NEW p \in A!Touched(req)
          PROVE  A!IsFree(p, at[p], req[p])
      BY <1>4, CapacityFacts DEF A!Touched, A!CellsOf, A!Area, A!IsFree, TypeOK
    <2>3. areas' = areas \cup {A!Area(p, at[p], req[p]) : p \in A!Touched(req)}
      BY <1>2
    <2>4. QED
      BY <2>1, <2>2, <2>3 DEF A!Serve, Serve
  <1>8. QED
    BY <1>1, <1>2, <1>3, <1>6, <1>7
-----------------------------------------------------------------------------
(* The inductive step, one lemma per operation. *)

\* Requests are made only when every pool concerned has room (SizeAdd does not
\* wrap for the sizes asked), and a request of an operation is a function to Nat.
LEMMA RequestTypes ==
    /\ NoRequest \in [Pools -> Nat] /\ FloatRequest \in [Pools -> Nat]
    /\ \A n \in Nat : StringRequest(n) \in [Pools -> Nat] /\ NArrayRequest(n) \in [Pools -> Nat]
    /\ \A p \in Pools : NoRequest[p] = 0
    /\ \A p \in Pools : FloatRequest[p] = IF p = "float" THEN 1 ELSE 0
    /\ \A n \in Nat, p \in Pools : StringRequest(n)[p] = IF p = "string" THEN n ELSE 0
    /\ \A n \in Nat, p \in Pools : NArrayRequest(n)[p] =
          IF p = "narray" THEN 1 ELSE IF p = "lispobject" THEN n ELSE 0
  BY DEF NoRequest, StringRequest, FloatRequest, NArrayRequest, Pools

\* The tests of the allocators mean what they say: nothing wraps around.
LEMMA FitsMeaning ==
    ASSUME TypeOK
    PROVE  /\ \A n \in StringRequests : Fits("string", n) <=> used["string"] + n <= STRING_POOL_SIZE
           /\ \A n \in ArrayRequests :
                 Fits("lispobject", n) <=> used["lispobject"] + n <= LISPOBJECT_POOL_SIZE
           /\ \A p \in Pools : HasRoom(p) <=> used[p] + 1 <= Capacity[p]
  <1>1. \A p \in Pools : used[p] \in Nat /\ used[p] <= Capacity[p]
    BY DEF TypeOK
  <1>2. "string" \in Pools /\ "lispobject" \in Pools
    BY DEF Pools
  <1>3. QED
    BY <1>1, <1>2, CapacityFacts, SizeAssumption DEF Fits, HasRoom, SizeAdd

\* A request has space when the pools it touches have.
LEMMA RequestSpace ==
    ASSUME TypeOK
    PROVE  /\ \A n \in Nat : HasSpace(StringRequest(n)) <=> used["string"] + n <= Capacity["string"]
           /\ HasSpace(FloatRequest) <=> used["float"] + 1 <= Capacity["float"]
           /\ \A n \in Nat : HasSpace(NArrayRequest(n)) <=>
                 /\ used["narray"] + 1 <= Capacity["narray"]
                 /\ used["lispobject"] + n <= Capacity["lispobject"]
  <1>1. \A p \in Pools : used[p] \in Nat /\ used[p] + 0 <= Capacity[p]
    BY CapacityFacts DEF TypeOK
  <1>2. {"string", "float", "narray", "lispobject"} = Pools
    BY DEF Pools
  <1>3. ASSUME NEW n \in Nat
        PROVE  HasSpace(StringRequest(n)) <=> used["string"] + n <= Capacity["string"]
    <2>1. \A p \in Pools : StringRequest(n)[p] = IF p = "string" THEN n ELSE 0
      BY RequestTypes
    <2>2. QED
      BY <1>1, <1>2, <2>1 DEF HasSpace
  <1>4. HasSpace(FloatRequest) <=> used["float"] + 1 <= Capacity["float"]
    <2>1. \A p \in Pools : FloatRequest[p] = IF p = "float" THEN 1 ELSE 0
      BY RequestTypes
    <2>2. QED
      BY <1>1, <1>2, <2>1 DEF HasSpace
  <1>5. ASSUME NEW n \in Nat
        PROVE  HasSpace(NArrayRequest(n)) <=>
                 /\ used["narray"] + 1 <= Capacity["narray"]
                 /\ used["lispobject"] + n <= Capacity["lispobject"]
    <2>1. \A p \in Pools : NArrayRequest(n)[p] =
             IF p = "narray" THEN 1 ELSE IF p = "lispobject" THEN n ELSE 0
      BY RequestTypes
    <2>2. QED
      BY <1>1, <1>2, <2>1 DEF HasSpace
  <1>6. QED
    BY <1>3, <1>4, <1>5

\* The two tests of new_narray are the test of its whole request.
LEMMA CanNewNArrayMeaning ==
    ASSUME IInv, NEW n \in ArrayRequests
    PROVE  CanNewNArray(n) <=> HasSpace(NArrayRequest(n))
  <1>1. n \in Nat
    BY SizeAssumption
  <1>2. HasRoom("narray") <=> used["narray"] + 1 <= Capacity["narray"]
    BY FitsMeaning DEF IInv, Pools
  <1>3. (n > 0 => Fits("lispobject", n)) <=> used["lispobject"] + n <= Capacity["lispobject"]
    <2>1. Fits("lispobject", n) <=> used["lispobject"] + n <= Capacity["lispobject"]
      BY FitsMeaning, CapacityFacts DEF IInv
    <2>2. used["lispobject"] \in Nat /\ used["lispobject"] + 0 <= Capacity["lispobject"]
      BY CapacityFacts DEF IInv, TypeOK, Pools
    <2>3. QED
      BY <1>1, <2>1, <2>2
  <1>4. QED
    BY <1>1, <1>2, <1>3, RequestSpace DEF CanNewNArray, IInv

\* The invariant of the lists does not depend on strings, floats or new areas.
LEMMA ListsKept ==
    ASSUME TypeOK, ListsOK, areas \subseteq areas', used'["narray"] = used["narray"],
           UNCHANGED <<lispobject_pool, narray_node_pool>>
    PROVE  ListsOK'
  <1>1. Lists' = Lists
    BY DEF Lists
  <1>2. \A k \in Lists : ListPlaced(k)'
    BY DEF ListsOK, ListPlaced
  <1>3. \A k \in Lists : TailPlaced(k)'
    BY <1>1 DEF ListsOK, TailPlaced, Complete
  <1>4. UnfinishedAlone'
    BY <1>1 DEF ListsOK, UnfinishedAlone, Complete, Body
  <1>5. QED
    BY <1>1, <1>2, <1>3, <1>4 DEF ListsOK

\* A refused request changes nothing.
LEMMA RefuseKeeps ==
    ASSUME IInv, NEW req, Refuse(req)
    PROVE  IInv'
  <1>1. /\ used' = used /\ areas' = areas
        /\ lispobject_pool' = lispobject_pool /\ narray_node_pool' = narray_node_pool
    BY DEF Refuse
  <1>2. TypeOK' /\ AreasTyped' /\ AreasTilePools'
    BY <1>1 DEF IInv, TypeOK, AreasTyped, AreasTilePools
  <1>3. ListsOK'
    BY <1>1, ListsKept DEF IInv
  <1>4. QED
    BY <1>2, <1>3 DEF IInv

\* Fresh pools satisfy the inductive invariant.
LEMMA InitOK == Init => IInv
  <1> SUFFICES ASSUME Init PROVE IInv
    OBVIOUS
  <1> USE DEF Init
  <1>1. TypeOK
    BY CapacityFacts DEF TypeOK, Node, NULL, NodeCells, ObjectCells
  <1>2. AreasTyped /\ AreasTilePools
    BY DEF AreasTyped, AreasTilePools, A!Init, A!AreasOf, A!Occupied
  <1>3. Lists = {}
    BY DEF Lists, NodeCells, Pools
  <1>4. ListsOK
    BY <1>3 DEF ListsOK, UnfinishedAlone
  <1>5. QED
    BY <1>1, <1>2, <1>4 DEF IInv

\* new_string_area and copy_to_string_area keep the invariant.
LEMMA NewStringAreaOK ==
    ASSUME IInv, NEW n \in StringRequests, NewStringArea(n)
    PROVE  IInv'
  <1>1. CASE Fits("string", n)
    <2>1. Serve(StringRequest(n)) /\ UNCHANGED <<lispobject_pool, narray_node_pool>>
      BY <1>1 DEF NewStringArea
    <2>2. n \in Nat
      BY SizeAssumption
    <2>3. \A p \in Pools : used[p] + StringRequest(n)[p] <= Capacity[p]
      <3>1. used["string"] + n <= Capacity["string"]
        BY <1>1, FitsMeaning, CapacityFacts DEF IInv
      <3>2. \A p \in Pools : used[p] \in Nat /\ used[p] <= Capacity[p]
        BY DEF IInv, TypeOK
      <3>3. \A p \in Pools : StringRequest(n)[p] = IF p = "string" THEN n ELSE 0
        BY <2>2, RequestTypes
      <3>4. QED
        BY <2>2, <3>1, <3>2, <3>3, CapacityFacts
    <2>4. /\ used' = [p \in Pools |-> used[p] + StringRequest(n)[p]]
          /\ AreasTyped' /\ AreasTilePools' /\ areas \subseteq areas'
      BY <2>1, <2>2, <2>3, RequestTypes, ServeKeepsTiling DEF IInv
    <2>5. TypeOK'
      BY <2>1, <2>2, <2>3, <2>4, RequestTypes DEF IInv, TypeOK
    <2>6. used'["narray"] = used["narray"]
      BY <2>2, <2>4, RequestTypes DEF IInv, TypeOK, Pools
    <2>7. QED
      BY <2>1, <2>4, <2>5, <2>6, ListsKept DEF IInv
  <1>2. CASE ~ Fits("string", n)
    BY <1>2, RefuseKeeps DEF NewStringArea
  <1>3. QED
    BY <1>1, <1>2

\* cdouble2float keeps the invariant.
LEMMA CDouble2FloatOK ==
    ASSUME IInv, CDouble2Float
    PROVE  IInv'
  <1>1. CASE HasRoom("float")
    <2>1. Serve(FloatRequest) /\ UNCHANGED <<lispobject_pool, narray_node_pool>>
      BY <1>1 DEF CDouble2Float
    <2>2. \A p \in Pools : used[p] + FloatRequest[p] <= Capacity[p]
      <3>1. used["float"] + 1 <= Capacity["float"]
        BY <1>1, FitsMeaning DEF IInv, Pools
      <3>2. \A p \in Pools : used[p] \in Nat /\ used[p] <= Capacity[p]
        BY DEF IInv, TypeOK
      <3>3. \A p \in Pools : FloatRequest[p] = IF p = "float" THEN 1 ELSE 0
        BY RequestTypes
      <3>4. QED
        BY <3>1, <3>2, <3>3, CapacityFacts
    <2>3. /\ used' = [p \in Pools |-> used[p] + FloatRequest[p]]
          /\ AreasTyped' /\ AreasTilePools' /\ areas \subseteq areas'
      BY <2>1, <2>2, RequestTypes, ServeKeepsTiling DEF IInv
    <2>4. TypeOK'
      BY <2>1, <2>2, <2>3, RequestTypes DEF IInv, TypeOK
    <2>5. used'["narray"] = used["narray"]
      BY <2>3, RequestTypes DEF IInv, TypeOK, Pools
    <2>6. QED
      BY <2>1, <2>3, <2>4, <2>5, ListsKept DEF IInv
  <1>2. CASE ~ HasRoom("float")
    BY <1>2, RefuseKeeps DEF CDouble2Float
  <1>3. QED
    BY <1>1, <1>2

\* A list's body lies below the object counter.
LEMMA BodyBelow ==
    ASSUME IInv, NEW k \in Lists
    PROVE  /\ narray_node_pool[k] \in [size : Nat, data : ObjectCells \cup {NULL},
                                       filled : Nat, tailOf : NodeCells \cup {NULL}]
           /\ narray_node_pool[k].size = 0 => Body(k) = {}
           /\ Body(k) \subseteq 0 .. (used["lispobject"] - 1)
  <1> DEFINE node == narray_node_pool[k]
  <1>1. node \in [size : Nat, data : ObjectCells \cup {NULL},
                  filled : Nat, tailOf : NodeCells \cup {NULL}]
    BY DEF IInv, TypeOK, Lists
  <1>2. CASE node.size = 0
    BY <1>1, <1>2 DEF Body, ObjectCells, NULL
  <1>3. CASE node.size > 0
    <2>1. PICK a \in areas : /\ a.pool = "lispobject" /\ a.first <= node.data
                             /\ node.data + node.size <= a.first + a.size
      BY <1>3 DEF IInv, ListsOK, ListPlaced
    <2>2. Body(k) \subseteq A!CellsOf(a)
      BY <1>1, <2>1 DEF Body, A!CellsOf, IInv, AreasTyped, ObjectCells, NULL
    <2>3. A!CellsOf(a) \subseteq 0 .. (used["lispobject"] - 1)
      BY <2>1 DEF IInv, AreasTilePools, A!Occupied, A!AreasOf, Pools
    <2>4. QED
      BY <1>1, <1>3, <2>2, <2>3
  <1>4. QED
    BY <1>1, <1>2, <1>3

\* What adding a node to the node pool leaves of the invariant to be shown.
LEMMA AddNodeOK ==
    ASSUME IInv, NEW k \in Nat, k = used["narray"], NEW node, AddNode(node),
           UNCHANGED lispobject_pool, HasRoom("narray"), areas \subseteq areas',
           used'["narray"] = used["narray"] + 1,
           node \in [size : Nat, data : ObjectCells \cup {NULL},
                     filled : Nat, tailOf : NodeCells \cup {NULL}],
           ListPlaced(k)', TailPlaced(k)',
           \A j \in Lists : ~ Complete(j) \/ node.filled # node.size =>
               (node.data .. (node.data + node.size - 1)) \cap Body(j) = {}
    PROVE  ListsOK' /\ narray_node_pool' \in [NodeCells -> [size : Nat,
                          data : ObjectCells \cup {NULL}, filled : Nat,
                          tailOf : NodeCells \cup {NULL}]]
  <1>1. k \in NodeCells /\ k \notin Lists /\ Lists' = Lists \cup {k}
    <2>1. k < NARRAY_NODE_POOL_SIZE
      BY FitsMeaning, CapacityFacts DEF IInv, Pools
    <2>2. k \in NodeCells
      BY <2>1, SizeTypes DEF NodeCells
    <2>3. \A j \in NodeCells : (j < k + 1) <=> (j < k \/ j = k)
      BY DEF NodeCells
    <2>4. Lists = {j \in NodeCells : j < k}
      BY DEF Lists
    <2>5. Lists' = {j \in NodeCells : j < k + 1}
      BY DEF Lists
    <2>6. k \notin Lists
      BY <2>4
    <2>7. QED
      BY <2>2, <2>3, <2>4, <2>5, <2>6
  <1>2. narray_node_pool'[k] = node /\ \A j \in Lists : narray_node_pool'[j] = narray_node_pool[j]
    BY <1>1 DEF AddNode, IInv, TypeOK, Lists
  <1>3. \A j \in Lists : ListPlaced(j)'
    BY <1>2 DEF ListPlaced, IInv, ListsOK
  <1>4. \A j \in Lists : TailPlaced(j)'
    BY <1>1, <1>2 DEF TailPlaced, Complete, IInv, ListsOK
  <1>5. \A j \in Lists : Body(j)' = Body(j) /\ (Complete(j)' <=> Complete(j))
    BY <1>2 DEF Body, Complete
  <1>6. /\ Body(k)' = node.data .. (node.data + node.size - 1)
        /\ Complete(k)' <=> node.filled = node.size
    BY <1>2 DEF Body, Complete
  <1>7. UnfinishedAlone'
    <2> SUFFICES ASSUME NEW i \in Lists', NEW j \in Lists', i # j, ~ Complete(i)'
                 PROVE  Body(i)' \cap Body(j)' = {}
      BY DEF UnfinishedAlone
    <2>1. CASE i \in Lists /\ j \in Lists
      BY <2>1, <1>5 DEF IInv, ListsOK, UnfinishedAlone
    <2>2. CASE i = k
      BY <2>2, <1>1, <1>5, <1>6
    <2>3. CASE j = k
      BY <2>3, <1>1, <1>5, <1>6
    <2>4. QED
      BY <1>1, <2>1, <2>2, <2>3
  <1>8. narray_node_pool' \in [NodeCells -> [size : Nat, data : ObjectCells \cup {NULL},
                                  filled : Nat, tailOf : NodeCells \cup {NULL}]]
    BY DEF AddNode, IInv, TypeOK
  <1>9. \A i \in Lists' : ListPlaced(i)' /\ TailPlaced(i)'
    BY <1>1, <1>3, <1>4
  <1>10. QED
    BY <1>7, <1>8, <1>9 DEF ListsOK

\* new_narray keeps the invariant: the new list is the only unfinished one.
LEMMA NewNArrayOK ==
    ASSUME IInv, NEW n \in ArrayRequests, NewNArray(n)
    PROVE  IInv'
  <1>1. CASE CanNewNArray(n)
    <2> DEFINE req == NArrayRequest(n)
    <2>1. PICK node : /\ node = Node(n, IF n > 0 THEN used["lispobject"] ELSE NULL, 0, NULL)
                      /\ Serve(req) /\ AddNode(node) /\ UNCHANGED lispobject_pool
      BY <1>1 DEF NewNArray
    <2>2. n \in Nat /\ HasRoom("narray")
      BY <1>1, SizeAssumption DEF CanNewNArray
    <2>3. \A p \in Pools : used[p] \in Nat /\ used[p] <= Capacity[p]
      BY DEF IInv, TypeOK
    <2>4. used["lispobject"] + n <= LISPOBJECT_POOL_SIZE
      BY <1>1, <2>2, <2>3, FitsMeaning, CapacityFacts DEF CanNewNArray, IInv, Pools
    <2>5. \A p \in Pools : used[p] + req[p] <= Capacity[p]
      <3>1. used["narray"] + 1 <= Capacity["narray"]
        BY <2>2, FitsMeaning DEF IInv, Pools
      <3>2. \A p \in Pools : req[p] = IF p = "narray" THEN 1
                                      ELSE IF p = "lispobject" THEN n ELSE 0
        BY <2>2, RequestTypes
      <3>3. QED
        BY <2>2, <2>3, <2>4, <3>1, <3>2, CapacityFacts
    <2>6. /\ used' = [p \in Pools |-> used[p] + req[p]]
          /\ AreasTyped' /\ AreasTilePools' /\ areas \subseteq areas'
      BY <2>1, <2>2, <2>5, RequestTypes, ServeKeepsTiling DEF IInv
    <2>7. used'["narray"] = used["narray"] + 1
      BY <2>2, <2>6, RequestTypes DEF Pools
    <2>8. node \in [size : Nat, data : ObjectCells \cup {NULL},
                    filled : Nat, tailOf : NodeCells \cup {NULL}]
      BY <2>1, <2>2, <2>3, <2>4, CapacityFacts DEF Node, ObjectCells, Pools
    <2>9. PICK k \in Nat : k = used["narray"]
      BY <2>3 DEF Pools
    <2>10. narray_node_pool'[k] = node
      <3>1. k < NARRAY_NODE_POOL_SIZE
        BY <2>2, <2>9, FitsMeaning, CapacityFacts DEF IInv, Pools
      <3>2. k \in NodeCells
        BY <3>1, SizeTypes DEF NodeCells
      <3>3. QED
        BY <2>1, <2>9, <3>2 DEF AddNode, IInv, TypeOK
    <2>11. ListPlaced(k)'
      <3>1. CASE n > 0
        <4>1. A!Area("lispobject", used["lispobject"], n) \in areas'
          BY <2>1, <2>2, <3>1, RequestTypes DEF Serve, A!Touched, Pools
        <4>2. A!Area("lispobject", used["lispobject"], n).pool = "lispobject"
              /\ A!Area("lispobject", used["lispobject"], n).first = node.data
              /\ A!Area("lispobject", used["lispobject"], n).size = node.size
              /\ node.filled = 0 /\ node.size = n
          BY <2>1, <3>1 DEF A!Area, Node
        <4>3. node.data \in ObjectCells
          BY <2>1, <2>2, <2>3, <2>4, <3>1, CapacityFacts DEF Node, ObjectCells, Pools
        <4>4. QED
          BY <2>2, <2>10, <4>1, <4>2, <4>3 DEF ListPlaced, ObjectCells
      <3>2. CASE n = 0
        BY <2>1, <2>10, <3>2 DEF ListPlaced, Node, NULL
      <3>3. QED
        BY <2>2, <3>1, <3>2
    <2>12. TailPlaced(k)'
      BY <2>1, <2>10 DEF TailPlaced, Node
    <2>13. \A j \in Lists : (node.data .. (node.data + node.size - 1)) \cap Body(j) = {}
      <3>1. \A c \in node.data .. (node.data + node.size - 1) : c >= used["lispobject"]
        BY <2>1, <2>2, <2>3 DEF Node, NULL, Pools
      <3>2. \A j \in Lists : \A c \in Body(j) : c \in 0 .. (used["lispobject"] - 1)
        BY BodyBelow
      <3>3. QED
        BY <2>3, <3>1, <3>2 DEF Pools
    <2>14. ListsOK' /\ narray_node_pool' \in [NodeCells -> [size : Nat,
                data : ObjectCells \cup {NULL}, filled : Nat, tailOf : NodeCells \cup {NULL}]]
      BY <2>1, <2>2, <2>6, <2>7, <2>8, <2>9, <2>11, <2>12, <2>13, AddNodeOK
    <2>15. TypeOK'
      BY <2>1, <2>2, <2>5, <2>6, <2>14, RequestTypes DEF IInv, TypeOK
    <2>16. QED
      BY <2>6, <2>14, <2>15 DEF IInv
  <1>2. CASE ~ CanNewNArray(n)
    BY <1>2, RefuseKeeps DEF NewNArray
  <1>3. QED
    BY <1>1, <1>2

\* cdr_narray keeps the invariant: its node shares the body of a finished list.
LEMMA CdrNArrayOK ==
    ASSUME IInv, NEW s \in Lists, Complete(s), CdrNArray(s)
    PROVE  IInv'
  <1> DEFINE req == NArrayRequest(0)
             src == narray_node_pool[s]
  <1>1. CASE src.size = 0
    <2>1. /\ used' = used /\ areas' = areas
          /\ lispobject_pool' = lispobject_pool /\ narray_node_pool' = narray_node_pool
      BY <1>1 DEF CdrNArray
    <2>2. TypeOK' /\ AreasTyped' /\ AreasTilePools'
      BY <2>1 DEF IInv, TypeOK, AreasTyped, AreasTilePools
    <2>3. QED
      BY <2>1, <2>2, ListsKept DEF IInv
  <1>2. CASE src.size # 0 /\ HasRoom("narray")
    <2>1. PICK node : /\ node = TailNode(s)
                      /\ Serve(req) /\ AddNode(node) /\ UNCHANGED lispobject_pool
      BY <1>2 DEF CdrNArray
    <2>2. \A p \in Pools : used[p] \in Nat /\ used[p] <= Capacity[p]
      BY DEF IInv, TypeOK
    <2>3. \A p \in Pools : req[p] = IF p = "narray" THEN 1 ELSE 0
      BY RequestTypes
    <2>4. \A p \in Pools : used[p] + req[p] <= Capacity[p]
      <3>1. used["narray"] + 1 <= Capacity["narray"]
        BY <1>2, FitsMeaning DEF IInv, Pools
      <3>2. QED
        BY <2>2, <2>3, <3>1, CapacityFacts
    <2>5. /\ used' = [p \in Pools |-> used[p] + req[p]]
          /\ AreasTyped' /\ AreasTilePools' /\ areas \subseteq areas'
      BY <2>1, <2>4, RequestTypes, ServeKeepsTiling DEF IInv
    <2>6. used'["narray"] = used["narray"] + 1
      BY <2>3, <2>5 DEF Pools
    <2>7. PICK k \in Nat : k = used["narray"]
      BY <2>2 DEF Pools
    <2>8. /\ src \in [size : Nat, data : ObjectCells \cup {NULL},
                      filled : Nat, tailOf : NodeCells \cup {NULL}]
          /\ s \in NodeCells /\ src.filled = src.size /\ src.size > 0
      BY <1>2, BodyBelow DEF Complete, Lists
    <2>9. /\ node.size = src.size - 1 /\ node.filled = node.size /\ node.tailOf = s
          /\ node.data = IF node.size = 0 THEN NULL ELSE src.data + 1
      BY <2>1, <2>8 DEF TailNode, Node
    <2>10. PICK a \in areas : /\ a.pool = "lispobject" /\ a.first <= src.data
                              /\ src.data + src.size <= a.first + a.size
                              /\ src.data \in ObjectCells
      BY <2>8 DEF IInv, ListsOK, ListPlaced
    <2>11. node.size > 0 => node.data \in ObjectCells
      <3>1. src.data + src.size - 1 \in Body(s)
        BY <2>8, <2>10 DEF Body, ObjectCells
      <3>2. src.data + src.size - 1 <= used["lispobject"] - 1
        BY <2>2, <3>1, BodyBelow DEF Pools
      <3>3. src.data + src.size <= LISPOBJECT_POOL_SIZE
        BY <2>2, <2>8, <2>10, <3>2, CapacityFacts, SizeTypes DEF Pools, ObjectCells
      <3>4. QED
        BY <2>8, <2>9, <2>10, <3>3, SizeTypes DEF ObjectCells
    <2>12. node \in [size : Nat, data : ObjectCells \cup {NULL},
                     filled : Nat, tailOf : NodeCells \cup {NULL}]
      BY <2>1, <2>8, <2>9, <2>11 DEF TailNode, Node
    <2>13. narray_node_pool'[k] = node
      <3>1. k < NARRAY_NODE_POOL_SIZE
        BY <1>2, <2>7, FitsMeaning, CapacityFacts DEF IInv, Pools
      <3>2. k \in NodeCells
        BY <3>1, SizeTypes DEF NodeCells
      <3>3. QED
        BY <2>1, <2>7, <3>2 DEF AddNode, IInv, TypeOK
    <2>14. ListPlaced(k)'
      <3>1. a \in areas' /\ a.first \in Nat /\ a.size \in Nat
        BY <2>5, <2>10 DEF IInv, AreasTyped
      <3>2. node.size > 0 => /\ a.first <= node.data
                             /\ node.data + node.size <= a.first + a.size
        BY <2>8, <2>9, <2>10, <3>1 DEF ObjectCells
      <3>3. \A c \in src.data .. (src.data + src.size - 1) : lispobject_pool[c] \in Items
        BY <2>8 DEF IInv, ListsOK, ListPlaced
      <3>4. \A c \in node.data .. (node.data + node.filled - 1) :
                c \in src.data .. (src.data + src.size - 1)
        BY <2>8, <2>9, <2>10 DEF NULL, ObjectCells
      <3>5. \A c \in node.data .. (node.data + node.filled - 1) : lispobject_pool'[c] \in Items
        BY <2>1, <3>3, <3>4
      <3>6. QED
        BY <2>8, <2>9, <2>10, <2>11, <2>13, <3>1, <3>2, <3>5 DEF ListPlaced, ObjectCells
    <2>15. s \in Lists' /\ narray_node_pool'[s] = src
      <3>1. s \in Lists' /\ s # used["narray"]
        BY <2>2, <2>6 DEF Lists, Pools, NodeCells
      <3>2. QED
        BY <2>1, <2>8, <3>1 DEF AddNode, IInv, TypeOK
    <2>16. TailPlaced(k)'
      BY <2>8, <2>9, <2>13, <2>15 DEF TailPlaced, Complete
    <2>17. \A j \in Lists : ~ Complete(j) =>
               (node.data .. (node.data + node.size - 1)) \cap Body(j) = {}
      <3>1. (node.data .. (node.data + node.size - 1)) \subseteq Body(s)
        BY <2>8, <2>9, <2>10 DEF Body, NULL, ObjectCells
      <3>2. QED
        BY <3>1 DEF IInv, ListsOK, UnfinishedAlone
    <2>18. ListsOK' /\ narray_node_pool' \in [NodeCells -> [size : Nat,
                data : ObjectCells \cup {NULL}, filled : Nat, tailOf : NodeCells \cup {NULL}]]
      BY <1>2, <2>1, <2>5, <2>6, <2>7, <2>9, <2>12, <2>14, <2>16, <2>17, AddNodeOK
    <2>19. TypeOK'
      BY <2>1, <2>4, <2>5, <2>18, RequestTypes DEF IInv, TypeOK
    <2>20. QED
      BY <2>5, <2>18, <2>19 DEF IInv
  <1>3. CASE src.size # 0 /\ ~ HasRoom("narray")
    BY <1>3, RefuseKeeps DEF CdrNArray
  <1>4. QED
    BY <1>1, <1>2, <1>3

\* Filling touches one cell, and only of a list nobody else can see yet.
LEMMA FillTouchesOwnBody ==
    ASSUME IInv, NEW k \in Lists, NEW v \in Items, FillItem(k, v)
    PROVE  /\ narray_node_pool[k].filled < narray_node_pool[k].size
           /\ narray_node_pool[k].data + narray_node_pool[k].filled \in Body(k) \cap ObjectCells
           /\ \A j \in Lists : j # k =>
                 /\ narray_node_pool'[j] = narray_node_pool[j]
                 /\ \A c \in Body(j) : lispobject_pool'[c] = lispobject_pool[c]
  <1> DEFINE node == narray_node_pool[k]
             x == node.data + node.filled
  <1>1. node \in [size : Nat, data : ObjectCells \cup {NULL},
                  filled : Nat, tailOf : NodeCells \cup {NULL}]
    BY BodyBelow
  <1>2. node.filled < node.size
    BY <1>1 DEF FillItem, Complete, IInv, ListsOK, ListPlaced
  <1>3. x \in Body(k)
    BY <1>1, <1>2 DEF IInv, ListsOK, ListPlaced, Body, ObjectCells
  <1>4. x \in ObjectCells
    <2>1. used["lispobject"] \in Nat /\ used["lispobject"] <= LISPOBJECT_POOL_SIZE
      BY CapacityFacts DEF IInv, TypeOK, Pools
    <2>2. x \in 0 .. (used["lispobject"] - 1)
      BY <1>3, BodyBelow
    <2>3. QED
      BY <2>1, <2>2, SizeTypes DEF ObjectCells
  <1>5. ASSUME NEW j \in Lists, j # k
        PROVE  /\ narray_node_pool'[j] = narray_node_pool[j]
               /\ \A c \in Body(j) : lispobject_pool'[c] = lispobject_pool[c]
    <2>1. narray_node_pool'[j] = narray_node_pool[j]
      BY <1>5 DEF FillItem, IInv, TypeOK, Lists
    <2>2. Body(k) \cap Body(j) = {}
      BY <1>5 DEF FillItem, IInv, ListsOK, UnfinishedAlone
    <2>3. \A c \in Body(j) : c # x /\ c \in ObjectCells
      <3>1. used["lispobject"] \in Nat /\ used["lispobject"] <= LISPOBJECT_POOL_SIZE
        BY CapacityFacts DEF IInv, TypeOK, Pools
      <3>2. \A c \in Body(j) : c \in 0 .. (used["lispobject"] - 1)
        BY BodyBelow
      <3>3. \A c \in 0 .. (used["lispobject"] - 1) : c \in ObjectCells
        BY <3>1, SizeTypes DEF ObjectCells
      <3>4. QED
        BY <1>3, <2>2, <3>2, <3>3
    <2>4. QED
      BY <2>1, <2>3 DEF FillItem, IInv, TypeOK
  <1>6. QED
    BY <1>2, <1>3, <1>4, <1>5

\* Storing the next item of the newest list keeps the invariant.
LEMMA FillItemOK ==
    ASSUME IInv, NEW k \in Lists, NEW v \in Items, FillItem(k, v)
    PROVE  IInv'
  <1> DEFINE node == narray_node_pool[k]
             x == node.data + node.filled
  <1>1. /\ node \in [size : Nat, data : ObjectCells \cup {NULL},
                     filled : Nat, tailOf : NodeCells \cup {NULL}]
        /\ k \in NodeCells /\ node.filled < node.size
    BY BodyBelow, FillTouchesOwnBody DEF Lists
  <1>2. used' = used /\ areas' = areas /\ Lists' = Lists
    BY DEF FillItem, Lists
  <1>3. narray_node_pool'[k] = [node EXCEPT !.filled = node.filled + 1]
    BY <1>1 DEF FillItem, IInv, TypeOK
  <1>4. lispobject_pool' = [lispobject_pool EXCEPT ![x] = v] /\ x \in ObjectCells
    BY FillTouchesOwnBody DEF FillItem
  <1>5. TypeOK'
    BY <1>1, <1>2, <1>3, <1>4 DEF FillItem, IInv, TypeOK
  <1>6. AreasTyped' /\ AreasTilePools'
    BY <1>2 DEF IInv, AreasTyped, AreasTilePools
  <1>7. ~ Complete(k)
    BY DEF FillItem
  <1>8. \A j \in Lists : j # k => narray_node_pool'[j] = narray_node_pool[j]
    BY FillTouchesOwnBody
  <1>9. ASSUME NEW j \in Lists
        PROVE  ListPlaced(j)'
    <2>1. CASE j # k
      <3>1. /\ narray_node_pool'[j] = narray_node_pool[j]
            /\ \A c \in Body(j) : lispobject_pool'[c] = lispobject_pool[c]
        BY <2>1, FillTouchesOwnBody
      <3>2. ListPlaced(j) /\ narray_node_pool[j] \in [size : Nat, data : ObjectCells \cup {NULL},
                  filled : Nat, tailOf : NodeCells \cup {NULL}]
        BY BodyBelow DEF IInv, ListsOK
      <3>3. \A c \in narray_node_pool[j].data ..
                       (narray_node_pool[j].data + narray_node_pool[j].filled - 1) : c \in Body(j)
        BY <3>2 DEF ListPlaced, Body, ObjectCells, NULL
      <3>4. QED
        BY <1>2, <3>1, <3>2, <3>3 DEF ListPlaced
    <2>2. CASE j = k
      <3>1. ListPlaced(k) /\ node.data \in Int
        BY <1>1 DEF IInv, ListsOK, ObjectCells, NULL
      <3>2. \A c \in node.data .. (node.data + node.filled) :
                c # x => c \in node.data .. (node.data + node.filled - 1)
        BY <1>1, <3>1
      <3>3. \A c \in node.data .. (node.data + node.filled) : lispobject_pool'[c] \in Items
        BY <1>4, <3>1, <3>2 DEF ListPlaced, IInv, TypeOK
      <3>4. node.data + (node.filled + 1) - 1 = node.data + node.filled
        BY <1>1, <3>1
      <3>5. /\ narray_node_pool'[k].filled = node.filled + 1
            /\ narray_node_pool'[k].size = node.size /\ narray_node_pool'[k].data = node.data
        BY <1>1, <1>3
      <3>6. QED
        BY <1>1, <1>2, <2>2, <3>1, <3>3, <3>4, <3>5 DEF ListPlaced
    <2>3. QED
      BY <2>1, <2>2
  <1>10. ASSUME NEW j \in Lists
         PROVE  TailPlaced(j)'
    <2>1. TailPlaced(j)
      BY DEF IInv, ListsOK
    <2>2. CASE j = k
      BY <1>1, <1>3, <1>7, <2>1, <2>2 DEF TailPlaced
    <2>3. CASE j # k
      BY <1>2, <1>7, <1>8, <2>1, <2>3 DEF TailPlaced, Complete
    <2>4. QED
      BY <2>2, <2>3
  <1>11. UnfinishedAlone'
    <2>1. \A j \in Lists : Body(j)' = Body(j)
      BY <1>1, <1>3, <1>8 DEF Body
    <2>2. \A j \in Lists : ~ Complete(j)' => ~ Complete(j)
      BY <1>7, <1>8 DEF Complete
    <2>3. QED
      BY <1>2, <2>1, <2>2 DEF UnfinishedAlone, IInv, ListsOK
  <1>12. QED
    BY <1>2, <1>5, <1>6, <1>9, <1>10, <1>11 DEF IInv, ListsOK
-----------------------------------------------------------------------------
(* The theorems. *)

\* Every reachable state of the pools satisfies the inductive invariant.
THEOREM InvariantHolds == Spec => []IInv
  <1>1. IInv /\ [Next]_vars => IInv'
    <2> SUFFICES ASSUME IInv, [Next]_vars PROVE IInv'
      OBVIOUS
    <2>1. ASSUME NEW n \in StringRequests, NewStringArea(n) PROVE IInv'
      BY <2>1, NewStringAreaOK
    <2>2. CASE CDouble2Float
      BY <2>2, CDouble2FloatOK
    <2>3. ASSUME NEW n \in ArrayRequests, NewNArray(n) PROVE IInv'
      BY <2>3, NewNArrayOK
    <2>4. ASSUME NEW k \in Lists, Complete(k), CdrNArray(k) PROVE IInv'
      BY <2>4, CdrNArrayOK
    <2>5. ASSUME NEW k \in Lists, NEW v \in Items, FillItem(k, v) PROVE IInv'
      BY <2>5, FillItemOK
    <2>6. CASE UNCHANGED vars
      <3>1. TypeOK' /\ AreasTyped' /\ AreasTilePools'
        BY <2>6 DEF vars, IInv, TypeOK, AreasTyped, AreasTilePools
      <3>2. ListsOK'
        BY <2>6, ListsKept DEF vars, IInv
      <3>3. QED
        BY <3>1, <3>2 DEF IInv
    <2>7. QED
      BY <2>1, <2>2, <2>3, <2>4, <2>5, <2>6 DEF Next
  <1>2. QED
    BY <1>1, InitOK, PTL DEF Spec

\* The counters never pass the pool sizes and every node is well formed.
THEOREM TypeCorrect == Spec => []TypeOK
  <1>1. IInv => TypeOK
    BY DEF IInv
  <1>2. QED
    BY <1>1, InvariantHolds, PTL

\* No cell of a pool is handed out twice and none is lost (mempool.c:20-92).
THEOREM AreasNeverOverlap == Spec => []AreasTilePools
  <1>1. IInv => AreasTilePools
    BY DEF IInv
  <1>2. QED
    BY <1>1, InvariantHolds, PTL

\* Whoever holds a finished list can read all of its items.
THEOREM FinishedListsAreReadable == Spec => []FinishedListsReadable
  <1>1. IInv => FinishedListsReadable
    <2> SUFFICES ASSUME IInv, NEW k \in Lists, Complete(k), narray_node_pool[k].size > 0
                 PROVE  /\ \E a \in areas : a.pool = "lispobject"
                                            /\ Body(k) \subseteq A!CellsOf(a)
                        /\ \A c \in Body(k) : lispobject_pool[c] \in Items
      BY DEF FinishedListsReadable
    <2>1. narray_node_pool[k] \in [size : Nat, data : ObjectCells \cup {NULL},
                                   filled : Nat, tailOf : NodeCells \cup {NULL}]
      BY BodyBelow
    <2>2. ListPlaced(k)
      BY DEF IInv, ListsOK
    <2>3. PICK a \in areas : /\ a.pool = "lispobject" /\ a.first <= narray_node_pool[k].data
                             /\ narray_node_pool[k].data + narray_node_pool[k].size
                                   <= a.first + a.size
      BY <2>2 DEF ListPlaced
    <2>4. Body(k) \subseteq A!CellsOf(a)
      BY <2>1, <2>3 DEF Body, A!CellsOf, IInv, AreasTyped, ObjectCells, NULL
    <2>5. \A c \in Body(k) : lispobject_pool[c] \in Items
      BY <2>2 DEF ListPlaced, Body, Complete
    <2>6. QED
      BY <2>3, <2>4, <2>5
  <1>2. QED
    BY <1>1, InvariantHolds, PTL

\* A list made by cdr_narray is the tail of its source, for ever.
THEOREM CdrStaysTail == Spec => []CdrIsTail
  <1>1. IInv => CdrIsTail
    <2> SUFFICES ASSUME IInv, NEW k \in Lists, narray_node_pool[k].tailOf # NULL
                 PROVE  LET j == narray_node_pool[k].tailOf
                        IN  ItemsOf(k) = [i \in 0 .. (narray_node_pool[j].size - 2) |->
                                             ItemsOf(j)[i + 1]]
      BY DEF CdrIsTail
    <2> DEFINE j == narray_node_pool[k].tailOf
               m == narray_node_pool[k]
               src == narray_node_pool[j]
    <2>1. m \in [size : Nat, data : ObjectCells \cup {NULL},
                 filled : Nat, tailOf : NodeCells \cup {NULL}]
      BY BodyBelow
    <2>2. /\ j \in Lists /\ src.size = m.size + 1
          /\ m.size > 0 => m.data = src.data + 1
      BY DEF IInv, ListsOK, TailPlaced
    <2>3. src \in [size : Nat, data : ObjectCells \cup {NULL},
                   filled : Nat, tailOf : NodeCells \cup {NULL}]
      BY <2>2, BodyBelow
    <2>4. 0 .. (m.size - 1) = 0 .. (src.size - 2)
      BY <2>1, <2>2, <2>3
    <2>5. ASSUME NEW i \in 0 .. (m.size - 1)
          PROVE  lispobject_pool[m.data + i] = ItemsOf(j)[i + 1]
      <3>1. i + 1 \in 0 .. (src.size - 1) /\ m.data = src.data + 1
        BY <2>1, <2>2, <2>3
      <3>2. src.data + (i + 1) = m.data + i
        BY <2>1, <2>3, <3>1 DEF ObjectCells, NULL
      <3>3. ItemsOf(j)[i + 1] = lispobject_pool[src.data + (i + 1)]
        BY <3>1 DEF ItemsOf
      <3>4. QED
        BY <3>2, <3>3
    <2>6. QED
      BY <2>4, <2>5 DEF ItemsOf
  <1>2. QED
    BY <1>1, InvariantHolds, PTL

\* README "Datum are immutable at the Lisp level".
THEOREM DatumsAreImmutable == Spec => DatumImmutable
  <1> DEFINE Kept == \A k \in Lists : Complete(k) =>
                        /\ narray_node_pool'[k] = narray_node_pool[k]
                        /\ ItemsOf(k)' = ItemsOf(k)
  <1>1. ASSUME narray_node_pool' = narray_node_pool, lispobject_pool' = lispobject_pool
        PROVE  Kept
    BY <1>1 DEF ItemsOf
  <1>2. ASSUME NEW node, AddNode(node), lispobject_pool' = lispobject_pool, IInv
        PROVE  Kept
    <2>1. \A k \in Lists : narray_node_pool'[k] = narray_node_pool[k]
      BY <1>2 DEF AddNode, IInv, TypeOK, Lists, Pools
    <2>2. QED
      BY <1>2, <2>1 DEF ItemsOf
  <1>3. ASSUME NEW j \in Lists, NEW v \in Items, FillItem(j, v), IInv
        PROVE  Kept
    <2> SUFFICES ASSUME NEW k \in Lists, Complete(k)
                 PROVE  /\ narray_node_pool'[k] = narray_node_pool[k]
                        /\ ItemsOf(k)' = ItemsOf(k)
      OBVIOUS
    <2>1. k # j
      BY <1>3 DEF FillItem
    <2>2. /\ narray_node_pool'[k] = narray_node_pool[k]
          /\ \A c \in Body(k) : lispobject_pool'[c] = lispobject_pool[c]
      BY <1>3, <2>1, FillTouchesOwnBody
    <2>3. \A i \in 0 .. (narray_node_pool[k].size - 1) :
              narray_node_pool[k].data + i \in Body(k)
      BY <1>3, BodyBelow DEF Body, ObjectCells, NULL
    <2>4. QED
      BY <2>2, <2>3 DEF ItemsOf
  <1>4. IInv /\ [Next]_vars => [Kept]_vars
    <2> SUFFICES ASSUME IInv, Next PROVE Kept
      OBVIOUS
    <2>1. ASSUME NEW req, Refuse(req) PROVE Kept
      BY <2>1, <1>1 DEF Refuse
    <2>2. ASSUME NEW n \in StringRequests, NewStringArea(n) PROVE Kept
      BY <2>2, <2>1, <1>1 DEF NewStringArea
    <2>3. CASE CDouble2Float
      BY <2>3, <2>1, <1>1 DEF CDouble2Float
    <2>4. ASSUME NEW n \in ArrayRequests, NewNArray(n) PROVE Kept
      BY <2>4, <2>1, <1>2 DEF NewNArray
    <2>5. ASSUME NEW k \in Lists, CdrNArray(k) PROVE Kept
      BY <2>5, <2>1, <1>1, <1>2 DEF CdrNArray
    <2>6. QED
      BY <1>3, <2>2, <2>3, <2>4, <2>5 DEF Next
  <1>5. QED
    BY <1>4, InvariantHolds, PTL DEF DatumImmutable, Spec
-----------------------------------------------------------------------------
(* The pools implement the arena. *)

\* A request is refused only when a pool has no free place for it.
LEMMA RefuseIsJustified ==
    ASSUME IInv, NEW req \in [Pools -> Nat], Refuse(req), ~ HasSpace(req)
    PROVE  A!Refuse(req)
  <1>1. PICK p \in Pools : ~ (used[p] + req[p] <= Capacity[p])
    BY DEF HasSpace
  <1>2. /\ used[p] \in Nat /\ used[p] <= Capacity[p] /\ Capacity[p] \in Nat
        /\ req[p] \in Nat /\ req[p] > 0
    BY <1>1, CapacityFacts DEF IInv, TypeOK
  <1>3. ASSUME NEW c \in A!FreeCells(areas, p)
        PROVE  c \in used[p] .. (Capacity[p] - 1)
    BY <1>2 DEF A!FreeCells, IInv, AreasTilePools
  <1>4. ASSUME NEW first \in A!Addresses, A!IsFree(p, first, req[p])
        PROVE  FALSE
    <2>1. \A q \in Pools : Capacity[q] \in Nat
      BY CapacityFacts
    <2>2. first \in Int
      BY <2>1 DEF A!Addresses
    <2>3. A!CellsOf(A!Area(p, first, req[p])) = first .. (first + req[p] - 1)
      BY DEF A!CellsOf, A!Area
    <2>4. first .. (first + req[p] - 1) \subseteq A!FreeCells(areas, p)
      BY <1>4, <2>3 DEF A!IsFree
    <2>5. first \in A!FreeCells(areas, p) /\ first + req[p] - 1 \in A!FreeCells(areas, p)
      BY <1>2, <2>2, <2>4
    <2>6. first >= used[p] /\ first + req[p] - 1 <= Capacity[p] - 1
      BY <1>2, <1>3, <2>2, <2>5
    <2>7. QED
      BY <1>1, <1>2, <2>2, <2>6
  <1>5. ~ A!CanServe(req)
    BY <1>2, <1>4 DEF A!CanServe, A!Touched
  <1>6. QED
    BY <1>5 DEF A!Refuse, Refuse

\* A step of an operation that asks for req: served exactly when there is space.
Decided(req) == (Serve(req) /\ HasSpace(req)) \/ (Refuse(req) /\ ~ HasSpace(req))

\* A string is refused only for lack of space.
LEMMA NewStringAreaDecided ==
    ASSUME IInv, NEW n \in StringRequests, NewStringArea(n)
    PROVE  Decided(StringRequest(n))
  <1>1. n \in Nat
    BY SizeAssumption
  <1>2. Fits("string", n) <=> HasSpace(StringRequest(n))
    BY <1>1, FitsMeaning, RequestSpace, CapacityFacts DEF IInv
  <1>3. QED
    BY <1>2 DEF NewStringArea, Decided

\* A float is refused only for lack of space.
LEMMA CDouble2FloatDecided ==
    ASSUME IInv, CDouble2Float
    PROVE  Decided(FloatRequest)
  <1>1. HasRoom("float") <=> HasSpace(FloatRequest)
    BY FitsMeaning, RequestSpace DEF IInv, Pools
  <1>2. QED
    BY <1>1 DEF CDouble2Float, Decided

\* An array is refused only for lack of space.
LEMMA NewNArrayDecided ==
    ASSUME IInv, NEW n \in ArrayRequests, NewNArray(n)
    PROVE  Decided(NArrayRequest(n))
  <1>1. CanNewNArray(n) <=> HasSpace(NArrayRequest(n))
    BY CanNewNArrayMeaning
  <1>2. QED
    BY <1>1 DEF NewNArray, Decided

\* A tail is refused only for lack of space; the empty list is its own tail.
LEMMA CdrNArrayDecided ==
    ASSUME IInv, NEW k \in Lists, CdrNArray(k)
    PROVE  \/ outcome' = A!Outcome(NoRequest, TRUE) /\ areas' = areas
           \/ Decided(NArrayRequest(0))
  <1>1. used["lispobject"] + 0 <= Capacity["lispobject"]
    BY CapacityFacts DEF IInv, TypeOK, Pools
  <1>2. HasRoom("narray") <=> HasSpace(NArrayRequest(0))
    BY <1>1, FitsMeaning, RequestSpace DEF IInv, Pools
  <1>3. QED
    BY <1>2 DEF CdrNArray, Decided

\* mempool.c as a whole keeps the promises of the arena.
THEOREM MempoolImplementsArena == Spec => ImplementsArena
  <1>1. Init => A!Init
    BY DEF Init
  <1>2. IInv /\ [Next]_vars => [A!Next]_(A!vars)
    <2> SUFFICES ASSUME IInv, [Next]_vars PROVE A!Next \/ UNCHANGED A!vars
      OBVIOUS
    <2>1. ASSUME NEW req \in [Pools -> Nat], Decided(req)
          PROVE  A!Serve(req) \/ A!Refuse(req)
      BY <2>1, ServeKeepsTiling, RefuseIsJustified DEF IInv, Decided, HasSpace
    <2>2. ASSUME NEW n \in StringRequests, NewStringArea(n) PROVE A!Next
      <3>1. StringRequest(n) \in [Pools -> Nat] /\ Decided(StringRequest(n))
        BY <2>2, NewStringAreaDecided, RequestTypes, SizeAssumption
      <3>2. QED
        BY <2>1, <3>1 DEF A!Next
    <2>3. CASE CDouble2Float
      BY <2>1, <2>3, CDouble2FloatDecided, RequestTypes DEF A!Next
    <2>4. ASSUME NEW n \in ArrayRequests, NewNArray(n) PROVE A!Next
      <3>1. NArrayRequest(n) \in [Pools -> Nat] /\ Decided(NArrayRequest(n))
        BY <2>4, NewNArrayDecided, RequestTypes, SizeAssumption
      <3>2. QED
        BY <2>1, <3>1 DEF A!Next
    <2>5. ASSUME NEW k \in Lists, CdrNArray(k) PROVE A!Next
      <3>1. CASE outcome' = A!Outcome(NoRequest, TRUE) /\ areas' = areas
        <4>1. A!Touched(NoRequest) = {}
          BY RequestTypes DEF A!Touched
        <4>2. [p \in A!Touched(NoRequest) |-> 0] \in [A!Touched(NoRequest) -> A!Addresses]
          BY <4>1
        <4>3. A!Serve(NoRequest)
          BY <3>1, <4>1, <4>2 DEF A!Serve
        <4>4. QED
          BY <4>3 DEF A!Next
      <3>2. CASE Decided(NArrayRequest(0))
        BY <2>1, <3>2, RequestTypes DEF A!Next
      <3>3. QED
        BY <2>5, <3>1, <3>2, CdrNArrayDecided
    <2>6. ASSUME NEW k \in Lists, NEW v \in Items, FillItem(k, v) PROVE UNCHANGED A!vars
      BY <2>6 DEF FillItem, A!vars
    <2>7. CASE UNCHANGED vars
      BY <2>7 DEF vars, A!vars
    <2>8. QED
      BY <2>2, <2>3, <2>4, <2>5, <2>6, <2>7 DEF Next
  <1>3. QED
    BY <1>1, <1>2, InvariantHolds, PTL DEF Spec, A!Spec, ImplementsArena
=============================================================================
