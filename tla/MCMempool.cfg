SPECIFICATION Spec
CONSTANTS
    LISPOBJECT_POOL_SIZE = 4
    STRING_POOL_SIZE = 2
    FLOAT_POOL_SIZE = 1
    NARRAY_NODE_POOL_SIZE = 3
    SIZE_MOD = 100
    a = a
    b = b
    Garbage = Garbage
    Items <- MCItems
    StringRequests <- MCStringRequests
    ArrayRequests <- MCArrayRequests
SYMMETRY ItemSymmetry
INVARIANTS
    TypeOK
    AreasTilePools
    FinishedListsReadable
    CdrIsTail
PROPERTIES
    DatumImmutable
    ImplementsArena
