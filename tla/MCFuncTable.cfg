SPECIFICATION Spec
CONSTANTS
    SYMBOL_TABLE_SIZE = 3
    STRING_POOL_SIZE = 6
    FUNC_TABLE_SIZE = 2
    car = car
    concat = concat
    yy = yy
    other = other
    f = f
    g = g
    Vacant = Vacant
    Names <- MCNames
    NameLength <- MCNameLength
    NameHash <- MCNameHash
    Functions <- MCFunctions
    AddressHash <- MCAddressHash
SYMMETRY LookAlikes
INVARIANTS
    TypeOK
    SymbolIdentity
    SymbolsStayFindable
    DispatchByName
PROPERTIES
    RegistrationIsFinal
