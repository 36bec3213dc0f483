CONSTANTS
    SYMBOL_TABLE_SIZE = 199
    FUNC_TABLE_SIZE = 31
    VARIABLE_STACK_SIZE = 32
SPECIFICATION Spec
INVARIANTS
    TypeOK
    NoMisuse
    FailureIsReported
PROPERTIES
    ImplementsService
    CallsReturn
