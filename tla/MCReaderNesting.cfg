CONSTANTS
    INT_MAX = 32767
    LONG_MAX = 65535
    READER_BUFSIZE = 6
    READER_ARRAY_BUFSIZE = 3
    READER_MAX_NESTING_LEVEL = 2
    Sources <- ListSources
    Budgets <- PlentyOnly
    ReservedSymbols <- MCReservedSymbols
    StrToD <- MCStrToD
    Parse <- MCParse
    ParseItems <- MCParseItems
SPECIFICATION Spec
INVARIANT OnlyDeepNestingIsRefused
CHECK_DEADLOCK FALSE
