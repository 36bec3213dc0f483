CONSTANTS
    INT_MAX = 536870911
    LastYear = 2030
SPECIFICATION Spec
INVARIANTS
    DayHasItsEra
    RoundTrip
    UnspecifiedIsTheEnd
PROPERTIES
    ErasSucceed
CHECK_DEADLOCK FALSE
