CONSTANTS
    INT_MAX = 536870911
    LONG_MAX = 1073741823
    TMP_BUFFSIZE = 512
    ScanTexts <- MCScanTexts
    ScanLength = 5
    NumberTexts <- MCNumberTexts
    NumTypes = {0, 1, 2, 3, 9, 10, 11}
    Rooms <- MCRooms
SPECIFICATION Spec
INVARIANTS
    ScansNumbers
    KanjiReadsBack
    OnesAndZeros
    TextsFit
    TablesSuffice
CHECK_DEADLOCK FALSE
