CONSTANTS
    INT_MAX = 536870911
    LONG_MAX = 1073741823
    TMP_BUFFSIZE = 64
    VARIABLE_STACK_SIZE = 15
    READER_BUFSIZE = 24
    READER_ARRAY_BUFSIZE = 6
    READER_MAX_NESTING_LEVEL = 5
    Sources <- MCSources
    ReservedSymbols <- MCReservedSymbols
    Programs = {}
    SourceSymbols = {}
    Budgets <- MCInterpreterBudgets
    Keywords <- MCKeywords
    DestSizes = {2, 3}
    SkkNumList <- MCSkkNumList
    NoNumList = NoNumList
    SkkHenkanKey <- MCSkkHenkanKey
    NoKey = NoKey
    StrToD <- MCStrToD
    PercentG <- MCPercentG
    UserFullName <- MCText
    UserMailAddress <- MCText
    CurrentTimeString <- MCText
    DateTime <- MCDateTime
    Meaning <- MCMeaning
    Objects <- MCTextObjects
    Parse <- MCParse
    ParseItems <- MCParseItems
SPECIFICATION InterpreterSpec
INVARIANTS
    ReplyIsMeaning
    ShortageIsNoReply
PROPERTIES
    CallReturns
CHECK_DEADLOCK FALSE
