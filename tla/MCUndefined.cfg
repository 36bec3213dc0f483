CONSTANTS
    INT_MAX = 536870911
    LONG_MAX = 1073741823
    TMP_BUFFSIZE = 64
    VARIABLE_STACK_SIZE = 15
    Programs <- UndefinedPrograms
    Budgets <- MCBudgets
    SourceSymbols <- MCSourceSymbols
    Keywords <- MCKeywords
    DestSizes = {40}
    SkkNumList <- MCSkkNumList
    NoNumList = NoNumList
    SkkHenkanKey <- MCSkkHenkanKey
    NoKey = NoKey
    StrToD <- MCStrToD
    PercentG <- MCPercentG
    UserFullName <- MCText
    UserMailAddress <- MCText
    CurrentTimeString <- MCText
    DateTime <- MCDateTime
    Meaning <- MCMeaning
    Objects <- MCObjects
SPECIFICATION Spec
INVARIANT CallsAreDefined
CHECK_DEADLOCK FALSE
