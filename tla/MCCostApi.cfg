SPECIFICATION ToolsSpec
CONSTANTS
    Scans <- MCScans
    MaxSeeds = 2
    TicksPerDay = 2
    MaxClock = 3
    UUIDs = {"subscription"}
    Names <- MCNames
    Sources = {"aws"}
    Bill <- MCBill
    Sessions <- MCSessions
    Default <- MCDefault
    Limit <- MCLimit
    ToolLimit <- MCLimit
    Calls <- MCCalls
    Spellings <- MCSpellings
    None = None
    NoCall = NoCall
INVARIANTS
    AnswersAgree
    PagesInOrder
    TakenAtItsWord
