SPECIFICATION FairProviderSpec
CONSTANTS
    MaxRetries = 3
    BaseDelay = 2
    MaxDelay = 6
    Timeout = 12
    Millisecond = 1
    Second = 4
    MaxInt = 15
    Headers <- MCHeaders
INVARIANTS
    ProviderTypeOK
    TriesSpent
    BodiesWhole
    DelayInBounds
PROPERTIES
    Answers
CHECK_DEADLOCK FALSE
