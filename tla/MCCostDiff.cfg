SPECIFICATION Spec
CONSTANTS
    Rate <- Prices
    Multiplier <- Multipliers
    PlanRegion = "us_central1"
    Malformed = Malformed
    Plans <- MCPlans
    TopMoversCount = 2
    promptTopMoversN = 1
    Nothing = Nothing
INVARIANTS
    PlanAccountedFor
    NetChangeIsWorth
    CaveatsKeepTheirResource
PROPERTY
    CommentComes
