SPECIFICATION Spec
CONSTANTS
    Seeds = {s1, s2}
    s1 = s1
    s2 = s2
    aws = aws
    azure = azure
    demo = demo
    Accounts = {aws, azure, demo}
    ProviderOf <- MCProviderOf
    Configured <- MCConfigured
    MaxName = 2
    PageSize = 1
    ServerOf <- MCServerOf
    Given <- MCGiven
    Churn <- MCChurn
    MaxChanges = 1
    Count = 1
    Costs = {1, 2}
    TicksPerDay = 2
    NoRow = NoRow
INVARIANTS
    TypeOK
    SnapshotsTell
    TrendsTell
PROPERTIES
    KeepsLedger
    SeedEnds
