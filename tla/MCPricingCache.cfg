SPECIFICATION Spec
CONSTANTS
    Procs = {p1, p2}
    Prices = {cheap, dear}
    Pages = 3
    MaxPages = 2
    TTL = 1
    Latency = 1
    Nothing = Nothing
    Corrupt = Corrupt
    MaxTicks = 3
SYMMETRY Symmetry
INVARIANTS
    TypeOK
PROPERTIES
    KeepsPromise
    NeverHalfWritten

