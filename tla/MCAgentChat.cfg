SPECIFICATION ChatSpec
CONSTANTS
    Asks = {a1, a2, a3}
    Threaded = {a1, a2, a3}
    Figures = {f1}
    Validate = TRUE
    UseJudge = TRUE
    Database = TRUE
    Widgets = {w1}
    Threads = {t1, t2}
    NoThread = NoThread
    MaxTorn = 1
SYMMETRY Symmetry
INVARIANTS
    ChatTypeOK
    ShownIsVetted
    OnlyTroubledLeak
    FollowUpsCarry
    RepliesInTurn
CHECK_DEADLOCK FALSE
