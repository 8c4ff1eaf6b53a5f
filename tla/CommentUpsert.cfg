SPECIFICATION Spec
CONSTANTS
    Runs = {r1, r2}
    PerPage = 1
    MaxPages = 2
    MaxId = 2
    MaxDeleted = 1
    MaxEdited = 1
    Rendered = "v1"
    Marker = "v1"
    Oversize = {r2}
INVARIANTS
    TypeOK
    PostsOnlyIfNone
    NewestIsPicked
    ExitTells
PROPERTIES
    OthersStay
CHECK_DEADLOCK FALSE
