SPECIFICATION Spec
CONSTANTS
    Runs = {r1, r2}
    PerPage = 2
    MaxPages = 2
    MaxId = 2
    MaxDeleted = 0
    MaxEdited = 0
    Rendered = "v1"
    Marker = "v2"
    Oversize = {}
INVARIANTS
    NeverStacks
CHECK_DEADLOCK FALSE
