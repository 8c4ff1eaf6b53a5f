SPECIFICATION FairOracleSpec
CONSTANTS
    p1 = p1
    p2 = p2
    Processes <- MCProcesses
    Environments <- MCEnvironments
    Lines <- MCLines
    Files = 2
    Requests = {r1, r2}
    Unset = Unset
    Junk = Junk
    Given = Given
    Refused = Refused
    NoConfig = NoConfig
INVARIANTS
    OracleTypeOK
    ZeroMeansDone
    FailsEarly
PROPERTIES
    StopsWhenTold
