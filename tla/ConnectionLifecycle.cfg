SPECIFICATION FairSpec
CONSTANTS
    Connects = {n1, n2}
    Calls = {c1, c2}
    HasTimer = TRUE
    None = None
INVARIANTS
    TypeOK
    CloseLeavesNothingAlive
    DropsReportedUntilClose
PROPERTIES
    ConnectSettles
    LinkSpec
CHECK_DEADLOCK FALSE
