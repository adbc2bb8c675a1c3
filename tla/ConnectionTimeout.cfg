SPECIFICATION Spec
CONSTANTS
    Connects = {n1}
    Calls = {c1}
    HasTimer = TRUE
    None = None
INVARIANTS
    OnCloseOnlyAfterOpen
CHECK_DEADLOCK FALSE
