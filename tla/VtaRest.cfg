SPECIFICATION FairSpec
CONSTANTS
    o1 = o1
    o2 = o2
    Ops = {o1, o2}
    Vtas <- AllVtas
    Lifetime = 1
    MaxTime = 1
    MaxFaults = 1
    MaxRenewals = 2
INVARIANTS
    SealedForTheVta
    ReplaysExplained
    ExpiryNeverLate
PROPERTIES
    SessionRegained
CHECK_DEADLOCK FALSE
