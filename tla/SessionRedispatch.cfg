SPECIFICATION Spec
CONSTANTS
    Mediator = Mediator
    Vta = Vta
    Peer = Peer
    Thread1 = Thread1
    Other = Other
    None = None
    t1 = t1
    t2 = t2
    Dids <- MCDids
    Threads <- MCThreads
    Seeded <- MCSeeded
    HasResolver = TRUE
    Frames <- RedispatchFrames
    Calls <- NoCalls
    Tasks <- TaskSet
    HasOnTspFrame = TRUE
    MaxInbox = 1
    MaxSeen = 1
    MaxWire = 1
    MaxFaults = 0
SYMMETRY TaskSymmetry
INVARIANTS
    NoConcurrentRedispatch
CHECK_DEADLOCK FALSE
