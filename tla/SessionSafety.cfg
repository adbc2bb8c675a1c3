SPECIFICATION Spec
CONSTANTS
    Mediator = Mediator
    Vta = Vta
    Peer = Peer
    Thread1 = Thread1
    Other = Other
    None = None
    t1 = t1
    t2 = t2
    Dids <- MCDids
    Threads <- MCThreads
    Seeded <- MCSeeded
    HasResolver = TRUE
    Frames <- WorkloadFrames
    Calls <- WorkloadCalls
    Tasks <- TaskSet
    HasOnTspFrame = TRUE
    MaxInbox = 2
    MaxSeen = 1
    MaxWire = 1
    MaxFaults = 1
SYMMETRY TaskSymmetry
CONSTRAINT InWorkload
INVARIANTS
    TypeOK
    HandedOffBeforeDeleted
    AckedOnlyStored
    NoMissedReply
    WaitersArePending
    ReplyAnswersCall
PROPERTIES
    AbstractSpec
CHECK_DEADLOCK FALSE
