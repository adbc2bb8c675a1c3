SPECIFICATION Spec
CONSTANTS
    w1 = w1
    s1 = s1
    s2 = s2
    hostA = hostA
    hostB = hostB
    None = None
    WebvhKeys = {w1}
    ScidKeys = {s1, s2}
    Hosts = {hostA, hostB}
    Docs <- ForkedDocs
    FirstDoc <- First
    Calls <- AllCalls
    Workloads <- AllWorkloads
    Limit = 1
    Capacity = 1
    Ttls = {0, 1}
    MaxTime = 1
INVARIANTS
    TypeOK
    InflightIsLive
    ServedAsAsked
    MonotoneReads
    InvalidationObserved
PROPERTIES
    BookNeverRollsBack
CHECK_DEADLOCK FALSE
