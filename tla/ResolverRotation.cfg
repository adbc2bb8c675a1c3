SPECIFICATION Spec
CONSTANTS
    w1 = w1
    s1 = s1
    s2 = s2
    hostA = hostA
    hostB = hostB
    None = None
    WebvhKeys = {w1}
    ScidKeys = {}
    Hosts = {hostA}
    Docs <- RotatedDocs
    FirstDoc <- First
    Calls <- RotationCalls
    Workloads <- RotationWorkload
    Limit = 1
    Capacity = 1
    Ttls = {1}
    MaxTime = 1
INVARIANTS
    InvalidateForcesReresolution
CHECK_DEADLOCK FALSE
