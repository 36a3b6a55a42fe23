SPECIFICATION FairSpec
CONSTANTS
    Pods = {p1, p2}
    Ips = {i1}
    None = None
    MaxChanges = 1
    MaxFaults = 1
CHECK_DEADLOCK FALSE
INVARIANT TypeOK
INVARIANT QuiescentProtected
INVARIANT QuiescentRecord
INVARIANT QuiescentDeleted
PROPERTY UnprotectsIdle
PROPERTY ProtectionFollows
