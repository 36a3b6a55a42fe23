SPECIFICATION Spec
CONSTANTS
    p1 = p1
    p2 = p2
    Pods = {p1}
    FollowPodOps = TRUE
    NeedRecordExpected = TRUE
    NeedRecordLifecycle = FALSE
    Webhook = TRUE
    Recreate = FALSE
    ForeignFlz = {}
    MaxChanges = 2
    MaxFaults = 1
    MaxDrift = 0
SYMMETRY Symmetry
CHECK_DEADLOCK FALSE
INVARIANT QuiescentDeleted
