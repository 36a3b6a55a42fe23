SPECIFICATION Spec
CONSTANTS
    p1 = p1
    p2 = p2
    Pods = {p1}
    FollowPodOps = TRUE
    NeedRecordExpected = FALSE
    NeedRecordLifecycle = TRUE
    Webhook = TRUE
    Recreate = TRUE
    ForeignFlz = {}
    MaxChanges = 2
    MaxFaults = 0
    MaxDrift = 0
SYMMETRY Symmetry
CHECK_DEADLOCK FALSE
PROPERTY UnprotectOnlyWhenOff
