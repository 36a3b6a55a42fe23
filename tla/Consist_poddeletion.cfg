SPECIFICATION FairSpec
CONSTANTS
    p1 = p1
    p2 = p2
    Pods = {p1}
    FollowPodOps = TRUE
    NeedRecordExpected = FALSE
    NeedRecordLifecycle = FALSE
    Webhook = TRUE
    Recreate = TRUE
    ForeignFlz = {}
    MaxChanges = 2
    MaxFaults = 0
    MaxDrift = 0
CHECK_DEADLOCK FALSE
PROPERTY PodDeletionCompletes
