SPECIFICATION FairSpec
CONSTANTS
    p1 = p1
    p2 = p2
    Pods = {p1}
    FollowPodOps = TRUE
    NeedRecordExpected = TRUE
    NeedRecordLifecycle = TRUE
    Webhook = TRUE
    Recreate = FALSE
    ForeignFlz = {"old"}
    MaxChanges = 2
    MaxFaults = 1
    MaxDrift = 1
CHECK_DEADLOCK FALSE
INVARIANT BackendGuarded
PROPERTY UnprotectOffOrRecorded
PROPERTY KeepsContract
PROPERTY Settles
