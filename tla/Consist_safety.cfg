SPECIFICATION Spec
CONSTANTS
    p1 = p1
    p2 = p2
    Pods = {p1, p2}
    FollowPodOps = TRUE
    NeedRecordExpected = FALSE
    NeedRecordLifecycle = FALSE
    Webhook = TRUE
    Recreate = TRUE
    ForeignFlz = {"other"}
    MaxChanges = 2
    MaxFaults = 1
    MaxDrift = 0
SYMMETRY Symmetry
CHECK_DEADLOCK FALSE
INVARIANT TypeOK
INVARIANT GuardInv
INVARIANT ProtectInv
INVARIANT QuiescentBackend
INVARIANT QuiescentProtected
INVARIANT QuiescentExpected
INVARIANT QuiescentDeleted
PROPERTY UnprotectOnlyWhenOff
PROPERTY KeepsContract
