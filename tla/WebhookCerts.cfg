SPECIFICATION FairSpec
CONSTANTS
    Replicas = {r1, r2}
    Materials = {m1, m2, m3, m4, m5, m6, m7, m8}
    None = None
    Dirty = Dirty
    MaxCrashes = 2
    MaxOperator = 1
CHECK_DEADLOCK FALSE
INVARIANT TypeOK
INVARIANT CertInv
INVARIANT Trusted
PROPERTY KeepsTrust
PROPERTY EventuallyServes
