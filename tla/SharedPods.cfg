SPECIFICATION FairSpec
CONSTANTS
    Services = {s1, s2}
    Pods = {p1}
    MaxChanges = 2
    MaxFaults = 1
CHECK_DEADLOCK FALSE
INVARIANT TypeOK
INVARIANT KeyInv
INVARIANT AdmittedKept
INVARIANT QuiescentExpected
INVARIANT QuiescentGone
PROPERTY Settles
