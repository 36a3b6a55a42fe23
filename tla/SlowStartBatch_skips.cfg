SPECIFICATION Spec
CONSTANTS
    MaxCount = 4
    MaxInitial = 1
CHECK_DEADLOCK FALSE
PROPERTY SkipsRemainingBatches
