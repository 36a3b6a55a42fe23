SPECIFICATION FairSpec
CONSTANTS
    MaxCount = 7
    MaxInitial = 2
CHECK_DEADLOCK FALSE
INVARIANT TypeOK
INVARIANT ReportsOutcome
INVARIANT MakesEveryCall
INVARIANT StartsSlowly
INVARIANT NeverBlocks
PROPERTY CalledOnce
PROPERTY StopsAtFailure
PROPERTY ImplementsCalls
PROPERTY Progresses
PROPERTY Terminates
