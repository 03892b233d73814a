SPECIFICATION FairSpec
CONSTANTS
    Limit = 2
    MaxOutput = 3
    MaxInterrupts = 3
CHECK_DEADLOCK FALSE
INVARIANTS
    TypeOK
    ResultIsTruthful
    NothingOutlivesTheRun
PROPERTY CommandReturns
