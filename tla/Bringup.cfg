SPECIFICATION FairSpec
CONSTANTS
    Retries = 2
    FlushTries = 2
    SettleTries = 2
    MaxBringups = 2
    MaxSeq = 6
INVARIANTS
    ForkOnce
    NeverStale
    CleanFailure
    RefusedOnEvidence
PROPERTIES
    BringupEnds
CHECK_DEADLOCK FALSE
