SPECIFICATION Spec
CONSTANTS
    Retries = 2
    FlushTries = 2
    SettleTries = 2
    MaxBringups = 2
    MaxSeq = 6
INVARIANT
    UnreadIsUnknown
CHECK_DEADLOCK FALSE
