SPECIFICATION FairSpec
CONSTANTS
    c1 = c1
    c2 = c2
    Clients = {c1, c2}
    Scripts <- SessionScripts
    RingSize = 1
    MaxPushes = 1
    MaxSocks = 3
    MaxReqs = 3
    MaxReaders = 3
INVARIANTS
    TypeOK
    SoleReader
PROPERTIES
    RingSurvives
    CallsReturn
CHECK_DEADLOCK FALSE
