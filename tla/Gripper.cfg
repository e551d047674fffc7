SPECIFICATION FairSpec
CONSTANTS
    u1 = u1
    u2 = u2
    Callers = {u1, u2}
    MaxCommands = 2
    MaxGates = 1
INVARIANTS
    OneLeak
PROPERTIES
    WaitsEnd
CHECK_DEADLOCK FALSE
