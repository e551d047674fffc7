SPECIFICATION Spec
CONSTANTS
    u1 = u1
    u2 = u2
    Callers = {u1, u2}
    MaxCommands = 2
    MaxGates = 1
INVARIANT
    NoneActuates
CHECK_DEADLOCK FALSE
