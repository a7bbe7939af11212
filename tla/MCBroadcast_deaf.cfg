SPECIFICATION Spec
CONSTANTS
    Sockets = {s1, s2}
    MaxListeners = 2
    MaxMessages = 2
    MaxFaults = 1
CHECK_DEADLOCK FALSE
INVARIANT
    RegisteredIsHeard
