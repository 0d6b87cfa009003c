SPECIFICATION LockFairSpec
CONSTANTS
    p1 = p1  p2 = p2  p3 = p3
    Process = {p1, p2, p3}
    ApiOnly = {p3}
    Pid = {1, 2, 3, 4}
    UserOf <- MCUserOf
    NULL = NULL
    MaxDeaths = 2
    MaxFaults = 1
INVARIANTS
    LockTypeOK
    OneHolder
PROPERTIES
    RestartSucceeds
