SPECIFICATION LockSpec
CONSTANTS
    p1 = p1  p2 = p2  p3 = p3
    Process = {p1, p2}
    ApiOnly = {}
    Pid = {1, 2, 3}
    UserOf <- MCUserOf
    NULL = NULL
    MaxDeaths = 1
    MaxFaults = 0
INVARIANTS
    OneRuntimeOwns
