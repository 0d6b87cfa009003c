SPECIFICATION FilesFairSpec
CONSTANTS
    r1 = r1  r2 = r2
    a1 = a1  a2 = a2  a3 = a3  a4 = a4
    s1 = s1
    Key = {}
    NULL = NULL
    Session = {s1}
    RequestId = {r1}
    ActivityId = {a1, a2, a3, a4}
    Payload <- MCFilesPayload
    LeaseTtl = 1
    TicksPerSecond = 2
    LateAnswer = FALSE
    MaxTime = 0
    MaxOutages = 1
    MaxFaults = 1
    MaxRetries = 0
    MaxQuanta = 1
INVARIANTS
    FilesTypeOK
    FilesInOrder
PROPERTIES
    SettledUnlessTorn
    LeaseEnds
ACTION_CONSTRAINTS
    NameableFirst
    TwoTroubles
