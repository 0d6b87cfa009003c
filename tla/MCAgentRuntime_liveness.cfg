SPECIFICATION FairSpec
CONSTANTS
    r1 = r1  r2 = r2
    a1 = a1  a2 = a2  a3 = a3  a4 = a4
    k1 = k1  s1 = s1
    Key = {k1}
    NULL = NULL
    Session = {}
    RequestId = {r1, r2}
    ActivityId = {a1, a2, a3, a4}
    Payload <- MCPlainPayload
    LeaseTtl = 0
    TicksPerSecond = 1
    LateAnswer = FALSE
    MaxTime = 0
    MaxOutages = 1
    MaxFaults = 0
    MaxRetries = 1
    MaxQuanta = 1
PROPERTIES
    AcceptedIsSettled
    CancelSettles
    ShutdownCompletes
    QueuedIsServed
ACTION_CONSTRAINT NextUnused
