SPECIFICATION ExchangeFairSpec
CONSTANTS
    c1 = c1  c2 = c2
    r1 = r1  r2 = r2
    k1 = k1  x = x  y = y
    Caller = {c1, c2}
    RequestId = {r1, r2}
    Body <- MCBody
    Wants <- MCWants
    NULL = NULL
    EMPTY = EMPTY
    MaxTries = 2
INVARIANTS
    ExchangeTypeOK
    AnswersHold
PROPERTIES
    WaitEnds
