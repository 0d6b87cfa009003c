SPECIFICATION AdapterFairSpec
CONSTANTS
    t1 = t1  t2 = t2
    Thread = {t1, t2}
    MADE_UP = MADE_UP
    NULL = NULL
    MaxLines = 3
INVARIANTS
    AdapterTypeOK
    NoOrphan
    AnswerAtEnd
PROPERTIES
    RealSessionStays
    ImplementsTurn
    TurnEnds
