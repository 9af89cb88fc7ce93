CONSTANTS
    r1 = r1
    r2 = r2
    m1 = m1
    m2 = m2
    bad = bad
    Receivers = {r1, r2}
    Messages = {m1, m2, bad}
    Poison = {bad}
    PendingLimit = 2
    MaxFaults = 2
SPECIFICATION FairSpec
INVARIANTS
    TypeOK
    AtMostOnce
    EachInOnePlace
    CoreInv
PROPERTIES
    ImplementsBestEffort
    SentIsHandled
CHECK_DEADLOCK FALSE
