CONSTANTS
    r1 = r1
    r2 = r2
    m1 = m1
    m2 = m2
    bad = bad
    durable = durable
    other = other
    Receivers = {r1, r2}
    Messages = {m1, bad}
    Poison = {bad}
    ConsumerNames = {durable, other}
    NoConsumer = NoConsumer
    DurableName = durable
    MaxDeliver = 2
    Prefetch = 1
    MaxFaults = 3
SPECIFICATION Spec
SYMMETRY Symmetry
INVARIANTS
    TypeOK
    AckedWasAccepted
    OnlyPoisonTerminated
    DuplicatesNeedExpiry
    DropsNeedRefusalsOrExpiries
    EvidenceInv
    AccountInv
PROPERTIES
    ProgressSurvivesRestart
    ImplementsAtLeastOnce
CHECK_DEADLOCK FALSE
