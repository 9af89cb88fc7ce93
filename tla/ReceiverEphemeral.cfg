CONSTANTS
    r1 = r1
    r2 = r2
    m1 = m1
    m2 = m2
    bad = bad
    durable = durable
    other = other
    Receivers = {r1}
    Messages = {m1, m2}
    Poison = {}
    ConsumerNames = {durable, other}
    NoConsumer = NoConsumer
    DurableName = NoConsumer
    MaxDeliver = 0
    Prefetch = 2
    MaxFaults = 2
SPECIFICATION Spec
SYMMETRY Symmetry
INVARIANT DuplicatesNeedExpiry
PROPERTY ImplementsAtLeastOnce
CHECK_DEADLOCK FALSE
