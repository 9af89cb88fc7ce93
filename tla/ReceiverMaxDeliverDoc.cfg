CONSTANTS
    r1 = r1
    r2 = r2
    m1 = m1
    m2 = m2
    bad = bad
    durable = durable
    other = other
    Receivers = {r1}
    Messages = {m1}
    Poison = {}
    ConsumerNames = {durable}
    NoConsumer = NoConsumer
    DurableName = durable
    MaxDeliver = 2
    Prefetch = 1
    MaxFaults = 3
SPECIFICATION Spec
INVARIANT MaxDeliverCountsRedeliveries
CHECK_DEADLOCK FALSE
