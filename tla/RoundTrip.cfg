SPECIFICATION Spec
INVARIANTS
    SignalsStayApart
    NoSilentLoss
PROPERTY Arrives
CHECK_DEADLOCK FALSE
CONSTANTS
    l = l
    t = t
    d1 = d1
    d2 = d2
    d3 = d3
    Signals = {"logs", "metrics", "traces"}
    Batches = {l, t}
    SignalOf <- MCSignalOf
    NoSubject = NoSubject
    Names = {d1, d2, d3}
    NoName = NoName
    Deployments <- MCDeployments
    MaxExports = 1
