SPECIFICATION Spec
CONSTANTS
    i1 = i1
    e1 = e1
    e2 = e2
    e3 = e3
    r1 = r1
    r2 = r2
    n1 = n1
    n2 = n2
    n3 = n3
    g1 = g1
    g2 = g2
    None = None
    Items <- OneItem
    ItemOf <- AboutOneItem
    Events = {e1, e2, e3}
    Kind <- ThreeErrors
    Requests = {r1}
    Notifiers = {n1, n2, n3}
    Auditors = {}
    Concurrency = 2
    RetryLimit = 1
    MaxFaults = 1
    MaxExpiries = 1
INVARIANTS
    EmailStormBounded
PROPERTIES
    QuietDebounce
SYMMETRY Symmetry
CHECK_DEADLOCK FALSE
