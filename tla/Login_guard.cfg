SPECIFICATION Spec
CONSTANTS
    t1 = t1
    r1 = r1
    r2 = r2
    l1 = l1
    l2 = l2
    None = None
    Tabs = {t1}
    Requests = {r1, r2}
    Locks = {l1, l2}
    Window = 2
    LoginLimit = 2
    TurnstileAfter = 1
    UnlockTtl = 1
    RetryLimit = 1
    MaxPosts = 4
    MaxTime = 2
    MaxFaults = 2
INVARIANTS
    AttemptsBounded
    OpenLocksRaced
    UnmailedLockIsExplained
SYMMETRY Symmetry
CHECK_DEADLOCK FALSE
