SPECIFICATION ConnectionsSpec
CONSTANTS
    i1 = i1
    i2 = i2
    t1 = t1
    t2 = t2
    r1 = r1
    r2 = r2
    j1 = j1
    j2 = j2
    None = None
    Items = {i1}
    Tabs = {t1}
    Requests = {r1, r2}
    Jobs = {j1, j2}
    Cooldown = 2
    MaxTime = 5
INVARIANTS
    EnabledIsHonest
    CooldownIsRaced
SYMMETRY Symmetry
CHECK_DEADLOCK FALSE
