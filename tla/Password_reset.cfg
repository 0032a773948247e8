SPECIFICATION Spec
CONSTANTS
    b1 = b1
    b2 = b2
    x1 = x1
    x2 = x2
    a1 = a1
    q1 = q1
    q2 = q2
    f1 = f1
    c1 = c1
    c2 = c2
    k1 = k1
    k2 = k2
    None = None
    Browsers = {b1, b2}
    Logins = {x1, x2}
    Askers = {a1}
    Asks = {q1}
    Forms = {f1}
    Confirms = {c1, c2}
    Tokens = {k1, k2}
    Window = 1
    PerEmailLimit = 1
    MaxLogins = 2
    MaxAsks = 2
    MaxConfirms = 2
    MaxTime = 2
    MaxFaults = 1
INVARIANTS
    StaleSessionsWereOvertaken
    ReuseWasRaced
PROPERTIES
    SignedOutBySelfOrReset
SYMMETRY Symmetry
CHECK_DEADLOCK FALSE
