SPECIFICATION Spec
CONSTANTS
    t1 = t1
    t2 = t2
    i1 = i1
    i2 = i2
    c1 = c1
    c2 = c2
    None = None
    gone = gone
    Tabs = {t1, t2, gone}
    Abandoned = {gone}
    Items = {i1, i2}
    Cpfs = {c1, c2}
    TakenCpfs = {c2}
    MaxConsents = 2
    MaxFaults = 1
INVARIANTS
    OneSignupWins
    LinkedAfterConsent
    FreeTierIsRaced
PROPERTIES
    QuietCpfIsFinal
SYMMETRY Symmetry
CHECK_DEADLOCK FALSE
