SPECIFICATION Spec
CONSTANTS
    a1 = a1
    a2 = a2
    n1 = n1
    n2 = n2
    c1 = c1
    r1 = r1
    r2 = r2
    w1 = w1
    w2 = w2
    None = None
    Addresses = {a1, a2}
    Notices = {n1, n2}
    Malformed = {n2}
    RecipientsOf <- MCRecipients
    Cards = {c1}
    Requests = {r1}
    Workers = {w1, w2}
    User = a1
    MaxFaults = 1
INVARIANTS
    ProcessedIsSuppressed
    RepeatsAreFailures
    LateMailWasInFlight
PROPERTIES
    ImplementsInbox
    ShownIsMailed
CHECK_DEADLOCK FALSE
