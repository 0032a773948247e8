SPECIFICATION Spec
CONSTANTS
    x1 = x1
    x2 = x2
    x3 = x3
    a1 = a1
    a2 = a2
    None = None
    Txs = {x1, x2, x3}
    Accounts = {a1, a2}
    AccountOf <- TwoAndOne
    Days = 4
    MaxMonth = 1
    FreeMonths = 1
    PaidMonths = 2
    PageSize = 1
    MaxUpserts = 2
INVARIANTS
    NothingMissed
    OfferedIsOpen
SYMMETRY Symmetry
CHECK_DEADLOCK FALSE
