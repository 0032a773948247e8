SPECIFICATION Spec
CONSTANTS
    i1 = i1
    i2 = i2
    u1 = u1
    a1 = a1
    a2 = a2
    j1 = j1
    j2 = j2
    s1 = s1
    s2 = s2
    None = None
    Items <- OneItem
    Users = {u1}
    Owner <- OneOwner
    PaidUsers = {}
    Accounts = {a1}
    ItemOf <- OneAccount
    Jobs = {j1, j2}
    Slots = {s1, s2}
    WebhookTriggers = {"webhook"}
    MaxFaults = 2
    RetryLimit = 1
    LegacyStatuses = {"UPDATED"}
INVARIANTS
    
    DetectorsFollowIngest
    UpdatingIsExplained
    DisconnectIsBacked
    ConsentBeforeIngest
PROPERTIES
    DeletedAccountsStayDeleted
    ImplementsLifecycle
SYMMETRY Symmetry
