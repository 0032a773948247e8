SPECIFICATION FairLegacySpec
CONSTANTS
    i1 = i1
    i2 = i2
    u1 = u1
    a1 = a1
    a2 = a2
    j1 = j1
    j2 = j2
    s1 = s1
    s2 = s2
    None = None
    Items <- OneItem
    Users = {u1}
    Owner <- OneOwner
    PaidUsers = {u1}
    Accounts = {}
    ItemOf <- NoAccount
    Jobs = {j1}
    Slots = {s1}
    WebhookTriggers = {"reconnect"}
    MaxFaults = 2
    RetryLimit = 1
    LegacyStatuses = {"UPDATED"}
PROPERTIES
    WorkDrains
    StaleIsRefreshed
