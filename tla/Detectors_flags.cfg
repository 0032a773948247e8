SPECIFICATION Spec
CONSTANTS
    checking = checking
    savings = savings
    k1 = k1
    k2 = k2
    r1 = r1
    r2 = r2
    f1 = f1
    f2 = f2
    None = None
    Accounts = {checking, savings}
    Txs <- Txs123
    Type <- OneDebit
    AccountOf <- OneDebitAccounts
    Cards = {k1, k2}
    Amounts = {5}
    Days = {0, 3, 8}
    Corrections = 1
    TransferRuns = {r1, r2}
    FaturaRuns = {f1}
INVARIANTS
    RunsAreOneToOne
    MutualUnlessOvertaken
    UnauditedIsExplained
PROPERTIES
    TransfersAreNoPayments
SYMMETRY Symmetry
