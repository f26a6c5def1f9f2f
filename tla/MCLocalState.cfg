CONSTANTS
    a1 = a1
    a2 = a2
    Accounts <- MCAccounts
    Loads <- MCLoads
    NTasks = 3
    Initial = 3
    MaxBalance = 15
    Gas = 2
    MaxCells = 3
SPECIFICATION Spec
INVARIANTS LocalInv AccountsApart Alone BalancesAddUp
PROPERTY RevertRestoresRecords
