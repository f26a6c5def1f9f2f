CONSTANTS
    Accounts <- MCAccounts
    Start = "c"
    Loads <- MCLoads
    CallCreateDepth = 2
    MaxNonce = 1
    GasLimit = 4
    Step = 1
    CallCost = 1
    CallValueTransferGas = 2
    CallStipend = 2
    CreateGas = 1
    Fraction = 2
    Initial <- MCInitial
SPECIFICATION Spec
INVARIANT CollisionMeansContract
