CONSTANTS
    GasQuickStep = 1
    GasFastestStep = 1
    GasFastStep = 1
    GasMidStep = 1
    GasSlowStep = 1
    GasExtStep = 2
    JumpdestGas = 1
    Keccak256Gas = 1
    Keccak256WordGas = 1
    CopyGas = 1
    LogGas = 1
    LogTopicGas = 1
    LogDataGas = 1
    ExpGas = 1
    ExpByteFrontier = 1
    ExpByteEIP160 = 2
    MemoryGas = 1
    QuadCoeffDiv = 2
    MaxInitCodeSize = 3
    InitCodeWordGas = 1
    BalanceGasFrontier = 1
    BalanceGasEIP150 = 2
    BalanceGasEIP1884 = 2
    ExtcodeSizeGasFrontier = 1
    ExtcodeSizeGasEIP150 = 2
    ExtcodeCopyBaseFrontier = 1
    ExtcodeCopyBaseEIP150 = 2
    ExtcodeHashGasConstantinople = 2
    ExtcodeHashGasEIP1884 = 2
    SloadGasFrontier = 1
    SloadGasEIP150 = 2
    SloadGasEIP1884 = 2
    SloadGasEIP2200 = 2
    SstoreSetGas = 4
    SstoreClearGas = 3
    SstoreResetGas = 3
    NetSstoreNoopGas = 1
    NetSstoreInitGas = 4
    NetSstoreCleanGas = 3
    NetSstoreDirtyGas = 1
    SstoreSentryGasEIP2200 = 2
    SstoreSetGasEIP2200 = 4
    SstoreResetGasEIP2200 = 3
    ColdSloadCostEIP2929 = 2
    ColdAccountAccessCostEIP2929 = 2
    WarmStorageReadCostEIP2929 = 1
    CreateGas = 3
    Create2Gas = 3
    CallGasFrontier = 1
    CallGasEIP150 = 2
    CallNewAccountGas = 3
    CallValueTransferGas = 3
    CallStipend = 2
    SelfdestructGasEIP150 = 2
    CreateBySelfdestructGas = 3
    StackLimit = 9
    Pushes = 2
    Dups = 3
    MaxUint = 255
    Word = 2
    MaxWords = 15
    Fraction = 4
    Operands <- MCOperands
    Budgets = {17}
SPECIFICATION Spec
INVARIANTS NoPanic MemoryPaid
PROPERTIES EveryStepCosts
