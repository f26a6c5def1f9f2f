CONSTANTS
    k1 = k1
    k2 = k2
    p1 = p1
    p2 = p2
    NoProc = NoProc
    NTasks = 4
    Keys <- MCKeys
    Procs <- MCProcs
    Block <- MCBlock
    Workloads <- DestroyTwice
SPECIFICATION Spec
INVARIANT SerialOutcome
