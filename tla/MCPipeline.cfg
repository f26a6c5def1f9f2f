CONSTANTS
    balance = balance
    alive = alive
    p1 = p1
    p2 = p2
    NoProc = NoProc
    Nil = Nil
    NTasks = 3
    Keys <- MCKeys
    Procs <- MCProcs
    Block <- MCBlock
    Destroys <- MCDestroys
    Workloads <- MCWorkloads
SPECIFICATION PipelineSpec
INVARIANTS ChannelsNeverBlock ReturnsWhenDone ChainsLinked LoadedBeforeRead
PROPERTIES ClearedBeforeUse ImplementsExecution PipelineReturns
