CONSTANTS
    NTasks = 5
    NumWorkers = 2
    Costs = {1, 3}
    Graphs <- MCGraphs
    Accesses <- MCAccesses
SPECIFICATION SMFairSpec
INVARIANTS
    TypeOK
    NoOverlap
    Precedence
    SlotsAreGaps
    SlotFound
    LegalPlan
    PropertiesGenerated
    TreesFindTheSlot
PROPERTIES
    EarliestFit
    Termination
