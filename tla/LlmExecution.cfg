SPECIFICATION FairSpec
CONSTANTS
    w1 = w1
    w2 = w2
    Workers = {w1, w2}
    StaleSeconds = 2
    Budget = 2
    MaxThreads = 4
    MaxTurns = 5
    MaxFaults = 3
INVARIANTS
    CheckpointConsistent
PROPERTIES
    BudgetIsTotal
    
