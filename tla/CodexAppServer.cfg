SPECIFICATION FairSpec
CONSTANTS
    c1 = c1
    c2 = c2
    Callers = {c1, c2}
    Uses <- MCUses
    Nobody = Nobody
    MaxTurns = 1
    Capacity = 1
    MaxFaults = 1
INVARIANTS
    ClientConsistent
    OutcomesAreNative
PROPERTIES
    ToolsRunInTheirTurn
    
CHECK_DEADLOCK FALSE
