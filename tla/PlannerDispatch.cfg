SPECIFICATION FairSpec
CONSTANTS
    w1 = w1
    w2 = w2
    w3 = w3
    v1 = v1
    v2 = v2
    d1 = d1
    d2 = d2
    None = None
    Workers = {w1, w2, w3}
    Versions = {v1, v2}
    Decisions = {d1, d2}
    Version <- MCVersion
    StaleSeconds = 1
    MaxFaults = 2
INVARIANTS
    RowsConsistent
PROPERTIES
    AnswersAreFinal
    
