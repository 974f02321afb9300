SPECIFICATION FairSpec
CONSTANTS
    m1 = m1
    m2 = m2
    w1 = w1
    w2 = w2
    c1 = c1
    c2 = c2
    Nothing = Nothing
    Prompts = {m1, m2}
    Workers = {w1, w2}
    Closers = {c1, c2}
    MaxAttempts = 3
    RetrySeconds = 1
    StaleSeconds = 1
    CaptureSeconds = 1
    ClosingSeconds = 1
    MaxStops = 2
INVARIANTS
    SessionConsistent
    SentOnceInOrder
    CloseLeavesNothingPending
PROPERTIES
    EventuallyDecided
