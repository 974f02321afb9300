SPECIFICATION FairSpec
CONSTANTS
    recurring = recurring
    once = once
    broken = broken
    w1 = w1
    w2 = w2
    Jobs = {recurring, once, broken}
    Workers = {w1, w2}
    Scope <- MCScope
    Anchor <- MCAnchor
    Rule <- MCRule
    Invalid <- MCInvalid
    LocalTime <- MCLocalTime
    Horizon = 2
    MaxAttempts = 2
    LeaseSeconds = 1
    BatchSize = 2
    MaxFaults = 1
INVARIANTS
    JobsConsistent
    NoOccurrenceLost
PROPERTIES
    ScheduleAdvances
    EverySchedulePlaysOut
