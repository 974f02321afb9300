SPECIFICATION Spec
CONSTANTS
    recurring = recurring
    once = once
    broken = broken
    w1 = w1
    w2 = w2
    Jobs = {recurring}
    Workers = {w1}
    Scope <- MCScope
    Anchor <- MCAnchor
    Rule <- MCRule
    Invalid <- MCInvalid
    LocalTime <- MCFold
    Horizon = 5
    MaxAttempts = 2
    LeaseSeconds = 1
    BatchSize = 1
    MaxFaults = 0
PROPERTIES
    ScheduleAdvances
