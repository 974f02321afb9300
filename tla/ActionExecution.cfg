SPECIFICATION FairSpec
CONSTANTS
  w1 = w1
  w2 = w2
  r1 = r1
  r2 = r2
  execute = execute
  Workers = {w1, w2}
  ExecuteKey = execute
  RequestKeys = {r1}
  Results <- AllResults
  RetryBackoff = 1
  MaxAttempts = 2
  LeaseSeconds = 1
  MaxAbandons = 2
  ClaimBound = 3
  NoEvent = NoEvent
INVARIANTS
  ActionConsistent
PROPERTIES
  OutcomeIsFinal
  NoBlindReplay
  EventuallyDecided
