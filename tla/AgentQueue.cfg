SPECIFICATION FairSpec
CONSTANTS
  k1 = k1
  w1 = w1
  w2 = w2
  Keys = {k1}
  Workers = {w1, w2}
  Requests <- MCRequests
  Scope <- MCSharedScope
  Limit = 1
  MaxAttempts = 3
  LeaseSeconds = 2
  RetryBackoff = 1
  NoKey = NoKey
  NoRequest = NoRequest
INVARIANTS
  QueueConsistent
  FencedOutcomes
PROPERTIES
  SettledIsFinal
  EventuallySettled
