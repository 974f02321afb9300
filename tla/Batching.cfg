SPECIFICATION FairSpec
CONSTANTS
  m1 = m1
  m2 = m2
  w1 = w1
  w2 = w2
  Messages = {m1, m2}
  Features <- MCFeatures
  Workers = {w1, w2}
  QuietWindow = 0
  MaxWindow = 1
  MaxCount = 3
  RetryBackoff = 1
  MaxAttempts = 3
  LeaseSeconds = 1
  LastArrival = 0
  Horizon = 2
  MaxFaults = 1
  None = None
INVARIANTS
  BatchesConsistent
PROPERTIES
  RoutedOnce
  EventuallyRouted
