SPECIFICATION FairSpec
CONSTANTS
  p1 = p1
  p2 = p2
  q = q
  w1 = w1
  w2 = w2
  k1 = k1
  k2 = k2
  text = text
  t = t
  Messages = {p1, p2, q}
  IdempotencyKey <- MCIdempotencyKey
  OrderingKey <- MCOrderingKey
  Position <- MCPosition
  Reference <- MCReference
  Batches = {{p1, p2}}
  NoReference = NoReference
  Workers = {w1, w2}
  RequestKeys = {k1, k2}
  Results <- AllResults
  RetryBackoff = 1
  MaxAttempts = 2
  LeaseSeconds = 1
  NoMessage = NoMessage
INVARIANTS
  SentAccounted
PROPERTIES
  NoBlindResend
  RowsMoveOn
  EventuallyDecided
