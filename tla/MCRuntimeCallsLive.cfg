CONSTANTS
  a = a
  b = b
  r1 = r1
  r2 = r2
  NoRequest = NoRequest
  Locality = {a, b}
  Request = {r1, r2}
  Origin <- MixedOrigin
  Dest <- MixedDest
  MaxPending = 1
  MaxDedup = 1
  MaxBytes = 1
  QueueCap = 1
  Workers = 1
  ClientThreads = FALSE
  MayFail = {b}
  MayStop = {a}
  Duplicable = {}
  MaxDuplicates = 0
  MaxExpiries = 0
SPECIFICATION FairSpec
PROPERTY EveryCallResolves
PROPERTY AcceptedRequestAnswered
CHECK_DEADLOCK FALSE
