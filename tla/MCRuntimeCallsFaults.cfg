CONSTANTS
  a = a
  b = b
  r1 = r1
  r2 = r2
  NoRequest = NoRequest
  Locality = {a, b}
  Request = {r1}
  Origin <- OneOrigin
  Dest <- OneDest
  MaxPending = 1
  MaxDedup = 1
  MaxBytes = 1
  QueueCap = 1
  Workers = 1
  ClientThreads = TRUE
  MayFail = {a, b}
  MayStop = {a, b}
  Duplicable = {"Request", "Cancel"}
  MaxDuplicates = 1
  MaxExpiries = 1
SPECIFICATION Spec
INVARIANT TypeOK
INVARIANT AtMostOncePerEntry
INVARIANT OneAnswerPerEntry
INVARIANT CompletionNeverMismatches
INVARIANT CancelledNeverReachesWaiter
INVARIANT WaiterIsTracked
INVARIANT StoppedRetainsNothing
INVARIANT RetainedBytesExact
CHECK_DEADLOCK FALSE
