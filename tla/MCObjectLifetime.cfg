SPECIFICATION FairSpec

CONSTANTS
  a = a
  b = b
  Locality = {a, b}
  Home = a
  Object = {o1}
  MaxLeases = 2
  MaxTransfers = 1
  MaxRoots = 1
  MaxRetire = 1
  Renewal = 1
  Ttl = 2
  Grace = 1
  Width = 4
  QueueCap = 1
  MaxAsks <- HomeAsks
  Rooting = {b}
  Prompt = {"worker", "client", "owner"}
  MayMove = {o1}
  MayLeave = {b}

INVARIANT TransferPinsExplained
INVARIANT HoldersKeepObject
PROPERTY LeaseOutlivesTtl
PROPERTY EventuallyCollected

CHECK_DEADLOCK FALSE
