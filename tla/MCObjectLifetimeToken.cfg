SPECIFICATION Spec

CONSTANTS
  a = a
  b = b
  Locality = {a, b}
  Home = a
  Object = {o1}
  MaxLeases = 2
  MaxTransfers = 1
  MaxRoots = 1
  MaxRetire = 1
  Renewal = 1
  Ttl = 2
  Grace = 1
  Width = 4
  QueueCap = 1
  MaxAsks <- BothAsk
  Rooting = {}
  Prompt = {"worker", "client", "owner"}
  MayMove = {}
  MayLeave = {}

INVARIANT TransitKeepsObject

CHECK_DEADLOCK FALSE
