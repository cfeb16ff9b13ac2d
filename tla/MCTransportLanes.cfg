SPECIFICATION FairSpec

CONSTANTS
  Size = 2
  Channels <- TwoChannels
  Backends = {"tcp", "mpi"}
  MaxQueued = 2
  MaxInflight = 6
  ControlReserve = 3
  MaxFrame <- Equal
  Lengths = {2}
  MaxEvents = 2
  WireCapacity = 3
  Sends <- JustTwo
  MayClose = {0}
  MayCrash = {1}

INVARIANT CreditsExact
INVARIANT ControlKeepsItsReserve
INVARIANT FramingHolds
PROPERTY KeepsContract
PROPERTY DeliveredOrVisible

CHECK_DEADLOCK FALSE
