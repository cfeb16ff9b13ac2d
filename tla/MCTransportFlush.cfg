SPECIFICATION Spec

CONSTANTS
  Size = 2
  Channels <- OneChannel
  Backends = {"tcp", "mpi"}
  MaxQueued = 1
  MaxInflight = 5
  ControlReserve = 1
  MaxFrame <- Unequal
  Lengths = {1, 2}
  MaxEvents = 2
  WireCapacity = 3
  Sends <- OneAndTwo
  MayClose = {0, 1}
  MayCrash = {1}

INVARIANT StoppedRetainsNothing
PROPERTY KeepsContract

CHECK_DEADLOCK FALSE
