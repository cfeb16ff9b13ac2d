SPECIFICATION FairSpec

CONSTANTS
  N = 3
  Targets = 2
  BatchSizes = {1, 2}
  MaxPending = {1, 2}
  MaxRedirects = 1
  Operations = {"pmap", "pmap_at", "colocated", "preferred", "gather"}

INVARIANT WindowBounded
INVARIANT ResultsInOrder
INVARIANT LowestErrorWins
INVARIANT AffinityKept
PROPERTY PollTerminates

\* The future returns once.
CHECK_DEADLOCK FALSE
