SPECIFICATION FairSpec

CONSTANTS
  Size = 3
  Root = 0
  N = 3
  BatchSize = 1
  Hybrid = TRUE
  Prefetch = TRUE
  Outer = TRUE
  Fate <- AllFates

INVARIANT RootSendsToReceiver
INVARIANT LaneMatchesWorker
INVARIANT AbortsOnlyUnrecoverable
INVARIANT NoErrorIsLost
PROPERTY Termination

\* pmap returns, or the job is aborted.
CHECK_DEADLOCK FALSE
