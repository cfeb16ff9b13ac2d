SPECIFICATION FairSpec

CONSTANTS
  Size = 3
  Root = 1
  N = 5
  BatchSize = 2
  Hybrid = FALSE
  Prefetch = FALSE
  Outer = FALSE
  Fate <- ResultFates

INVARIANT EachItemOnce
INVARIANT LowestFailureWins
PROPERTY Termination

\* pmap returns, or the job is aborted.
CHECK_DEADLOCK FALSE
