\* Two threads, every tuple in one chain of three buckets.
CONSTANTS
  Arch = "x86"
  NThreads = 2
  Keys = {0, 1}
  NumR = 5
  NumS = 2
  BucketSize = 2
  OverflowBufSize = 1
  ListSpread = 2
  Timing = TRUE
SPECIFICATION FairSpec
INVARIANT TypeOK
INVARIANT LatchExclusion
INVARIANT ChainShape
INVARIANT EveryTuplePlacedOnce
INVARIANT NoUseAfterFree
PROPERTY StoredStaysFindable
PROPERTY ImplementsHashJoin
PROPERTY Termination
