\* Three threads, two lists of single-tuple buckets, NO_TIMING.
CONSTANTS
  Arch = "x86"
  NThreads = 3
  Keys = {0, 1, 2}
  NumR = 3
  NumS = 3
  BucketSize = 1
  OverflowBufSize = 1
  ListSpread = 2
  Timing = FALSE
SPECIFICATION FairSpec
PROPERTY ReturnsUnlessUndefined
INVARIANT CountsMatches
