\* NO_TIMING, two threads: a bucket is freed while the other thread looks it up.
CONSTANTS
  Arch = "x86"
  NThreads = 2
  Keys = {0, 1}
  NumR = 2
  NumS = 2
  BucketSize = 1
  OverflowBufSize = 1
  ListSpread = 2
  Timing = FALSE
SPECIFICATION Spec
INVARIANT NoUseAfterFree
