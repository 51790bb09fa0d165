\* The spinlock as compiled for x86.
CONSTANTS
  Threads = {t1, t2, t3, t4, t5}
  Arch = "x86"
SPECIFICATION FairSpec
INVARIANT TypeOK
INVARIANT MutualExclusion
PROPERTY ImplementsMutex
PROPERTY SomebodyAcquires
