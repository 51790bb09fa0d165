\* Two threads and the aarch64 tas(): mutual exclusion is violated.
CONSTANTS
  Threads = {t1, t2}
  Arch = "aarch64"
SPECIFICATION SpecAarch64
INVARIANT MutualExclusion
