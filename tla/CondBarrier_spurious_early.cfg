\* Two threads: one spurious wakeup opens the barrier for a single thread.
CONSTANTS
  Threads = {t1, t2}
  NoThread = NoThread
  MaxRounds = 2
SPECIFICATION SpuriousSpec
INVARIANT NoEarlyLeave
