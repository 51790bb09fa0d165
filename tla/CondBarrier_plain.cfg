\* Three threads, three uses of one barrier.
CONSTANTS
  Threads = {t1, t2, t3}
  NoThread = NoThread
  MaxRounds = 3
SPECIFICATION FairSpec
INVARIANT TypeOK
INVARIANT SleepersCounted
PROPERTY ImplementsBarrier
PROPERTY EverybodyLeaves
