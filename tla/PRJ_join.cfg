\* Two threads on two nodes, four clusters, one of which holds two different keys.
CONSTANTS
  Bits1 = 1
  Bits2 = 1
  NThreads = 2
  Keys = {0, 1, 2, 4}
  NumR = 3
  NumS = 2
  StubLookup = FALSE
  Inputs <- MCInputs
  SkewThreshold = 1
  LargeThreshold = 1
SPECIFICATION FairSpec
INVARIANT TypeOK
INVARIANT PartitionComplete
INVARIANT TasksApart
INVARIANT QueuesCounted
PROPERTY ScatterOverwritesNothing
PROPERTY ImplementsPartitionedJoin
PROPERTY Termination
