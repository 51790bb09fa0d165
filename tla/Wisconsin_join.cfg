SPECIFICATION FairSpec
CONSTANTS
  NThreads = 3
  Inputs <- MCInputs
  InputRoom = 2
  PartHash <- MCPartHash
  TableHash <- MCTableHash
  ChunkRoom = 2
INVARIANT TypeOK
INVARIANT SlotsApart
INVARIANT TableComplete
INVARIANT NoEmptyChunks
PROPERTY ImplementsSplit
PROPERTY ImplementsJoinPairs
PROPERTY Termination
