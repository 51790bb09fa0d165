SPECIFICATION FairSpec
CONSTANTS
  NThreads = 3
  Inputs <- StealInputs
  InputRoom = 1
  PartHash <- MCPartHash
  TableHash <- MCTableHash
  ChunkRoom = 1
INVARIANT NoPairTwice
