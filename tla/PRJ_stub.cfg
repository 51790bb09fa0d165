\* get_numa_node_of_address() as it is compiled: it always answers -1.
CONSTANTS
  Bits1 = 1
  Bits2 = 1
  NThreads = 2
  Keys = {0, 1}
  NumR = 2
  NumS = 2
  StubLookup = TRUE
  Inputs <- PlainInputs
  SkewThreshold = 1
  LargeThreshold = 1
SPECIFICATION Spec
INVARIANT NodeHasQueue
