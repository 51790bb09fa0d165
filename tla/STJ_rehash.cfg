\* Five tuples of three columns, two lists, chains of up to three buckets.
CONSTANTS
  NumR = 5
  BucketSize = 2
  ListSpread = 1
  Values = {0, 1}
  LastColumn = 17
SPECIFICATION Spec
INVARIANT TuplesConserved
INVARIANT TuplesInTheirList
INVARIANT OnlyFirstOverflowHasRoom
