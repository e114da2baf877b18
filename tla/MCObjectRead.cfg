SPECIFICATION Spec
CONSTANTS
  N = 130
  Objects <- MCObjects
  MaxNesting = 6
  FirstId = 10
  Whole <- Encode
  ItemsPerShard = 2
  ITEMS_PER_BUCKET = 2
  MAX_SHARDS = 2
  None = None
INVARIANTS
  EveryRouteLoadsBack
  CompressedAsDeclared
PROPERTY FillsGraph
