SPECIFICATION Spec
CONSTANTS
  TARGET_SHARD_SIZE_BYTES = 4
  MIN_SHARD_SIZE_BYTES = 3
  TASKS_PER_CORE = 2
  MaxLen = 8
  MaxItemSize = 5
  MaxCpus = 2
  Fields = 2
  MaxUnreadable = 2
  MaxLoaded = 3
  MaxLoadedItems = 5
  Damage = {"total", "children", "length", "item", "panic"}
  Builds = {"parallel", "sequential"}
INVARIANTS
  TypeOK
  TableMatchesSlices
  ShardsWellSized
  MirrorsOwnChunks
  RemainingLenCovers
  PromiseAgrees
  WritesApart
  OkMeansLoaded
PROPERTIES
  IterKeepsPromise
  LazyKeepsPromise
  ReadsEnd
