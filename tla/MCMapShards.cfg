SPECIFICATION Spec
CONSTANTS
  Key <- MCKey
  Hash <- MCHash
  Maps <- MCMaps
  Cases <- MCCases
  Machines <- MCMachines
  EntrySizes = {2, 3}
  ITEMS_PER_BUCKET = 2
  MAX_SHARDS = 2
  None = None
INVARIANTS
  TypeOK
  LoadsAreSaved
  LookupsFindSaved
