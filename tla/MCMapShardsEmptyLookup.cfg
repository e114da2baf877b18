SPECIFICATION Spec
CONSTANTS
  Key <- MCKey
  Hash <- MCHash
  Maps <- MCMaps
  Cases <- MCFlat
  Machines <- MCMachines
  EntrySizes = {2, 3}
  ITEMS_PER_BUCKET = 2
  MAX_SHARDS = 2
  None = None
INVARIANT LookupsDoNotPanic
