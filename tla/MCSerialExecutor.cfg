SPECIFICATION Spec
CONSTANTS
  N = 6
  UseCompression = TRUE
  Registered = {0}
  Config <- MCConfig
  PayloadLength <- MCPayloadLength
  Faults = {"job", "sink", "panic"}
INVARIANTS
  ChildrenReady
  OkMeansWholeTree
PROPERTIES
  WritesBottomUp
