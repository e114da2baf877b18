SPECIFICATION Spec
CONSTANTS
  root = root  inner = inner  left = left  middle = middle  right = right  Header = Header
  Block = {root, inner, left, middle, right, Header}
  Chunk = {root, inner, left, middle, right}
  RootChunk = root
  Length <- MCLength
  Links <- MCLinks
  Config <- MCConfig
  Custom = {5, 9}
  FallsBack = TRUE
  GLOBAL_HEADER_SIZE = 3
  CHILD_REF_SIZE = 2
  COUNT_SIZE = 1
  WRITE_BUFFER_SIZE = 6
  SinkFaults = {"error", "panic"}
INVARIANTS
  OpensOnlyIfWhole
  OkMeansReadable
  InspectedAsWritten
  OffsetsTrue
PROPERTY
  SinkGrowsInOrder
