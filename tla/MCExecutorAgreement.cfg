SPECIFICATION Spec
CONSTANTS
  N = 5
  UseCompression = TRUE
  Registered = {0, 1}
  Config <- MCConfig
  PayloadLength <- MCPayloadLength
INVARIANTS
  TypeOK
  LinksConsistent
  Equivalent
PROPERTY ExecutorsCanStart
