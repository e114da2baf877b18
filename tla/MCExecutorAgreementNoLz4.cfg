SPECIFICATION Spec
CONSTANTS
  N = 5
  UseCompression = TRUE
  Registered = {0}
  Config <- MCConfig
  PayloadLength <- MCPayloadLength
INVARIANT Equivalent
