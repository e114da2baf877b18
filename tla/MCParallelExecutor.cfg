SPECIFICATION Spec
CONSTANTS
  N = 5
  UseCompression = FALSE
  Registered = {0}
  Config <- MCConfig
  PayloadLength <- MCPayloadLength
  Faults = {"job", "sink", "panic"}
INVARIANTS
  TypeOK
  BottomUpOrder
  NoInternalError
  FooterInLinkOrder
  RefsDisjoint
  OkMeansWholeTree
  OkMeansRefsReal
  OutcomeIsFaithful
PROPERTIES
  ProcessedOnce
  WritesBottomUp
  Termination
