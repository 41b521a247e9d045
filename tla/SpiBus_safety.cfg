SPECIFICATION FairSpec
CONSTANTS
  Channels <- FiveChips
  Inits <- TwoInits
  Errors = 1
INVARIANTS
  NoLeftovers
  TokenIsForWaiter
PROPERTIES
  FrameWhole
  FrameEnds
CHECK_DEADLOCK FALSE
