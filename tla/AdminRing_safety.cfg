SPECIFICATION FairSpec
CONSTANTS
  MAX_COUNT = 4
  Depth = 2
  QLen = 1
  Ahead <- AnyBytes
  Chunks <- Lines
INVARIANTS
  TypeOK
  RowsDisjoint
  IdleArmed
PROPERTIES
  ImplementsMailbox
  RxDeathHasCause
  PostedIsParsed
