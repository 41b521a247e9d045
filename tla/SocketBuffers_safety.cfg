SPECIFICATION Spec
CONSTANTS
  Byte = 4
  RxMAX = 8
  TxMAX = 4
  DATA_BUF_SIZE = 5
  Start = 13
  Total = 8
INVARIANTS
  TypeOK
  InBounds
PROPERTIES
  ImplementsPipe
  EchoArrives
