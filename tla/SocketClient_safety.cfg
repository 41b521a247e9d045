SPECIFICATION EchoSpec
CONSTANTS
  RxMAX = 4
  TxMAX = 2
  DATA_BUF_SIZE = 3
  Data = 4
  Conns = 2
INVARIANTS
  TypeOK
  OwedIsLeft
  SendIsAnswered
PROPERTIES
  OneSendAtATime
  TimeoutIsOwn
  ReturnsUnlessHalfClosed
