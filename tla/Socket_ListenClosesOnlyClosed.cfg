SPECIFICATION Spec
CONSTANTS
  RxMAX = 4
  TxMAX = 2
  DATA_BUF_SIZE = 3
  Data = 4
  Conns = 2
PROPERTIES
  ListenClosesOnlyClosed
