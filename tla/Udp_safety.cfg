SPECIFICATION Spec
CONSTANTS
  Peers = {"a", "zero"}
  Portless = {"zero"}
  RxMAX = 22
  TxMAX = 2
  DATA_BUF_SIZE = 3
  PackMAX = 5
  Datagrams = 3
INVARIANTS
  TypeOK
  HeadersAreHeaders
  ReplyToSender
  SendWaitsForOwn
PROPERTIES
  ImplementsEcho
  DatagramsLeave
  DatagramsAnswered
