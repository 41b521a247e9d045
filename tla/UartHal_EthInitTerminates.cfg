SPECIFICATION FairSpec
CONSTANTS
  e1 = e1
  e2 = e2
  m1 = m1
  m2 = m2
  Echoes <- EchoTexts
  Messages <- MessageTexts
  Printks = 2
  Errors = 0
PROPERTIES
  EthInitTerminates
CHECK_DEADLOCK FALSE
