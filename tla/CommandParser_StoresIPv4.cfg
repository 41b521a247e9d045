SPECIFICATION ParserSpec
CONSTANTS
  Fields <- SomeFields
  Names = {"IP"}
  NameChars = {14, 15}
  Macs = {"other"}
  FirstAddress <- NoAddress
  FirstMac = "first"
INVARIANTS
  StoresIPv4
CHECK_DEADLOCK FALSE
