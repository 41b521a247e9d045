SPECIFICATION ParserSpec
CONSTANTS
  Fields <- SomeFields
  Names = {"IP"}
  NameChars = {14, 15}
  Macs = {"other"}
  FirstAddress <- NoAddress
  FirstMac = "first"
INVARIANTS
  StoredIffFits
CHECK_DEADLOCK FALSE
