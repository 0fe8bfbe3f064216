CONSTANTS
  PageBytes = 2
  VaPages = 4
  AddrLimit = 16
  WordBytes = 2
  UTS_FIELD_LEN = 2
  UtsValues <- MCUtsValues
  Kind = {"none", "uart", "code", "data", "exec", "shared", "sole",
          "ram", "mirror"}
  MaxSpare = 1
  MaxLen = 4
  MaxCalls = 1
SPECIFICATION Spec
PROPERTIES
  CheckExact
  ErrorIsClean
  OthersUntouched
  OnlyWaitTraps
CHECK_DEADLOCK FALSE
