CONSTANTS
  PAGE_SIZE = 2
  UsizeModulus = 64
  USER_HEAP_START = 4
  USER_MMAP_START = 10
  USER_MMAP_LIMIT = 18
  MAX_MMAP_AREAS = 2
  UartPage = 8
  AddrArg <- MCAddrArg
  LenArg <- MCLenArg
  FlagsArg <- MCFlagsArg
  ProtArg <- MCProtArg
  FrameBudget <- MCFrameBudget
SPECIFICATION Spec
INVARIANTS
  SplitNeverPanics
  AreasWellFormed
  PagesMatchRecords
  GapIsFirstFit
PROPERTIES
  NeverMappedOver
