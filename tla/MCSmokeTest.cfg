CONSTANTS
  MAX_PROCESSES = 3
  PidBound = 3
  ExitCode <- MCExitCode
  PAGE_SIZE = 2
  UsizeModulus = 64
  USER_HEAP_START = 4
  USER_MMAP_START = 10
  USER_MMAP_LIMIT = 18
  MAX_MMAP_AREAS = 2
  UartPage = 8
  AddrArg = {}
  LenArg = {}
  FlagsArg = {}
  ProtArg <- MCProtArg
  FrameBudget = {}
  KERNEL_STACK_PAGES = 2
  MaxSpare = 12
SPECIFICATION FairSpec
INVARIANTS
  SmokePasses
  CleanEnd
PROPERTIES
  Ends
