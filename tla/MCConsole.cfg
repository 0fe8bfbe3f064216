CONSTANTS
  UserMessage <- MCUserMessage
  KernelMessage <- MCKernelMessage
  ReadLen = {0, 1, 2}
  Received = {"p", "q"}
  Interval = 3
  Base = 2
  Digits = 2
SPECIFICATION FairSpec
PROPERTIES
  StreamSpec
  ProgramRuns
