CONSTANTS
  MAX_PROCESSES = 3
  PidBound = 2
  ExitCode = {1}
SPECIFICATION EndingSpec
PROPERTIES
  WaitCompletes
