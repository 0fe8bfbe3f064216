CONSTANTS
  MAX_PROCESSES = 4
  PidBound = 2
  ExitCode = {1}
SPECIFICATION FairSpec
PROPERTIES
  ReadyRuns
