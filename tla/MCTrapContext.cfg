CONSTANTS
  MAX_PROCESSES = 2
  PidBound = 3
  ExitCode = {1}
  PcModulus = 3
  UserState <- MCUserState
  CallResult = {0}
SPECIFICATION Spec
INVARIANTS
  KernelNotInterrupted
  TrapFindsItsStack
  OnLiveStack
PROPERTIES
  ContextsSpec
