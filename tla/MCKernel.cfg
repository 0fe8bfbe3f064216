CONSTANTS
  MAX_PROCESSES = 3
  PidBound = 3
  ExitCode = {1}
  Page = {0, 1, 2}
  UartPage = 2
  PagesPerTable = 1
  InitPages <- MCInitPages
  Frame = {f1, f2, f3, f4}
  TotalFrames = 15
  KERNEL_STACK_PAGES = 1
  Value = {0, 1}
  Junk = 1
SYMMETRY MCSymmetry
SPECIFICATION Spec
INVARIANTS
  WritableIsExclusive
  RefsExact
  FramesBalance
PROPERTIES
  ForkIsCompleteOrDry
  PrivateSpec
