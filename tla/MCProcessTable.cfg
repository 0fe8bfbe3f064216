CONSTANTS
  MAX_PROCESSES = 4
  PidBound = 6
  ExitCode = {0, 1}
SPECIFICATION Spec
INVARIANTS
  OneRunning
  PidTree
  ParentCanWait
  WaitersServed
  IdleOnlyWhenDone
PROPERTIES
  ZombieKeptForParent
  RoundRobin
