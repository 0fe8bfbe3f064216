CONSTANTS
  RAM_BASE = 8
  RAM_FRAMES = 5
  FIRST_FRAME = 9
  RefModulus = 4
  MaxOwners = 2
  MaxRun = 2
SPECIFICATION Spec
PROPERTIES
  ContiguousNoneMeansNoFrames
