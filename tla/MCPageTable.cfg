CONSTANTS
  MAX_PROCESSES = 2
  EntriesPerTable = 2
  KERNEL_VPN2_MIN = 1
  NumFrames = 14
  PageFrames = 7
  RefBound = 2
  KERNEL_STACK_PAGES = 1
  InitPages <- MCInitPages
  UartPage = 3
  KernelPages = {4}
  HeapPages = {0}
  MapProt <- MCMapProt
SPECIFICATION Spec
INVARIANTS
  TablesDisjoint
  KernelHalfShared
  TlbCoherent
PROPERTIES
  FlatSpec
