SPECIFICATION MemorySpec
CONSTANTS
  MaxProcesses = 2
  LastFd = 2
  Statuses <- SomeStatuses
  SwitchTargets <- TwoTerminals
  FirstPageTable = 1100
  VidmapPage = 1101
  LinearPages <- SomePages
  Pointers <- SomePointers
INVARIANTS MemoryOK ProgramsReach KernelMapped TlbFresh FlagConsumed
CHECK_DEADLOCK FALSE
