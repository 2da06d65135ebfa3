SPECIFICATION MemorySpec
CONSTANTS
  MaxProcesses = 2
  LastFd = 2
  Statuses <- SomeStatuses
  SwitchTargets <- OneTerminal
  FirstPageTable = 1100
  VidmapPage = 1101
  LinearPages <- SomePages
  Pointers <- SomePointers
INVARIANTS VidmapChecksPointer
CHECK_DEADLOCK FALSE
