SPECIFICATION Spec
CONSTANTS
  MaxProcesses = 3
  LastFd = 2
  Statuses <- SomeStatuses
  SwitchTargets <- OneTerminal
PROPERTY HaltUndoesVidmap
CHECK_DEADLOCK FALSE
