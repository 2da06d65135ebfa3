SPECIFICATION Spec
CONSTANTS
  MaxProcesses = 3
  LastFd = 2
  Statuses <- SomeStatuses
  SwitchTargets <- OneTerminal
PROPERTY HaltReturnsToParent
CHECK_DEADLOCK FALSE
