SPECIFICATION Spec
CONSTANTS
  MaxProcesses = 3
  LastFd = 2
  Statuses <- SomeStatuses
  SwitchTargets <- OneTerminal
PROPERTY ExecuteReturnsStatus
CHECK_DEADLOCK FALSE
