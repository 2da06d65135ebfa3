SPECIFICATION Spec
CONSTANTS
  MaxProcesses = 3
  LastFd = 2
  Statuses <- SomeStatuses
  SwitchTargets <- AllTerminals
INVARIANTS TypeOK CountsAgree FilledPCB PidsOrdered OwnOrFirstStack
PROPERTIES TerminalKeepsProgram HiddenTerminalUntouched
CHECK_DEADLOCK FALSE
