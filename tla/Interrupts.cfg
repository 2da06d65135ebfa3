SPECIFICATION MachineSpec
CONSTANTS
  Asked <- SomeWords
  MaxNested = 2
INVARIANTS MachineOK HandlersNest ServiceEnds RequestsKept OnlyHandled
PROPERTIES NoTickTwice ReadReturns ImplementsRtc
