SPECIFICATION MachineSpec
CONSTANTS
  Asked <- SomeWords
  MaxNested = 2
PROPERTY ReadChangesFrequency
