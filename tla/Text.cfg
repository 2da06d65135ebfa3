SPECIFICATION Spec
CONSTANTS
  Size = 20
  Modulus = 65536
  Contents <- SomeContents
  Calls <- SomeCalls
INVARIANTS TypeOK BytesRight StringsRight NumbersRight
CHECK_DEADLOCK FALSE
