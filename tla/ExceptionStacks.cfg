SPECIFICATION Spec
CONSTANTS
  Pointers <- SomePointers
  SRs <- SomeSRs
  OrSRs <- NoMaster
  Low = 1
  High = 4
INVARIANT TypeOK
PROPERTY ImplementsStacks
CHECK_DEADLOCK FALSE
