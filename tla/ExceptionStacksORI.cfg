SPECIFICATION Spec
CONSTANTS
  Pointers <- SomePointers
  SRs <- SomeSRs
  OrSRs <- SomeSRs
  Low = 1
  High = 4
PROPERTY ImplementsStacks
CHECK_DEADLOCK FALSE
