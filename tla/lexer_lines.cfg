SPECIFICATION Spec
CONSTANTS
  Texts <- Sources
  Faults <- MemoryFaults
  AllocSize = 3
INVARIANT
  LinesAlways
CHECK_DEADLOCK FALSE
