SPECIFICATION Spec
CONSTANTS
  Texts <- Sources
  Faults <- MemoryFaults
  AllocSize = 3
INVARIANT
  CommentsClosed
CHECK_DEADLOCK FALSE
