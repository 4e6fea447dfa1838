SPECIFICATION Spec
CONSTANTS
  Texts <- Sources
  Faults <- MemoryFaults
  AllocSize = 3
INVARIANTS TypeOK TokensRight LinesRight StringsFit
PROPERTIES BufferIsSequence LexerEnds FirstPassEnds
CHECK_DEADLOCK FALSE
