SPECIFICATION GroupedSpec
CONSTANTS
  Names <- Locals
  Deletable = {}
  H1 <- LocalsH1
  H2 <- LocalsH2
  Primes <- RealPrimes
  MaxUid = 8
  MaxAllocFailures = 0
  NULL = NULL
INVARIANTS Findable
PROPERTIES DivergesOnlyHalfFull ResizeEnds ImplementsDictionary
CHECK_DEADLOCK FALSE
