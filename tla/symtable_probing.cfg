SPECIFICATION GroupedSpec
CONSTANTS
  Names <- Locals
  Deletable = {}
  H1 <- LocalsH1
  H2 <- LocalsH2
  Primes <- RealPrimes
  MaxUid = 8
  MaxAllocFailures = 0
  NULL = NULL
INVARIANT ProbingEnds
CHECK_DEADLOCK FALSE
