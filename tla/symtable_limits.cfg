SPECIFICATION Spec
CONSTANTS
  Names <- Few
  Deletable = {"x"}
  H1 <- FewH1
  H2 <- FewH2
  Primes <- SmallPrimes
  MaxUid = 6
  MaxAllocFailures = 2
  NULL = NULL
INVARIANTS TypeOK UidsDistinct CountAccurate

CHECK_DEADLOCK FALSE
