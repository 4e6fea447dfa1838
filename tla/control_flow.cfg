SPECIFICATION Spec
CONSTANTS
  Params <- ThreeFunctions
  EndName <- EndNames
  MaxStatements = 4
  MaxCalls = 2
INVARIANTS TypeOK LabelsResolve NoRedeclaration DeclaredWhenUsed
PROPERTIES FollowsSource
CHECK_DEADLOCK FALSE
