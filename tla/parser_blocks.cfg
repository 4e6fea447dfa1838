SPECIFICATION Spec
CONSTANTS
  NULL = NULL
  Names = {"x", "f", "write"}
  Functions = {"f"}
  Builtins <- BuiltinFunctions
  Signatures <- Headers
  Types <- VariableTypes
  Results <- ExprResults
  Arguments <- ArgLists
  MaxStatements = 3
INVARIANTS TypeOK Balanced SameVariable DeclaredBeforeUse StoredUnlessNil ReturnsChecked ArgumentsMatch EveryParameterPassed
PROPERTIES OneStatementPerLine
CHECK_DEADLOCK FALSE
