SPECIFICATION Spec
CONSTANTS
  NULL = NULL
  Names = {"x", "f", "write"}
  Functions = {"f"}
  Builtins <- BuiltinFunctions
  Signatures <- Headers
  Types <- VariableTypes
  Results <- ExprResults
  Arguments <- ArgLists
  MaxStatements = 3
INVARIANTS ArgumentsInFrame
CHECK_DEADLOCK FALSE
