SPECIFICATION Spec
CONSTANTS
  Forms <- OnlyPages
  MaxDepth = 12
PROPERTIES AlwaysTerminates
CHECK_DEADLOCK FALSE
