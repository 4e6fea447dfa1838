SPECIFICATION Spec
CONSTANTS
  Forms <- AllForms
  MaxDepth = 12
INVARIANTS TypeOK Sound Complete TypeSafe
PROPERTIES Advances
CHECK_DEADLOCK FALSE
