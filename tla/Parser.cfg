SPECIFICATION Spec
CONSTANTS
  Families <- MCFamilies
  Irregular = FALSE
INVARIANTS ParsesAsWritten LocalsAsScoped
CHECK_DEADLOCK FALSE
