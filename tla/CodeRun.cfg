SPECIFICATION Spec
CONSTANTS
  Programs <- MCPrograms
  MaxChoices = 4
  MaxEvents = 14
  Risky = {"risk"}
  Irregular = FALSE
INVARIANTS OperandsThere MeansTree
CHECK_DEADLOCK FALSE
