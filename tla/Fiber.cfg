SPECIFICATION Spec
CONSTANTS
  F = {f1, f2, f3}
  MAIN = MAIN
  MaxKept = 1
  MaxRoots = 2
  InnerFibers = FALSE
  NextAndEach = FALSE
  Reenter = FALSE
SYMMETRY FiberSymmetry
CHECK_DEADLOCK FALSE
INVARIANTS StackExclusive ReturnsToResumer SuspendedIntact NoDangling
PROPERTIES NoStackLost ControlSpec
