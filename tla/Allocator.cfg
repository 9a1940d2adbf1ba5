SPECIFICATION TSpec
CONSTANTS
  Page = {p1, p2}
  DATA_LEN = 2
  THRESHOLD = 1
  MaxKids = 1
  MaxRoots = 2
SYMMETRY PageSymmetry
INVARIANTS TypeOK NoInvalidMarked CollectionExact Accounting IInv RequestedInTime
PROPERTIES HeapSpec FreeInitialised
