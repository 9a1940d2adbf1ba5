SPECIFICATION FairSpec
CONSTANTS
  Page = {p1, p2}
  DATA_LEN = 2
  THRESHOLD = 1
  MaxKids = 1
  MaxRoots = 1
PROPERTIES CollectionEnds
