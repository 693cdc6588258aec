SPECIFICATION Spec
CONSTANTS
  HeapStart = 3
  HeapSize = 12
  HeaderSize = 2
  Sizes = {0, 1, 5}
  Aligns = {4}
INVARIANTS TypeOK LiveDisjoint BlocksAvoidHeaders OwnerFound NothingLost
PROPERTIES Refinement
