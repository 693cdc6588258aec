SPECIFICATION Spec
CONSTANTS
  Full = 3
  ByteMod = 4
  WordMod = 16
  Sectors = 16
  Reach = 20
  MaxAddr = 20
  Positions <- MCPositions
  Counts <- MCCounts
INVARIANTS Complete NoDataLeft
PROPERTIES Refinement ReadsEnd
