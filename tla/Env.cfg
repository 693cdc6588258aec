SPECIFICATION Spec
CONSTANTS
  Files <- MCFiles
  Tails <- MCTails
  EnvMax = 5
  Values <- MCValues
  MaxSets = 1
INVARIANTS GetsWhatIsMeant
PROPERTIES SetThenGet ParserEnds
CHECK_DEADLOCK FALSE
