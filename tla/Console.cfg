SPECIFICATION Spec
CONSTANTS
  SecPerMin = 3
  Quad = 64
  Need <- MCNeed
  AuthTimeout = 1
  BreakTimeout = 2
  Chars <- MCChars
  Break = "B"
  Leaps <- MCLeaps
  MaxTime = 30
  MaxTorn = 10
INVARIANTS WindowLasts WindowBounded BreakIsHeard AuthStores
PROPERTIES BootGoesOn
CHECK_DEADLOCK FALSE
