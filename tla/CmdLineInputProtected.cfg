SPECIFICATION Spec
CONSTANTS
  Commands <- MCCommands
  Startups <- MCNoStartups
  Typed <- MCTyped
  CmdMax = 32
INVARIANTS InputProtected
CHECK_DEADLOCK FALSE
