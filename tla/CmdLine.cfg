SPECIFICATION Spec
CONSTANTS
  Commands <- MCCommands
  Startups <- MCStartups
  Typed <- MCTyped
  CmdMax = 32
INVARIANTS RunsWhatWasTyped TokenizerHome
PROPERTIES LinesEnd
CHECK_DEADLOCK FALSE
