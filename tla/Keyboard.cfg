SPECIFICATION Spec
CONSTANTS
  Glyphs <- MCGlyphs
  Keys <- MCKeys
  Pause = TRUE
  FifoSize = 6
  MaxEvents = 5
INVARIANTS KeysKept CharsMeant
PROPERTIES Answers
CHECK_DEADLOCK FALSE
