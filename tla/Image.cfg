SPECIFICATION Spec
CONSTANTS
  Disk <- MCDisk
  Entry <- MCEntry
  LoadAreas = {"real", "kernel", "other"}
  HeapBlocks = 8
  HasAppend = TRUE
INVARIANTS TypeOK FlagVouches PlainIsSigned BootOnlyVouched StreamsClosed
PROPERTIES CommandsEnd
CHECK_DEADLOCK FALSE
