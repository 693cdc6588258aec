SPECIFICATION Spec
CONSTANTS
  Bits <- MCBits
  Num <- MCNum
  Key <- MCKey
  Sector = 3
  Room = 2
  CodeAt = 8
  MemSize = 16
  WordMod = 16
  Magic = {1}
  Envs <- MCEnvs
  Codes <- MCCodes
INVARIANT BootIntact
CHECK_DEADLOCK FALSE
