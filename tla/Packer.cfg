SPECIFICATION Spec
CONSTANTS
  ByteBits = 2
  Rounds = 16
  OrigP <- MCOrigP
  OrigS <- MCOrigS
  XorKey <- MCXorKey
  BlowfishKey <- MCBlowfishKey
  K <- MCK
  HInit <- MCHInit
  Sector = 16
  HeadSectors = 2
  SetupAt = 15
  MagicAt = 18
  Magic <- MCMagic
  Modes <- AllModes
  Inputs <- MCInputs
  Rests <- MCRests
  Earlier <- MCEarlier
INVARIANTS WithinBuffers RoundTrip HashRight
CHECK_DEADLOCK FALSE
