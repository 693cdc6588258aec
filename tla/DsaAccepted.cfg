SPECIFICATION Spec
CONSTANTS
  Base = 4
  Size = 12
  BitsPerDigit = 2
  P = 269
  Q = 67
  G = 81
  Privs <- SlipPrivs
  Digests <- SlipDigests
  DigestLen = 4
  RandMax = 3
  Rs <- SlipSignature
  Ss <- SlipSignature
INVARIANTS SignatureAccepted
CHECK_DEADLOCK FALSE
