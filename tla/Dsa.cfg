SPECIFICATION Spec
CONSTANTS
  Base = 4
  Size = 12
  BitsPerDigit = 2
  P = 67
  Q = 11
  G = 9
  Privs <- MCPrivs
  Digests <- MCDigests
  DigestLen = 2
  RandMax = 3
  Rs <- MCRs
  Ss <- MCSs
INVARIANTS Remainder InverseRight Verdict SignedAccepted WordsAgree
PROPERTIES CheckEnds
CHECK_DEADLOCK FALSE
