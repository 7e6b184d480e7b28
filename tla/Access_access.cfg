SPECIFICATION AccessSpec
CONSTANTS
  k1 = k1  k2 = k2  u1 = u1
  Off = Off  None = None
  Keys <- MCKeys
  Ascii <- MCAscii
  Values <- MCValues
  Shells <- MCShells
  Edited <- SingleKeys
INVARIANTS AccessTypeOK ListedEnter LoginHolds FileInForce
