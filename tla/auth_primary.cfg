SPECIFICATION MCSpec

CONSTANTS
  m1 = m1
  m2 = m2
  a1 = a1
  a2 = a2
  Methods = {m1, m2}
  NoMethod = NoMethod
  OtherMethod = OtherMethod
  Attrs = {a1, a2}
  MaxEdits = 1
  MaxOutOfBand = 0
  MaxFaults = 0

PROPERTIES
  ClaimIsMade
