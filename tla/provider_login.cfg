SPECIFICATION MCFairSpec
CONSTANTS
  p1 = p1
  p2 = p2
  Methods = {m1, m2, m3}
  Unsupported = {m3}
  Passwords = {p1, p2}
  Unset = Unset
  MaxEdits = 1
  MaxOutOfBand = 3
  MaxFaults = 1
INVARIANTS
  TypeOK
  OverridesHold
PROPERTIES
  SwitchesForCause
  FailsForCause
  GetsIn
