SPECIFICATION MCFairSpec

CONSTANTS
  m1 = m1
  m2 = m2
  a1 = a1
  a2 = a2
  Methods = {m1, m2}
  NoMethod = NoMethod
  OtherMethod = OtherMethod
  Attrs = {a1, a2}
  MaxEdits = 1
  MaxOutOfBand = 1
  MaxFaults = 1

INVARIANTS
  TypeOK

PROPERTIES
  SuccessIsComplete
  CreateIsRecorded
  Stabilises
  Converges
