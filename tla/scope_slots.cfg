SPECIFICATION FairSpec

CONSTANTS
  r1 = r1
  r2 = r2
  v1 = v1
  v2 = v2
  Resources = {r1, r2}
  Values = {v1, v2}
  Nothing = Nothing
  MaxEdits = 1
  MaxOutOfBand = 1
  MaxFaults = 1

INVARIANTS
  TypeOK

PROPERTIES
  SparesOthers
  RunIsEffective
  Converges
