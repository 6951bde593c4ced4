SPECIFICATION MCSpec

CONSTANTS
  v1 = v1
  v2 = v2
  Unset = Unset
  Fixed = v1
  Written <- Rewording
  Kinds <- OnlyWorker
  Values = {v1, v2}
  MaxEdits = 1
  MaxOutOfBand = 1
  MaxFaults = 1

PROPERTIES
  ImportIsExact
