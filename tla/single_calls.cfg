SPECIFICATION MCFairSpec

CONSTANTS
  v1 = v1
  v2 = v2
  Unset = Unset
  Fixed = v1
  Written <- Rewording
  Kinds <- AllKinds
  Values = {v1, v2}
  MaxEdits = 2
  MaxOutOfBand = 2
  MaxFaults = 2

INVARIANTS
  TypeOK
  RefreshIsRight

PROPERTIES
  ReplacedForCause
  SuccessIsComplete
  ImplementsManaged
  Converges
