SPECIFICATION MCFairSpec

CONSTANTS
  none = none
  c1 = c1
  c2 = c2
  bad = bad
  a1 = a1
  a2 = a2
  Unset = Unset
  Empty = none
  Default = c2
  Kinds <- GroupRoleTarget
  Contents = {none, c1, c2, bad}
  Rejected = {bad}
  Attrs = {a1, a2}
  MaxEdits = 1
  MaxOutOfBand = 1
  MaxFaults = 2

INVARIANTS
  TypeOK

PROPERTIES
  WritesWhatItCan
  SuccessIsComplete
  CreateIsRecorded
  CreateKeepsOthers
  ImplementsManaged
  Converges
