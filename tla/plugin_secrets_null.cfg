SPECIFICATION Spec

CONSTANTS
  s1 = s1
  s2 = s2
  t1 = t1
  t1spaced = t1spaced
  t2 = t2
  tbad = tbad
  Malformed = Malformed
  NoSecret = NoSecret
  NoHmac = NoHmac
  Secrets <- MCSecrets
  Texts <- MCTexts
  Doc <- MCDoc
  Names = {"name"}
  Values = {v1, v2}
  MaxEdits = 2
  MaxOutOfBand = 2
  MaxFaults = 0

PROPERTIES
  NullClears
