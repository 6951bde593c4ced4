SPECIFICATION MCSpec

CONSTANTS
  token = token
  clientKey = clientKey
  passphrase = passphrase
  Unset = Unset
  Marker = Marker
  NoHmac = NoHmac
  Fields <- MCFields
  Optional <- MCOptional
  Clearable <- MCClearable
  Expiring <- MCExpiring
  s1 = s1
  s2 = s2
  a1 = a1
  a2 = a2
  Secrets = {s1, s2}
  Attrs = {a1, a2}
  MaxEdits = 1
  MaxOutOfBand = 2
  MaxFaults = 0

PROPERTIES
  ChangeForcesUpdate
