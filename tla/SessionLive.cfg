SPECIFICATION FairSpec
CONSTANTS
  w1 = w1
  w2 = w2
  w3 = w3
  a1 = a1
  a2 = a2
  b = b
  m1 = m1
  m2 = m2
  flashing = flashing
  monitoring = monitoring
  NoProfile = NoProfile
  None = None
  Workers = {w1, w2}
  Identities = {a1, a2, b}
  Images = {m1, m2}
  Physical <- MCPhysical
  ProfileOf <- MCProfileOf
  FlashProfiles = {flashing}
  Allowed <- MCAllowed
  UiCalls = 1
PROPERTIES CallsReturn
