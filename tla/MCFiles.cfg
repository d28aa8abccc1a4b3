SPECIFICATION FileSpec
CONSTANTS
  A = A
  B = B
  w1 = w1
  w2 = w2
  w3 = w3
  w4 = w4
  j1 = j1
  j2 = j2
  c1 = c1
  o1 = o1
  o2 = o2
  p1 = p1
  p2 = p2
  p3 = p3
  p4 = p4
  g1 = g1
  None = None
  Unread = Unread
  NoFile = NoFile
  Names = {A, B}
  Savers = {w1, w2, w3, w4}
  NameOf <- MCNameOf
  Explicit = {w1, w3}
  FromEnv = {w4}
  InEnv = {A}
  Described = {w1}
  Openers = {o1, o2}
  MaxSpoils = 1
  Jobs = {j1, j2}
  JobCommands = {c1}
  MaxUses = 3
  MaxBreaks = 1
  Programs = {p1, p2, p3, p4}
  Kind <- MCKind
  Grants = {g1}
  MaxMishaps = 1
PROPERTIES SecretsStay JobsStay SettingsStay
CHECK_DEADLOCK FALSE
