CONSTANTS
  c1 = c1
  u1 = u1
  u2 = u2
  k1 = k1
  k2 = k2
  k3 = k3
  p1 = p1
  p2 = p2
  bad = bad
  image = image
  audio = audio
  html = html
  None = None
  Calls = {c1}
  Keys = {k1}
  Payloads = {p1}
  Size <- SizeOneTwo
  PayloadsFor <- OneKey
  Uuids = {u1, u2}
  Faults <- UnsweptFaults
  EtagLimit = 1
  MaxCrashes = 1
  Malformed = {}
  AtKeys = {}
  ServiceOnly = {}
  ServiceCap <- CapOneKey
  Mimes = {audio}
  MimeCap <- MimeCaps
  DevStream = FALSE

SPECIFICATION ApiFairSpec

PROPERTIES
  DeleteAnswered200
  EveryRequestAnswered
  OrphanEventuallySwept
