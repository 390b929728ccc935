CONSTANTS
  c1 = c1
  u1 = u1
  k1 = k1
  k2 = k2
  k3 = k3
  p1 = p1
  p2 = p2
  bad = bad
  image = image
  audio = audio
  html = html
  None = None
  Calls = {c1}
  Keys = {k1, k2, k3}
  Payloads = {p1, p2}
  Size <- SizeOneTwo
  PayloadsFor <- ThreeKeys
  Uuids = {u1}
  Faults <- PutFaults
  EtagLimit = 1
  MaxCrashes = 0
  Malformed = {bad}
  AtKeys = {k3}
  ServiceOnly = {k2}
  ServiceCap <- CapThreeKeys
  Mimes = {image, audio, html}
  MimeCap <- MimeCaps
  DevStream = TRUE

SPECIFICATION ApiSpec

INVARIANTS
  StagingWithinCap
  FittingBodyNotRefused
  QuiescentSidecarExact
  NoStagingLeak

PROPERTIES
  ServiceKeysGuarded
