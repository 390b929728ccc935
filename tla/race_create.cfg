CONSTANTS
  c1 = c1
  c2 = c2
  u1 = u1
  u2 = u2
  k1 = k1
  p1 = p1
  p2 = p2
  None = None
  Calls = {c1, c2}
  Keys = {k1}
  Payloads = {p1, p2}
  Size <- SizeOneTwo
  PayloadsFor <- AnyPayload
  Uuids = {u1, u2}
  Faults <- NoFaults
  EtagLimit = 1
  MaxCrashes = 0

SPECIFICATION CreatesSpec

PROPERTIES
  CreateOnlyNeverOverwrites
