CONSTANTS
  r1 = r1
  r2 = r2
  a = a
  b = b
  None = None
  Requests = {r1, r2}
  Kids = {a, b}
  Verifiers = {"secret", "jwks", "none"}
  Leeway = 1
  Lifespan = 0
  Horizon = 2

SPECIFICATION Spec
SYMMETRY RequestSymmetry

INVARIANTS
  TypeOK
  AcceptedIsSignedByKnownKey
  FreshTokenAccepted

PROPERTIES
  KnownKeyNeedsNoNetwork
