CONSTANTS
  a = a
  b = b
  c = c
  d = d
  None = None
  Shas = {a, b, c, d}
  KeepTags = 2
  Tries = 2
  MaxBuilds = 3

SPECIFICATION Spec
SYMMETRY ShaSymmetry

INVARIANTS
  TypeOK
  LastHealthyRuns

PROPERTIES
  HealthyIsTheNewBuild
  PruneKeepsTheLast
