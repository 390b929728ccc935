CONSTANTS
  c1 = c1
  c2 = c2
  None = None
  Calls = {c1, c2}
  Paths <- AllPaths
  Dirs <- DirsOf
  Roots <- BothRoots
  Bucket <- Objects
  Keys <- AllKeys
  Sidecar <- SidecarOf
  TooLong <- LongNames
  Rank <- Order
  Prefixed <- AllKeys
  Limit = 1

SPECIFICATION Spec
SYMMETRY CallSymmetry

INVARIANTS
  RenameHasItsDirs
  OrphansExplained
  PagingExact

PROPERTIES
  OnlyItsDeleteRemovesAKey
