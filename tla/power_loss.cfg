CONSTANTS
  c1 = c1
  c2 = c2
  c3 = c3
  p = p
  q = q
  None = None
  Puts = {c1, c2}
  Deletes = {c3}
  Payloads = {p, q}
  Size <- Lengths
  MaxDeaths = 2

SPECIFICATION Spec
SYMMETRY CallSymmetry

\* Each call runs once, so a behaviour ends.
CHECK_DEADLOCK FALSE

INVARIANTS
  ObjectWhole
  ReadsWhole
  SidecarTornByLossOnly
  HeadNamesAnUpload
  NeverVanishes
