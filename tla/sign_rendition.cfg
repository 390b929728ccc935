CONSTANTS
  k1 = k1
  k2 = k2
  k3 = k3
  Garbled = Garbled
  NonAscii = NonAscii
  None = None
  Keys = {k1, k3}
  AtKeys = {k3}
  Ticks = 2
  MaxTtl = 2
  Horizon = 4
  MaxUrls = 1

SPECIFICATION Spec

INVARIANTS
  MintedUrlOpens
