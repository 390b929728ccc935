CONSTANTS
  Characters = {"a", "A", ".", "/", "@", " ", ";"}
  MaxTyped = 7
  Letters = {"a", "A"}
  MaxKeyLen = 6
  MaxSegmentLen = 3
  StorageRoot <- RootA
  Bucket <- BucketA
  ServiceOnly <- PrefixA
  Lower <- TypeLetters
  UpperOf <- Capitals
  Entries <- PrefixMap
  CapOf <- Caps
  Default = 9
  Refused = Refused

SPECIFICATION Spec

INVARIANTS
  AcceptedIsCanonical
  AssertionIsExact
  PolicyBindsFiles
  LongestEntryWins
  SameTypeSameCap
