SPECIFICATION FairSpec
CONSTANTS
  undefined = undefined
  EmptyKey = empty
  k1 = k1
  a = a
  Keys = {k1, k2, empty}
  HashAlgorithms = {a, b}
  StoreHashSizes = {1, 2}
  Hash <- Hashes
  LruSizes = {0, 1, 2}
  MaxCopies = 2
INVARIANTS
  Consistent
PROPERTIES
  ResizeEnds
  Implements
