SPECIFICATION Spec
CONSTANTS
  None = None
  t1 = t1
  t2 = t2
  i1 = i1
  Keys = {k1}
  Tags = {t1, t2}
  Writers = {w1}
  Invalidators = {i1}
  Checkers = {c1}
  Invalidates <- AllTags
  MaxVersion = 2
INVARIANTS
  InvalidationSticks
  OnlyInvalidationStales
  CheckRight
