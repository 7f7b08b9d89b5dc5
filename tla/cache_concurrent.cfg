SPECIFICATION Spec
CONSTANTS
  None = None
  Instances = {A}
  Calls = {c1, c2}
  Values = {v1, v2}
  Falsy = {}
  NonBlocking = TRUE
  Overrides <- Settings
  TagsEnabled = FALSE
  MayReject = TRUE
  MaxVersion = 0
INVARIANTS
  OnlyRecentValues
SYMMETRY Symmetric
