SPECIFICATION FairSpec
CONSTANTS
  None = None
  Instances = {A}
  Calls = {c1}
  Values = {v1, v2}
  Falsy = {}
  NonBlocking = FALSE
  Overrides <- Blocking
  TagsEnabled = TRUE
  MayReject = FALSE
  MaxVersion = 2
INVARIANTS
  InvalidatedMissed

  
