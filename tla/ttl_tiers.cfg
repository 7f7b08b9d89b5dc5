SPECIFICATION Spec
CONSTANTS
  Undef = Undef
  None = None
  PrimaryDefault = 2
  SecondaryDefault = Undef
  InstanceTtls <- MCTtlSettings
  MaxTtls <- MCTtlSettings
  TtlOptions <- MCTtlOptions
  HookChoices <- MCHookChoices
  HasSecondary = TRUE
  MaxTime = 4
  MaxVersion = 2
INVARIANTS
  
  InvalidationReachesCopies
  FreshStaysFresh
