SPECIFICATION Spec
CONSTANTS
    r1 = r1
    r2 = r2
    none = none
    None = none
    Requests = {r1, r2}
    Options <- OptionsOf
    MaxAge = 1
    MaxDelay = 1
    Starts <- AllStarts
    MaxVersion = 2
    MaxTime = 3
CHECK_DEADLOCK FALSE
INVARIANTS TypeOK WholeBodies ListenersReleased
PROPERTIES ResponsesTrue RequestsSettle
