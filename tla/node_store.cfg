SPECIFICATION Spec
CONSTANTS
    k1 = k1
    k2 = k2
    v1 = v1
    v2 = v2
    a1 = a1
    a2 = a2
    timer = timer
    none = none
    None = none
    Timer = timer
    Keys <- TwoKeys
    Values <- TwoValues
    Callers <- OneCaller
    Unaware = {}
    Lifetimes = {0, 1}
    MaxTime = 3
    MaxRestarts = 1
SYMMETRY Symmetry
INVARIANTS ProcessDescribesStore TakenOnce
