SPECIFICATION Spec
CONSTANTS
    c1 = c1
    c2 = c2
    background = background
    none = none
    None = none
    Background = background
    Callers <- TwoCallers
    N = 2
    Ttls = {1}
    Thresholds = {0, 1}
    MaxTime = 2
    MaxVersion = 2
    MaxRequests = 3
INVARIANTS OnlyRecentValues AgeBounded FollowersHaveLeader
SYMMETRY Symmetry
