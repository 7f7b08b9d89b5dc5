SPECIFICATION CacheSpec
CONSTANTS
    k1 = k1
    k2 = k2
    omitted = omitted
    none = none
    undefined = none
    Omitted = omitted
    CacheKeys <- TwoKeys
    KeySize <- SizeOfKey
    ValueSize <- SizeOfValue
    Ttls <- SomeTtls
    TrackedCaps = {1}
    MaxSets = 3
    Bounds <- AllBounds
INVARIANTS  StatsMatchStore ExpiryToldOnce
PROPERTIES CapsKept ExpiredLeaves
