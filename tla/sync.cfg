SPECIFICATION Spec
CONSTANTS
    i1 = i1
    i2 = i2
    i3 = i3
    a = a
    b = b
    c1 = c1
    c2 = c2
    none = none
    None = none
    Instances = {i1, i2, i3}
    Namespaces = {a, b}
    Callers = {c1, c2}
    MaxWrites = 3
    Bounds <- AllBounds
CHECK_DEADLOCK FALSE
INVARIANTS Agreement OwnWritesStand HearsOwnNamespace
PROPERTIES Isolation UpdatesArrive
