SPECIFICATION Spec
CONSTANTS
    w1 = w1
    c1 = c1
    c2 = c2
    Workloads = {w1}
    Clients = {c1, c2}
    Locks = {"a", "b"}
    Keep = 2
    MaxVersion = 4
    MaxBuilds = 4
    Worlds <- ImageWorlds
INVARIANT TypeOK
INVARIANT FrozenStays
INVARIANT DepsMatch
PROPERTY NumbersAreSpent
CHECK_DEADLOCK FALSE
