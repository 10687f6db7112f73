SPECIFICATION Spec
CONSTANTS
    w1 = w1
    c1 = c1
    c2 = c2
    Workloads = {w1}
    Clients = {c1, c2}
    Starter = Starter
    Reaper = Reaper
    Free = Free
    IdleTimeout = 1
    Ops <- MixedOps
    Faults <- NoFault
INVARIANT DeletedLeavesNoInstance
