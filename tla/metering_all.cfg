SPECIFICATION FairSpec
CONSTANTS
    u1 = u1
    u2 = u2
    u3 = u3
    w1 = w1
    c1 = c1
    Units = {u1, u2, u3}
    Requests = {u1, u2}
    Workloads = {w1}
    Conns = {c1}
    Owner <- OwnerOfAll
    MaxBatch = 1
    MaxPending = 2
    Buffer = 2
    LastMinute = 3
INVARIANT TypeOK
INVARIANT NothingLost
INVARIANT BilledOnce
INVARIANT BilledInTime
PROPERTY OutboxEmpties
