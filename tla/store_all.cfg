SPECIFICATION Spec
CONSTANTS
    p1 = p1
    w1 = w1
    w2 = w2
    h1 = h1
    c1 = c1
    c2 = c2
    Projects = {p1}
    Workloads = {w1, w2}
    Hosts = {h1}
    ProjectOf <- OneProject
    DefaultHost <- Subdomain
    Clients = {c1, c2}
    None = None
    Kinds = {"file", "database"}
    Worlds <- WorldsOfAll
    Faults = {"fail", "crash"}
    MaxClock = 1
SYMMETRY Swap
INVARIANT TypeOK
INVARIANT CreatedStays
INVARIANT OrphansAreRaced
PROPERTY ImplementsRecords
