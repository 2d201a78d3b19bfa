CONSTANTS
    c1 = c1
    c2 = c2
    t1 = t1
    t2 = t2
    NoTask = NoTask
    Clients = {c1, c2}
    Tasks = {t1, t2}
    ClientOf <- TwoClients
    Versions = {1, 2, 3}
    CanDecode <- AllDecode
    MaxVersions = 2
    Ops <- FaultOps
    Crashable = {c1}
    MaxRotted = 1
    MayLose = FALSE
SPECIFICATION Spec
INVARIANTS CurrentIntact NoDeadlock
PROPERTIES KeepsPromise KeepsPackages
