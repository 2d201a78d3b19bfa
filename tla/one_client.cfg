CONSTANTS
    c1 = c1
    c2 = c2
    t1 = t1
    t2 = t2
    NoTask = NoTask
    Clients = {c1}
    Tasks = {t1, t2}
    ClientOf <- OneClient
    Versions = {1, 2}
    CanDecode <- AllDecode
    MaxVersions <- Unlimited
    Ops <- AllOps
    Crashable = {c1}
    MaxRotted = 1
    MayLose = TRUE
SPECIFICATION FairSpec
INVARIANTS SnapshotStable LoadedIsCached
PROPERTIES OperationsReturn
