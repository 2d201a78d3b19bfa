CONSTANTS
    c1 = c1
    c2 = c2
    t1 = t1
    t2 = t2
    NoTask = NoTask
    Clients = {c1, c2}
    Tasks = {t1, t2}
    ClientOf <- TwoClients
    Versions = {1, 2, 3}
    CanDecode <- OldSDK
    MaxVersions = 2
    Ops <- UpdateOps
    Crashable = {c2}
    MaxRotted = 0
    MayLose = FALSE
SPECIFICATION Spec
INVARIANTS InstallAlone RetentionBound
PROPERTIES NoAutomaticDowngrade FreshPackageKept
