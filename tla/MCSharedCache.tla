--------------------------- MODULE MCSharedCache ---------------------------
(* Instances of SharedCache for TLC. *)
EXTENDS SharedCache, TLC

CONSTANTS c1, c2, t1, t2

TwoClients   == (t1 :> c1) @@ (t2 :> c2)
OneClient    == (t1 :> c1) @@ (t2 :> c1)

AllDecode    == [c \in Clients |-> Versions]
\* The SDK of c2 is older: it cannot decode the newest packages.
OldSDK       == (c1 :> Versions) @@ (c2 :> {v \in Versions : v < 3})

UpdateOps    == (t1 :> {"loadLatest"}) @@ (t2 :> {"loadLatest", "loadVersion"})
FaultOps     == (t1 :> {"switchVersion", "activateVersion"}) @@ (t2 :> {"prune"})
Unlimited    == -1
AllOps       == [t \in Tasks |-> OpNames]

UpdateSwitchOps == (t1 :> {"loadLatest"}) @@ (t2 :> {"switchVersion"})
SwitchOps       == (t1 :> {"switchVersion"}) @@ (t2 :> {"loadVersion"})
ReadSwitchOps   == (t1 :> {"loadCached"}) @@ (t2 :> {"switchVersion", "loadVersion"})
=============================================================================
