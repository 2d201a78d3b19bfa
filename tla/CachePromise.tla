---------------------------- MODULE CachePromise ----------------------------
(***************************************************************************)
(* What a shared cache promises to the code that reads the active version, *)
(* whatever the operations, processes and crashes behind it: packages come *)
(* and go, but only an installed one becomes active, and the active one is *)
(* never taken away.                                                       *)
(***************************************************************************)
CONSTANTS Versions, NoVersion, MayLose

VARIABLES active, installed

vars == <<active, installed>>

Init == active = NoVersion /\ installed = {}

Install(v) ==
    /\ v \notin installed
    /\ installed' = installed \cup {v}
    /\ UNCHANGED active

Remove(v) ==
    /\ v # active
    /\ installed' = installed \ {v}
    /\ UNCHANGED active

Activate(v) ==
    /\ v \in installed
    /\ active' = v
    /\ UNCHANGED installed

\* The active pointer itself is deleted from outside.
Deactivate ==
    /\ MayLose
    /\ active' = NoVersion
    /\ UNCHANGED installed

Next ==
    \/ \E v \in Versions : Install(v) \/ Remove(v) \/ Activate(v)
    \/ Deactivate

Spec == Init /\ [][Next]_vars
=============================================================================
