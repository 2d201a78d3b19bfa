--------------------------- MODULE CacheMetadata ---------------------------
(***************************************************************************)
(* current.json and the transaction that changes it: FileCache.State,      *)
(* RecordCheck, SetCurrent and changeState (cache_state.go, cache_file.go) *)
(* over the steps of atomicfile.Write, and FindLatest and CheckLatest,     *)
(* which record a check and report on it (client_update.go).               *)
(*                                                                         *)
(* A writer is a goroutine of any process that shares the directory.  Its  *)
(* clock is its own: a check carries a time read before the transaction    *)
(* began, an activation one read inside it.                                *)
(*                                                                         *)
(* A power failure keeps the entries of directories and the contents of    *)
(* files that were synced; of other contents it keeps any part.            *)
(***************************************************************************)
EXTENDS Integers

CONSTANTS Writers, Versions, Times, NoRecord, NoWriter

VARIABLES
    file,      \* what current.json says; an absent file reads as EmptyState
    readable,  \* whether it can be read and decoded
    metadata,  \* holder of the lock "metadata"
    pc,        \* where a writer stands
    request,   \* the change it wants to make
    copy,      \* the state it has read and changed, not yet in current.json
    temp,      \* its temporary file: "none", "empty", "written" or "synced"
    flushed,   \* whether the contents of current.json survive a power failure
    damaged    \* history: something other than this program damaged current.json

diskVars == <<readable, flushed, damaged>>
vars == <<file, metadata, pc, request, copy, temp, diskVars>>

Contract == INSTANCE CacheContract WITH state <- file

NoVersion == Contract!NoVersion

ASSUME MetadataAssumption ==
    /\ NoWriter \notin Writers
    /\ Versions \subseteq Nat \ {0}
    /\ Times \subseteq Int
    /\ NoRecord \notin Contract!Checks \cup Contract!Updates

CheckRequests == [kind : {"check"}, at : Times, latest : Versions]
SetRequests   == [kind : {"set"}, version : Versions]
NoRequest     == [kind |-> "none"]

Init ==
    /\ Contract!Init
    /\ readable = TRUE
    /\ metadata = NoWriter
    /\ pc = [w \in Writers |-> "idle"]
    /\ request = [w \in Writers |-> NoRequest]
    /\ copy = [w \in Writers |-> Contract!EmptyState]
    /\ temp = [w \in Writers |-> "none"]
    /\ flushed = TRUE
    /\ damaged = FALSE

\* Where a writer stands inside atomicfile.Write.
Writing == {"create", "fill", "sync", "rename"}

Goto(w, label) == pc' = [pc EXCEPT ![w] = label]

Freed(w) == IF metadata = w THEN NoWriter ELSE metadata

\* The registry has answered: findLatestCheck reads the clock and calls RecordCheck.
AskCheck(w) ==
    /\ pc[w] \in {"idle", "done"}
    /\ \E r \in CheckRequests : request' = [request EXCEPT ![w] = r]
    /\ Goto(w, "lock")
    /\ UNCHANGED <<file, metadata, copy, temp, diskVars>>

\* SetCurrent has found the package on disk.
AskSetCurrent(w) ==
    /\ pc[w] \in {"idle", "done"}
    /\ \E r \in SetRequests : request' = [request EXCEPT ![w] = r]
    /\ Goto(w, "lock")
    /\ UNCHANGED <<file, metadata, copy, temp, diskVars>>

\* Mutant: the lock "metadata" excludes nobody.
TakeMetadataShared(w) ==
    /\ pc[w] = "lock"
    /\ metadata' = w
    /\ Goto(w, "read")
    /\ UNCHANGED <<file, request, copy, temp, diskVars>>

TakeMetadata(w) ==
    /\ pc[w] = "lock"
    /\ metadata = NoWriter
    /\ metadata' = w
    /\ Goto(w, "read")
    /\ UNCHANGED <<file, request, copy, temp, diskVars>>

\* Mutant: the last check to arrive wins.
ChangeLast(r, s, now) ==
    IF r.kind = "check"
    THEN [s EXCEPT !.lastCheck = [at |-> r.at, latest |-> r.latest]]
    ELSE Contract!Activated(s, r.version, now)

\* Mutant: activating the active version again is recorded as a switch.
ChangeAgain(r, s, now) ==
    IF r.kind = "check"
    THEN Contract!Checked(s, [at |-> r.at, latest |-> r.latest])
    ELSE [s EXCEPT !.version = r.version,
                   !.lastUpdate = [at |-> now, previous |-> s.version, current |-> r.version]]

\* The change the request makes to a state, at a given clock reading.
Change(r, s, now) ==
    IF r.kind = "check"
    THEN Contract!Checked(s, [at |-> r.at, latest |-> r.latest])
    ELSE Contract!Activated(s, r.version, now)

ReadAndChange(w) ==
    /\ pc[w] = "read"
    /\ readable
    /\ \E now \in Times : copy' = [copy EXCEPT ![w] = Change(request[w], file, now)]
    /\ Goto(w, "create")
    /\ UNCHANGED <<file, metadata, request, temp, diskVars>>

CreateTemp(w) ==
    /\ pc[w] = "create"
    /\ temp' = [temp EXCEPT ![w] = "empty"]
    /\ Goto(w, "fill")
    /\ UNCHANGED <<file, metadata, request, copy, diskVars>>

FillTemp(w) ==
    /\ pc[w] = "fill"
    /\ temp' = [temp EXCEPT ![w] = "written"]
    /\ Goto(w, "sync")
    /\ UNCHANGED <<file, metadata, request, copy, diskVars>>

\* Mutant: the temporary file is closed and not synced.
CloseTemp(w) ==
    /\ pc[w] = "sync"
    /\ Goto(w, "rename")
    /\ UNCHANGED <<file, metadata, request, copy, temp, diskVars>>

SyncTemp(w) ==
    /\ pc[w] = "sync"
    /\ temp' = [temp EXCEPT ![w] = "synced"]
    /\ Goto(w, "rename")
    /\ UNCHANGED <<file, metadata, request, copy, diskVars>>

\* current.json is the temporary file from now on, in whatever state that is.
Replace(w) ==
    /\ file' = copy[w]
    /\ readable' = (temp[w] \in {"written", "synced"})
    /\ flushed' = (temp[w] = "synced")
    /\ damaged' = FALSE
    /\ temp' = [temp EXCEPT ![w] = "none"]

RenameTemp(w) ==
    /\ pc[w] = "rename"
    /\ Replace(w)
    /\ Goto(w, "unlock")
    /\ UNCHANGED <<metadata, request, copy>>

\* The operation returns nil.
Unlock(w) ==
    /\ pc[w] = "unlock"
    /\ metadata' = Freed(w)
    /\ Goto(w, "done")
    /\ copy' = [copy EXCEPT ![w] = Contract!EmptyState]
    /\ UNCHANGED <<file, request, temp, diskVars>>

\* The writer is back where it began; its temporary file has a name of its
\* own, so whether it is removed or stays as litter nobody reads it again.
Abandon(w) ==
    /\ metadata' = Freed(w)
    /\ Goto(w, "idle")
    /\ request' = [request EXCEPT ![w] = NoRequest]
    /\ copy' = [copy EXCEPT ![w] = Contract!EmptyState]
    /\ temp' = [temp EXCEPT ![w] = "none"]
    /\ UNCHANGED <<file, diskVars>>

\* Mutant: a wait for the lock never ends by itself.
FailHolding(w) == pc[w] \in Writing \cup {"read", "unlock"} /\ Abandon(w)

\* The operation returns an error: the wait or the context ends, current.json
\* cannot be read, a step of atomicfile.Write fails, or the unlock itself
\* reports an error after the change was made.
Fail(w) == pc[w] \in Writing \cup {"lock", "read", "unlock"} /\ Abandon(w)

\* The process of the writer dies.
Crash(w) == pc[w] # "idle" /\ Abandon(w)

\* Something other than this program damages current.json.
Damage ==
    /\ readable
    /\ readable' = FALSE
    /\ damaged' = TRUE
    /\ UNCHANGED <<file, metadata, pc, request, copy, temp, flushed>>

\* Every process dies, and current.json may lose what was not synced.
PowerLoss ==
    /\ \E kept \in {flushed, TRUE} : readable' = (readable /\ kept)
    /\ metadata' = NoWriter
    /\ pc' = [w \in Writers |-> "idle"]
    /\ request' = [w \in Writers |-> NoRequest]
    /\ copy' = [w \in Writers |-> Contract!EmptyState]
    /\ temp' = [w \in Writers |-> "none"]
    /\ flushed' = TRUE
    /\ UNCHANGED <<file, damaged>>

Write(w) == CreateTemp(w) \/ FillTemp(w) \/ SyncTemp(w) \/ RenameTemp(w)

Step(w) == TakeMetadata(w) \/ ReadAndChange(w) \/ Write(w) \/ Unlock(w) \/ Fail(w)

Next ==
    \/ \E w \in Writers : AskCheck(w) \/ AskSetCurrent(w) \/ Step(w) \/ Crash(w)
    \/ Damage
    \/ PowerLoss

Spec == Init /\ [][Next]_vars

\* Goroutines are scheduled and changeState has a deadline of two minutes.
FairSpec == Spec /\ \A w \in Writers : WF_vars(Step(w))

-----------------------------------------------------------------------------
(* Properties. *)

\* Every variable keeps its type.
TypeOK ==
    /\ file \in Contract!CacheStates
    /\ readable \in BOOLEAN /\ flushed \in BOOLEAN /\ damaged \in BOOLEAN
    /\ metadata \in Writers \cup {NoWriter}
    /\ pc \in [Writers -> Writing \cup {"idle", "lock", "read", "unlock", "done"}]
    /\ request \in [Writers -> CheckRequests \cup SetRequests \cup {NoRequest}]
    /\ copy \in [Writers -> Contract!CacheStates]
    /\ temp \in [Writers -> {"none", "empty", "written", "synced"}]

\* The transaction of changeState is one SetCurrent or one RecordCheck of the
\* contract at the instant of the rename: no change made by another process
\* between the read and the rename is lost.
KeepsContract == Contract!Spec

\* A writer writes what it would compute from the file as it is now: what it
\* has read cannot grow stale between State and the rename.
CopyIsFresh ==
    \A w \in Writers :
        pc[w] \in Writing => \E now \in Times : copy[w] = Change(request[w], file, now)

\* The last switch on record leads to the active version, from another one.
LastUpdateMatches ==
    file.lastUpdate # NoRecord =>
        /\ file.lastUpdate.current = file.version
        /\ file.lastUpdate.previous # file.version

\* A check reported as recorded stays recorded, or gives way to a newer one.
AcknowledgedCheck ==
    \A w \in Writers :
        pc[w] = "done" /\ request[w].kind = "check" =>
            /\ file.lastCheck # NoRecord
            /\ file.lastCheck.at >= request[w].at

\* No crash, failed write or power failure leaves a current.json that cannot be
\* decoded: atomicfile.Write replaces the file only by one that is complete and
\* synced, and only damage from outside makes it unreadable.
NeverTorn == readable \/ damaged

\* Every metadata operation returns.
WritersReturn ==
    \A w \in Writers :
        pc[w] \notin {"idle", "done"} ~> pc[w] \in {"idle", "done"}
=============================================================================
