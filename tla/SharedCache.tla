---------------------------- MODULE SharedCache ----------------------------
(***************************************************************************)
(* Clients of one shared, versioned package cache (client_load.go,         *)
(* client_update.go, cache_file.go, cache_file_prune.go).                  *)
(*                                                                         *)
(* A task is a goroutine that runs one operation of its client: a flight   *)
(* for LoadLatest, LoadVersion, SwitchVersion and ActivateVersion, the     *)
(* caller itself for LoadCached, Load and FileCache.Prune.  The package    *)
(* directories, the active pointer of current.json and the file locks are  *)
(* shared by all clients; the snapshot map and Client.current are private  *)
(* to a client and lost when its process dies.                             *)
(*                                                                         *)
(* A metadata write is one step here: CacheMetadata shows that changeState *)
(* is one.  A version is a number in the order of comparePackageVersions.  *)
(***************************************************************************)
EXTENDS Integers, FiniteSets

CONSTANTS
    Clients,      \* processes that use the cache directory
    Tasks,        \* goroutines that may run an operation
    ClientOf,     \* the client a task belongs to
    Versions,     \* package versions
    CanDecode,    \* the versions the SDK of each client can turn into a snapshot
    MaxVersions,  \* FileCacheOptions.MaxVersions
    Ops,          \* the operations each task may run
    Crashable,    \* the clients whose process may die
    MaxRotted,    \* how many packages may be unreadable at one time
    MayLose,      \* whether current.json may be deleted from outside
    NoTask

NoVersion == 0
Explicit == {"loadVersion", "switchVersion", "activateVersion"}
OpNames == Explicit \cup {"loadLatest", "loadCached", "load", "prune"}
\* A directory of versions/: not there, in part, complete but not readable or
\* not verifying because of something outside this program, accepted by Get.
Packages == {"absent", "partial", "unreadable", "valid"}

ASSUME ClientAssumption ==
    /\ ClientOf \in [Tasks -> Clients]
    /\ CanDecode \in [Clients -> SUBSET Versions]
    /\ Ops \in [Tasks -> SUBSET OpNames]
    /\ Crashable \subseteq Clients
    /\ NoTask \notin Tasks

ASSUME VersionAssumption ==
    /\ Versions \subseteq Nat \ {0}
    /\ MaxVersions \in Int
    /\ MaxVersions = -1 \/ MaxVersions >= 2
    /\ MaxRotted \in Nat
    /\ MayLose \in BOOLEAN

VARIABLES
    latest,       \* holder of the lock "latest"
    maintenance,  \* holder of the lock "maintenance"
    versionLock,  \* holder of the lock "version:v"
    disk,         \* what Get finds in versions/v
    older,        \* the directories whose modification time is before v's
    current,      \* the active pointer of current.json
    rotted,       \* packages made unreadable and not read or reinstalled since
    mem,          \* Client.snapshots: the versions held in memory
    memCurrent,   \* Client.current
    op, pc,       \* the operation of a task and where it stands
    ver,          \* the version a task works on
    keep,         \* the versions its Prune keeps by name
    victims       \* the directories its Prune has still to remove

locks   == <<latest, maintenance, versionLock>>
store   == <<disk, older, current, rotted>>
memory  == <<mem, memCurrent>>
control == <<op, pc, ver, keep, victims>>
vars    == <<locks, store, memory, control>>

(* Where a task waits for a lock, where it holds one, and the rest. *)
WaitPcs == {"latest", "maintenance", "load", "victim", "activate", "read"}
HoldPcs == {"exact", "fetch", "put", "publish", "reload", "verify", "commit", "adopt", "serve"}
PrunePcs == {"recheck", "remove"}
OtherPcs == {"idle", "resolve", "compare", "plan", "list", "current", "remember"}
Pcs == WaitPcs \cup HoldPcs \cup PrunePcs \cup OtherPcs

Init ==
    /\ latest = NoTask
    /\ maintenance = NoTask
    /\ versionLock = [v \in Versions |-> NoTask]
    /\ disk = [v \in Versions |-> "absent"]
    /\ older = [v \in Versions |-> {}]
    /\ current = NoVersion
    /\ rotted = {}
    /\ mem = [c \in Clients |-> {}]
    /\ memCurrent = [c \in Clients |-> NoVersion]
    /\ op = [t \in Tasks |-> "none"]
    /\ pc = [t \in Tasks |-> "idle"]
    /\ ver = [t \in Tasks |-> NoVersion]
    /\ keep = [t \in Tasks |-> {}]
    /\ victims = [t \in Tasks |-> {}]

-----------------------------------------------------------------------------
(* Helpers. *)

\* Mutant: Unlock frees the lock whoever holds it.
FreedBlindly(holder, t) == NoTask

Freed(holder, t) == IF holder = t THEN NoTask ELSE holder

FreedVersions(t) == [v \in Versions |-> Freed(versionLock[v], t)]

Goto(t, label) == pc' = [pc EXCEPT ![t] = label]

\* loadCached: a snapshot in memory, else a package that verifies and decodes.
CacheHit(c, v) == v \in mem[c] \/ (disk[v] = "valid" /\ v \in CanDecode[c])

Remembered(c, v) == [mem EXCEPT ![c] = @ \cup {v}]

\* os.ReadDir of versions/, damaged directories included.
Present == {v \in Versions : disk[v] # "absent"}

\* A write into versions/v makes its modification time the newest.
Touched(v) == [w \in Versions |-> IF w = v THEN Present \ {v} ELSE older[w] \ {v}]

Forgotten(v) == [w \in Versions |-> IF w = v THEN {} ELSE older[w] \ {v}]

\* The end of an operation: the deferred unlocks, innermost first, which no
\* other task can tell from one step.
Return(t) ==
    /\ Goto(t, "idle")
    /\ op' = [op EXCEPT ![t] = "none"]
    /\ ver' = [ver EXCEPT ![t] = NoVersion]
    /\ keep' = [keep EXCEPT ![t] = {}]
    /\ victims' = [victims EXCEPT ![t] = {}]
    /\ latest' = Freed(latest, t)
    /\ maintenance' = Freed(maintenance, t)
    /\ versionLock' = FreedVersions(t)

\* flights[key] of the client of t
InFlight(t, o, v) ==
    \E u \in Tasks : /\ ClientOf[u] = ClientOf[t]
                     /\ op[u] = o
                     /\ o \in Explicit => ver[u] = v

-----------------------------------------------------------------------------
(* Starting an operation. *)

Begin(t, o, v, label) ==
    /\ pc[t] = "idle"
    /\ o \in Ops[t]
    /\ o \in Explicit \cup {"loadLatest"} => ~InFlight(t, o, v)
    /\ op' = [op EXCEPT ![t] = o]
    /\ ver' = [ver EXCEPT ![t] = v]
    /\ Goto(t, label)
    /\ UNCHANGED <<keep, victims, locks, store, memory>>

StartLatest(t)  == Begin(t, "loadLatest", NoVersion, "latest")
StartVersion(t) == \E o \in Explicit, v \in Versions : Begin(t, o, v, "maintenance")
StartCached(t)  == \E o \in {"loadCached", "load"} : Begin(t, o, NoVersion, "current")
StartPrune(t)   == Begin(t, "prune", NoVersion, "plan")

-----------------------------------------------------------------------------
(* LoadLatest up to the comparison with the active version. *)

\* Mutant: the lock "latest" excludes nobody.
TakeLatestShared(t) ==
    /\ pc[t] = "latest"
    /\ latest' = t
    /\ Goto(t, "resolve")
    /\ UNCHANGED <<maintenance, versionLock, op, ver, keep, victims, store, memory>>

TakeLatest(t) ==
    /\ pc[t] = "latest"
    /\ latest = NoTask
    /\ latest' = t
    /\ Goto(t, "resolve")
    /\ UNCHANGED <<maintenance, versionLock, op, ver, keep, victims, store, memory>>

\* The registry may name any version at any time: its latest tag may move back.
ResolveLatest(t) ==
    /\ pc[t] = "resolve"
    /\ \E v \in Versions : ver' = [ver EXCEPT ![t] = v]
    /\ Goto(t, "compare")
    /\ UNCHANGED <<op, keep, victims, locks, store, memory>>

\* readCurrentVersion: the shared pointer, else the snapshot this client
\* last made current.
KnownCurrent(c) == IF current # NoVersion THEN current ELSE memCurrent[c]

CompareLatest(t) ==
    /\ pc[t] = "compare"
    /\ Goto(t, IF ver[t] < KnownCurrent(ClientOf[t]) THEN "current" ELSE "maintenance")
    /\ UNCHANGED <<op, ver, keep, victims, locks, store, memory>>

TakeMaintenance(t) ==
    /\ pc[t] = "maintenance"
    /\ maintenance = NoTask
    /\ maintenance' = t
    /\ Goto(t, IF op[t] = "activateVersion" THEN "activate" ELSE "load")
    /\ UNCHANGED <<latest, versionLock, op, ver, keep, victims, store, memory>>

-----------------------------------------------------------------------------
(* loadExactVersion, downloadAndStore and FileCache.Put. *)

\* Mutant: a version lock excludes nobody.
TakeVersionShared(t, from, to) ==
    /\ pc[t] = from
    /\ versionLock' = [versionLock EXCEPT ![ver[t]] = t]
    /\ Goto(t, to)
    /\ UNCHANGED <<latest, maintenance, op, ver, keep, victims, store, memory>>

TakeVersion(t, from, to) ==
    /\ pc[t] = from
    /\ versionLock[ver[t]] = NoTask
    /\ versionLock' = [versionLock EXCEPT ![ver[t]] = t]
    /\ Goto(t, to)
    /\ UNCHANGED <<latest, maintenance, op, ver, keep, victims, store, memory>>

TakeLoad(t) == TakeVersion(t, "load", "exact")

\* Mutant: the version lock is kept while pruning.
EndLoadLocked(t) ==
    /\ mem' = Remembered(ClientOf[t], ver[t])
    /\ Goto(t, "plan")
    /\ UNCHANGED <<latest, maintenance, versionLock, memCurrent, op, ver, keep, victims>>

\* loadExactVersion returns and its deferred unlock runs; pruneCache is next.
EndLoad(t) ==
    /\ mem' = Remembered(ClientOf[t], ver[t])
    /\ versionLock' = [versionLock EXCEPT ![ver[t]] = NoTask]
    /\ Goto(t, "plan")
    /\ UNCHANGED <<latest, maintenance, memCurrent, op, ver, keep, victims>>

LoadExactHit(t) ==
    /\ pc[t] = "exact"
    /\ CacheHit(ClientOf[t], ver[t])
    /\ EndLoad(t)
    /\ UNCHANGED store

LoadExactMiss(t) ==
    /\ pc[t] = "exact"
    /\ ~CacheHit(ClientOf[t], ver[t])
    /\ Goto(t, "fetch")
    /\ UNCHANGED <<op, ver, keep, victims, locks, store, memory>>

\* Resolver.Download and snapshotFromPackage succeed.
Fetch(t) ==
    /\ pc[t] = "fetch"
    /\ ver[t] \in CanDecode[ClientOf[t]]
    /\ Goto(t, "put")
    /\ UNCHANGED <<op, ver, keep, victims, locks, store, memory>>

\* LoadLatest meets a package it cannot decode and falls back to the active one.
FetchUnsupported(t) ==
    /\ pc[t] = "fetch"
    /\ ver[t] \notin CanDecode[ClientOf[t]]
    /\ op[t] = "loadLatest"
    /\ versionLock' = FreedVersions(t)
    /\ maintenance' = Freed(maintenance, t)
    /\ Goto(t, "current")
    /\ UNCHANGED <<latest, op, ver, keep, victims, store, memory>>

\* Put finds a valid package in place and keeps it.
PutKeeps(t) ==
    /\ pc[t] = "put"
    /\ disk[ver[t]] = "valid"
    /\ EndLoad(t)
    /\ UNCHANGED store

\* RemoveAll has unlinked part of a package Get rejects; it may go no further.
PutBreaks(t) ==
    /\ pc[t] = "put"
    /\ disk[ver[t]] = "unreadable"
    /\ disk' = [disk EXCEPT ![ver[t]] = "partial"]
    /\ older' = Touched(ver[t])
    /\ UNCHANGED <<pc, current, rotted, op, ver, keep, victims, locks, memory>>

\* Mutant: what Get rejects stays in place.
PutClearsNothing(t) ==
    /\ pc[t] = "put"
    /\ disk[ver[t]] # "valid"
    /\ Goto(t, "publish")
    /\ UNCHANGED <<op, ver, keep, victims, locks, store, memory>>

\* Nothing is left of what Get rejects, and Put stages the files in .install-*.
PutClears(t) ==
    /\ pc[t] = "put"
    /\ disk[ver[t]] \in {"absent", "partial"}
    /\ disk' = [disk EXCEPT ![ver[t]] = "absent"]
    /\ older' = Forgotten(ver[t])
    /\ Goto(t, "publish")
    /\ UNCHANGED <<current, rotted, op, ver, keep, victims, locks, memory>>

\* The rename of the staging directory; the snapshot is stored before the unlock.
PutPublishes(t) ==
    /\ pc[t] = "publish"
    /\ disk' = [disk EXCEPT ![ver[t]] = "valid"]
    /\ older' = Touched(ver[t])
    /\ rotted' = rotted \ {ver[t]}
    /\ EndLoad(t)
    /\ UNCHANGED current

-----------------------------------------------------------------------------
(* FileCache.Prune. *)

\* Mutant: one directory too many stays.
DoomedLess(t) ==
    LET candidates == Present \ keep[t]
        remaining  == MaxVersions - Cardinality(keep[t])
    IN  {v \in candidates :
            Cardinality({w \in candidates : v \in older[w]}) > remaining}

\* Of the directories not kept by name, the newest stay while slots remain.
Doomed(t) ==
    LET candidates == Present \ keep[t]
        remaining  == MaxVersions - Cardinality(keep[t])
    IN  {v \in candidates :
            Cardinality({w \in candidates : v \in older[w]}) >= remaining}

\* What follows a successful pruneCache, or Prune itself.
AfterPrune(t) ==
    IF op[t] \in {"switchVersion", "loadLatest"}
    THEN /\ Goto(t, "activate")
         /\ UNCHANGED <<op, ver, keep, victims, locks, store, memory>>
    ELSE /\ Return(t)
         /\ UNCHANGED <<store, memory>>

PruneDisabled(t) ==
    /\ pc[t] = "plan"
    /\ MaxVersions < 0
    /\ AfterPrune(t)

\* Mutant: the protected version is not kept.
PlanPruneUnprotected(t) ==
    /\ pc[t] = "plan"
    /\ MaxVersions >= 0
    /\ keep' = [keep EXCEPT ![t] = {current} \ {NoVersion}]
    /\ Goto(t, "list")
    /\ UNCHANGED <<op, ver, victims, locks, store, memory>>

\* Mutant: -1 is taken for a count.
PlanPruneAlways(t) ==
    /\ pc[t] = "plan"
    /\ keep' = [keep EXCEPT ![t] = {ver[t], current} \ {NoVersion}]
    /\ Goto(t, "list")
    /\ UNCHANGED <<op, ver, victims, locks, store, memory>>

PlanPrune(t) ==
    /\ pc[t] = "plan"
    /\ MaxVersions >= 0
    /\ keep' = [keep EXCEPT ![t] = {ver[t], current} \ {NoVersion}]
    /\ Goto(t, "list")
    /\ UNCHANGED <<op, ver, victims, locks, store, memory>>

ListVersions(t) ==
    /\ pc[t] = "list"
    /\ victims' = [victims EXCEPT ![t] = Doomed(t)]
    /\ keep' = [keep EXCEPT ![t] = {}]
    /\ Goto(t, "victim")
    /\ UNCHANGED <<op, ver, locks, store, memory>>

\* The order in which the victims are removed is left open.
TakeVictim(t) ==
    /\ pc[t] = "victim"
    /\ \E w \in victims[t] :
          /\ versionLock[w] = NoTask
          /\ versionLock' = [versionLock EXCEPT ![w] = t]
    /\ Goto(t, "recheck")
    /\ UNCHANGED <<latest, maintenance, op, ver, keep, victims, store, memory>>

\* The victim became active after the plan: it stays.
SpareActive(t) ==
    /\ pc[t] = "recheck"
    /\ \E w \in victims[t] :
          /\ versionLock[w] = t
          /\ current = w
          /\ versionLock' = [versionLock EXCEPT ![w] = NoTask]
          /\ victims' = [victims EXCEPT ![t] = @ \ {w}]
    /\ Goto(t, "victim")
    /\ UNCHANGED <<latest, maintenance, op, ver, keep, store, memory>>

\* Mutant: the active pointer is not read again under the lock.
BeginRemoveUnchecked(t) ==
    /\ pc[t] = "recheck"
    /\ \E w \in victims[t] :
          /\ versionLock[w] = t
          /\ disk' = [disk EXCEPT ![w] = "partial"]
          /\ older' = Touched(w)
    /\ Goto(t, "remove")
    /\ UNCHANGED <<current, rotted, op, ver, keep, victims, locks, memory>>

\* RemoveAll unlinks the files one by one, which also renews the directory's
\* modification time, and then the directory.
BeginRemove(t) ==
    /\ pc[t] = "recheck"
    /\ \E w \in victims[t] :
          /\ versionLock[w] = t
          /\ current # w
          /\ IF disk[w] = "absent"
             THEN UNCHANGED <<disk, older>>
             ELSE /\ disk' = [disk EXCEPT ![w] = "partial"]
                  /\ older' = Touched(w)
    /\ Goto(t, "remove")
    /\ UNCHANGED <<current, rotted, op, ver, keep, victims, locks, memory>>

EndRemove(t) ==
    /\ pc[t] = "remove"
    /\ \E w \in victims[t] :
          /\ versionLock[w] = t
          /\ disk' = [disk EXCEPT ![w] = "absent"]
          /\ older' = Forgotten(w)
          /\ versionLock' = [versionLock EXCEPT ![w] = NoTask]
          /\ victims' = [victims EXCEPT ![t] = @ \ {w}]
    /\ Goto(t, "victim")
    /\ UNCHANGED <<latest, maintenance, current, rotted, op, ver, keep, memory>>

EndPrune(t) ==
    /\ pc[t] = "victim"
    /\ victims[t] = {}
    /\ AfterPrune(t)

-----------------------------------------------------------------------------
(* activateCachedVersion and FileCache.SetCurrent. *)

TakeActivate(t) == TakeVersion(t, "activate", "reload")

Reload(t) ==
    /\ pc[t] = "reload"
    /\ CacheHit(ClientOf[t], ver[t])
    /\ mem' = Remembered(ClientOf[t], ver[t])
    /\ Goto(t, "verify")
    /\ UNCHANGED <<memCurrent, op, ver, keep, victims, locks, store>>

\* Mutant: SetCurrent trusts the snapshot in memory.
VerifyInMemory(t) ==
    /\ pc[t] = "verify"
    /\ Goto(t, "commit")
    /\ UNCHANGED <<op, ver, keep, victims, locks, store, memory>>

\* SetCurrent reads the package from disk again, whatever memory holds.
VerifyOnDisk(t) ==
    /\ pc[t] = "verify"
    /\ disk[ver[t]] = "valid"
    /\ Goto(t, "commit")
    /\ UNCHANGED <<op, ver, keep, victims, locks, store, memory>>

\* changeState replaces current.json.
Commit(t) ==
    /\ pc[t] = "commit"
    /\ current' = ver[t]
    /\ Goto(t, "adopt")
    /\ UNCHANGED <<disk, older, rotted, op, ver, keep, victims, locks, memory>>

Adopt(t) ==
    /\ pc[t] = "adopt"
    /\ memCurrent' = [memCurrent EXCEPT ![ClientOf[t]] = ver[t]]
    /\ Return(t)
    /\ UNCHANGED <<mem, store>>

-----------------------------------------------------------------------------
(* loadCachedCurrent: LoadCached, the first half of Load, and the fallback  *)
(* of LoadLatest, which still holds the lock "latest".                      *)

\* Load turns to the latest flight of its client, its own or a running one.
LoadLatestInstead(t) ==
    IF InFlight(t, "loadLatest", NoVersion)
    THEN Return(t)
    ELSE /\ op' = [op EXCEPT ![t] = "loadLatest"]
         /\ ver' = [ver EXCEPT ![t] = NoVersion]
         /\ Goto(t, "latest")
         /\ UNCHANGED <<keep, victims, latest, maintenance>>
         /\ versionLock' = FreedVersions(t)

\* An error of loadCachedCurrent.
CachedFails(t) ==
    /\ IF op[t] = "load" THEN LoadLatestInstead(t) ELSE Return(t)
    /\ UNCHANGED <<store, memory>>

ReadCurrent(t) ==
    /\ pc[t] = "current"
    /\ current # NoVersion
    /\ ver' = [ver EXCEPT ![t] = current]
    /\ Goto(t, "read")
    /\ UNCHANGED <<op, keep, victims, locks, store, memory>>

NoCurrent(t) ==
    /\ pc[t] = "current"
    /\ current = NoVersion
    /\ IF memCurrent[ClientOf[t]] # NoVersion
       THEN Return(t) /\ UNCHANGED <<store, memory>>
       ELSE CachedFails(t)

TakeRead(t) == TakeVersion(t, "read", "serve")

Serve(t) ==
    /\ pc[t] = "serve"
    /\ CacheHit(ClientOf[t], ver[t])
    /\ mem' = Remembered(ClientOf[t], ver[t])
    /\ versionLock' = [versionLock EXCEPT ![ver[t]] = NoTask]
    /\ Goto(t, "remember")
    /\ UNCHANGED <<latest, maintenance, memCurrent, op, ver, keep, victims, store>>

ServeFails(t) ==
    /\ pc[t] = "serve"
    /\ ~CacheHit(ClientOf[t], ver[t])
    /\ CachedFails(t)

\* setCurrent after the version lock is released.
Remember(t) ==
    /\ pc[t] = "remember"
    /\ memCurrent' = [memCurrent EXCEPT ![ClientOf[t]] = ver[t]]
    /\ Return(t)
    /\ UNCHANGED <<mem, store>>

-----------------------------------------------------------------------------
(* Errors, timeouts, crashes and damage from outside. *)

\* An error other than a decoding one at a step that does I/O.
Fail(t) ==
    /\ pc[t] \in {"resolve", "compare", "fetch", "put", "publish", "plan", "list", "recheck",
                  "remove", "reload", "verify", "commit", "adopt"}
    /\ Return(t)
    /\ UNCHANGED <<store, memory>>

\* Mutant: waiting for a lock has no deadline.
GiveUpReading(t) ==
    /\ pc[t] \in {"current", "serve"}
    /\ Return(t)
    /\ UNCHANGED <<store, memory>>

\* acquireLock times out, or the context of the operation ends.
GiveUp(t) ==
    /\ pc[t] \in WaitPcs \cup {"current", "serve"}
    /\ pc[t] = "victim" => victims[t] # {}
    /\ Return(t)
    /\ UNCHANGED <<store, memory>>

\* An I/O error or a lock timeout sends a Load whose context lives to the registry.
CachedError(t) ==
    /\ pc[t] \in {"current", "read", "serve", "remember"}
    /\ CachedFails(t)

\* The process dies: the system releases its file locks and forgets its memory.
Crash(c) ==
    LET dead == {t \in Tasks : ClientOf[t] = c}
        Survivor(holder) == IF holder \in dead THEN NoTask ELSE holder
    IN  /\ c \in Crashable
        /\ latest' = Survivor(latest)
        /\ maintenance' = Survivor(maintenance)
        /\ versionLock' = [v \in Versions |-> Survivor(versionLock[v])]
        /\ mem' = [mem EXCEPT ![c] = {}]
        /\ memCurrent' = [memCurrent EXCEPT ![c] = NoVersion]
        /\ op' = [t \in Tasks |-> IF t \in dead THEN "none" ELSE op[t]]
        /\ pc' = [t \in Tasks |-> IF t \in dead THEN "idle" ELSE pc[t]]
        /\ ver' = [t \in Tasks |-> IF t \in dead THEN NoVersion ELSE ver[t]]
        /\ keep' = [t \in Tasks |-> IF t \in dead THEN {} ELSE keep[t]]
        /\ victims' = [t \in Tasks |-> IF t \in dead THEN {} ELSE victims[t]]
        /\ UNCHANGED store

\* Something other than this program makes a package unreadable: damage, or an
\* I/O error, which may pass.
Rot(v) ==
    /\ Cardinality(rotted) < MaxRotted
    /\ disk[v] = "valid"
    /\ disk' = [disk EXCEPT ![v] = "unreadable"]
    /\ rotted' = rotted \cup {v}
    /\ UNCHANGED <<older, current, locks, memory, control>>

Heal(v) ==
    /\ disk[v] = "unreadable"
    /\ disk' = [disk EXCEPT ![v] = "valid"]
    /\ rotted' = rotted \ {v}
    /\ UNCHANGED <<older, current, locks, memory, control>>

LoseCurrent ==
    /\ MayLose
    /\ current # NoVersion
    /\ current' = NoVersion
    /\ UNCHANGED <<disk, older, rotted, locks, memory, control>>

-----------------------------------------------------------------------------

Start(t) == StartLatest(t) \/ StartVersion(t) \/ StartCached(t) \/ StartPrune(t)

LatestStep(t) == TakeLatest(t) \/ ResolveLatest(t) \/ CompareLatest(t) \/ TakeMaintenance(t)

LoadStep(t) ==
    \/ TakeLoad(t) \/ LoadExactHit(t) \/ LoadExactMiss(t)
    \/ Fetch(t) \/ FetchUnsupported(t)
    \/ PutKeeps(t) \/ PutBreaks(t) \/ PutClears(t) \/ PutPublishes(t)

PruneStep(t) ==
    \/ PruneDisabled(t) \/ PlanPrune(t) \/ ListVersions(t) \/ TakeVictim(t)
    \/ SpareActive(t) \/ BeginRemove(t) \/ EndRemove(t) \/ EndPrune(t)

ActivateStep(t) == TakeActivate(t) \/ Reload(t) \/ VerifyOnDisk(t) \/ Commit(t) \/ Adopt(t)

CachedStep(t) ==
    \/ ReadCurrent(t) \/ NoCurrent(t) \/ TakeRead(t)
    \/ Serve(t) \/ ServeFails(t) \/ Remember(t)

ErrorStep(t) == Fail(t) \/ GiveUp(t) \/ CachedError(t)

Step(t) ==
    \/ LatestStep(t) \/ LoadStep(t) \/ PruneStep(t)
    \/ ActivateStep(t) \/ CachedStep(t) \/ ErrorStep(t)

Next ==
    \/ \E t \in Tasks : Start(t) \/ Step(t)
    \/ \E c \in Clients : Crash(c)
    \/ \E v \in Versions : Rot(v) \/ Heal(v)
    \/ LoseCurrent

Spec == Init /\ [][Next]_vars

\* Goroutines are scheduled, and every wait and every operation has a deadline.
FairSpec == Spec /\ \A t \in Tasks : WF_vars(Step(t))

-----------------------------------------------------------------------------
(* Properties. *)

\* Every variable keeps its type.
TypeOK ==
    /\ latest \in Tasks \cup {NoTask}
    /\ maintenance \in Tasks \cup {NoTask}
    /\ versionLock \in [Versions -> Tasks \cup {NoTask}]
    /\ disk \in [Versions -> Packages]
    /\ older \in [Versions -> SUBSET Versions]
    /\ current \in Versions \cup {NoVersion}
    /\ rotted \subseteq Versions
    /\ mem \in [Clients -> SUBSET Versions]
    /\ memCurrent \in [Clients -> Versions \cup {NoVersion}]
    /\ op \in [Tasks -> OpNames \cup {"none"}]
    /\ pc \in [Tasks -> Pcs]
    /\ ver \in [Tasks -> Versions \cup {NoVersion}]
    /\ keep \in [Tasks -> SUBSET Versions]
    /\ victims \in [Tasks -> SUBSET Versions]

\* The active pointer always names a package Get accepts, unless something
\* outside the program has made that package unreadable: no interleaving of
\* activation, Put and Prune, and no crash, leaves it dangling.
CurrentIntact ==
    current # NoVersion => disk[current] = "valid" \/ current \in rotted

\* No two tasks, of whatever clients, download or install the same version at
\* the same time, and the rename of Put always finds its target free.
InstallAlone ==
    /\ \A t, u \in Tasks :
          /\ t # u
          /\ pc[t] \in {"fetch", "put", "publish"}
          /\ pc[u] \in {"fetch", "put", "publish"}
          => ver[t] # ver[u]
    /\ \A t \in Tasks : pc[t] = "publish" => disk[ver[t]] = "absent"

\* A client never replaces a snapshot it may already have handed out:
\* downloadAndStore overwrites snapshots[v] without looking.
SnapshotStable ==
    \A t \in Tasks :
        pc[t] \in {"fetch", "put", "publish"} => ver[t] \notin mem[ClientOf[t]]

\* The packages a reader can count on, and the promise about them.
Promise == INSTANCE CachePromise
               WITH active <- current,
                    installed <- {v \in Versions : disk[v] = "valid"} \cup rotted

\* The operations on the shared cache implement CachePromise: every step
\* installs, removes or activates one package, an active one is never removed
\* and only an installed one becomes active.
KeepsPromise == Promise!Spec

\* The directory of a version and its lock.
Package(v) == INSTANCE PackageStore
                  WITH package <- disk[v], holder <- versionLock[v], Nobody <- NoTask

\* What all operations, crashes and damage do to the directory of a version is
\* what PackageStore allows the holder of its lock and the outside, no matter how
\* they interleave.  PackageInstall, file by file, does no more either.
KeepsPackages ==
    /\ \A v \in Versions : Package(v)!Init
    /\ [][\A v \in Versions : Package(v)!Next]_vars

\* Once SwitchVersion or LoadLatest has pruned, at most MaxVersions directories
\* are left, debris of earlier crashes included, until it lets maintenance go.
RetentionBound ==
    \A t \in Tasks :
        /\ MaxVersions >= 0
        /\ op[t] \in {"switchVersion", "loadLatest"}
        /\ pc[t] \in {"activate", "reload", "verify", "commit", "adopt"}
        => Cardinality(Present) <= MaxVersions

\* A package an operation has loaded and is about to activate is not removed
\* under its feet.  (FileCache.Prune called by itself gives no such promise.)
FreshPackageKept ==
    [][\A t \in Tasks :
          /\ maintenance = t
          /\ op[t] \in {"loadVersion", "switchVersion", "loadLatest"}
          /\ pc[t] \in PrunePcs \cup {"plan", "list", "victim", "activate", "reload",
                                    "verify", "commit", "adopt"}
          /\ disk[ver[t]] = "valid"
          => disk'[ver[t]] \in {"valid", "unreadable"}]_vars

\* The automatic update never lowers the active version.
NoAutomaticDowngrade ==
    [][\A t \in Tasks :
          /\ op[t] = "loadLatest"
          /\ pc[t] = "commit"
          /\ pc'[t] = "adopt"
          => current <= current']_vars

\* The lock order latest, maintenance, version: whenever operations are running,
\* one of them is not waiting for a lock that is held.
Blocked(t) ==
    \/ pc[t] = "latest" /\ latest # NoTask
    \/ pc[t] = "maintenance" /\ maintenance # NoTask
    \/ pc[t] \in {"load", "activate", "read"} /\ versionLock[ver[t]] # NoTask
    \/ pc[t] = "victim" /\ \E w \in victims[t] : versionLock[w] # NoTask

NoDeadlock ==
    (\E t \in Tasks : pc[t] # "idle") =>
        \E t \in Tasks : pc[t] # "idle" /\ ~Blocked(t)

\* Every operation returns.
OperationsReturn == \A t \in Tasks : pc[t] # "idle" ~> pc[t] = "idle"

\* SwitchVersion and LoadLatest find the version they have just loaded when
\* they come to activate it.
LoadedIsCached ==
    \A t \in Tasks :
        /\ op[t] \in {"switchVersion", "loadLatest"}
        /\ pc[t] = "verify"
        => disk[ver[t]] = "valid" \/ ver[t] \in rotted

\* LoadCached finds the package of a version that is active.
CachedFindsActive ==
    \A t \in Tasks :
        /\ op[t] = "loadCached"
        /\ pc[t] = "serve"
        /\ current # NoVersion
        => CacheHit(ClientOf[t], ver[t]) \/ ver[t] \in rotted
=============================================================================
