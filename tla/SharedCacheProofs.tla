------------------------- MODULE SharedCacheProofs -------------------------
(***************************************************************************)
(* Proofs about SharedCache for every number of clients, tasks, versions   *)
(* and every limit: types, the version locks, the active package, the      *)
(* absence of deadlock, the refinement of CachePromise and of PackageStore *)
(* for each directory, what pruning and activation under the lock          *)
(* maintenance rely on, and that an operation runs out of steps.           *)
(***************************************************************************)
EXTENDS SharedCache, FiniteSetTheorems, WellFoundedInduction, TLAPS

(* Where the version of a task is known. *)
Working == HoldPcs \cup {"compare", "maintenance", "load", "activate", "read",
    "remember"}
Pruning == PrunePcs \cup {"plan", "list", "victim"}

VersionNamed ==
    \A t \in Tasks :
        /\ pc[t] \in Working => ver[t] \in Versions
        /\ pc[t] \in Pruning /\ op[t] # "prune" => ver[t] \in Versions
        /\ pc[t] = "latest" => op[t] = "loadLatest"

Typed == TypeOK /\ VersionNamed

(* Who holds a lock, seen from the lock and from the task. *)
MaintenancePcs == (HoldPcs \ {"serve"}) \cup Pruning \cup {"load", "activate"}

LatestHeld ==
    \A t \in Tasks : latest = t => op[t] = "loadLatest" /\ pc[t] \notin {"idle",
        "latest"}

MaintenanceHeld ==
    \A t \in Tasks : maintenance = t => pc[t] \in MaintenancePcs

VersionHeld ==
    \A t \in Tasks, v \in Versions :
        versionLock[v] = t =>
            \/ pc[t] \in HoldPcs /\ ver[t] = v
            \/ pc[t] \in PrunePcs /\ v \in victims[t]

HolderHolds ==
    \A t \in Tasks : pc[t] \in HoldPcs => versionLock[ver[t]] = t

OneVersionLock ==
    \A t \in Tasks, v, w \in Versions :
        versionLock[v] = t /\ versionLock[w] = t => v = w

Locked == LatestHeld /\ MaintenanceHeld /\ VersionHeld /\ HolderHolds /\ OneVersionLock

(* What the holder of a version lock may rely on. *)
RemovalSafe ==
    \A t \in Tasks, w \in Versions :
        pc[t] = "remove" /\ versionLock[w] = t => current # w

CommitReady ==
    \A t \in Tasks :
        pc[t] = "commit" => disk[ver[t]] = "valid" \/ ver[t] \in rotted

PlaceFree ==
    \A t \in Tasks : pc[t] = "publish" => disk[ver[t]] = "absent"

Guarded == RemovalSafe /\ CommitReady /\ PlaceFree /\ SnapshotStable /\ CurrentIntact

IInv == Typed /\ Locked /\ Guarded

\* Writing into a directory keeps the order of modification times well typed.
LEMMA TouchedTyped ==
    ASSUME TypeOK, NEW v
    PROVE  Touched(v) \in [Versions -> SUBSET Versions]
<1>1. Present \subseteq Versions
  BY DEF Present
<1>2. QED
  BY <1>1 DEF Touched, TypeOK

\* The end of an operation (the deferred unlocks) keeps the types.
LEMMA ReturnTyped ==
    ASSUME Typed, NEW t \in Tasks, Return(t), UNCHANGED <<store, mem>>,
           memCurrent' \in [Clients -> Versions \cup {NoVersion}]
    PROVE  Typed'
<1> USE ClientAssumption, VersionAssumption
<1>1. QED
  BY DEF locks, store, memory, control, Goto, Working, Pruning, Pcs, WaitPcs,
      HoldPcs, PrunePcs, OtherPcs, OpNames, Explicit, Packages, NoVersion, Typed,
      TypeOK, VersionNamed, Return, FreedVersions, Freed

\* Going on after pruneCache, or returning from Prune, keeps the types.
LEMMA AfterPruneTyped ==
    ASSUME Typed, NEW t \in Tasks, pc[t] \in {"plan", "victim"}, AfterPrune(t)
    PROVE  Typed'
<1> USE ClientAssumption, VersionAssumption
<1> USE DEF locks, store, memory, control, Goto, Working, Pruning, Pcs, WaitPcs,
    HoldPcs, PrunePcs, OtherPcs, OpNames, Explicit, Packages, NoVersion, Typed,
    TypeOK, VersionNamed
<1>1. CASE op[t] = "switchVersion" \/ op[t] = "loadLatest"
  <2>1. ver[t] \in Versions
    BY <1>1
  <2>2. Goto(t, "activate") /\ UNCHANGED <<op, ver, keep, victims, locks, store,
      memory>>
    BY <1>1 DEF AfterPrune
  <2>3. QED
    BY <1>1, <2>1, <2>2
<1>2. CASE ~(op[t] = "switchVersion" \/ op[t] = "loadLatest")
  <2>1. Return(t) /\ UNCHANGED <<store, memory>>
    BY <1>2 DEF AfterPrune
  <2>2. QED
    BY <2>1, ReturnTyped
<1>3. QED
  BY <1>1, <1>2

\* An error of loadCachedCurrent, returned or answered by Load with LoadLatest,
\* keeps the types.
LEMMA CachedFailsTyped ==
    ASSUME Typed, NEW t \in Tasks,
           pc[t] \in {"current", "read", "serve", "remember"}, CachedFails(t)
    PROVE  Typed'
<1> USE ClientAssumption, VersionAssumption
<1> USE DEF locks, store, memory, control, Goto, Working, Pruning, Pcs, WaitPcs,
    HoldPcs, PrunePcs, OtherPcs, OpNames, Explicit, Packages, NoVersion, Typed,
    TypeOK, VersionNamed
<1>1. CASE Return(t)
  BY <1>1, ReturnTyped DEF CachedFails
<1>2. CASE ~Return(t)
  <2>1. /\ op[t] = "load"
        /\ op' = [op EXCEPT ![t] = "loadLatest"]
        /\ ver' = [ver EXCEPT ![t] = NoVersion]
        /\ pc' = [pc EXCEPT ![t] = "latest"]
        /\ UNCHANGED <<keep, victims, latest, maintenance, store, memory>>
        /\ versionLock' = FreedVersions(t)
    BY <1>2 DEF CachedFails, LoadLatestInstead
  <2>2. QED
    BY <2>1 DEF FreedVersions, Freed
<1>3. QED
  BY <1>1, <1>2

\* Every step of the cache keeps the types.
LEMMA TypeStep == ASSUME Typed, [Next]_vars PROVE Typed'
<1> USE ClientAssumption, VersionAssumption
<1> USE DEF locks, store, memory, control, Goto, Working, Pruning, Pcs, WaitPcs,
    HoldPcs, PrunePcs, OtherPcs, OpNames, Explicit, Packages, NoVersion, Typed,
    TypeOK, VersionNamed
<1>1. ASSUME NEW t \in Tasks, Start(t) PROVE Typed'
  <2>1. CASE StartLatest(t)
    BY <2>1 DEF StartLatest, Begin
  <2>2. CASE StartVersion(t)
    BY <2>2 DEF StartVersion, Begin
  <2>3. CASE StartCached(t)
    BY <2>3 DEF StartCached, Begin
  <2>4. CASE StartPrune(t)
    BY <2>4 DEF StartPrune, Begin
  <2>5. QED
    BY <1>1, <2>1, <2>2, <2>3, <2>4 DEF Start
<1>2. ASSUME NEW t \in Tasks, LatestStep(t) PROVE Typed'
  <2>1. CASE TakeLatest(t)
    BY <2>1 DEF TakeLatest
  <2>2. CASE ResolveLatest(t)
    BY <2>2 DEF ResolveLatest
  <2>3. CASE CompareLatest(t)
    BY <2>3 DEF CompareLatest
  <2>4. CASE TakeMaintenance(t)
    BY <2>4 DEF TakeMaintenance
  <2>5. QED
    BY <1>2, <2>1, <2>2, <2>3, <2>4 DEF LatestStep
<1>3. ASSUME NEW t \in Tasks, LoadStep(t) PROVE Typed'
  <2>1. CASE TakeLoad(t)
    BY <2>1 DEF TakeLoad, TakeVersion
  <2>2. CASE LoadExactHit(t)
    BY <2>2 DEF LoadExactHit, EndLoad, Remembered
  <2>3. CASE LoadExactMiss(t)
    BY <2>3 DEF LoadExactMiss, CacheHit
  <2>4. CASE Fetch(t)
    BY <2>4 DEF Fetch
  <2>5. CASE FetchUnsupported(t)
    BY <2>5 DEF FetchUnsupported, FreedVersions, Freed
  <2>6. CASE PutKeeps(t)
    BY <2>6 DEF PutKeeps, EndLoad, Remembered
  <2>7. CASE PutClears(t)
    BY <2>7 DEF PutClears, Forgotten
  <2>8. CASE PutPublishes(t)
    <3>1. older' \in [Versions -> SUBSET Versions]
      BY <2>8, TouchedTyped DEF PutPublishes
    <3>2. disk' \in [Versions -> Packages] /\ rotted' \subseteq Versions
      BY <2>8 DEF PutPublishes
    <3>3. versionLock' \in [Versions -> Tasks \cup {NoTask}]
      BY <2>8 DEF PutPublishes, EndLoad
    <3>4. ver[t] \in Versions
      BY <2>8 DEF PutPublishes
    <3>5. mem' \in [Clients -> SUBSET Versions]
      BY <2>8, <3>4 DEF PutPublishes, EndLoad, Remembered
    <3>6. QED
      BY <2>8, <3>1, <3>2, <3>3, <3>5 DEF PutPublishes, EndLoad
  <2>9. CASE PutBreaks(t)
    BY <2>9 DEF PutBreaks, Touched, Present
  <2>10. QED
    BY <1>3, <2>1, <2>2, <2>3, <2>4, <2>5, <2>6, <2>7, <2>8, <2>9 DEF LoadStep
<1>4. ASSUME NEW t \in Tasks, PruneStep(t) PROVE Typed'
  <2>1. CASE PruneDisabled(t)
    BY <2>1, AfterPruneTyped DEF PruneDisabled
  <2>2. CASE PlanPrune(t)
    BY <2>2 DEF PlanPrune
  <2>3. CASE ListVersions(t)
    BY <2>3 DEF ListVersions, Doomed, Present
  <2>4. CASE TakeVictim(t)
    BY <2>4 DEF TakeVictim
  <2>5. CASE SpareActive(t)
    BY <2>5 DEF SpareActive
  <2>6. CASE BeginRemove(t)
    BY <2>6 DEF BeginRemove, Touched, Present
  <2>7. CASE EndRemove(t)
    BY <2>7 DEF EndRemove, Forgotten
  <2>8. CASE EndPrune(t)
    BY <2>8, AfterPruneTyped DEF EndPrune
  <2>9. QED
    BY <1>4, <2>1, <2>2, <2>3, <2>4, <2>5, <2>6, <2>7, <2>8 DEF PruneStep
<1>5. ASSUME NEW t \in Tasks, ActivateStep(t) PROVE Typed'
  <2>1. CASE TakeActivate(t)
    BY <2>1 DEF TakeActivate, TakeVersion
  <2>2. CASE Reload(t)
    BY <2>2 DEF Reload, Remembered
  <2>3. CASE VerifyOnDisk(t)
    BY <2>3 DEF VerifyOnDisk
  <2>4. CASE Commit(t)
    BY <2>4 DEF Commit
  <2>5. CASE Adopt(t)
    BY <2>5, ReturnTyped DEF Adopt
  <2>6. QED
    BY <1>5, <2>1, <2>2, <2>3, <2>4, <2>5 DEF ActivateStep
<1>6. ASSUME NEW t \in Tasks, CachedStep(t) PROVE Typed'
  <2>1. CASE ReadCurrent(t)
    BY <2>1 DEF ReadCurrent
  <2>2. CASE NoCurrent(t)
    BY <2>2, CachedFailsTyped, ReturnTyped DEF NoCurrent
  <2>3. CASE TakeRead(t)
    BY <2>3 DEF TakeRead, TakeVersion
  <2>4. CASE Serve(t)
    BY <2>4 DEF Serve, Remembered
  <2>5. CASE ServeFails(t)
    BY <2>5, CachedFailsTyped, ReturnTyped DEF ServeFails
  <2>6. CASE Remember(t)
    BY <2>6, ReturnTyped DEF Remember
  <2>7. QED
    BY <1>6, <2>1, <2>2, <2>3, <2>4, <2>5, <2>6 DEF CachedStep
<1>7. ASSUME NEW t \in Tasks, ErrorStep(t) PROVE Typed'
  <2>1. CASE Fail(t)
    BY <2>1, ReturnTyped DEF Fail
  <2>2. CASE GiveUp(t)
    BY <2>2, ReturnTyped DEF GiveUp
  <2>3. CASE CachedError(t)
    BY <2>3, CachedFailsTyped, ReturnTyped DEF CachedError
  <2>4. QED
    BY <1>7, <2>1, <2>2, <2>3 DEF ErrorStep
<1>8. ASSUME NEW c \in Clients, Crash(c) PROVE Typed'
  BY <1>8 DEF Crash
<1>9. ASSUME NEW v \in Versions, Rot(v) PROVE Typed'
  BY <1>9 DEF Rot
<1>10. ASSUME NEW v \in Versions, Heal(v) PROVE Typed'
  BY <1>10 DEF Heal
<1>11. CASE LoseCurrent
  BY <1>11 DEF LoseCurrent
<1>12. CASE UNCHANGED vars
  BY <1>12 DEF vars
<1>13. QED
  BY <1>1, <1>2, <1>3, <1>4, <1>5, <1>6, <1>7, <1>8, <1>9, <1>10, <1>11, <1>12 DEF
      Next, Step

\* The deferred unlocks of an operation leave no lock behind.
LEMMA ReturnLocked ==
    ASSUME Typed, Locked, NEW t \in Tasks, Return(t), UNCHANGED <<store, mem>>,
           memCurrent' \in [Clients -> Versions \cup {NoVersion}]
    PROVE  Locked'
<1> USE ClientAssumption, VersionAssumption
<1>1. QED
  BY DEF locks, store, memory, control, Goto, Working, Pruning, Pcs, WaitPcs,
      HoldPcs, PrunePcs, OtherPcs, OpNames, Explicit, Packages, NoVersion, Typed,
      TypeOK, VersionNamed, MaintenancePcs, Locked, LatestHeld, MaintenanceHeld,
      VersionHeld, HolderHolds, OneVersionLock, Return, FreedVersions, Freed

\* An operation leaves pruneCache with no version lock in its hands.
LEMMA AfterPruneLocked ==
    ASSUME Typed, Locked, NEW t \in Tasks, pc[t] \in {"plan", "victim"}, AfterPrune(t)
    PROVE  Locked'
<1> USE ClientAssumption, VersionAssumption
<1> USE DEF locks, store, memory, control, Goto, Working, Pruning, Pcs, WaitPcs,
    HoldPcs, PrunePcs, OtherPcs, OpNames, Explicit, Packages, NoVersion, Typed,
    TypeOK, VersionNamed, MaintenancePcs, Locked, LatestHeld, MaintenanceHeld,
    VersionHeld, HolderHolds, OneVersionLock
<1>1. CASE op[t] = "switchVersion" \/ op[t] = "loadLatest"
  <2>1. ver[t] \in Versions
    BY <1>1
  <2>2. Goto(t, "activate") /\ UNCHANGED <<op, ver, keep, victims, locks, store,
      memory>>
    BY <1>1 DEF AfterPrune
  <2>3. QED
    BY <1>1, <2>1, <2>2
<1>2. CASE ~(op[t] = "switchVersion" \/ op[t] = "loadLatest")
  <2>1. Return(t) /\ UNCHANGED <<store, memory>>
    BY <1>2 DEF AfterPrune
  <2>2. QED
    BY <2>1, ReturnLocked
<1>3. QED
  BY <1>1, <1>2

\* An error of loadCachedCurrent releases the version lock; the operation that
\* goes on with LoadLatest starts with no lock.
LEMMA CachedFailsLocked ==
    ASSUME Typed, Locked, NEW t \in Tasks,
           pc[t] \in {"current", "read", "serve", "remember"}, CachedFails(t)
    PROVE  Locked'
<1> USE ClientAssumption, VersionAssumption
<1> USE DEF locks, store, memory, control, Goto, Working, Pruning, Pcs, WaitPcs,
    HoldPcs, PrunePcs, OtherPcs, OpNames, Explicit, Packages, NoVersion, Typed,
    TypeOK, VersionNamed, MaintenancePcs, Locked, LatestHeld, MaintenanceHeld,
    VersionHeld, HolderHolds, OneVersionLock
<1>1. CASE Return(t)
  BY <1>1, ReturnLocked DEF CachedFails
<1>2. CASE ~Return(t)
  <2>1. /\ op[t] = "load"
        /\ op' = [op EXCEPT ![t] = "loadLatest"]
        /\ ver' = [ver EXCEPT ![t] = NoVersion]
        /\ pc' = [pc EXCEPT ![t] = "latest"]
        /\ UNCHANGED <<keep, victims, latest, maintenance, store, memory>>
        /\ versionLock' = FreedVersions(t)
    BY <1>2 DEF CachedFails, LoadLatestInstead
  <2>2. QED
    BY <2>1 DEF FreedVersions, Freed
<1>3. QED
  BY <1>1, <1>2

\* Every step keeps the account of who holds which lock.
LEMMA LockStep == ASSUME Typed, Locked, [Next]_vars PROVE Locked'
<1> USE ClientAssumption, VersionAssumption
<1> USE DEF locks, store, memory, control, Goto, Working, Pruning, Pcs, WaitPcs,
    HoldPcs, PrunePcs, OtherPcs, OpNames, Explicit, Packages, NoVersion, Typed,
    TypeOK, VersionNamed, MaintenancePcs, Locked, LatestHeld, MaintenanceHeld,
    VersionHeld, HolderHolds, OneVersionLock
<1>1. ASSUME NEW t \in Tasks, Start(t) PROVE Locked'
  <2>1. CASE StartLatest(t)
    BY <2>1 DEF StartLatest, Begin
  <2>2. CASE StartVersion(t)
    BY <2>2 DEF StartVersion, Begin
  <2>3. CASE StartCached(t)
    BY <2>3 DEF StartCached, Begin
  <2>4. CASE StartPrune(t)
    BY <2>4 DEF StartPrune, Begin
  <2>5. QED
    BY <1>1, <2>1, <2>2, <2>3, <2>4 DEF Start
<1>2. ASSUME NEW t \in Tasks, LatestStep(t) PROVE Locked'
  <2>1. CASE TakeLatest(t)
    BY <2>1 DEF TakeLatest
  <2>2. CASE ResolveLatest(t)
    BY <2>2 DEF ResolveLatest
  <2>3. CASE CompareLatest(t)
    BY <2>3 DEF CompareLatest
  <2>4. CASE TakeMaintenance(t)
    BY <2>4 DEF TakeMaintenance
  <2>5. QED
    BY <1>2, <2>1, <2>2, <2>3, <2>4 DEF LatestStep
<1>3. ASSUME NEW t \in Tasks, LoadStep(t) PROVE Locked'
  <2>1. CASE TakeLoad(t)
    BY <2>1 DEF TakeLoad, TakeVersion
  <2>2. CASE LoadExactHit(t)
    BY <2>2 DEF LoadExactHit, EndLoad, Remembered
  <2>3. CASE LoadExactMiss(t)
    BY <2>3 DEF LoadExactMiss, CacheHit
  <2>4. CASE Fetch(t)
    BY <2>4 DEF Fetch
  <2>5. CASE FetchUnsupported(t)
    BY <2>5 DEF FetchUnsupported, FreedVersions, Freed
  <2>6. CASE PutKeeps(t)
    BY <2>6 DEF PutKeeps, EndLoad, Remembered
  <2>7. CASE PutClears(t)
    BY <2>7 DEF PutClears, Forgotten
  <2>8. CASE PutPublishes(t)
    BY <2>8 DEF PutPublishes, EndLoad, Remembered, Touched, Present
  <2>9. CASE PutBreaks(t)
    BY <2>9 DEF PutBreaks, Touched, Present
  <2>10. QED
    BY <1>3, <2>1, <2>2, <2>3, <2>4, <2>5, <2>6, <2>7, <2>8, <2>9 DEF LoadStep
<1>4. ASSUME NEW t \in Tasks, PruneStep(t) PROVE Locked'
  <2>1. CASE PruneDisabled(t)
    BY <2>1, AfterPruneLocked DEF PruneDisabled
  <2>2. CASE PlanPrune(t)
    BY <2>2 DEF PlanPrune
  <2>3. CASE ListVersions(t)
    BY <2>3 DEF ListVersions, Doomed, Present
  <2>4. CASE TakeVictim(t)
    BY <2>4 DEF TakeVictim
  <2>5. CASE SpareActive(t)
    BY <2>5 DEF SpareActive
  <2>6. CASE BeginRemove(t)
    BY <2>6 DEF BeginRemove, Touched, Present
  <2>7. CASE EndRemove(t)
    BY <2>7 DEF EndRemove, Forgotten
  <2>8. CASE EndPrune(t)
    BY <2>8, AfterPruneLocked DEF EndPrune
  <2>9. QED
    BY <1>4, <2>1, <2>2, <2>3, <2>4, <2>5, <2>6, <2>7, <2>8 DEF PruneStep
<1>5. ASSUME NEW t \in Tasks, ActivateStep(t) PROVE Locked'
  <2>1. CASE TakeActivate(t)
    BY <2>1 DEF TakeActivate, TakeVersion
  <2>2. CASE Reload(t)
    BY <2>2 DEF Reload, Remembered
  <2>3. CASE VerifyOnDisk(t)
    BY <2>3 DEF VerifyOnDisk
  <2>4. CASE Commit(t)
    BY <2>4 DEF Commit
  <2>5. CASE Adopt(t)
    BY <2>5, ReturnLocked DEF Adopt
  <2>6. QED
    BY <1>5, <2>1, <2>2, <2>3, <2>4, <2>5 DEF ActivateStep
<1>6. ASSUME NEW t \in Tasks, CachedStep(t) PROVE Locked'
  <2>1. CASE ReadCurrent(t)
    BY <2>1 DEF ReadCurrent
  <2>2. CASE NoCurrent(t)
    <3>1. CASE memCurrent[ClientOf[t]] # NoVersion
      <4>1. Return(t) /\ UNCHANGED <<store, memory>>
        BY <2>2, <3>1 DEF NoCurrent
      <4>2. QED
        BY <4>1, ReturnLocked
    <3>2. CASE memCurrent[ClientOf[t]] = NoVersion
      <4>1. pc[t] = "current" /\ CachedFails(t)
        BY <2>2, <3>2 DEF NoCurrent
      <4>2. QED
        BY <4>1, CachedFailsLocked
    <3>3. QED
      BY <3>1, <3>2
  <2>3. CASE TakeRead(t)
    BY <2>3 DEF TakeRead, TakeVersion
  <2>4. CASE Serve(t)
    BY <2>4 DEF Serve, Remembered
  <2>5. CASE ServeFails(t)
    BY <2>5, CachedFailsLocked, ReturnLocked DEF ServeFails
  <2>6. CASE Remember(t)
    BY <2>6, ReturnLocked DEF Remember
  <2>7. QED
    BY <1>6, <2>1, <2>2, <2>3, <2>4, <2>5, <2>6 DEF CachedStep
<1>7. ASSUME NEW t \in Tasks, ErrorStep(t) PROVE Locked'
  <2>1. CASE Fail(t)
    BY <2>1, ReturnLocked DEF Fail
  <2>2. CASE GiveUp(t)
    BY <2>2, ReturnLocked DEF GiveUp
  <2>3. CASE CachedError(t)
    BY <2>3, CachedFailsLocked, ReturnLocked DEF CachedError
  <2>4. QED
    BY <1>7, <2>1, <2>2, <2>3 DEF ErrorStep
<1>8. ASSUME NEW c \in Clients, Crash(c) PROVE Locked'
  BY <1>8 DEF Crash
<1>9. ASSUME NEW v \in Versions, Rot(v) PROVE Locked'
  BY <1>9 DEF Rot
<1>10. ASSUME NEW v \in Versions, Heal(v) PROVE Locked'
  BY <1>10 DEF Heal
<1>11. CASE LoseCurrent
  BY <1>11 DEF LoseCurrent
<1>12. CASE UNCHANGED vars
  BY <1>12 DEF vars
<1>13. QED
  BY <1>1, <1>2, <1>3, <1>4, <1>5, <1>6, <1>7, <1>8, <1>9, <1>10, <1>11, <1>12 DEF
      Next, Step

\* An operation that ends disturbs nothing another one relies on.
LEMMA ReturnGuarded ==
    ASSUME Typed, Locked, Guarded, NEW t \in Tasks, Return(t), UNCHANGED <<store, mem>>,
           memCurrent' \in [Clients -> Versions \cup {NoVersion}]
    PROVE  Guarded'
<1> USE ClientAssumption, VersionAssumption
<1>1. QED
  BY DEF locks, store, memory, control, Goto, Working, Pruning, Pcs, WaitPcs,
      HoldPcs, PrunePcs, OtherPcs, OpNames, Explicit, Packages, NoVersion, Typed,
      TypeOK, VersionNamed, Locked, VersionHeld, HolderHolds, OneVersionLock,
      Guarded, RemovalSafe, CommitReady, PlaceFree, SnapshotStable, CurrentIntact,
      Return, FreedVersions, Freed

\* Going on after pruneCache disturbs nothing another operation relies on.
LEMMA AfterPruneGuarded ==
    ASSUME Typed, Locked, Guarded, NEW t \in Tasks, pc[t] \in {"plan", "victim"},
        AfterPrune(t)
    PROVE  Guarded'
<1> USE ClientAssumption, VersionAssumption
<1> USE DEF locks, store, memory, control, Goto, Working, Pruning, Pcs, WaitPcs,
    HoldPcs, PrunePcs, OtherPcs, OpNames, Explicit, Packages, NoVersion, Typed,
    TypeOK, VersionNamed, Locked, VersionHeld, HolderHolds, OneVersionLock, Guarded,
    RemovalSafe, CommitReady, PlaceFree, SnapshotStable, CurrentIntact
<1>1. CASE op[t] = "switchVersion" \/ op[t] = "loadLatest"
  <2>1. ver[t] \in Versions
    BY <1>1
  <2>2. Goto(t, "activate") /\ UNCHANGED <<op, ver, keep, victims, locks, store,
      memory>>
    BY <1>1 DEF AfterPrune
  <2>3. QED
    BY <1>1, <2>1, <2>2
<1>2. CASE ~(op[t] = "switchVersion" \/ op[t] = "loadLatest")
  <2>1. Return(t) /\ UNCHANGED <<store, memory>>
    BY <1>2 DEF AfterPrune
  <2>2. QED
    BY <2>1, ReturnGuarded
<1>3. QED
  BY <1>1, <1>2

\* An error of loadCachedCurrent disturbs nothing another operation relies on.
LEMMA CachedFailsGuarded ==
    ASSUME Typed, Locked, Guarded, NEW t \in Tasks,
           pc[t] \in {"current", "read", "serve", "remember"}, CachedFails(t)
    PROVE  Guarded'
<1> USE ClientAssumption, VersionAssumption
<1> USE DEF locks, store, memory, control, Goto, Working, Pruning, Pcs, WaitPcs,
    HoldPcs, PrunePcs, OtherPcs, OpNames, Explicit, Packages, NoVersion, Typed,
    TypeOK, VersionNamed, Locked, VersionHeld, HolderHolds, OneVersionLock, Guarded,
    RemovalSafe, CommitReady, PlaceFree, SnapshotStable, CurrentIntact
<1>1. CASE Return(t)
  BY <1>1, ReturnGuarded DEF CachedFails
<1>2. CASE ~Return(t)
  <2>1. /\ op[t] = "load"
        /\ op' = [op EXCEPT ![t] = "loadLatest"]
        /\ ver' = [ver EXCEPT ![t] = NoVersion]
        /\ pc' = [pc EXCEPT ![t] = "latest"]
        /\ UNCHANGED <<keep, victims, latest, maintenance, store, memory>>
        /\ versionLock' = FreedVersions(t)
    BY <1>2 DEF CachedFails, LoadLatestInstead
  <2>2. QED
    BY <2>1 DEF FreedVersions, Freed
<1>3. QED
  BY <1>1, <1>2

\* Every step keeps what the holder of a version lock relies on: a victim is not
\* active, a verified package stays, the target of the rename is free.
LEMMA GuardStep == ASSUME Typed, Locked, Guarded, [Next]_vars PROVE Guarded'
<1> USE ClientAssumption, VersionAssumption
<1> USE DEF locks, store, memory, control, Goto, Working, Pruning, Pcs, WaitPcs,
    HoldPcs, PrunePcs, OtherPcs, OpNames, Explicit, Packages, NoVersion, Typed,
    TypeOK, VersionNamed, Locked, VersionHeld, HolderHolds, OneVersionLock, Guarded,
    RemovalSafe, CommitReady, PlaceFree, SnapshotStable, CurrentIntact
<1>1. ASSUME NEW t \in Tasks, Start(t) PROVE Guarded'
  <2>1. CASE StartLatest(t)
    BY <2>1 DEF StartLatest, Begin
  <2>2. CASE StartVersion(t)
    BY <2>2 DEF StartVersion, Begin
  <2>3. CASE StartCached(t)
    BY <2>3 DEF StartCached, Begin
  <2>4. CASE StartPrune(t)
    BY <2>4 DEF StartPrune, Begin
  <2>5. QED
    BY <1>1, <2>1, <2>2, <2>3, <2>4 DEF Start
<1>2. ASSUME NEW t \in Tasks, LatestStep(t) PROVE Guarded'
  <2>1. CASE TakeLatest(t)
    BY <2>1 DEF TakeLatest
  <2>2. CASE ResolveLatest(t)
    BY <2>2 DEF ResolveLatest
  <2>3. CASE CompareLatest(t)
    BY <2>3 DEF CompareLatest
  <2>4. CASE TakeMaintenance(t)
    BY <2>4 DEF TakeMaintenance
  <2>5. QED
    BY <1>2, <2>1, <2>2, <2>3, <2>4 DEF LatestStep
<1>3. ASSUME NEW t \in Tasks, LoadStep(t) PROVE Guarded'
  <2>1. CASE TakeLoad(t)
    BY <2>1 DEF TakeLoad, TakeVersion
  <2>2. CASE LoadExactHit(t)
    BY <2>2 DEF LoadExactHit, EndLoad, Remembered, CacheHit
  <2>3. CASE LoadExactMiss(t)
    BY <2>3 DEF LoadExactMiss, CacheHit
  <2>4. CASE Fetch(t)
    BY <2>4 DEF Fetch
  <2>5. CASE FetchUnsupported(t)
    BY <2>5 DEF FetchUnsupported, FreedVersions, Freed
  <2>6. CASE PutKeeps(t)
    BY <2>6 DEF PutKeeps, EndLoad, Remembered
  <2>7. CASE PutClears(t)
    BY <2>7 DEF PutClears, Forgotten
  <2>8. CASE PutPublishes(t)
    BY <2>8 DEF PutPublishes, EndLoad, Remembered, Touched, Present
  <2>9. CASE PutBreaks(t)
    BY <2>9 DEF PutBreaks, Touched, Present
  <2>10. QED
    BY <1>3, <2>1, <2>2, <2>3, <2>4, <2>5, <2>6, <2>7, <2>8, <2>9 DEF LoadStep
<1>4. ASSUME NEW t \in Tasks, PruneStep(t) PROVE Guarded'
  <2>1. CASE PruneDisabled(t)
    BY <2>1, AfterPruneGuarded DEF PruneDisabled
  <2>2. CASE PlanPrune(t)
    BY <2>2 DEF PlanPrune
  <2>3. CASE ListVersions(t)
    BY <2>3 DEF ListVersions, Doomed, Present
  <2>4. CASE TakeVictim(t)
    BY <2>4 DEF TakeVictim
  <2>5. CASE SpareActive(t)
    BY <2>5 DEF SpareActive
  <2>6. CASE BeginRemove(t)
    <3>1. PICK w \in victims[t] :
            /\ versionLock[w] = t
            /\ current # w
            /\ disk' \in {disk, [disk EXCEPT ![w] = "partial"]}
      BY <2>6 DEF BeginRemove
    <3>2. w \in Versions /\ pc[t] = "recheck" /\ pc' = [pc EXCEPT ![t] = "remove"]
      BY <2>6 DEF BeginRemove
    <3>3. UNCHANGED <<current, rotted, op, ver, keep, victims, locks, memory>>
      BY <2>6 DEF BeginRemove
    <3>4. \A u \in Tasks : pc[u] \in HoldPcs => ver[u] # w
      BY <3>1, <3>2
    <3>5. RemovalSafe'
      BY <3>1, <3>2, <3>3
    <3>6. CommitReady' /\ PlaceFree'
      <4>1. \A v \in Versions \ {w} : disk'[v] = disk[v]
        BY <3>1
      <4>2. \A u \in Tasks : pc'[u] \in {"commit", "publish"} =>
                /\ pc[u] = pc'[u]
                /\ ver[u] \in Versions \ {w}
        BY <3>2, <3>4
      <4>3. \A u \in Tasks : pc'[u] \in {"commit", "publish"} => disk'[ver[u]] = disk[ver[u]]
        BY <4>1, <4>2
      <4>4. QED
        BY <4>2, <4>3, <3>3
    <3>7. SnapshotStable' /\ CurrentIntact'
      BY <3>1, <3>2, <3>3
    <3>8. QED
      BY <3>5, <3>6, <3>7
  <2>7. CASE EndRemove(t)
    BY <2>7 DEF EndRemove, Forgotten
  <2>8. CASE EndPrune(t)
    BY <2>8, AfterPruneGuarded DEF EndPrune
  <2>9. QED
    BY <1>4, <2>1, <2>2, <2>3, <2>4, <2>5, <2>6, <2>7, <2>8 DEF PruneStep
<1>5. ASSUME NEW t \in Tasks, ActivateStep(t) PROVE Guarded'
  <2>1. CASE TakeActivate(t)
    BY <2>1 DEF TakeActivate, TakeVersion
  <2>2. CASE Reload(t)
    BY <2>2 DEF Reload, Remembered, CacheHit
  <2>3. CASE VerifyOnDisk(t)
    BY <2>3 DEF VerifyOnDisk
  <2>4. CASE Commit(t)
    BY <2>4 DEF Commit
  <2>5. CASE Adopt(t)
    BY <2>5, ReturnGuarded DEF Adopt
  <2>6. QED
    BY <1>5, <2>1, <2>2, <2>3, <2>4, <2>5 DEF ActivateStep
<1>6. ASSUME NEW t \in Tasks, CachedStep(t) PROVE Guarded'
  <2>1. CASE ReadCurrent(t)
    BY <2>1 DEF ReadCurrent
  <2>2. CASE NoCurrent(t)
    <3>1. CASE memCurrent[ClientOf[t]] # NoVersion
      <4>1. Return(t) /\ UNCHANGED <<store, memory>>
        BY <2>2, <3>1 DEF NoCurrent
      <4>2. QED
        BY <4>1, ReturnGuarded
    <3>2. CASE memCurrent[ClientOf[t]] = NoVersion
      <4>1. pc[t] = "current" /\ CachedFails(t)
        BY <2>2, <3>2 DEF NoCurrent
      <4>2. QED
        BY <4>1, CachedFailsGuarded
    <3>3. QED
      BY <3>1, <3>2
  <2>3. CASE TakeRead(t)
    BY <2>3 DEF TakeRead, TakeVersion
  <2>4. CASE Serve(t)
    BY <2>4 DEF Serve, Remembered, CacheHit
  <2>5. CASE ServeFails(t)
    BY <2>5, CachedFailsGuarded, ReturnGuarded DEF ServeFails
  <2>6. CASE Remember(t)
    BY <2>6, ReturnGuarded DEF Remember
  <2>7. QED
    BY <1>6, <2>1, <2>2, <2>3, <2>4, <2>5, <2>6 DEF CachedStep
<1>7. ASSUME NEW t \in Tasks, ErrorStep(t) PROVE Guarded'
  <2>1. CASE Fail(t)
    BY <2>1, ReturnGuarded DEF Fail
  <2>2. CASE GiveUp(t)
    BY <2>2, ReturnGuarded DEF GiveUp
  <2>3. CASE CachedError(t)
    BY <2>3, CachedFailsGuarded, ReturnGuarded DEF CachedError
  <2>4. QED
    BY <1>7, <2>1, <2>2, <2>3 DEF ErrorStep
<1>8. ASSUME NEW c \in Clients, Crash(c) PROVE Guarded'
  BY <1>8 DEF Crash
<1>9. ASSUME NEW v \in Versions, Rot(v) PROVE Guarded'
  BY <1>9 DEF Rot
<1>10. ASSUME NEW v \in Versions, Heal(v) PROVE Guarded'
  BY <1>10 DEF Heal
<1>11. CASE LoseCurrent
  BY <1>11 DEF LoseCurrent
<1>12. CASE UNCHANGED vars
  BY <1>12 DEF vars
<1>13. QED
  BY <1>1, <1>2, <1>3, <1>4, <1>5, <1>6, <1>7, <1>8, <1>9, <1>10, <1>11, <1>12 DEF
      Next, Step

-----------------------------------------------------------------------------
(* Pruning and activating under the lock "maintenance". *)

Activating == {"activate", "reload", "verify", "commit", "adopt"}
Removing == PrunePcs \cup {"victim"}
Maintaining == MaintenancePcs \cup {"maintenance"}

\* Which operation stands where, and which locks it holds there.
Owned ==
    \A t \in Tasks :
        /\ op[t] \in Ops[t] \cup {"none", "loadLatest"}
        /\ op[t] = "prune" => pc[t] \in Pruning
        /\ pc[t] \in Activating => op[t] \in {"loadLatest", "switchVersion", "activateVersion"}
        /\ op[t] # "prune" /\ pc[t] \in MaintenancePcs => maintenance = t
        /\ op[t] = "loadLatest" /\ pc[t] # "latest" => latest = t

\* An operation that ends leaves the others their locks.
LEMMA ReturnOwned ==
    ASSUME Typed, Owned, NEW t \in Tasks, Return(t)
    PROVE  Owned'
<1> USE ClientAssumption
<1>1. \A u \in Tasks \ {t} : op'[u] = op[u] /\ pc'[u] = pc[u]
  BY DEF Return, Goto, Typed, TypeOK
<1>2. op'[t] = "none" /\ pc'[t] = "idle"
  BY DEF Return, Goto, Typed, TypeOK
<1>3. \A u \in Tasks \ {t} : (maintenance = u => maintenance' = u) /\ (latest = u => latest' = u)
  BY DEF Return, Freed
<1>4. ASSUME NEW u \in Tasks \ {t}
      PROVE  /\ op'[u] \in Ops[u] \cup {"none", "loadLatest"}
             /\ op'[u] = "prune" => pc'[u] \in Pruning
             /\ pc'[u] \in Activating =>
                   op'[u] \in {"loadLatest", "switchVersion", "activateVersion"}
             /\ op'[u] # "prune" /\ pc'[u] \in MaintenancePcs => maintenance' = u
             /\ op'[u] = "loadLatest" /\ pc'[u] # "latest" => latest' = u
  BY <1>1, <1>3 DEF Owned
<1>5. QED
  BY <1>2, <1>4 DEF Owned, Activating, MaintenancePcs, Pruning, HoldPcs, PrunePcs

\* Going on after pruneCache keeps the account of the locks.
LEMMA AfterPruneOwned ==
    ASSUME Typed, Owned, NEW t \in Tasks, pc[t] \in {"plan", "victim"}, AfterPrune(t)
    PROVE  Owned'
<1>1. CASE op[t] \in {"switchVersion", "loadLatest"}
  BY <1>1 DEF AfterPrune, Goto, locks, store, memory, Owned, Typed, TypeOK, Activating,
      MaintenancePcs, Pruning, HoldPcs, PrunePcs
<1>2. CASE op[t] \notin {"switchVersion", "loadLatest"}
  BY <1>2, ReturnOwned DEF AfterPrune
<1>3. QED
  BY <1>1, <1>2

\* A Load that turns to LoadLatest waits for the lock "latest" first.
LEMMA CachedFailsOwned ==
    ASSUME Typed, Owned, NEW t \in Tasks,
           pc[t] \in {"current", "read", "serve", "remember"}, CachedFails(t)
    PROVE  Owned'
<1>1. CASE Return(t)
  BY <1>1, ReturnOwned
<1>2. CASE ~Return(t)
  <2>1. /\ op' = [op EXCEPT ![t] = "loadLatest"]
        /\ pc' = [pc EXCEPT ![t] = "latest"]
        /\ UNCHANGED <<latest, maintenance>>
    BY <1>2 DEF CachedFails, LoadLatestInstead, Goto
  <2>2. QED
    BY <2>1 DEF Owned, Typed, TypeOK, Activating, MaintenancePcs, Pruning, HoldPcs, PrunePcs
<1>3. QED
  BY <1>1, <1>2

\* Every step keeps the account of which operation holds which of the two locks.
LEMMA OwnedStep == ASSUME Typed, Locked, Owned, [Next]_vars PROVE Owned'
<1> USE ClientAssumption
<1> USE DEF locks, store, memory, control, Goto, Pruning, HoldPcs, PrunePcs, Typed, TypeOK,
    MaintenancePcs, Activating, Owned
<1>1. ASSUME NEW t \in Tasks, Start(t) PROVE Owned'
  <2>1. CASE StartLatest(t)
    BY <2>1 DEF StartLatest, Begin
  <2>2. CASE StartVersion(t)
    BY <2>2 DEF StartVersion, Begin, Explicit
  <2>3. CASE StartCached(t)
    BY <2>3 DEF StartCached, Begin
  <2>4. CASE StartPrune(t)
    BY <2>4 DEF StartPrune, Begin
  <2>5. QED
    BY <1>1, <2>1, <2>2, <2>3, <2>4 DEF Start
<1>2. ASSUME NEW t \in Tasks, LatestStep(t) PROVE Owned'
  <2>1. CASE TakeLatest(t)
    BY <2>1 DEF TakeLatest, VersionNamed
  <2>2. CASE ResolveLatest(t)
    BY <2>2 DEF ResolveLatest
  <2>3. CASE CompareLatest(t)
    BY <2>3 DEF CompareLatest
  <2>4. CASE TakeMaintenance(t)
    BY <2>4 DEF TakeMaintenance
  <2>5. QED
    BY <1>2, <2>1, <2>2, <2>3, <2>4 DEF LatestStep
<1>3. ASSUME NEW t \in Tasks, LoadStep(t) PROVE Owned'
  <2>1. CASE TakeLoad(t)
    BY <2>1 DEF TakeLoad, TakeVersion
  <2>2. CASE LoadExactHit(t)
    BY <2>2 DEF LoadExactHit, EndLoad
  <2>3. CASE LoadExactMiss(t)
    BY <2>3 DEF LoadExactMiss
  <2>4. CASE Fetch(t)
    BY <2>4 DEF Fetch
  <2>5. CASE FetchUnsupported(t)
    BY <2>5 DEF FetchUnsupported, Freed
  <2>6. CASE PutKeeps(t)
    BY <2>6 DEF PutKeeps, EndLoad
  <2>7. CASE PutClears(t)
    BY <2>7 DEF PutClears
  <2>8. CASE PutPublishes(t)
    BY <2>8 DEF PutPublishes, EndLoad
  <2>9. CASE PutBreaks(t)
    BY <2>9 DEF PutBreaks
  <2>10. QED
    BY <1>3, <2>1, <2>2, <2>3, <2>4, <2>5, <2>6, <2>7, <2>8, <2>9 DEF LoadStep
<1>4. ASSUME NEW t \in Tasks, PruneStep(t) PROVE Owned'
  <2>1. CASE PruneDisabled(t)
    BY <2>1, AfterPruneOwned DEF PruneDisabled
  <2>2. CASE PlanPrune(t)
    BY <2>2 DEF PlanPrune
  <2>3. CASE ListVersions(t)
    BY <2>3 DEF ListVersions
  <2>4. CASE TakeVictim(t)
    BY <2>4 DEF TakeVictim
  <2>5. CASE SpareActive(t)
    BY <2>5 DEF SpareActive
  <2>6. CASE BeginRemove(t)
    BY <2>6 DEF BeginRemove
  <2>7. CASE EndRemove(t)
    BY <2>7 DEF EndRemove
  <2>8. CASE EndPrune(t)
    BY <2>8, AfterPruneOwned DEF EndPrune
  <2>9. QED
    BY <1>4, <2>1, <2>2, <2>3, <2>4, <2>5, <2>6, <2>7, <2>8 DEF PruneStep
<1>5. ASSUME NEW t \in Tasks, ActivateStep(t) PROVE Owned'
  <2>1. CASE TakeActivate(t)
    BY <2>1 DEF TakeActivate, TakeVersion
  <2>2. CASE Reload(t)
    BY <2>2 DEF Reload
  <2>3. CASE VerifyOnDisk(t)
    BY <2>3 DEF VerifyOnDisk
  <2>4. CASE Commit(t)
    BY <2>4 DEF Commit
  <2>5. CASE Adopt(t)
    BY <2>5, ReturnOwned DEF Adopt
  <2>6. QED
    BY <1>5, <2>1, <2>2, <2>3, <2>4, <2>5 DEF ActivateStep
<1>6. ASSUME NEW t \in Tasks, CachedStep(t) PROVE Owned'
  <2>1. CASE ReadCurrent(t)
    BY <2>1 DEF ReadCurrent
  <2>2. CASE NoCurrent(t)
    <3>1. Return(t) \/ CachedFails(t)
      BY <2>2 DEF NoCurrent
    <3>2. QED
      BY <2>2, <3>1, ReturnOwned, CachedFailsOwned DEF NoCurrent
  <2>3. CASE TakeRead(t)
    BY <2>3 DEF TakeRead, TakeVersion
  <2>4. CASE Serve(t)
    BY <2>4 DEF Serve
  <2>5. CASE ServeFails(t)
    BY <2>5, CachedFailsOwned DEF ServeFails
  <2>6. CASE Remember(t)
    BY <2>6, ReturnOwned DEF Remember
  <2>7. QED
    BY <1>6, <2>1, <2>2, <2>3, <2>4, <2>5, <2>6 DEF CachedStep
<1>7. ASSUME NEW t \in Tasks, ErrorStep(t) PROVE Owned'
  BY <1>7, ReturnOwned, CachedFailsOwned DEF ErrorStep, Fail, GiveUp, CachedError
<1>8. ASSUME NEW c \in Clients, Crash(c) PROVE Owned'
  BY <1>8 DEF Crash
<1>9. ASSUME NEW v \in Versions, Rot(v) \/ Heal(v) PROVE Owned'
  BY <1>9 DEF Rot, Heal
<1>10. CASE LoseCurrent \/ UNCHANGED vars
  BY <1>10 DEF LoseCurrent, vars
<1>11. QED
  BY <1>1, <1>2, <1>3, <1>4, <1>5, <1>6, <1>7, <1>8, <1>9, <1>10 DEF Next, Step

-----------------------------------------------------------------------------
(* What a step may do to the store and to the task it belongs to. *)

\* An operation moves only itself.
LEMMA OthersStay ==
    ASSUME Typed, NEW t \in Tasks, Start(t) \/ Step(t), NEW u \in Tasks \ {t}
    PROVE  UNCHANGED <<op[u], pc[u], ver[u], keep[u], victims[u]>>
<1> USE DEF Typed, TypeOK, Goto, control
<1>1. ASSUME Return(t) PROVE UNCHANGED <<op[u], pc[u], ver[u], keep[u], victims[u]>>
  BY <1>1 DEF Return
<1>2. ASSUME AfterPrune(t) PROVE UNCHANGED <<op[u], pc[u], ver[u], keep[u], victims[u]>>
  BY <1>1, <1>2 DEF AfterPrune
<1>3. ASSUME CachedFails(t) PROVE UNCHANGED <<op[u], pc[u], ver[u], keep[u], victims[u]>>
  BY <1>1, <1>3 DEF CachedFails, LoadLatestInstead
<1>4. CASE Start(t)
  BY <1>4 DEF Start, StartLatest, StartVersion, StartCached, StartPrune, Begin
<1>5. CASE LatestStep(t)
  BY <1>5 DEF LatestStep, TakeLatest, ResolveLatest, CompareLatest, TakeMaintenance
<1>6. CASE LoadStep(t)
  BY <1>6 DEF LoadStep, TakeLoad, TakeVersion, LoadExactHit, LoadExactMiss, Fetch,
      FetchUnsupported, PutKeeps, PutBreaks, PutClears, PutPublishes, EndLoad
<1>7. CASE PruneStep(t)
  BY <1>2, <1>7 DEF PruneStep, PruneDisabled, PlanPrune, ListVersions, TakeVictim,
      SpareActive, BeginRemove, EndRemove, EndPrune
<1>8. CASE ActivateStep(t)
  BY <1>1, <1>8 DEF ActivateStep, TakeActivate, TakeVersion, Reload, VerifyOnDisk, Commit, Adopt
<1>9. CASE CachedStep(t)
  BY <1>1, <1>3, <1>9 DEF CachedStep, ReadCurrent, NoCurrent, TakeRead, TakeVersion, Serve,
      ServeFails, Remember
<1>10. CASE ErrorStep(t)
  BY <1>1, <1>3, <1>10 DEF ErrorStep, Fail, GiveUp, CachedError
<1>11. QED
  BY <1>4, <1>5, <1>6, <1>7, <1>8, <1>9, <1>10 DEF Step

\* A crash, damage and the loss of current.json stop a task or leave it alone.
LEMMA FaultsStop ==
    ASSUME Typed, NEW t \in Tasks,
           \/ \E c \in Clients : Crash(c)
           \/ \E v \in Versions : Rot(v) \/ Heal(v)
           \/ LoseCurrent
           \/ UNCHANGED vars
    PROVE  \/ UNCHANGED <<op[t], pc[t], ver[t], keep[t], victims[t]>>
           \/ op'[t] = "none" /\ pc'[t] = "idle"
<1>1. CASE \E c \in Clients : Crash(c)
  BY <1>1 DEF Crash
<1>2. CASE ~(\E c \in Clients : Crash(c))
  BY <1>2 DEF Rot, Heal, LoseCurrent, vars, control
<1>3. QED
  BY <1>1, <1>2

\* The steps by which an operation comes to, and goes on in, the part that needs
\* the lock "maintenance".
LEMMA OwnMoves ==
    ASSUME Typed, Owned, NEW t \in Tasks, Start(t) \/ Step(t), pc'[t] \in Maintaining
    PROVE  \/ StartVersion(t) /\ op'[t] \in Explicit
           \/ StartPrune(t) /\ op'[t] = "prune"
           \/ CompareLatest(t) /\ op'[t] = op[t]
           \/ /\ UNCHANGED <<op[t], ver[t]>>
              /\ pc[t] \in Maintaining
              /\ pc'[t] \in Activating =>
                    \/ pc[t] \in Activating /\ victims'[t] = victims[t]
                    \/ op[t] = "activateVersion"
                    \/ PruneDisabled(t)
                    \/ EndPrune(t) /\ victims'[t] = victims[t]
              /\ pc'[t] \in Removing \cup {"list"} =>
                    \/ PlanPrune(t) \/ ListVersions(t) \/ TakeVictim(t)
                    \/ SpareActive(t) \/ BeginRemove(t) \/ EndRemove(t)
<1> USE DEF Typed, TypeOK, Goto, control, Maintaining, MaintenancePcs, Pruning, Activating,
    Removing, HoldPcs, PrunePcs
<1> DEFINE Goal ==
           \/ StartVersion(t) /\ op'[t] \in Explicit
           \/ StartPrune(t) /\ op'[t] = "prune"
           \/ CompareLatest(t) /\ op'[t] = op[t]
           \/ /\ UNCHANGED <<op[t], ver[t]>>
              /\ pc[t] \in Maintaining
              /\ pc'[t] \in Activating =>
                    \/ pc[t] \in Activating /\ victims'[t] = victims[t]
                    \/ op[t] = "activateVersion"
                    \/ PruneDisabled(t)
                    \/ EndPrune(t) /\ victims'[t] = victims[t]
              /\ pc'[t] \in Removing \cup {"list"} =>
                    \/ PlanPrune(t) \/ ListVersions(t) \/ TakeVictim(t)
                    \/ SpareActive(t) \/ BeginRemove(t) \/ EndRemove(t)
<1>1. ASSUME Return(t) PROVE FALSE
  BY <1>1 DEF Return
<1>2. ASSUME CachedFails(t) PROVE FALSE
  BY <1>1, <1>2 DEF CachedFails, LoadLatestInstead
<1>3. ASSUME AfterPrune(t)
      PROVE  UNCHANGED <<op[t], ver[t], victims[t]>> /\ pc'[t] = "activate"
  BY <1>1, <1>3 DEF AfterPrune
<1>4. CASE Start(t)
  BY <1>4 DEF Start, StartLatest, StartVersion, StartCached, StartPrune, Begin
<1>5. CASE LatestStep(t)
  BY <1>5 DEF LatestStep, TakeLatest, ResolveLatest, CompareLatest, TakeMaintenance
<1>6. CASE LoadStep(t)
  BY <1>6 DEF LoadStep, TakeLoad, TakeVersion, LoadExactHit, LoadExactMiss, Fetch,
      FetchUnsupported, PutKeeps, PutBreaks, PutClears, PutPublishes, EndLoad
<1>7. CASE PruneStep(t)
  <2>1. CASE PruneDisabled(t)
    BY <1>3, <2>1 DEF PruneDisabled
  <2>2. CASE EndPrune(t)
    BY <1>3, <2>2 DEF EndPrune
  <2>3. CASE PlanPrune(t)
    BY <2>3 DEF PlanPrune
  <2>4. CASE ListVersions(t)
    BY <2>4 DEF ListVersions
  <2>5. CASE TakeVictim(t) \/ SpareActive(t)
    BY <2>5 DEF TakeVictim, SpareActive
  <2>6. CASE BeginRemove(t) \/ EndRemove(t)
    BY <2>6 DEF BeginRemove, EndRemove
  <2>7. QED
    BY <1>7, <2>1, <2>2, <2>3, <2>4, <2>5, <2>6 DEF PruneStep
<1>8. CASE ActivateStep(t)
  BY <1>1, <1>8 DEF ActivateStep, TakeActivate, TakeVersion, Reload, VerifyOnDisk, Commit, Adopt
<1>9. CASE CachedStep(t)
  <2>1. CASE Serve(t) \/ ReadCurrent(t) \/ TakeRead(t)
    BY <2>1 DEF ReadCurrent, TakeRead, TakeVersion, Serve
  <2>2. CASE NoCurrent(t) \/ ServeFails(t) \/ Remember(t)
    BY <1>1, <1>2, <2>2 DEF NoCurrent, ServeFails, Remember
  <2>3. QED
    BY <1>9, <2>1, <2>2 DEF CachedStep
<1>10. CASE ErrorStep(t)
  BY <1>1, <1>2, <1>10 DEF ErrorStep, Fail, GiveUp, CachedError
<1>11. QED
  BY <1>4, <1>5, <1>6, <1>7, <1>8, <1>9, <1>10 DEF Step

\* The steps that change the store.
LEMMA StoreSteps ==
    ASSUME [Next]_vars
    PROVE  \/ UNCHANGED store
           \/ \E t \in Tasks : \/ PutBreaks(t) \/ PutClears(t) \/ PutPublishes(t)
                               \/ BeginRemove(t) \/ EndRemove(t) \/ Commit(t)
           \/ \E v \in Versions : Rot(v) \/ Heal(v)
           \/ LoseCurrent
<1>1. ASSUME NEW t \in Tasks, Start(t) \/ Step(t)
      PROVE  \/ UNCHANGED store
             \/ PutBreaks(t) \/ PutClears(t) \/ PutPublishes(t)
             \/ BeginRemove(t) \/ EndRemove(t) \/ Commit(t)
  <2>1. CASE Start(t)
    BY <2>1 DEF Start, StartLatest, StartVersion, StartCached, StartPrune, Begin
  <2>2. CASE LatestStep(t)
    BY <2>2 DEF LatestStep, TakeLatest, ResolveLatest, CompareLatest, TakeMaintenance
  <2>3. CASE LoadStep(t)
    BY <2>3 DEF LoadStep, TakeLoad, TakeVersion, LoadExactHit, LoadExactMiss, Fetch,
                FetchUnsupported, PutKeeps
  <2>4. CASE PruneStep(t)
    BY <2>4 DEF PruneStep, PruneDisabled, PlanPrune, ListVersions, TakeVictim,
                SpareActive, EndPrune, AfterPrune
  <2>5. CASE ActivateStep(t)
    BY <2>5 DEF ActivateStep, TakeActivate, TakeVersion, Reload, VerifyOnDisk, Adopt
  <2>6. CASE CachedStep(t)
    BY <2>6 DEF CachedStep, ReadCurrent, NoCurrent, TakeRead, TakeVersion, Serve,
                ServeFails, Remember, CachedFails
  <2>7. CASE ErrorStep(t)
    BY <2>7 DEF ErrorStep, Fail, GiveUp, CachedError, CachedFails
  <2>8. QED
    BY <1>1, <2>1, <2>2, <2>3, <2>4, <2>5, <2>6, <2>7 DEF Step
<1>2. ASSUME NEW c \in Clients, Crash(c) PROVE UNCHANGED store
  BY <1>2 DEF Crash
<1>3. CASE UNCHANGED vars
  BY <1>3 DEF vars
<1>4. QED
  BY <1>1, <1>2, <1>3 DEF Next

-----------------------------------------------------------------------------
(* What a prune under "maintenance" leaves alone. *)

\* The lists of a prune name neither its own version nor the active one for
\* removal, although the active version was read long before.
Protected ==
    \A t \in Tasks : op[t] # "prune" =>
        /\ pc[t] = "list" =>
              /\ {ver[t], current} \ {NoVersion} \subseteq keep[t]
              /\ IsFiniteSet(keep[t]) /\ Cardinality(keep[t]) <= 2
        /\ pc[t] \in Removing => ver[t] \notin victims[t] /\ current \notin victims[t]

\* While one operation lists and removes, no other one puts or activates.
LEMMA MaintainerAlone ==
    ASSUME Owned, NEW t \in Tasks, NEW u \in Tasks,
           op[t] # "prune", pc[t] \in MaintenancePcs,
           PutBreaks(u) \/ PutClears(u) \/ PutPublishes(u) \/ Commit(u)
    PROVE  u = t /\ pc[t] \in {"put", "publish", "commit"}
<1>1. pc[u] \in {"put", "publish", "commit"}
  BY DEF PutBreaks, PutClears, PutPublishes, Commit
<1>2. op[u] # "prune" /\ pc[u] \in MaintenancePcs
  BY <1>1 DEF Owned, MaintenancePcs, Pruning, HoldPcs, PrunePcs
<1>3. QED
  BY <1>1, <1>2 DEF Owned

\* The steps that change the active version.
LEMMA CurrentSteps ==
    ASSUME [Next]_vars
    PROVE  current' = current \/ current' = NoVersion \/ \E u \in Tasks : Commit(u)
BY StoreSteps DEF store, PutBreaks, PutClears, PutPublishes, BeginRemove, EndRemove, Rot, Heal,
   LoseCurrent

\* Two versions are two names at most.
LEMMA TwoNames ==
    ASSUME NEW v, NEW w
    PROVE  IsFiniteSet({v, w} \ {NoVersion}) /\ Cardinality({v, w} \ {NoVersion}) <= 2
<1>1. IsFiniteSet({v}) /\ Cardinality({v}) = 1
  BY FS_Singleton
<1>2. IsFiniteSet({v} \cup {w}) /\ Cardinality({v} \cup {w}) <= 2
  BY <1>1, FS_AddElement
<1>3. {v, w} \ {NoVersion} \in SUBSET ({v} \cup {w})
  OBVIOUS
<1>4. /\ IsFiniteSet({v, w} \ {NoVersion})
      /\ Cardinality({v, w} \ {NoVersion}) <= Cardinality({v} \cup {w})
  BY <1>2, <1>3, FS_Subset
<1>5. Cardinality({v, w} \ {NoVersion}) \in Nat /\ Cardinality({v} \cup {w}) \in Nat
  BY <1>2, <1>4, FS_CardinalityType
<1>6. QED
  BY <1>2, <1>4, <1>5

\* Every step keeps the protected versions off the list.
LEMMA ProtectedStep ==
    ASSUME Typed, Typed', Owned, Owned', Protected, [Next]_vars
    PROVE  Protected'
<1> USE DEF Removing, PrunePcs
<1> SUFFICES ASSUME NEW t \in Tasks, op'[t] # "prune", pc'[t] \in Removing \cup {"list"}
             PROVE  /\ pc'[t] = "list" =>
                          /\ {ver'[t], current'} \ {NoVersion} \subseteq keep'[t]
                          /\ IsFiniteSet(keep'[t]) /\ Cardinality(keep'[t]) <= 2
                    /\ pc'[t] \in Removing =>
                          ver'[t] \notin victims'[t] /\ current' \notin victims'[t]
  BY DEF Protected
<1>1. NoVersion \notin victims[t]
  BY VersionAssumption DEF Typed, TypeOK, NoVersion
<1>2. CASE UNCHANGED <<op[t], pc[t], ver[t], keep[t], victims[t]>>
  <2>1. current' = current \/ current' = NoVersion
    <3>1. pc[t] \in MaintenancePcs \ {"put", "publish", "commit"}
      BY <1>2 DEF MaintenancePcs, Pruning
    <3>2. QED
      BY <1>2, <3>1, CurrentSteps, MaintainerAlone
  <2>2. QED
    BY <1>1, <1>2, <2>1 DEF Protected
<1>3. CASE Start(t) \/ Step(t)
  <2>1. /\ UNCHANGED <<op[t], ver[t]>>
        /\ \/ PlanPrune(t) \/ ListVersions(t) \/ TakeVictim(t)
           \/ SpareActive(t) \/ BeginRemove(t) \/ EndRemove(t)
    <3>1. pc'[t] \in Maintaining /\ ~StartVersion(t) /\ ~CompareLatest(t)
      BY DEF Maintaining, MaintenancePcs, Pruning, StartVersion, CompareLatest, Begin, Goto,
          Typed, TypeOK
    <3>2. QED
      BY <1>3, <3>1, OwnMoves
  <2>2. ver[t] \in Versions /\ ver[t] # NoVersion
    <3>1. pc[t] \in Pruning
      BY <2>1 DEF PlanPrune, ListVersions, TakeVictim, SpareActive, BeginRemove, EndRemove,
          Pruning
    <3>2. QED
      BY <2>1, <3>1, VersionAssumption DEF Typed, VersionNamed, NoVersion
  <2>3. CASE PlanPrune(t)
    <3>1. keep'[t] = {ver[t], current} \ {NoVersion} /\ pc'[t] = "list"
      BY <2>3 DEF PlanPrune, Goto, Typed, TypeOK
    <3>2. current' = current
      BY <2>3 DEF PlanPrune, store
    <3>3. IsFiniteSet(keep'[t]) /\ Cardinality(keep'[t]) <= 2
      <4>1. /\ IsFiniteSet({ver[t], current} \ {NoVersion})
            /\ Cardinality({ver[t], current} \ {NoVersion}) <= 2
        BY TwoNames
      <4>2. QED
        BY <3>1, <4>1
    <3>4. {ver'[t], current'} \ {NoVersion} \subseteq keep'[t]
      BY <2>1, <3>1, <3>2
    <3>5. QED
      BY <3>1, <3>3, <3>4
  <2>4. CASE ListVersions(t)
    <3>1. victims'[t] = Doomed(t) /\ pc'[t] = "victim" /\ pc[t] = "list" /\ current' = current
      BY <2>4 DEF ListVersions, Goto, Typed, TypeOK, store
    <3>2. Doomed(t) \subseteq Versions \ keep[t]
      BY DEF Doomed, Present
    <3>3. {ver[t], current} \ {NoVersion} \subseteq keep[t]
      BY <2>1, <3>1 DEF Protected
    <3>4. NoVersion \notin Versions
      BY VersionAssumption DEF NoVersion
    <3>5. QED
      BY <2>1, <2>2, <3>1, <3>2, <3>3, <3>4
  <2>5. CASE TakeVictim(t) \/ SpareActive(t) \/ BeginRemove(t) \/ EndRemove(t)
    <3>1. /\ pc[t] \in Removing
          /\ pc'[t] \in Removing
          /\ victims'[t] \subseteq victims[t]
      BY <2>5 DEF TakeVictim, SpareActive, BeginRemove, EndRemove, Goto, Typed, TypeOK
    <3>2. current' = current
      BY <2>5 DEF TakeVictim, SpareActive, BeginRemove, EndRemove, store
    <3>3. QED
      BY <2>1, <3>1, <3>2 DEF Protected
  <2>6. QED
    BY <2>1, <2>3, <2>4, <2>5
<1>4. CASE \E u \in Tasks \ {t} : Start(u) \/ Step(u)
  BY <1>2, <1>4, OthersStay
<1>5. CASE \/ \E c \in Clients : Crash(c)
           \/ \E v \in Versions : Rot(v) \/ Heal(v)
           \/ LoseCurrent
           \/ UNCHANGED vars
  BY <1>2, <1>5, FaultsStop
<1>6. QED
  BY <1>3, <1>4, <1>5 DEF Next

-----------------------------------------------------------------------------
(* The order of the modification times and what a prune leaves. *)

\* The directories are in order of time, and there are finitely many.
Ordered ==
    /\ IsFiniteSet(Present)
    /\ \A v \in Present : v \notin older[v]
    /\ \A v, w \in Present : v # w => v \in older[w] \/ w \in older[v]
    /\ \A u, v, w \in Present : u \in older[v] /\ v \in older[w] => u \in older[w]

\* Once the victims are chosen, the directories that are to stay are few enough;
\* when it is over there are no victims.
Bounded ==
    \A t \in Tasks :
        MaxVersions >= 0 /\ op[t] \in {"switchVersion", "loadLatest"} =>
            /\ pc[t] \in Removing \cup Activating =>
                  Cardinality(Present \ victims[t]) <= MaxVersions
            /\ pc[t] \in Activating => victims[t] = {}

\* A set of naturals has a least element.
LEMMA LeastRank ==
    ASSUME NEW T \in SUBSET Nat, T # {}
    PROVE  \E x \in T : \A y \in T : x <= y
<1>1. \E x \in T : \A y \in T : <<y, x>> \notin OpToRel(<, Nat)
  BY NatLessThanWellFounded, WFMin
<1>2. \A x, y \in Nat : <<y, x>> \notin OpToRel(<, Nat) => x <= y
  BY SMT DEF OpToRel
<1>3. QED
  BY <1>1, <1>2

\* A set of naturals with a bound has a greatest element.
LEMMA GreatestRank ==
    ASSUME NEW n \in Nat, NEW T \in SUBSET (0..n), T # {}
    PROVE  \E x \in T : \A y \in T : y <= x
<1> DEFINE U == {i \in 0..n : n - i \in T}
<1>1. \A x \in T : n - x \in U
  OBVIOUS
<1>2. U \in SUBSET Nat /\ U # {}
  <2>1. \A i \in U : i \in Nat
    OBVIOUS
  <2> HIDE DEF U
  <2>2. QED
    BY <1>1, <2>1
<1>3. \A i \in U : n - i \in T
  OBVIOUS
<1> HIDE DEF U
<1>4. PICK i \in U : \A j \in U : i <= j
  BY <1>2, LeastRank
<1>5. \A x \in T : x <= n - i
  BY <1>1, <1>2, <1>4
<1>6. QED
  BY <1>3, <1>4, <1>5

\* Of a set in order of time at most r have fewer than r others after them.
LEMMA FewNewest ==
    ASSUME Ordered, NEW C \in SUBSET Present, NEW r \in Nat
    PROVE  Cardinality({v \in C : Cardinality({w \in C : v \in older[w]}) < r}) <= r
<1> DEFINE After(v) == {w \in C : v \in older[w]}
           S == {v \in C : Cardinality(After(v)) < r}
<1>1. IsFiniteSet(C)
  BY FS_Subset DEF Ordered
<1>2. IsFiniteSet(S) /\ Cardinality(S) \in Nat
  <2>1. S \in SUBSET C
    OBVIOUS
  <2>2. QED
    BY <1>1, <2>1, FS_Subset, FS_CardinalityType
<1>3. \A v \in C : IsFiniteSet(After(v)) /\ Cardinality(After(v)) \in Nat
  <2>1. \A v \in C : After(v) \in SUBSET C
    OBVIOUS
  <2>2. QED
    BY <1>1, <2>1, FS_Subset, FS_CardinalityType
<1>4. CASE S = {}
  <2> SUFFICES Cardinality(S) <= r
    OBVIOUS
  <2> HIDE DEF S
  <2>1. Cardinality(S) = 0
    BY <1>4, FS_EmptySet
  <2>2. QED
    BY <2>1
<1>5. CASE S # {}
  <2> DEFINE Ranks == {Cardinality(After(v)) : v \in S}
  <2>1. Ranks \in SUBSET (0..r) /\ Ranks # {}
    <3>1. \A v \in S : Cardinality(After(v)) \in 0..r
      <4> HIDE DEF After
      <4>1. QED
        BY <1>3
    <3>2. Ranks # {}
      BY <1>5
    <3> HIDE DEF After, S
    <3>3. QED
      BY <3>1, <3>2
  <2>2. PICK k \in Ranks : \A y \in Ranks : y <= k
    <3> HIDE DEF Ranks
    <3>1. QED
      BY <2>1, GreatestRank
  <2>3. PICK m \in S : k = Cardinality(After(m))
    OBVIOUS
  <2>4. \A v \in S : Cardinality(After(v)) <= Cardinality(After(m))
    BY <2>2, <2>3
  <2>5. ASSUME NEW v \in S, v # m PROVE v \in After(m)
    <3>1. SUFFICES ASSUME v \in older[m] PROVE FALSE
      BY <2>5 DEF Ordered
    <3>2. After(m) \cup {m} \subseteq After(v)
      BY <3>1 DEF Ordered
    <3>3. m \notin After(m)
      BY DEF Ordered
    <3> HIDE DEF After
    <3>4. Cardinality(After(m) \cup {m}) = Cardinality(After(m)) + 1
      BY <1>3, <3>3, FS_AddElement
    <3>5. Cardinality(After(m) \cup {m}) <= Cardinality(After(v))
      BY <1>3, <3>2, FS_Subset
    <3>6. QED
      BY <1>3, <2>4, <3>4, <3>5
  <2>6. S \ {m} \in SUBSET After(m)
    BY <2>5
  <2>7. Cardinality(S \ {m}) <= Cardinality(After(m))
    <3> HIDE DEF After, S
    <3>1. m \in C
      BY DEF S
    <3>2. QED
      BY <1>3, <2>6, <3>1, FS_Subset
  <2>8. Cardinality(S \ {m}) = Cardinality(S) - 1
    <3> HIDE DEF S
    <3>1. QED
      BY <1>2, FS_RemoveElement
  <2>9. Cardinality(After(m)) \in Nat /\ Cardinality(After(m)) < r
    BY <1>3
  <2>10. QED
    BY <1>2, <2>7, <2>8, <2>9
<1>6. QED
  BY <1>4, <1>5

\* What Doomed leaves: the directories kept by name and the newest of the rest.
LEMMA DoomedLeaves ==
    ASSUME Ordered, NEW t \in Tasks, MaxVersions >= 0,
           IsFiniteSet(keep[t]), Cardinality(keep[t]) <= 2
    PROVE  Cardinality(Present \ Doomed(t)) <= MaxVersions
<1> DEFINE C == Present \ keep[t]
           r == MaxVersions - Cardinality(keep[t])
           S == {v \in C : Cardinality({w \in C : v \in older[w]}) < r}
<1>1. Cardinality(keep[t]) \in Nat
  BY FS_CardinalityType
<1>2. r \in Nat
  BY <1>1, VersionAssumption
<1>3. Cardinality(S) <= r
  <2>1. C \in SUBSET Present
    OBVIOUS
  <2> HIDE DEF C, r
  <2>2. QED
    BY <1>2, <2>1, FewNewest
<1>4. Present \ Doomed(t) \subseteq keep[t] \cup S
  <2>1. ASSUME NEW v \in C PROVE Cardinality({w \in C : v \in older[w]}) \in Nat
    <3>1. {w \in C : v \in older[w]} \in SUBSET Present
      OBVIOUS
    <3>2. QED
      BY <3>1, FS_Subset, FS_CardinalityType DEF Ordered
  <2>2. \A v \in C : v \notin Doomed(t) => v \in S
    BY <1>2, <2>1 DEF Doomed
  <2>3. QED
    BY <2>2
<1>5. IsFiniteSet(S) /\ Cardinality(S) \in Nat
  <2>1. S \in SUBSET Present
    OBVIOUS
  <2>2. QED
    BY <2>1, FS_Subset, FS_CardinalityType DEF Ordered
<1> HIDE DEF S
<1>6. /\ IsFiniteSet(keep[t] \cup S)
      /\ Cardinality(keep[t] \cup S) = Cardinality(keep[t]) + Cardinality(S)
                                         - Cardinality(keep[t] \cap S)
  BY <1>5, FS_Union
<1>7. Cardinality(keep[t] \cap S) \in Nat
  BY <1>5, FS_Intersection, FS_CardinalityType
<1>8. Cardinality(Present \ Doomed(t)) <= Cardinality(keep[t] \cup S)
  BY <1>4, <1>6, FS_Subset
<1>9. IsFiniteSet(Present \ Doomed(t)) /\ Cardinality(Present \ Doomed(t)) \in Nat
  BY <1>4, <1>6, FS_Subset, FS_CardinalityType
<1>10. Cardinality(keep[t] \cup S) \in Nat
  BY <1>6, FS_CardinalityType
<1>11. QED
  BY <1>1, <1>2, <1>3, <1>5, <1>6, <1>7, <1>8, <1>9, <1>10, VersionAssumption

-----------------------------------------------------------------------------
(* Every step keeps the order, and the bound once a prune has established it. *)

\* What a step may do to the directories and their modification times.
LEMMA DirectorySteps ==
    ASSUME Typed, [Next]_vars
    PROVE  \/ Present' = Present /\ older' = older
           \/ \E v \in Versions : Present' = Present \cup {v} /\ older' = Touched(v)
           \/ \E v \in Versions : Present' = Present \ {v} /\ older' = Forgotten(v)
<1> USE DEF Typed, TypeOK, Present
<1>1. CASE UNCHANGED store \/ (\E t \in Tasks : Commit(t)) \/ LoseCurrent
  BY <1>1 DEF store, Commit, LoseCurrent
<1>2. ASSUME NEW t \in Tasks, PutBreaks(t) \/ PutPublishes(t)
      PROVE  \E v \in Versions : Present' = Present \cup {v} /\ older' = Touched(v)
  <2>1. ver[t] \in Versions
    BY <1>2 DEF PutBreaks, PutPublishes, VersionNamed, Working, HoldPcs
  <2>2. older' = Touched(ver[t])
    BY <1>2 DEF PutBreaks, PutPublishes
  <2>3. Present' = Present \cup {ver[t]}
    BY <1>2, <2>1 DEF PutBreaks, PutPublishes
  <2>4. QED
    BY <2>1, <2>2, <2>3
<1>3. ASSUME NEW t \in Tasks, PutClears(t)
      PROVE  \E v \in Versions : Present' = Present \ {v} /\ older' = Forgotten(v)
  <2>1. ver[t] \in Versions
    BY <1>3 DEF PutClears, VersionNamed, Working, HoldPcs
  <2>2. older' = Forgotten(ver[t])
    BY <1>3 DEF PutClears
  <2>3. Present' = Present \ {ver[t]}
    BY <1>3, <2>1 DEF PutClears
  <2>4. QED
    BY <2>1, <2>2, <2>3
<1>4. ASSUME NEW t \in Tasks, BeginRemove(t)
      PROVE  \/ Present' = Present /\ older' = older
             \/ \E v \in Versions : Present' = Present \cup {v} /\ older' = Touched(v)
  <2>1. PICK w \in victims[t] :
          IF disk[w] = "absent"
          THEN UNCHANGED <<disk, older>>
          ELSE disk' = [disk EXCEPT ![w] = "partial"] /\ older' = Touched(w)
    BY <1>4 DEF BeginRemove
  <2>2. w \in Versions
    OBVIOUS
  <2>3. CASE disk[w] = "absent"
    BY <2>1, <2>3
  <2>4. CASE disk[w] # "absent"
    <3>1. Present' = Present \cup {w}
      BY <2>1, <2>2, <2>4
    <3>2. QED
      BY <2>1, <2>2, <2>4, <3>1
  <2>5. QED
    BY <2>3, <2>4
<1>5. ASSUME NEW t \in Tasks, EndRemove(t)
      PROVE  \E v \in Versions : Present' = Present \ {v} /\ older' = Forgotten(v)
  <2>1. PICK w \in victims[t] : /\ disk' = [disk EXCEPT ![w] = "absent"]
                                /\ older' = Forgotten(w)
    BY <1>5 DEF EndRemove
  <2>2. w \in Versions
    OBVIOUS
  <2>3. Present' = Present \ {w}
    BY <2>1, <2>2
  <2>4. QED
    BY <2>1, <2>2, <2>3
<1>6. ASSUME NEW v \in Versions, Rot(v) \/ Heal(v) PROVE Present' = Present /\ older' = older
  BY <1>6 DEF Rot, Heal
<1>7. QED
  BY <1>1, <1>2, <1>3, <1>4, <1>5, <1>6, StoreSteps

\* A directory written to becomes the newest, one removed drops out.
LEMMA OrderedStep == ASSUME Typed, Ordered, [Next]_vars PROVE Ordered'
<1>1. Present \subseteq Versions
  BY DEF Present
<1>2. CASE Present' = Present /\ older' = older
  BY <1>2 DEF Ordered
<1>3. ASSUME NEW v \in Versions, Present' = Present \cup {v}, older' = Touched(v)
      PROVE  Ordered'
  <2>1. IsFiniteSet(Present')
    BY <1>3, FS_AddElement DEF Ordered
  <2>2. /\ older'[v] = Present \ {v}
        /\ \A w \in Present \ {v} : older'[w] = older[w] \ {v}
    BY <1>1, <1>3 DEF Touched
  <2>3. QED
    BY <1>3, <2>1, <2>2 DEF Ordered
<1>4. ASSUME NEW v \in Versions, Present' = Present \ {v}, older' = Forgotten(v)
      PROVE  Ordered'
  <2>1. IsFiniteSet(Present')
    BY <1>4, FS_RemoveElement DEF Ordered
  <2>2. \A w \in Present \ {v} : older'[w] = older[w] \ {v}
    BY <1>1, <1>4 DEF Forgotten
  <2>3. QED
    BY <1>4, <2>1, <2>2 DEF Ordered
<1>5. QED
  BY <1>2, <1>3, <1>4, DirectorySteps

\* While an operation prunes or activates, no directory appears.
LEMMA NoneAppears ==
    ASSUME Typed, Owned, [Next]_vars, NEW t \in Tasks,
           op[t] # "prune", pc[t] \in Removing \cup Activating
    PROVE  Present' \subseteq Present
<1> USE DEF Typed, TypeOK, Present
<1>1. ASSUME NEW u \in Tasks, PutBreaks(u) \/ PutClears(u) \/ PutPublishes(u) PROVE FALSE
  <2>1. pc[t] \in MaintenancePcs \ {"put", "publish"}
    BY DEF Removing, PrunePcs, Activating, MaintenancePcs, Pruning, HoldPcs
  <2>2. u = t
    BY <1>1, <2>1, MaintainerAlone
  <2>3. QED
    BY <1>1, <2>1, <2>2 DEF PutBreaks, PutClears, PutPublishes
<1>2. ASSUME NEW u \in Tasks, BeginRemove(u) PROVE Present' \subseteq Present
  <2>1. PICK w \in victims[u] : \/ disk[w] = "absent" /\ disk' = disk
                                \/ disk[w] # "absent" /\ disk' = [disk EXCEPT ![w] = "partial"]
    BY <1>2 DEF BeginRemove
  <2>2. QED
    BY <2>1
<1>3. ASSUME NEW u \in Tasks, EndRemove(u) PROVE Present' \subseteq Present
  BY <1>3 DEF EndRemove
<1>4. ASSUME NEW v \in Versions, Rot(v) \/ Heal(v) PROVE Present' \subseteq Present
  BY <1>4 DEF Rot, Heal
<1>5. CASE UNCHANGED store \/ LoseCurrent \/ \E u \in Tasks : Commit(u)
  BY <1>5 DEF store, LoseCurrent, Commit
<1>6. QED
  BY <1>1, <1>2, <1>3, <1>4, <1>5, StoreSteps

\* Fewer directories are within the bound.
LEMMA FewerStill ==
    ASSUME Ordered, NEW S \in SUBSET Present, NEW T \in SUBSET S, Cardinality(S) <= MaxVersions
    PROVE  Cardinality(T) <= MaxVersions
<1>1. IsFiniteSet(S)
  BY FS_Subset DEF Ordered
<1>2. IsFiniteSet(T) /\ Cardinality(T) <= Cardinality(S)
  BY <1>1, FS_Subset
<1>3. Cardinality(S) \in Nat /\ Cardinality(T) \in Nat
  BY <1>1, <1>2, FS_CardinalityType
<1>4. QED
  BY <1>2, <1>3, VersionAssumption

\* Every step keeps the bound.
LEMMA BoundedStep ==
    ASSUME Typed, Owned, Protected, Ordered, Bounded, [Next]_vars
    PROVE  Bounded'
<1> SUFFICES ASSUME NEW t \in Tasks, MaxVersions >= 0,
                    op'[t] \in {"switchVersion", "loadLatest"},
                    pc'[t] \in Removing \cup Activating
             PROVE  /\ Cardinality(Present' \ victims'[t]) <= MaxVersions
                    /\ pc'[t] \in Activating => victims'[t] = {}
  BY DEF Bounded
<1>1. ASSUME op[t] \in {"switchVersion", "loadLatest"},
             pc[t] \in Removing \cup Activating,
             Present' \ victims'[t] \subseteq Present \ victims[t]
      PROVE  Cardinality(Present' \ victims'[t]) <= MaxVersions
  <2>1. Cardinality(Present \ victims[t]) <= MaxVersions
    BY <1>1 DEF Bounded
  <2>2. QED
    BY <1>1, <2>1, FewerStill
<1>2. CASE UNCHANGED <<op[t], pc[t], ver[t], keep[t], victims[t]>>
  <2>1. Present' \subseteq Present
    BY <1>2, NoneAppears
  <2>2. QED
    BY <1>1, <1>2, <2>1 DEF Bounded
<1>3. CASE Start(t) \/ Step(t)
  <2> USE DEF Typed, TypeOK, Goto, Activating, Removing, PrunePcs
  <2>1. /\ op[t] = op'[t]
        /\ pc'[t] \in Activating =>
              \/ pc[t] \in Activating /\ victims'[t] = victims[t]
              \/ EndPrune(t) /\ victims'[t] = victims[t]
        /\ pc'[t] \in Removing =>
              \/ ListVersions(t) \/ TakeVictim(t) \/ SpareActive(t)
              \/ BeginRemove(t) \/ EndRemove(t)
    <3>1. pc'[t] \in Maintaining
      BY DEF Maintaining, MaintenancePcs, Pruning, HoldPcs
    <3>2. ~StartVersion(t) /\ ~CompareLatest(t)
      BY DEF StartVersion, Begin, CompareLatest
    <3>3. ~PruneDisabled(t) /\ (PlanPrune(t) => pc'[t] = "list")
      BY VersionAssumption DEF PruneDisabled, PlanPrune
    <3>4. QED
      BY <1>3, <3>1, <3>2, <3>3, OwnMoves
  <2>2. CASE pc'[t] \in Activating
    <3>1. pc[t] \in Removing \cup Activating /\ victims'[t] = victims[t] /\ victims[t] = {}
      BY <2>1, <2>2 DEF EndPrune, Bounded
    <3>2. Present' \subseteq Present
      BY <2>1, <3>1, NoneAppears
    <3>3. QED
      BY <1>1, <2>1, <3>1, <3>2
  <2>3. CASE ListVersions(t)
    <3>1. victims'[t] = Doomed(t) /\ pc[t] = "list" /\ pc'[t] = "victim" /\ disk' = disk
      BY <2>3 DEF ListVersions, store
    <3>2. IsFiniteSet(keep[t]) /\ Cardinality(keep[t]) <= 2
      BY <2>1, <3>1 DEF Protected
    <3>3. Cardinality(Present \ Doomed(t)) <= MaxVersions
      BY <3>2, DoomedLeaves
    <3>4. Present' = Present
      BY <3>1 DEF Present
    <3>5. QED
      BY <3>1, <3>3, <3>4
  <2>4. CASE TakeVictim(t) \/ BeginRemove(t)
    <3>1. pc[t] \in Removing /\ pc'[t] \in Removing /\ victims'[t] = victims[t]
      BY <2>4 DEF TakeVictim, BeginRemove
    <3>2. Present' \subseteq Present
      BY <2>1, <3>1, NoneAppears
    <3>3. QED
      BY <1>1, <2>1, <3>1, <3>2
  <2>5. CASE SpareActive(t)
    BY <2>1, <2>5 DEF SpareActive, Protected
  <2>6. CASE EndRemove(t)
    <3>1. PICK w \in victims[t] : /\ disk' = [disk EXCEPT ![w] = "absent"]
                                  /\ victims' = [victims EXCEPT ![t] = @ \ {w}]
      BY <2>6 DEF EndRemove
    <3>2. pc[t] \in Removing /\ pc'[t] \in Removing
      BY <2>6 DEF EndRemove
    <3>3. Present' = Present \ {w} /\ victims'[t] = victims[t] \ {w}
      BY <3>1 DEF Present
    <3>4. QED
      BY <1>1, <2>1, <3>2, <3>3
  <2>7. QED
    BY <2>1, <2>2, <2>3, <2>4, <2>5, <2>6
<1>4. CASE \E u \in Tasks \ {t} : Start(u) \/ Step(u)
  BY <1>2, <1>4, OthersStay
<1>5. CASE \/ \E c \in Clients : Crash(c)
           \/ \E v \in Versions : Rot(v) \/ Heal(v)
           \/ LoseCurrent
           \/ UNCHANGED vars
  BY <1>2, <1>5, FaultsStop
<1>6. QED
  BY <1>3, <1>4, <1>5 DEF Next

-----------------------------------------------------------------------------
(* What LoadLatest knows of the active version when nobody switches it. *)

\* No caller asks for a version to be active.
OnlyUpdates == \A t \in Tasks : Ops[t] \cap {"switchVersion", "activateVersion"} = {}

\* Past its comparison, an update works on a version that is not below the
\* active one.
Updating ==
    \A t \in Tasks :
        op[t] = "loadLatest" /\ pc[t] \in Maintaining => current <= ver[t]

\* Versions are positive numbers and NoVersion is 0.
LEMMA Numbers ==
    /\ \A v \in Versions : v \in Nat /\ 0 <= v
    /\ \A v \in Versions \cup {NoVersion} : v \in Nat
BY VersionAssumption DEF NoVersion

\* The active version is where the comparison has seen it.
LEMMA UpdatingStep ==
    ASSUME OnlyUpdates, Typed, Owned, Owned', Updating, [Next]_vars
    PROVE  Updating'
<1> USE DEF Typed, TypeOK, Goto
<1> SUFFICES ASSUME NEW t \in Tasks, op'[t] = "loadLatest", pc'[t] \in Maintaining
             PROVE  current' <= ver'[t]
  BY DEF Updating
<1>1. ASSUME op[t] = "loadLatest", pc[t] \in Maintaining, ver'[t] = ver[t]
      PROVE  current' <= ver'[t]
  <2>1. current <= ver[t] /\ ver[t] \in Versions
    <3>1. pc[t] \in Working \cup Pruning
      BY <1>1 DEF Maintaining, MaintenancePcs, Working
    <3>2. QED
      BY <1>1, <3>1 DEF Updating, VersionNamed
  <2>2. ASSUME NEW u \in Tasks, Commit(u) PROVE current' <= ver[t]
    <3>1. op[u] = "loadLatest" /\ pc[u] = "commit"
      BY <2>2 DEF Commit, Owned, Activating, OnlyUpdates
    <3>2. u = t
      <4>1. pc[t] # "latest" /\ pc[u] # "latest"
        BY <1>1, <3>1 DEF Maintaining, MaintenancePcs, Pruning, HoldPcs, PrunePcs
      <4>2. QED
        BY <1>1, <3>1, <4>1 DEF Owned
    <3>3. current' = ver[t] /\ ver[t] \in Nat
      BY <2>1, <2>2, <3>2, VersionAssumption DEF Commit
    <3>4. QED
      BY <3>3
  <2>3. CASE current' = current \/ current' = NoVersion
    <3>1. ver[t] \in Nat /\ 0 <= ver[t]
      BY <2>1, Numbers
    <3>2. QED
      BY <1>1, <2>1, <2>3, <3>1 DEF NoVersion
  <2>4. QED
    BY <1>1, <2>2, <2>3, CurrentSteps
<1>2. CASE UNCHANGED <<op[t], pc[t], ver[t], keep[t], victims[t]>>
  BY <1>1, <1>2
<1>3. CASE Start(t) \/ Step(t)
  <2>1. CASE CompareLatest(t)
    <3>1. /\ ver'[t] = ver[t] /\ current' = current
          /\ pc[t] = "compare"
          /\ ~(ver[t] < KnownCurrent(ClientOf[t]))
      BY <2>1 DEF CompareLatest, store, Maintaining, MaintenancePcs, Pruning, HoldPcs, PrunePcs
    <3>2. ver[t] \in Nat
      BY <3>1, VersionAssumption DEF VersionNamed, Working
    <3>3. current \in Nat /\ memCurrent[ClientOf[t]] \in Nat
      BY ClientAssumption, Numbers
    <3>4. KnownCurrent(ClientOf[t]) \in Nat /\ current <= KnownCurrent(ClientOf[t])
      BY <3>3 DEF KnownCurrent, NoVersion
    <3>5. QED
      BY <3>1, <3>2, <3>3, <3>4
  <2>2. CASE ~CompareLatest(t)
    <3>1. op'[t] \notin Explicit /\ op'[t] # "prune"
      BY DEF Explicit
    <3>2. UNCHANGED <<op[t], ver[t]>> /\ pc[t] \in Maintaining
      BY <1>3, <2>2, <3>1, OwnMoves
    <3>3. QED
      BY <1>1, <3>2
  <2>3. QED
    BY <2>1, <2>2
<1>4. CASE \E u \in Tasks \ {t} : Start(u) \/ Step(u)
  BY <1>2, <1>4, OthersStay
<1>5. CASE \/ \E c \in Clients : Crash(c)
           \/ \E v \in Versions : Rot(v) \/ Heal(v)
           \/ LoseCurrent
           \/ UNCHANGED vars
  BY <1>2, <1>5, FaultsStop
<1>6. QED
  BY <1>3, <1>4, <1>5 DEF Next

\* The step from "commit" to "adopt" is the commit of that task.
LEMMA CommitMoves ==
    ASSUME Typed, [Next]_vars, NEW t \in Tasks, pc[t] = "commit", pc'[t] = "adopt"
    PROVE  Commit(t)
<1> USE DEF Typed, TypeOK, Goto
<1>1. Start(t) \/ Step(t)
  BY OthersStay, FaultsStop DEF Next
<1>2. ~Start(t) /\ ~LatestStep(t) /\ ~LoadStep(t)
  BY DEF Start, StartLatest, StartVersion, StartCached, StartPrune, Begin,
      LatestStep, TakeLatest, ResolveLatest, CompareLatest, TakeMaintenance,
      LoadStep, TakeLoad, TakeVersion, LoadExactHit, LoadExactMiss, Fetch,
      FetchUnsupported, PutKeeps, PutBreaks, PutClears, PutPublishes
<1>3. ~PruneStep(t) /\ ~CachedStep(t)
  BY DEF PruneStep, PruneDisabled, PlanPrune, ListVersions, TakeVictim, SpareActive,
      BeginRemove, EndRemove, EndPrune, CachedStep, ReadCurrent, NoCurrent, TakeRead,
      TakeVersion, Serve, ServeFails, Remember
<1>4. ~ErrorStep(t)
  BY DEF ErrorStep, Fail, GiveUp, CachedError, Return, WaitPcs
<1>5. ActivateStep(t) => Commit(t)
  BY DEF ActivateStep, TakeActivate, TakeVersion, Reload, VerifyOnDisk, Adopt
<1>6. QED
  BY <1>1, <1>2, <1>3, <1>4, <1>5 DEF Step

-----------------------------------------------------------------------------
(* What memory and activation rely on when nothing is pruned. *)

\* A version in memory, or just verified, has a package unless something outside
\* the program made it unreadable.
Backed ==
    /\ \A v \in Versions : disk[v] = "unreadable" => v \in rotted
    /\ \A c \in Clients : \A v \in mem[c] : disk[v] = "valid" \/ v \in rotted
    /\ \A t \in Tasks : pc[t] = "verify" => disk[ver[t]] = "valid" \/ ver[t] \in rotted
    /\ \A t \in Tasks : pc[t] \notin Removing \cup {"list"}

\* What comes into memory has just been read from disk or put there.
LEMMA MemorySteps ==
    ASSUME Typed, [Next]_vars, NEW c \in Clients, NEW v \in Versions, v \in mem'[c]
    PROVE  v \in mem[c] \/ disk[v] = "valid" \/ disk'[v] = "valid"
<1> USE DEF Typed, TypeOK, memory
<1> DEFINE Goal == v \in mem[c] \/ disk[v] = "valid" \/ disk'[v] = "valid"
<1>1. ASSUME NEW t \in Tasks, mem' = Remembered(ClientOf[t], ver[t]), ver[t] \in Versions,
             CacheHit(ClientOf[t], ver[t]) \/ disk[ver[t]] = "valid" \/ disk'[ver[t]] = "valid"
      PROVE  Goal
  <2>1. v \in mem[c] \/ (ClientOf[t] = c /\ v = ver[t])
    BY <1>1 DEF Remembered
  <2>2. QED
    BY <1>1, <2>1 DEF CacheHit
<1>2. ASSUME NEW t \in Tasks, LoadStep(t) PROVE Goal
  <2>1. CASE LoadExactHit(t) \/ PutKeeps(t) \/ PutPublishes(t)
    <3>1. ver[t] \in Versions
      BY <2>1 DEF LoadExactHit, PutKeeps, PutPublishes, VersionNamed, Working, HoldPcs
    <3>2. mem' = Remembered(ClientOf[t], ver[t])
      BY <2>1 DEF LoadExactHit, PutKeeps, PutPublishes, EndLoad
    <3>3. CacheHit(ClientOf[t], ver[t]) \/ disk[ver[t]] = "valid" \/ disk'[ver[t]] = "valid"
      BY <2>1, <3>1 DEF LoadExactHit, PutKeeps, PutPublishes
    <3>4. QED
      BY <1>1, <3>1, <3>2, <3>3
  <2>2. CASE ~(LoadExactHit(t) \/ PutKeeps(t) \/ PutPublishes(t))
    BY <1>2, <2>2 DEF LoadStep, TakeLoad, TakeVersion, LoadExactMiss, Fetch, FetchUnsupported,
        PutBreaks, PutClears
  <2>3. QED
    BY <2>1, <2>2
<1>3. ASSUME NEW t \in Tasks, ActivateStep(t) \/ CachedStep(t) PROVE Goal
  <2>1. CASE Reload(t) \/ Serve(t)
    <3>1. ver[t] \in Versions
      BY <2>1 DEF Reload, Serve, VersionNamed, Working, HoldPcs
    <3>2. mem' = Remembered(ClientOf[t], ver[t]) /\ CacheHit(ClientOf[t], ver[t])
      BY <2>1 DEF Reload, Serve
    <3>3. QED
      BY <1>1, <3>1, <3>2
  <2>2. CASE ~(Reload(t) \/ Serve(t))
    BY <1>3, <2>2 DEF ActivateStep, TakeActivate, TakeVersion, VerifyOnDisk, Commit, Adopt,
        CachedStep, ReadCurrent, NoCurrent, TakeRead, ServeFails, Remember, CachedFails
  <2>3. QED
    BY <2>1, <2>2
<1>4. ASSUME NEW t \in Tasks, Start(t) \/ LatestStep(t) \/ ErrorStep(t) PROVE Goal
  BY <1>4 DEF Start, StartLatest, StartVersion, StartCached, StartPrune, Begin,
      LatestStep, TakeLatest, ResolveLatest, CompareLatest, TakeMaintenance,
      ErrorStep, Fail, GiveUp, CachedError, CachedFails
<1>5. ASSUME NEW t \in Tasks, PruneStep(t) PROVE Goal
  BY <1>5 DEF PruneStep, PruneDisabled, PlanPrune, ListVersions, TakeVictim, SpareActive,
      BeginRemove, EndRemove, EndPrune, AfterPrune
<1>6. ASSUME NEW k \in Clients, Crash(k) PROVE Goal
  BY <1>6 DEF Crash
<1>7. ASSUME NEW w \in Versions, Rot(w) \/ Heal(w) PROVE Goal
  BY <1>7 DEF Rot, Heal
<1>8. CASE LoseCurrent \/ UNCHANGED vars
  BY <1>8 DEF LoseCurrent, vars
<1>9. QED
  BY <1>2, <1>3, <1>4, <1>5, <1>6, <1>7, <1>8 DEF Next, Step

\* An operation comes to SetCurrent's check from loadCached.
LEMMA VerifyMoves ==
    ASSUME Typed, NEW t \in Tasks, Start(t) \/ Step(t), pc'[t] = "verify"
    PROVE  Reload(t)
<1> USE DEF Typed, TypeOK, Goto, control
<1>1. ~Return(t) /\ ~AfterPrune(t) /\ ~CachedFails(t)
  BY DEF Return, AfterPrune, CachedFails, LoadLatestInstead
<1>2. ~Start(t) /\ ~LatestStep(t)
  BY DEF Start, StartLatest, StartVersion, StartCached, StartPrune, Begin,
      LatestStep, TakeLatest, ResolveLatest, CompareLatest, TakeMaintenance
<1>3. ~LoadStep(t)
  BY DEF LoadStep, TakeLoad, TakeVersion, LoadExactHit, LoadExactMiss, Fetch,
      FetchUnsupported, PutKeeps, PutBreaks, PutClears, PutPublishes, EndLoad
<1>4. ~PruneStep(t)
  BY <1>1 DEF PruneStep, PruneDisabled, PlanPrune, ListVersions, TakeVictim, SpareActive,
      BeginRemove, EndRemove, EndPrune
<1>5. ~CachedStep(t) /\ ~ErrorStep(t)
  BY <1>1 DEF CachedStep, ReadCurrent, NoCurrent, TakeRead,
      TakeVersion, Serve, ServeFails, Remember, ErrorStep, Fail, GiveUp, CachedError
<1>6. ActivateStep(t) => Reload(t)
  BY <1>1 DEF ActivateStep, TakeActivate, TakeVersion, VerifyOnDisk, Commit, Adopt
<1>7. QED
  BY <1>2, <1>3, <1>4, <1>5, <1>6 DEF Step

\* Without pruning no package goes.
LEMMA BackedStep ==
    ASSUME MaxVersions < 0, Typed, Typed', Owned, Backed, [Next]_vars
    PROVE  Backed'
<1> DEFINE Usable(v) == disk[v] = "valid" \/ v \in rotted
           UsableThen(v) == disk'[v] = "valid" \/ v \in rotted'
<1> USE DEF Typed, TypeOK
<1>1. \A v \in Versions : (Usable(v) => UsableThen(v))
                             /\ (disk'[v] = "unreadable" => v \in rotted')
  <2>1. ASSUME NEW t \in Tasks PROVE ~BeginRemove(t) /\ ~EndRemove(t)
    BY DEF BeginRemove, EndRemove, Backed, Removing, PrunePcs
  <2>2. ASSUME NEW t \in Tasks, PutBreaks(t) \/ PutClears(t) \/ PutPublishes(t),
               NEW v \in Versions
        PROVE  (Usable(v) => UsableThen(v)) /\ (disk'[v] = "unreadable" => v \in rotted')
    <3>1. ver[t] \in Versions
      BY <2>2 DEF PutBreaks, PutClears, PutPublishes, VersionNamed, Working, HoldPcs
    <3>2. QED
      BY <2>2, <3>1 DEF PutBreaks, PutClears, PutPublishes, Backed
  <2>3. ASSUME NEW w \in Versions, Rot(w) \/ Heal(w), NEW v \in Versions
        PROVE  (Usable(v) => UsableThen(v)) /\ (disk'[v] = "unreadable" => v \in rotted')
    BY <2>3 DEF Rot, Heal, Backed
  <2>4. CASE UNCHANGED store \/ LoseCurrent \/ \E t \in Tasks : Commit(t)
    BY <2>4 DEF store, LoseCurrent, Commit, Backed
  <2>5. QED
    BY <2>1, <2>2, <2>3, <2>4, StoreSteps
<1>2. ASSUME NEW c \in Clients, NEW v \in Versions, v \in mem'[c] PROVE UsableThen(v)
  <2>1. v \in mem[c] \/ disk[v] = "valid" \/ disk'[v] = "valid"
    BY <1>2, MemorySteps
  <2>2. QED
    BY <1>1, <2>1 DEF Backed
<1>3. ASSUME NEW t \in Tasks
      PROVE  /\ pc'[t] = "verify" => UsableThen(ver'[t])
             /\ pc'[t] \notin Removing \cup {"list"}
  <2>1. CASE UNCHANGED <<op[t], pc[t], ver[t], keep[t], victims[t]>>
    <3>1. pc[t] = "verify" => ver[t] \in Versions
      BY DEF VersionNamed, Working, HoldPcs
    <3>2. QED
      BY <1>1, <2>1, <3>1 DEF Backed
  <2>2. CASE Start(t) \/ Step(t)
    <3>1. ASSUME pc'[t] = "verify" PROVE UsableThen(ver'[t])
      <4>1. Reload(t)
        BY <2>2, <3>1, VerifyMoves
      <4>2. ver'[t] = ver[t] /\ ver[t] \in Versions /\ CacheHit(ClientOf[t], ver[t])
        BY <4>1 DEF Reload, VersionNamed, Working, HoldPcs
      <4>3. Usable(ver[t])
        BY <4>2, ClientAssumption DEF CacheHit, Backed
      <4>4. QED
        BY <1>1, <4>2, <4>3
    <3>2. ASSUME pc'[t] \in Removing \cup {"list"} PROVE FALSE
      <4>1. ~PlanPrune(t) /\ ~ListVersions(t) /\ ~TakeVictim(t) /\ ~SpareActive(t)
            /\ ~BeginRemove(t) /\ ~EndRemove(t)
        BY VersionAssumption DEF PlanPrune, ListVersions, TakeVictim, SpareActive, BeginRemove,
            EndRemove, Backed, Removing, PrunePcs
      <4>2. ~StartVersion(t) /\ ~CompareLatest(t) /\ ~StartPrune(t)
        BY <3>2 DEF StartVersion, StartPrune, Begin, CompareLatest, Goto, Removing, PrunePcs
      <4>3. pc'[t] \in Maintaining
        BY <3>2 DEF Maintaining, MaintenancePcs, Pruning, Removing, PrunePcs
      <4>4. QED
        BY <2>2, <3>2, <4>1, <4>2, <4>3, OwnMoves
    <3>3. QED
      BY <3>1, <3>2
  <2>3. CASE \E u \in Tasks \ {t} : Start(u) \/ Step(u)
    BY <2>1, <2>3, OthersStay
  <2>4. CASE \/ \E c \in Clients : Crash(c)
             \/ \E v \in Versions : Rot(v) \/ Heal(v)
             \/ LoseCurrent
             \/ UNCHANGED vars
    <3>1. CASE op'[t] = "none" /\ pc'[t] = "idle"
      BY <3>1 DEF Removing, PrunePcs
    <3>2. QED
      BY <2>1, <2>4, <3>1, FaultsStop
  <2>5. QED
    BY <2>2, <2>3, <2>4 DEF Next
<1>4. QED
  BY <1>1, <1>2, <1>3 DEF Backed

-----------------------------------------------------------------------------
(* The theorems. *)

\* An empty cache directory and no operation running satisfy the invariant.
LEMMA InitIInv == ASSUME Init PROVE IInv
<1> USE ClientAssumption, VersionAssumption DEF Init
<1>1. Typed
  BY DEF Typed, TypeOK, VersionNamed, Working, Pruning, Pcs, WaitPcs, HoldPcs, PrunePcs,
         OtherPcs, OpNames, Explicit, Packages, NoVersion
<1>2. Locked
  BY DEF Locked, LatestHeld, MaintenanceHeld, VersionHeld, HolderHolds, OneVersionLock,
         HoldPcs
<1>3. Guarded
  BY DEF Guarded, RemovalSafe, CommitReady, PlaceFree, SnapshotStable, CurrentIntact
<1>4. QED
  BY <1>1, <1>2, <1>3 DEF IInv

\* The inductive invariant: types, who holds which lock, and what the holder of
\* a version lock may rely on.
THEOREM Inductive == Spec => []IInv
<1>1. IInv /\ [Next]_vars => IInv'
  BY TypeStep, LockStep, GuardStep DEF IInv
<1>2. QED
  BY InitIInv, <1>1, PTL DEF Spec

\* Every variable keeps its type, for every set of clients, tasks and versions.
THEOREM TypeCorrect == Spec => []TypeOK
<1>1. IInv => TypeOK
  BY DEF IInv, Typed
<1>2. QED
  BY Inductive, <1>1, PTL

\* The active pointer of current.json never dangles: SetCurrent checks the
\* package under its version lock and Prune reads the pointer again under it.
THEOREM ActivePackage == Spec => []CurrentIntact
<1>1. IInv => CurrentIntact
  BY DEF IInv, Guarded
<1>2. QED
  BY Inductive, <1>1, PTL

\* A version is downloaded and installed by one task at a time, and Put always
\* renames onto a free name.
THEOREM OneInstaller == Spec => []InstallAlone
<1>1. ASSUME IInv PROVE InstallAlone
  <2>1. \A t, u \in Tasks :
          /\ t # u
          /\ pc[t] \in {"fetch", "put", "publish"}
          /\ pc[u] \in {"fetch", "put", "publish"}
          => ver[t] # ver[u]
    BY <1>1 DEF IInv, Locked, HolderHolds, HoldPcs
  <2>2. PlaceFree
    BY <1>1 DEF IInv, Guarded
  <2>3. QED
    BY <2>1, <2>2 DEF InstallAlone, PlaceFree
<1>2. QED
  BY Inductive, <1>1, PTL

\* A client never replaces a snapshot it holds in memory.
THEOREM SnapshotIdentity == Spec => []SnapshotStable
<1>1. IInv => SnapshotStable
  BY DEF IInv, Guarded
<1>2. QED
  BY Inductive, <1>1, PTL

\* The locks latest, maintenance and version:v are taken in this order, a task
\* never holds two version locks, and so some running task can always go on.
THEOREM DeadlockFree == Spec => []NoDeadlock
<1>1. ASSUME IInv, NEW r \in Tasks, pc[r] # "idle"
      PROVE  \E t \in Tasks : pc[t] # "idle" /\ ~Blocked(t)
  <2> USE <1>1, ClientAssumption DEF IInv, Typed, TypeOK, VersionNamed, Locked
  <2>1. CASE \E v \in Versions : versionLock[v] # NoTask
    <3>1. PICK v \in Versions : versionLock[v] # NoTask
      BY <2>1
    <3>2. versionLock[v] \in Tasks
      BY <3>1
    <3>3. pc[versionLock[v]] \in HoldPcs \cup PrunePcs
      BY <3>2 DEF VersionHeld
    <3>4. pc[versionLock[v]] # "idle" /\ ~Blocked(versionLock[v])
      BY <3>3 DEF HoldPcs, PrunePcs, Blocked
    <3>5. QED
      BY <3>2, <3>4
  <2>2. CASE (\A v \in Versions : versionLock[v] = NoTask) /\ maintenance # NoTask
    <3>1. maintenance \in Tasks /\ pc[maintenance] \in MaintenancePcs
      BY <2>2 DEF MaintenanceHeld
    <3>2. pc[maintenance] # "idle" /\ ~Blocked(maintenance)
      BY <2>2, <3>1 DEF MaintenancePcs, HoldPcs, PrunePcs, Pruning, Working, Blocked
    <3>3. QED
      BY <3>1, <3>2
  <2>3. CASE /\ \A v \in Versions : versionLock[v] = NoTask
             /\ maintenance = NoTask
             /\ latest # NoTask
    <3>1. latest \in Tasks /\ pc[latest] \notin {"idle", "latest"}
      BY <2>3 DEF LatestHeld
    <3>2. ~Blocked(latest)
      BY <2>3, <3>1 DEF Blocked, Working
    <3>3. QED
      BY <3>1, <3>2
  <2>4. CASE /\ \A v \in Versions : versionLock[v] = NoTask
             /\ maintenance = NoTask
             /\ latest = NoTask
    BY <2>4 DEF Blocked, Working
  <2>5. QED
    BY <2>1, <2>2, <2>3, <2>4
<1>2. IInv => NoDeadlock
  BY <1>1 DEF NoDeadlock
<1>3. QED
  BY Inductive, <1>2, PTL

\* The operations implement CachePromise: seen through the packages a reader can
\* count on, every step installs, removes or activates one version.
THEOREM Refinement == Spec => KeepsPromise
<1> DEFINE usable == {v \in Versions : disk[v] = "valid"} \cup rotted
<1>1. ASSUME Init PROVE Promise!Init
  BY <1>1 DEF Init, Promise!Init
<1>2. ASSUME IInv, [Next]_vars PROVE [Promise!Next]_(Promise!vars)
  <2> USE <1>2 DEF IInv, Typed, TypeOK, store
  <2>1. ASSUME UNCHANGED store PROVE UNCHANGED Promise!vars
    BY <2>1 DEF Promise!vars
  <2>2. ASSUME NEW t \in Tasks, PutBreaks(t) \/ PutClears(t) PROVE UNCHANGED Promise!vars
    BY <2>2 DEF PutBreaks, PutClears, Promise!vars, VersionNamed, Working, HoldPcs
  <2>3. ASSUME NEW t \in Tasks, PutPublishes(t) PROVE [Promise!Next]_(Promise!vars)
    <3>1. ver[t] \in Versions
      BY <2>3 DEF PutPublishes, VersionNamed, Working, HoldPcs
    <3>2. usable' = usable \cup {ver[t]} /\ current' = current
      BY <2>3, <3>1 DEF PutPublishes
    <3>3. QED
      BY <3>1, <3>2 DEF Promise!Next, Promise!Install, Promise!vars
  <2>4. ASSUME NEW t \in Tasks, BeginRemove(t) PROVE [Promise!Next]_(Promise!vars)
    <3>1. PICK w \in victims[t] : /\ current # w
                                  /\ disk' \in {disk, [disk EXCEPT ![w] = "partial"]}
      BY <2>4 DEF BeginRemove
    <3>2. w \in Versions /\ current' = current /\ rotted' = rotted
      BY <2>4, <3>1 DEF BeginRemove
    <3>3. usable' = usable \/ usable' = usable \ {w}
      BY <3>1, <3>2
    <3>4. QED
      BY <3>1, <3>2, <3>3 DEF Promise!Next, Promise!Remove, Promise!vars
  <2>5. ASSUME NEW t \in Tasks, EndRemove(t) PROVE [Promise!Next]_(Promise!vars)
    <3>1. PICK w \in victims[t] : /\ versionLock[w] = t
                                  /\ disk' = [disk EXCEPT ![w] = "absent"]
      BY <2>5 DEF EndRemove
    <3>2. w \in Versions /\ current' = current /\ rotted' = rotted /\ current # w
      BY <2>5, <3>1 DEF EndRemove, Guarded, RemovalSafe
    <3>3. usable' = usable \/ usable' = usable \ {w}
      BY <3>1, <3>2
    <3>4. QED
      BY <3>2, <3>3 DEF Promise!Next, Promise!Remove, Promise!vars
  <2>6. ASSUME NEW t \in Tasks, Commit(t) PROVE [Promise!Next]_(Promise!vars)
    <3>1. ver[t] \in usable /\ ver[t] \in Versions
      BY <2>6 DEF Commit, Guarded, CommitReady, VersionNamed, Working, HoldPcs
    <3>2. current' = ver[t] /\ usable' = usable
      BY <2>6 DEF Commit
    <3>3. QED
      BY <3>1, <3>2 DEF Promise!Next, Promise!Activate, Promise!vars
  <2>7. ASSUME NEW v \in Versions, Rot(v) PROVE UNCHANGED Promise!vars
    BY <2>7 DEF Rot, Promise!vars
  <2>8. ASSUME NEW v \in Versions, Heal(v) PROVE [Promise!Next]_(Promise!vars)
    <3>1. usable' = usable \cup {v} /\ current' = current
      BY <2>8 DEF Heal
    <3>2. QED
      BY <3>1 DEF Promise!Next, Promise!Install, Promise!vars
  <2>9. CASE LoseCurrent
    BY <2>9 DEF LoseCurrent, Promise!Next, Promise!Deactivate, Promise!vars
  <2>10. QED
    BY <2>1, <2>2, <2>3, <2>4, <2>5, <2>6, <2>7, <2>8, <2>9, StoreSteps
<1>3. QED
  BY Inductive, <1>1, <1>2, PTL DEF Spec, KeepsPromise, Promise!Spec

\* The inductive invariant with what the lock "maintenance" gives to pruning and
\* activation.
MInv == IInv /\ Owned /\ Protected /\ Ordered /\ Bounded

\* Types, locks and what their holders rely on, with the lists of a prune and the
\* order of the directories.
THEOREM MaintenanceInductive == Spec => []MInv
<1>1. Init => MInv
  <2> SUFFICES ASSUME Init PROVE MInv
    OBVIOUS
  <2>1. IInv
    BY InitIInv
  <2>2. Owned /\ Protected /\ Bounded
    BY DEF Init, Owned, Protected, Bounded, Removing, Activating, MaintenancePcs, Pruning,
        HoldPcs, PrunePcs
  <2>3. Present = {}
    BY DEF Init, Present
  <2>4. Ordered
    BY <2>3, FS_EmptySet DEF Ordered
  <2>5. QED
    BY <2>1, <2>2, <2>4 DEF MInv
<1>2. MInv /\ [Next]_vars => MInv'
  <2> SUFFICES ASSUME MInv, [Next]_vars PROVE MInv'
    OBVIOUS
  <2>1. Typed /\ Locked /\ Guarded /\ Owned /\ Protected /\ Ordered /\ Bounded
    BY DEF MInv, IInv
  <2>2. Typed' /\ Locked' /\ Guarded'
    BY <2>1, TypeStep, LockStep, GuardStep
  <2>3. Owned'
    BY <2>1, OwnedStep
  <2>4. Protected'
    BY <2>1, <2>2, <2>3, ProtectedStep
  <2>5. Ordered' /\ Bounded'
    BY <2>1, OrderedStep, BoundedStep
  <2>6. QED
    BY <2>2, <2>3, <2>4, <2>5 DEF MInv, IInv
<1>3. QED
  BY <1>1, <1>2, PTL DEF Spec

\* After the prune of SwitchVersion or LoadLatest no more than MaxVersions
\* directories are left, whatever other operations do, until it lets maintenance go.
THEOREM Retention == Spec => []RetentionBound
<1>1. ASSUME MInv PROVE RetentionBound
  <2> SUFFICES ASSUME NEW t \in Tasks, MaxVersions >= 0,
                      op[t] \in {"switchVersion", "loadLatest"}, pc[t] \in Activating
               PROVE  Cardinality(Present) <= MaxVersions
    BY DEF RetentionBound, Activating
  <2>1. Cardinality(Present \ victims[t]) <= MaxVersions /\ victims[t] = {}
    BY <1>1 DEF MInv, Bounded
  <2>2. Present \ victims[t] = Present
    BY <2>1
  <2>3. QED
    BY <2>1, <2>2
<1>2. QED
  BY MaintenanceInductive, <1>1, PTL

\* No caller calls FileCache.Prune by itself.
OnlyClientsPrune == \A t \in Tasks : "prune" \notin Ops[t]

\* If no caller calls Prune by itself, a package an operation has loaded stays
\* until the operation has made it active.
THEOREM FreshStays == ASSUME OnlyClientsPrune PROVE Spec => FreshPackageKept
<1>1. ASSUME MInv, [Next]_vars, NEW t \in Tasks,
             maintenance = t,
             op[t] \in {"loadVersion", "switchVersion", "loadLatest"},
             pc[t] \in PrunePcs \cup {"plan", "list", "victim"} \cup Activating,
             disk[ver[t]] = "valid"
      PROVE  disk'[ver[t]] \in {"valid", "unreadable"}
  <2> USE <1>1 DEF MInv, IInv, Typed, TypeOK
  <2>1. ver[t] \in Versions
    BY DEF VersionNamed, Activating, Pruning, Working, HoldPcs, PrunePcs
  <2>2. ASSUME NEW u \in Tasks, BeginRemove(u) \/ EndRemove(u)
        PROVE  \E w \in Versions \ {ver[t]} : \A v \in Versions \ {w} : disk'[v] = disk[v]
    <3>1. pc[u] \in PrunePcs
      BY <2>2 DEF BeginRemove, EndRemove, PrunePcs
    <3>2. u = t
      <4>1. op[u] # "prune" /\ pc[u] \in MaintenancePcs
        BY <3>1, OnlyClientsPrune DEF OnlyClientsPrune, Owned, MaintenancePcs, Pruning
      <4>2. QED
        BY <4>1 DEF Owned
    <3>3. ver[t] \notin victims[t]
      BY <3>1, <3>2 DEF Protected, Removing
    <3>4. PICK w \in victims[t] : \A v \in Versions \ {w} : disk'[v] = disk[v]
      BY <2>2, <3>2 DEF BeginRemove, EndRemove
    <3>5. QED
      BY <3>3, <3>4
  <2>3. ASSUME NEW u \in Tasks, PutBreaks(u) \/ PutClears(u) \/ PutPublishes(u) \/ Commit(u)
        PROVE  disk'[ver[t]] = "valid"
    BY <2>1, <2>3 DEF PutBreaks, PutClears, PutPublishes, Commit
  <2>4. ASSUME NEW v \in Versions, Rot(v) \/ Heal(v)
        PROVE  disk'[ver[t]] \in {"valid", "unreadable"}
    BY <2>1, <2>4 DEF Rot, Heal
  <2>5. CASE UNCHANGED store \/ LoseCurrent
    BY <2>5 DEF store, LoseCurrent
  <2>6. QED
    BY <2>1, <2>2, <2>3, <2>4, <2>5, StoreSteps
<1>2. ASSUME MInv, [Next]_vars
      PROVE  [\A t \in Tasks :
                /\ maintenance = t
                /\ op[t] \in {"loadVersion", "switchVersion", "loadLatest"}
                /\ pc[t] \in PrunePcs \cup {"plan", "list", "victim", "activate", "reload",
                                          "verify", "commit", "adopt"}
                /\ disk[ver[t]] = "valid"
                => disk'[ver[t]] \in {"valid", "unreadable"}]_vars
  BY <1>1, <1>2 DEF Activating
<1>3. QED
  BY MaintenanceInductive, <1>2, PTL DEF Spec, FreshPackageKept

\* If no caller switches versions, an update never lowers the active version,
\* although minutes lie between its comparison and its commit.
THEOREM NoDowngrade == ASSUME OnlyUpdates PROVE Spec => NoAutomaticDowngrade
<1> DEFINE UInv == MInv /\ Updating
<1>1. Init => Updating
  BY DEF Init, Updating
<1>2. ASSUME MInv, MInv', Updating, [Next]_vars PROVE Updating'
  BY <1>2, UpdatingStep, OnlyUpdates DEF MInv, IInv
<1>3. Spec => []UInv
  BY MaintenanceInductive, <1>1, <1>2, PTL DEF Spec
<1>4. ASSUME UInv, [Next]_vars, NEW t \in Tasks,
             op[t] = "loadLatest", pc[t] = "commit", pc'[t] = "adopt"
      PROVE  current <= current'
  <2>1. current <= ver[t]
    BY <1>4 DEF Updating, Maintaining, MaintenancePcs, HoldPcs
  <2>2. current' = ver[t]
    BY <1>4, CommitMoves DEF MInv, IInv, Commit
  <2>3. QED
    BY <2>1, <2>2
<1>5. ASSUME UInv, [Next]_vars
      PROVE  [\A t \in Tasks :
                /\ op[t] = "loadLatest"
                /\ pc[t] = "commit"
                /\ pc'[t] = "adopt"
                => current <= current']_vars
  <2> HIDE DEF UInv
  <2>1. QED
    BY <1>4, <1>5
<1> HIDE DEF UInv
<1>6. QED
  BY <1>3, <1>5, PTL DEF Spec, NoAutomaticDowngrade

\* Without pruning, what a client remembers is on disk, so the activation that
\* follows a load finds its package.
THEOREM LoadedIsThere == ASSUME MaxVersions < 0 PROVE Spec => []LoadedIsCached
<1>1. Init => Backed
  BY DEF Init, Backed, Removing, PrunePcs
<1>2. ASSUME MInv, MInv', Backed, [Next]_vars PROVE Backed'
  BY <1>2, BackedStep DEF MInv, IInv
<1>3. Backed => LoadedIsCached
  BY DEF Backed, LoadedIsCached
<1>4. QED
  BY MaintenanceInductive, <1>1, <1>2, <1>3, PTL DEF Spec

-----------------------------------------------------------------------------
(* Operations come to an end.                                                *)

\* How far an operation is from its end, by where it stands.  LoadLatest may turn
\* to the active version, Load to LoadLatest.
Distance == [idle |-> 0, remember |-> 1, serve |-> 2, read |-> 3, current |-> 4,
             adopt |-> 5, commit |-> 6, verify |-> 7, reload |-> 8, activate |-> 9,
             victim |-> 10, recheck |-> 10, remove |-> 10, list |-> 11, plan |-> 12,
             publish |-> 13, put |-> 14, fetch |-> 15, exact |-> 16, load |-> 17,
             maintenance |-> 18, compare |-> 19, resolve |-> 20, latest |-> 21]

Far(t) == Distance[pc[t]] + (IF op[t] = "load" THEN 21 ELSE 0)

\* What is left of the two loops: of Prune over its victims and of the RemoveAll
\* in Put.
Rest(t) ==
    IF pc[t] = "put" /\ disk[ver[t]] \in {"valid", "unreadable"} THEN 1
    ELSE IF pc[t] = "victim"  THEN 3 * Cardinality(victims[t]) + 2
    ELSE IF pc[t] = "recheck" THEN 3 * Cardinality(victims[t]) + 1
    ELSE IF pc[t] = "remove"  THEN 3 * Cardinality(victims[t])
    ELSE 0

Nearer(t) == \/ Far(t)' < Far(t)
             \/ Far(t)' = Far(t) /\ Rest(t)' < Rest(t)

AsFar(t) == Far(t)' = Far(t) /\ Rest(t)' = Rest(t)

\* Every step of an operation brings it nearer to its end, and no step of another
\* one, no crash and no damage takes it further away.
StepsRunOut ==
    [][\A t \in Tasks :
          /\ Step(t) => Nearer(t)
          /\ pc[t] # "idle" => Nearer(t) \/ AsFar(t)]_vars

\* The distances, one by one.
LEMMA Distances ==
    /\ \A p \in Pcs : Distance[p] \in Nat
    /\ \A p \in Pcs \ {"idle"} : Distance[p] > 0
    /\ Distance["idle"] = 0
    /\ Distance["remember"] = 1 /\ Distance["serve"] = 2 /\ Distance["read"] = 3
    /\ Distance["current"] = 4 /\ Distance["adopt"] = 5 /\ Distance["commit"] = 6
    /\ Distance["verify"] = 7 /\ Distance["reload"] = 8 /\ Distance["activate"] = 9
    /\ Distance["victim"] = 10 /\ Distance["recheck"] = 10 /\ Distance["remove"] = 10
    /\ Distance["list"] = 11 /\ Distance["plan"] = 12 /\ Distance["publish"] = 13
    /\ Distance["put"] = 14 /\ Distance["fetch"] = 15 /\ Distance["exact"] = 16
    /\ Distance["load"] = 17 /\ Distance["maintenance"] = 18 /\ Distance["compare"] = 19
    /\ Distance["resolve"] = 20 /\ Distance["latest"] = 21
<1>1. /\ Distance["idle"] = 0
      /\ Distance["remember"] = 1 /\ Distance["serve"] = 2 /\ Distance["read"] = 3
      /\ Distance["current"] = 4 /\ Distance["adopt"] = 5 /\ Distance["commit"] = 6
      /\ Distance["verify"] = 7 /\ Distance["reload"] = 8 /\ Distance["activate"] = 9
      /\ Distance["victim"] = 10 /\ Distance["recheck"] = 10 /\ Distance["remove"] = 10
  BY DEF Distance
<1>2. /\ Distance["list"] = 11 /\ Distance["plan"] = 12 /\ Distance["publish"] = 13
      /\ Distance["put"] = 14 /\ Distance["fetch"] = 15 /\ Distance["exact"] = 16
      /\ Distance["load"] = 17 /\ Distance["maintenance"] = 18 /\ Distance["compare"] = 19
      /\ Distance["resolve"] = 20 /\ Distance["latest"] = 21
  BY DEF Distance
<1>3. QED
  BY <1>1, <1>2 DEF Pcs, WaitPcs, HoldPcs, PrunePcs, OtherPcs

\* A task that goes on to a place of smaller distance gets nearer.
LEMMA CloserPlace ==
    ASSUME NEW t \in Tasks, pc[t] \in Pcs, pc'[t] \in Pcs, op'[t] = op[t],
           Distance[pc'[t]] < Distance[pc[t]]
    PROVE  Nearer(t)
BY Distances DEF Nearer, Far

\* One that returns gets to the end.
LEMMA ReturnNearer ==
    ASSUME Typed, NEW t \in Tasks, pc[t] # "idle", Return(t)
    PROVE  Nearer(t)
<1>1. pc[t] \in Pcs /\ pc'[t] = "idle" /\ op'[t] = "none"
  BY DEF Typed, TypeOK, Return, Goto
<1>2. Far(t)' = 0 /\ Far(t) > 0
  BY <1>1, Distances DEF Far
<1>3. QED  BY <1>2 DEF Nearer

\* So does a Load that turns to LoadLatest.
LEMMA CachedFailsNearer ==
    ASSUME Typed, NEW t \in Tasks, pc[t] # "idle", CachedFails(t)
    PROVE  Nearer(t)
<1>1. CASE Return(t)
  BY <1>1, ReturnNearer
<1>2. CASE op[t] = "load" /\ ~Return(t)
  <2>1. pc[t] \in Pcs /\ op'[t] = "loadLatest" /\ pc'[t] = "latest"
    BY <1>2 DEF CachedFails, LoadLatestInstead, Typed, TypeOK, Goto
  <2>2. Far(t)' = 21 /\ Far(t) > 21
    BY <1>2, <2>1, Distances DEF Far
  <2>3. QED  BY <2>2 DEF Nearer
<1>3. QED  BY <1>1, <1>2 DEF CachedFails

\* A prune that is over goes on to the activation or ends.
LEMMA AfterPruneNearer ==
    ASSUME Typed, NEW t \in Tasks, pc[t] \in {"plan", "victim"}, AfterPrune(t)
    PROVE  Nearer(t)
<1>1. CASE Return(t)
  BY <1>1, ReturnNearer
<1>2. CASE Goto(t, "activate") /\ op' = op
  <2>1. pc[t] \in Pcs /\ pc'[t] = "activate" /\ op'[t] = op[t] /\ pc'[t] \in Pcs
    BY <1>2 DEF Typed, TypeOK, Goto, Pcs, WaitPcs
  <2>2. QED  BY <2>1, CloserPlace, Distances
<1>3. QED  BY <1>1, <1>2 DEF AfterPrune

\* The victims of a task are finitely many: directories it has listed.
FewVictims == \A t \in Tasks : IsFiniteSet(victims[t])

\* A step of a task takes victims off its own list or makes the list anew.
LEMMA OwnVictims ==
    ASSUME Typed, NEW t \in Tasks, Start(t) \/ Step(t)
    PROVE  victims'[t] \subseteq victims[t] \/ victims'[t] \subseteq Present
<1> USE DEF Typed, TypeOK, Goto, control
<1>1. ASSUME Return(t) PROVE victims'[t] \subseteq victims[t]
  BY <1>1 DEF Return
<1>2. ASSUME AfterPrune(t) PROVE victims'[t] \subseteq victims[t]
  BY <1>1, <1>2 DEF AfterPrune
<1>3. ASSUME CachedFails(t) PROVE victims'[t] \subseteq victims[t]
  BY <1>1, <1>3 DEF CachedFails, LoadLatestInstead
<1>4. CASE Start(t)
  BY <1>4 DEF Start, StartLatest, StartVersion, StartCached, StartPrune, Begin
<1>5. CASE LatestStep(t)
  BY <1>5 DEF LatestStep, TakeLatest, ResolveLatest, CompareLatest, TakeMaintenance
<1>6. CASE LoadStep(t)
  BY <1>6 DEF LoadStep, TakeLoad, TakeVersion, LoadExactHit, LoadExactMiss, Fetch,
      FetchUnsupported, PutKeeps, PutBreaks, PutClears, PutPublishes, EndLoad
<1>7. CASE PruneStep(t)
  <2>1. CASE ListVersions(t)
    BY <2>1 DEF ListVersions, Doomed
  <2>2. CASE SpareActive(t) \/ EndRemove(t)
    BY <2>2 DEF SpareActive, EndRemove
  <2>3. QED
    BY <1>2, <1>7, <2>1, <2>2 DEF PruneStep, PruneDisabled, PlanPrune, TakeVictim,
        BeginRemove, EndPrune
<1>8. CASE ActivateStep(t)
  BY <1>1, <1>8 DEF ActivateStep, TakeActivate, TakeVersion, Reload, VerifyOnDisk, Commit, Adopt
<1>9. CASE CachedStep(t)
  BY <1>1, <1>3, <1>9 DEF CachedStep, ReadCurrent, NoCurrent, TakeRead, TakeVersion, Serve,
      ServeFails, Remember
<1>10. CASE ErrorStep(t)
  BY <1>1, <1>3, <1>10 DEF ErrorStep, Fail, GiveUp, CachedError
<1>11. QED
  BY <1>4, <1>5, <1>6, <1>7, <1>8, <1>9, <1>10 DEF Step

\* The lists of victims stay finite.
LEMMA FewVictimsStep ==
    ASSUME Typed, Ordered, FewVictims, [Next]_vars
    PROVE  FewVictims'
<1> SUFFICES ASSUME NEW t \in Tasks PROVE IsFiniteSet(victims'[t])
  BY DEF FewVictims
<1>1. victims'[t] \subseteq victims[t] \/ victims'[t] \subseteq Present
  <2>1. CASE Start(t) \/ Step(t)
    BY <2>1, OwnVictims
  <2>2. ASSUME NEW u \in Tasks \ {t}, Start(u) \/ Step(u) PROVE victims'[t] = victims[t]
    BY <2>2, OthersStay
  <2>3. CASE \/ \E c \in Clients : Crash(c)
             \/ \E v \in Versions : Rot(v) \/ Heal(v)
             \/ LoseCurrent
             \/ UNCHANGED vars
    BY <2>3 DEF Crash, Rot, Heal, LoseCurrent, vars, control, Typed, TypeOK
  <2>4. QED  BY <2>1, <2>2, <2>3 DEF Next
<1>2. QED
  BY <1>1, FS_Subset DEF FewVictims, Ordered

\* Every step of an operation brings it nearer to its end.
LEMMA OwnNearer ==
    ASSUME Typed, FewVictims, NEW t \in Tasks, Step(t)
    PROVE  Nearer(t)
<1> USE DEF Typed, TypeOK, Goto
<1>0. pc[t] \in Pcs /\ pc'[t] \in Pcs
  BY TypeStep DEF Next
<1>1. ASSUME op'[t] = op[t], Distance[pc'[t]] < Distance[pc[t]]
      PROVE  Nearer(t)
  BY <1>0, <1>1, CloserPlace
<1>2. CASE LatestStep(t)
  <2>1. /\ op'[t] = op[t]
        /\ \/ pc[t] = "latest" /\ pc'[t] = "resolve"
           \/ pc[t] = "resolve" /\ pc'[t] = "compare"
           \/ pc[t] = "compare" /\ pc'[t] \in {"current", "maintenance"}
           \/ pc[t] = "maintenance" /\ pc'[t] \in {"activate", "load"}
    BY <1>2 DEF LatestStep, TakeLatest, ResolveLatest, CompareLatest, TakeMaintenance
  <2>2. QED  BY <1>1, <2>1, Distances
<1>3. CASE LoadStep(t) /\ ~PutBreaks(t)
  <2>1. /\ op'[t] = op[t]
        /\ \/ pc[t] = "load" /\ pc'[t] = "exact"
           \/ pc[t] = "exact" /\ pc'[t] \in {"plan", "fetch"}
           \/ pc[t] = "fetch" /\ pc'[t] \in {"put", "current"}
           \/ pc[t] = "put" /\ pc'[t] \in {"plan", "publish"}
           \/ pc[t] = "publish" /\ pc'[t] = "plan"
    BY <1>3 DEF LoadStep, TakeLoad, TakeVersion, LoadExactHit, LoadExactMiss, Fetch,
        FetchUnsupported, PutKeeps, PutClears, PutPublishes, EndLoad
  <2>2. QED  BY <1>1, <2>1, Distances
<1>4. CASE PutBreaks(t)
  <2>1. /\ pc[t] = "put" /\ pc'[t] = "put" /\ op'[t] = op[t] /\ ver'[t] = ver[t]
        /\ disk[ver[t]] = "unreadable"
        /\ disk' = [disk EXCEPT ![ver[t]] = "partial"]
    BY <1>4 DEF PutBreaks
  <2>2. ver[t] \in Versions
    BY <2>1 DEF VersionNamed, Working, HoldPcs
  <2>3. disk'[ver'[t]] = "partial"
    BY <2>1, <2>2
  <2>4. Rest(t) = 1 /\ Rest(t)' = 0
    BY <2>1, <2>3 DEF Rest
  <2>5. Far(t)' = Far(t)
    BY <2>1 DEF Far
  <2>6. QED  BY <2>4, <2>5 DEF Nearer
<1>5. CASE PruneStep(t)
  <2> DEFINE n == Cardinality(victims[t])
  <2>0. /\ n \in Nat
        /\ \A w \in victims[t] : Cardinality(victims[t] \ {w}) = n - 1
    BY FS_CardinalityType, FS_RemoveElement DEF FewVictims
  <2>1. CASE PlanPrune(t) \/ ListVersions(t)
    <3>1. /\ op'[t] = op[t]
          /\ \/ pc[t] = "plan" /\ pc'[t] = "list"
             \/ pc[t] = "list" /\ pc'[t] = "victim"
      BY <2>1 DEF PlanPrune, ListVersions
    <3>2. QED  BY <1>1, <3>1, Distances
  <2>2. CASE PruneDisabled(t) \/ EndPrune(t)
    BY <2>2, AfterPruneNearer DEF PruneDisabled, EndPrune
  <2>3. CASE TakeVictim(t)
    <3>1. /\ op'[t] = op[t] /\ victims'[t] = victims[t]
          /\ pc[t] = "victim" /\ pc'[t] = "recheck"
      BY <2>3 DEF TakeVictim
    <3>2. Rest(t) = 3 * n + 2 /\ Rest(t)' = 3 * n + 1
      BY <3>1 DEF Rest
    <3>3. Far(t)' = Far(t)
      BY <3>1, Distances DEF Far
    <3>4. QED  BY <2>0, <3>2, <3>3 DEF Nearer
  <2>4. CASE BeginRemove(t)
    <3>1. /\ op'[t] = op[t] /\ victims'[t] = victims[t]
          /\ pc[t] = "recheck" /\ pc'[t] = "remove"
      BY <2>4 DEF BeginRemove
    <3>2. Rest(t) = 3 * n + 1 /\ Rest(t)' = 3 * n
      BY <3>1 DEF Rest
    <3>3. Far(t)' = Far(t)
      BY <3>1, Distances DEF Far
    <3>4. QED  BY <2>0, <3>2, <3>3 DEF Nearer
  <2>5. CASE SpareActive(t) \/ EndRemove(t)
    <3>1. /\ op'[t] = op[t]
          /\ pc[t] \in {"recheck", "remove"} /\ pc'[t] = "victim"
          /\ \E w \in victims[t] : victims'[t] = victims[t] \ {w}
      BY <2>5 DEF SpareActive, EndRemove
    <3>2. Cardinality(victims'[t]) = n - 1
      BY <2>0, <3>1
    <3>3. Rest(t) \in {3 * n, 3 * n + 1} /\ Rest(t)' = 3 * (n - 1) + 2
      BY <3>1, <3>2 DEF Rest
    <3>4. Far(t)' = Far(t)
      BY <3>1, Distances DEF Far
    <3>5. QED  BY <2>0, <3>3, <3>4 DEF Nearer
  <2>6. QED  BY <1>5, <2>1, <2>2, <2>3, <2>4, <2>5 DEF PruneStep
<1>6. CASE ActivateStep(t)
  <2>1. CASE Adopt(t)
    BY <2>1, ReturnNearer DEF Adopt
  <2>2. CASE ~Adopt(t)
    <3>1. /\ op'[t] = op[t]
          /\ \/ pc[t] = "activate" /\ pc'[t] = "reload"
             \/ pc[t] = "reload" /\ pc'[t] = "verify"
             \/ pc[t] = "verify" /\ pc'[t] = "commit"
             \/ pc[t] = "commit" /\ pc'[t] = "adopt"
      BY <1>6, <2>2 DEF ActivateStep, TakeActivate, TakeVersion, Reload, VerifyOnDisk, Commit
    <3>2. QED  BY <1>1, <3>1, Distances
  <2>3. QED  BY <2>1, <2>2
<1>7. CASE CachedStep(t)
  <2>1. CASE NoCurrent(t) \/ ServeFails(t) \/ Remember(t)
    BY <2>1, ReturnNearer, CachedFailsNearer DEF NoCurrent, ServeFails, Remember
  <2>2. CASE ReadCurrent(t) \/ TakeRead(t) \/ Serve(t)
    <3>1. /\ op'[t] = op[t]
          /\ \/ pc[t] = "current" /\ pc'[t] = "read"
             \/ pc[t] = "read" /\ pc'[t] = "serve"
             \/ pc[t] = "serve" /\ pc'[t] = "remember"
      BY <2>2 DEF ReadCurrent, TakeRead, TakeVersion, Serve
    <3>2. QED  BY <1>1, <3>1, Distances
  <2>3. QED  BY <1>7, <2>1, <2>2 DEF CachedStep
<1>8. CASE ErrorStep(t)
  BY <1>8, ReturnNearer, CachedFailsNearer DEF ErrorStep, Fail, GiveUp, CachedError, WaitPcs
<1>9. QED
  BY <1>2, <1>3, <1>4, <1>5, <1>6, <1>7, <1>8 DEF Step

\* Whether a package is there for Put to remove is up to the holder of its lock.
LEMMA PutUndisturbed ==
    ASSUME IInv, [Next]_vars, NEW t \in Tasks, pc[t] = "put", ~Step(t)
    PROVE  disk'[ver[t]] \in {"valid", "unreadable"} <=> disk[ver[t]] \in {"valid", "unreadable"}
<1> USE DEF IInv, Typed, TypeOK
<1>1. ver[t] \in Versions /\ versionLock[ver[t]] = t
  BY DEF VersionNamed, Working, HoldPcs, Locked, HolderHolds
<1>2. ASSUME NEW u \in Tasks, PutBreaks(u) \/ PutClears(u) \/ PutPublishes(u)
      PROVE  disk'[ver[t]] = disk[ver[t]]
  <2>1. u # t
    BY <1>2 DEF Step, LoadStep
  <2>2. ver[u] \in Versions /\ versionLock[ver[u]] = u
    BY <1>2 DEF PutBreaks, PutClears, PutPublishes, VersionNamed, Working, HoldPcs, Locked,
        HolderHolds
  <2>3. ver[u] # ver[t]
    BY <1>1, <2>1, <2>2
  <2>4. QED
    BY <1>1, <1>2, <2>2, <2>3 DEF PutBreaks, PutClears, PutPublishes
<1>3. ASSUME NEW u \in Tasks, BeginRemove(u) \/ EndRemove(u)
      PROVE  disk'[ver[t]] = disk[ver[t]]
  <2>1. u # t
    BY <1>3 DEF BeginRemove, EndRemove
  <2>2. PICK w \in victims[u] :
            /\ versionLock[w] = u
            /\ \/ disk' = disk
               \/ disk' = [disk EXCEPT ![w] = "partial"]
               \/ disk' = [disk EXCEPT ![w] = "absent"]
    BY <1>3 DEF BeginRemove, EndRemove
  <2>3. w # ver[t]
    BY <1>1, <2>1, <2>2
  <2>4. QED  BY <1>1, <2>2, <2>3
<1>4. ASSUME NEW v \in Versions, Rot(v) \/ Heal(v)
      PROVE  disk'[ver[t]] \in {"valid", "unreadable"} <=>
             disk[ver[t]] \in {"valid", "unreadable"}
  BY <1>1, <1>4 DEF Rot, Heal
<1>5. CASE UNCHANGED store \/ LoseCurrent \/ \E u \in Tasks : Commit(u)
  BY <1>5 DEF store, LoseCurrent, Commit
<1>6. QED
  BY <1>2, <1>3, <1>4, <1>5, StoreSteps

\* Nothing else takes it further away.
LEMMA OthersNoFurther ==
    ASSUME IInv, [Next]_vars, NEW t \in Tasks, pc[t] # "idle", ~Step(t)
    PROVE  Nearer(t) \/ AsFar(t)
<1> USE DEF IInv
<1>1. ASSUME UNCHANGED <<op[t], pc[t], ver[t], victims[t]>> PROVE AsFar(t)
  <2>1. Far(t)' = Far(t)
    BY <1>1 DEF Far
  <2>2. Rest(t)' = Rest(t)
    <3>1. CASE pc[t] = "put"
      BY <1>1, <3>1, PutUndisturbed DEF Rest
    <3>2. CASE pc[t] # "put"
      BY <1>1, <3>2 DEF Rest
    <3>3. QED  BY <3>1, <3>2
  <2>3. QED  BY <2>1, <2>2 DEF AsFar
<1>2. ASSUME op'[t] = "none", pc'[t] = "idle" PROVE Nearer(t)
  <2>1. pc[t] \in Pcs
    BY DEF Typed, TypeOK
  <2>2. Far(t)' = 0 /\ Far(t) > 0
    BY <1>2, <2>1, Distances DEF Far
  <2>3. QED  BY <2>2 DEF Nearer
<1>3. ~Start(t)
  BY DEF Start, StartLatest, StartVersion, StartCached, StartPrune, Begin
<1>4. ASSUME NEW u \in Tasks, Start(u) \/ Step(u) PROVE AsFar(t)
  <2>1. u # t
    BY <1>3, <1>4
  <2>2. QED  BY <1>1, <1>4, <2>1, OthersStay
<1>5. CASE \/ \E c \in Clients : Crash(c)
           \/ \E v \in Versions : Rot(v) \/ Heal(v)
           \/ LoseCurrent
           \/ UNCHANGED vars
  BY <1>1, <1>2, <1>5, FaultsStop
<1>6. QED
  BY <1>4, <1>5 DEF Next

\* An operation runs out of steps: each of its own steps brings it nearer to its
\* end, by a distance that cannot fall for ever, and nothing takes it back.  With
\* the deadlines by which every wait ends, it returns.
THEOREM OperationsRunOut == Spec => StepsRunOut
<1>1. Init => FewVictims
  BY FS_EmptySet DEF Init, FewVictims
<1>2. MInv /\ FewVictims /\ [Next]_vars => FewVictims'
  BY FewVictimsStep DEF MInv, IInv
<1>3. MInv /\ FewVictims /\ [Next]_vars =>
          [\A t \in Tasks : /\ Step(t) => Nearer(t)
                            /\ pc[t] # "idle" => Nearer(t) \/ AsFar(t)]_vars
  BY OwnNearer, OthersNoFurther DEF MInv, IInv
<1>4. QED
  BY <1>1, <1>2, <1>3, MaintenanceInductive, PTL DEF Spec, StepsRunOut

-----------------------------------------------------------------------------
(* Each directory of versions/ is what PackageStore says, under its own lock. *)

\* What is being removed is gone in part.
Halved ==
    \A t \in Tasks, w \in Versions :
        pc[t] = "remove" /\ versionLock[w] = t => disk[w] \in {"absent", "partial"}

\* A version lock that is held passes to nobody before it is free, and who takes
\* one goes on.
LEMMA LockPasses ==
    ASSUME Typed, [Next]_vars, NEW v \in Versions
    PROVE  \/ versionLock'[v] \in {versionLock[v], NoTask}
           \/ /\ versionLock[v] = NoTask
              /\ \E t \in Tasks : versionLock'[v] = t /\ pc'[t] # pc[t]
<1> DEFINE Passes == \/ versionLock'[v] \in {versionLock[v], NoTask}
                     \/ /\ versionLock[v] = NoTask
                        /\ \E t \in Tasks : versionLock'[v] = t /\ pc'[t] # pc[t]
<1> USE DEF Typed, TypeOK, locks, FreedVersions, Freed, Goto
<1>1. ASSUME NEW t \in Tasks, Return(t) PROVE Passes
  BY <1>1 DEF Return
<1>2. ASSUME NEW t \in Tasks, AfterPrune(t) PROVE Passes
  BY <1>1, <1>2 DEF AfterPrune
<1>3. ASSUME NEW t \in Tasks, CachedFails(t) PROVE Passes
  BY <1>1, <1>3 DEF CachedFails, LoadLatestInstead
<1>4. ASSUME NEW t \in Tasks, Start(t) PROVE Passes
  BY <1>4 DEF Start, StartLatest, StartVersion, StartCached, StartPrune, Begin
<1>5. ASSUME NEW t \in Tasks, LatestStep(t) PROVE Passes
  BY <1>5 DEF LatestStep, TakeLatest, ResolveLatest, CompareLatest, TakeMaintenance
<1>6. ASSUME NEW t \in Tasks, LoadStep(t) PROVE Passes
  BY <1>6 DEF LoadStep, TakeLoad, TakeVersion, LoadExactHit, LoadExactMiss, Fetch,
      FetchUnsupported, PutKeeps, PutBreaks, PutClears, PutPublishes, EndLoad
<1>7. ASSUME NEW t \in Tasks, PruneStep(t) PROVE Passes
  BY <1>2, <1>7 DEF PruneStep, PruneDisabled, PlanPrune, ListVersions, TakeVictim,
      SpareActive, BeginRemove, EndRemove, EndPrune
<1>8. ASSUME NEW t \in Tasks, ActivateStep(t) PROVE Passes
  BY <1>1, <1>8 DEF ActivateStep, TakeActivate, TakeVersion, Reload, VerifyOnDisk, Commit, Adopt
<1>9. ASSUME NEW t \in Tasks, CachedStep(t) PROVE Passes
  BY <1>1, <1>3, <1>9 DEF CachedStep, ReadCurrent, NoCurrent, TakeRead, TakeVersion, Serve,
      ServeFails, Remember
<1>10. ASSUME NEW t \in Tasks, ErrorStep(t) PROVE Passes
  BY <1>1, <1>3, <1>10 DEF ErrorStep, Fail, GiveUp, CachedError
<1>11. ASSUME NEW c \in Clients, Crash(c) PROVE Passes
  BY <1>11 DEF Crash
<1>12. CASE (\E w \in Versions : Rot(w) \/ Heal(w)) \/ LoseCurrent \/ UNCHANGED vars
  BY <1>12 DEF Rot, Heal, LoseCurrent, vars
<1>13. QED
  BY <1>4, <1>5, <1>6, <1>7, <1>8, <1>9, <1>10, <1>11, <1>12 DEF Next, Step

\* The steps that change a directory, and who may take them.
LEMMA PackageSteps ==
    ASSUME Typed, Locked, PlaceFree, Halved, [Next]_vars, NEW v \in Versions
    PROVE  \/ disk'[v] = disk[v]
           \/ /\ versionLock[v] # NoTask
              /\ \/ disk[v] # "absent" /\ disk'[v] = "partial"
                 \/ disk[v] \in {"absent", "partial"} /\ disk'[v] = "absent"
                 \/ disk[v] = "absent" /\ disk'[v] = "valid"
           \/ disk[v] = "valid" /\ disk'[v] = "unreadable" /\ versionLock' = versionLock
           \/ disk[v] = "unreadable" /\ disk'[v] = "valid" /\ versionLock' = versionLock
<1> USE ClientAssumption DEF Typed, TypeOK
<1>1. CASE UNCHANGED store \/ LoseCurrent \/ \E t \in Tasks : Commit(t)
  BY <1>1 DEF store, LoseCurrent, Commit
<1>2. ASSUME NEW t \in Tasks, pc[t] \in {"put", "publish"}
      PROVE  ver[t] \in Versions /\ versionLock[ver[t]] = t /\ t # NoTask
  BY <1>2 DEF Locked, HolderHolds, VersionNamed, Working, HoldPcs
<1>3. ASSUME NEW t \in Tasks, PutBreaks(t), disk'[v] # disk[v]
      PROVE  versionLock[v] # NoTask /\ disk[v] # "absent" /\ disk'[v] = "partial"
  BY <1>2, <1>3 DEF PutBreaks
<1>4. ASSUME NEW t \in Tasks, PutClears(t), disk'[v] # disk[v]
      PROVE  /\ versionLock[v] # NoTask
             /\ disk[v] \in {"absent", "partial"} /\ disk'[v] = "absent"
  BY <1>2, <1>4 DEF PutClears
<1>5. ASSUME NEW t \in Tasks, PutPublishes(t), disk'[v] # disk[v]
      PROVE  versionLock[v] # NoTask /\ disk[v] = "absent" /\ disk'[v] = "valid"
  BY <1>2, <1>5 DEF PutPublishes, PlaceFree
<1>6. ASSUME NEW t \in Tasks, BeginRemove(t), disk'[v] # disk[v]
      PROVE  versionLock[v] # NoTask /\ disk[v] # "absent" /\ disk'[v] = "partial"
  BY <1>6 DEF BeginRemove
<1>7. ASSUME NEW t \in Tasks, EndRemove(t), disk'[v] # disk[v]
      PROVE  /\ versionLock[v] # NoTask
             /\ disk[v] \in {"absent", "partial"} /\ disk'[v] = "absent"
  BY <1>7 DEF EndRemove, Halved
<1>8. ASSUME NEW w \in Versions, Rot(w), disk'[v] # disk[v]
      PROVE  disk[v] = "valid" /\ disk'[v] = "unreadable" /\ versionLock' = versionLock
  BY <1>8 DEF Rot, locks
<1>9. ASSUME NEW w \in Versions, Heal(w), disk'[v] # disk[v]
      PROVE  disk[v] = "unreadable" /\ disk'[v] = "valid" /\ versionLock' = versionLock
  BY <1>9 DEF Heal, locks
<1>10. QED
  BY <1>1, <1>3, <1>4, <1>5, <1>6, <1>7, <1>8, <1>9, StoreSteps

\* Nobody installs while a prune removes, and damage hits what is whole.
LEMMA HalvedStep ==
    ASSUME Typed, Typed', Locked, Owned, Halved, [Next]_vars
    PROVE  Halved'
<1> USE ClientAssumption DEF Typed, TypeOK
<1> SUFFICES ASSUME NEW t \in Tasks, NEW w \in Versions,
                    pc'[t] = "remove", versionLock'[w] = t
             PROVE  disk'[w] \in {"absent", "partial"}
  BY DEF Halved
<1>1. CASE pc[t] = "remove" /\ versionLock[w] = t
  <2>1. disk[w] \in {"absent", "partial"}
    BY <1>1 DEF Halved
  <2>2. ASSUME NEW u \in Tasks, PutPublishes(u) PROVE disk'[w] = disk[w]
    <3>1. versionLock[ver[u]] = u /\ u # t
      BY <1>1, <2>2 DEF PutPublishes, Locked, HolderHolds, HoldPcs
    <3>2. QED  BY <1>1, <2>2, <3>1 DEF PutPublishes
  <2>3. ~PutPublishes(t)
    BY <1>1 DEF PutPublishes
  <2>4. QED
    BY <1>1, <2>1, <2>2, StoreSteps DEF store, LoseCurrent, Commit, PutBreaks, PutClears,
        BeginRemove, EndRemove, Rot, Heal
<1>2. CASE BeginRemove(t)
  <2>1. PICK v \in victims[t] :
            /\ versionLock[v] = t
            /\ IF disk[v] = "absent" THEN disk' = disk ELSE disk' = [disk EXCEPT ![v] = "partial"]
    BY <1>2 DEF BeginRemove
  <2>2. versionLock[w] = t
    BY <1>2 DEF BeginRemove, locks
  <2>3. v = w
    BY <2>1, <2>2 DEF Locked, OneVersionLock
  <2>4. QED  BY <2>1, <2>3
<1>3. CASE UNCHANGED <<op[t], pc[t], ver[t], keep[t], victims[t]>>
  <2>1. versionLock[w] = t
    BY <1>3, LockPasses
  <2>2. QED  BY <1>1, <1>3, <2>1
<1>4. CASE (Start(t) \/ Step(t)) /\ ~BeginRemove(t)
  <2>1. pc'[t] \in Maintaining /\ pc'[t] \in Removing
    BY DEF Maintaining, MaintenancePcs, Pruning, Removing, PrunePcs
  <2>2. \/ StartVersion(t) \/ StartPrune(t) \/ CompareLatest(t)
        \/ PlanPrune(t) \/ ListVersions(t) \/ TakeVictim(t) \/ SpareActive(t) \/ EndRemove(t)
    BY <1>4, <2>1, OwnMoves
  <2>3. QED
    BY <2>2 DEF StartVersion, StartPrune, CompareLatest, PlanPrune, ListVersions, TakeVictim,
        SpareActive, EndRemove, Begin, Goto
<1>5. CASE \E u \in Tasks \ {t} : Start(u) \/ Step(u)
  BY <1>3, <1>5, OthersStay
<1>6. CASE \/ \E c \in Clients : Crash(c)
           \/ \E v \in Versions : Rot(v) \/ Heal(v)
           \/ LoseCurrent
           \/ UNCHANGED vars
  BY <1>3, <1>6, FaultsStop
<1>7. QED
  BY <1>2, <1>4, <1>5, <1>6 DEF Next

\* Every operation, crash and damage does to each version's directory only what
\* PackageStore allows its lock holder and the outside.
THEOREM PackagesKept == Spec => KeepsPackages
<1> USE DEF Package!Packages
<1>1. Init => Halved /\ \A v \in Versions : Package(v)!Init
  BY DEF Init, Halved, Package!Init
<1>2. MInv /\ Halved /\ [Next]_vars /\ MInv' => Halved'
  BY HalvedStep DEF MInv, IInv
<1>3. ASSUME MInv, Halved, [Next]_vars, NEW v \in Versions
      PROVE  Package(v)!Next
  <2>1. versionLock[v] = NoTask \/ versionLock'[v] \in {versionLock[v], NoTask}
    BY <1>3, LockPasses DEF MInv, IInv
  <2>2. \/ disk'[v] = disk[v]
        \/ /\ versionLock[v] # NoTask
           /\ \/ disk[v] # "absent" /\ disk'[v] = "partial"
              \/ disk[v] \in {"absent", "partial"} /\ disk'[v] = "absent"
              \/ disk[v] = "absent" /\ disk'[v] = "valid"
        \/ disk[v] = "valid" /\ disk'[v] = "unreadable" /\ versionLock' = versionLock
        \/ disk[v] = "unreadable" /\ disk'[v] = "valid" /\ versionLock' = versionLock
    BY <1>3, PackageSteps DEF MInv, IInv, Guarded
  <2>3. versionLock[v] # NoTask => Package(v)!Kept
    BY <2>1 DEF Package!Kept
  <2>4. CASE disk'[v] = disk[v]
    BY <2>3, <2>4 DEF Package!Next, Package!Pass
  <2>5. CASE versionLock[v] # NoTask /\ disk'[v] # disk[v]
    BY <2>2, <2>3, <2>5 DEF Package!Next, Package!Break, Package!Clear, Package!Publish,
        Package!Spoil, Package!Heal
  <2>6. CASE versionLock[v] = NoTask /\ disk'[v] # disk[v]
    BY <2>1, <2>2, <2>6 DEF Package!Next, Package!Spoil, Package!Heal, Package!Kept
  <2>7. QED  BY <2>4, <2>5, <2>6
<1>4. MInv /\ Halved /\ [Next]_vars => [\A v \in Versions : Package(v)!Next]_vars
  BY <1>3
<1>5. QED
  BY <1>1, <1>2, <1>4, MaintenanceInductive, PTL DEF Spec, KeepsPackages
=============================================================================
