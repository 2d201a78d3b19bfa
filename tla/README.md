# Verification of modellink-go

`modellink-go` downloads versioned data packages from an npm registry, keeps them
in a cache directory that several processes may share, and hands out immutable
snapshots of them. What is hard in it is not the data but the sharing: goroutines
of one client, clients of one process and processes of one machine work on the
same directories, the same `current.json` and the same file locks, and any of
them may time out, fail or die between two steps.

This directory models that part in TLA+, checks it with TLC on small instances
and proves its most important properties with TLAPS for every instance.

## The system

| Component | Source | State | Operations | Interacts with |
|---|---|---|---|---|
| client operations | `client_api.go`, `client_load.go`, `client_update.go` | `Client.current`, `Client.snapshots` (under `client.mu`) | `LoadCached`, `Load`, `LoadLatest`, `LoadVersion`, `SwitchVersion`, `ActivateVersion`, `FindLatest`, `CheckLatest`, `CurrentVersion`, `Status` | flights, store, locks, registry |
| shared tasks | `client_update.go` | `Client.flights`, the `flight` objects | `joinFlight`, `runFlight` | run client operations on a context of their own |
| reports, warnings | `report.go`, `client.go` | `operationScope`, `Client.warned` | `beginOperation`, `finish`, `notifyWarning` | the application's callbacks |
| package store | `cache_file.go` | `versions/<v>/` (five files each), staging directories `.install-*` | `Get`, `Put` | version locks, if the caller takes them |
| retention | `cache_file_prune.go` | the same directories and their modification times | `Prune` | takes version locks itself, reads the active version |
| metadata | `cache_state.go`, `cache_file.go`, `internal/atomicfile` | `current.json`: `Version`, `LastCheck`, `LastUpdate`; a temporary file while it is replaced | `State`, `Current`, `RecordCheck`, `SetCurrent`, `Write` | the lock `metadata` |
| locks | `cache_file_lock.go`, `acquireLock` | one file per key under `.locks/` | `Lock`, `Unlock` | the kernel |
| registry, verification | `internal/artifact` | none | `Resolve`, `Download`, `VerifyFiles` | HTTP |
| decoding, warnings | `client_update.go`, `warning.go`, `schema.go` | none | `snapshotFromPackage`, `schemaWarnings`, `comparePackageVersions` | |
| stage timing | `internal/trace` | the stages of a report | `Start`, `Stages` | contexts |
| data verification | `internal/cmd/verifydata` | a package to verify, one to update from, a registry of its own | `loadDataPackage`, `verifyPackages`, `verifySnapshot` | drives a client |
| schema tools, generated code | `internal/cmd/schema*`, `zz_types_generated.go` | | | |

There are four kinds of lock. `latest` is held for the whole of `LoadLatest`;
`maintenance` for the whole of a load, a switch or an activation; `version:v`
while version `v` is read, installed, activated or removed; `metadata` inside one
change of `current.json`. They are always taken in this order, and nobody holds two
version locks. `LoadCached`, the first half of `Load`, and `Prune` called
directly take version locks only.

What makes each component correct:

- *operations*: an active version always has its package; a version is installed
  by one task at a time; the automatic update does not lower the version; a
  snapshot once handed out stays the snapshot of its version; everything returns.
- *retention*: no more than `MaxVersions` packages stay, but never at the cost of
  the active package or of the one being worked on.
- *package store*: a package appears whole or not at all, a reader is never misled
  by part of one, and with the version lock a directory is what the operations
  take it for.
- *metadata*: `current.json` is never torn, no change is lost, an older check never replaces a newer one,
  `LastUpdate` tells how the active version became active.
- *shared tasks*: one task per key, cancellation is private to a caller.
- *reports, warnings*: one report for each call, with the result of the work; one
  `OnWarning` for each event.
- *registry, verification, decoding*: what is stored is intact and can be loaded
  again; what is activated is intact; an update that is not taken is announced.
- *data verification*: what it passes can be published, and what could be is passed.
- *version order*: it is the precedence of semantic versions.
- *stage timing*: nested stages are counted once.

The behaviours that make these hard are listed, each at its line, under
`hazards` in `PROJECT.json`, with the property that would notice.

## The modules

| Module | What it is |
|---|---|
| `CachePromise` | abstract: what the shared cache promises to a reader of the active version |
| `SharedCache` | the client operations and `Prune` on the shared directories |
| `MCSharedCache` | its instances for TLC |
| `SharedCacheProofs` | its theorems |
| `PackageStore` | abstract: the four states of a package and how they change |
| `PackageInstall` | `Get`, `Put` and the removal of a package, file by file |
| `MCPackageInstall`, `PackageInstallProofs` | its instance and theorems |
| `CacheContract` | abstract: the metadata half of the `CacheStore` contract (`cache.go`) |
| `CacheMetadata` | `current.json`, the `changeState` transaction and `atomicfile.Write` |
| `MCCacheMetadata`, `CacheMetadataProofs` | its instances and theorems |
| `Flights`, `FlightsProofs` | calls, shared tasks, reports and warnings of one client; its theorems |
| `VersionOrder`, `VersionOrderProofs` | `comparePackageVersions` and the precedence of semantic versions; its theorems |
| `PackageUpdate` | one operation in detail: registry, archive, manifest, schema, warnings (extends `VersionOrder`) |
| `MCPackageUpdate`, `PackageUpdateProofs` | its instance and theorems |
| `VerifyData` | the command `verifydata` as a driver of that operation (extends `PackageUpdate`) |
| `MCVerifyData`, `VerifyDataProofs` | its instance and theorems |
| `Trace`, `TraceProofs` | the stages of a report and their durations; its theorem |

`SharedCache` and `PackageUpdate` look at the same operations from two sides. The
first has many tasks, locks, failures and crashes, and a package is a word
(`valid`, `partial`, ...); the second has one task, and a package is a manifest
and its files. `SharedCache` takes from `PackageInstall` that a package has four
states: both modules are proved to implement `PackageStore`, one for a single
directory and file by file (`KeepsStore`), the other for each of its versions
(`KeepsPackages`). It takes from `PackageUpdate` that `Download` and `Get`
agree on what a valid package is (`StoresLoadable`), and from `VersionOrder` that
versions are ordered like numbers (`VersionsAreNumbers`). `Flights` starts tasks and `CacheMetadata` is
`SharedCache`'s `Commit` in detail. `Trace` is what a report says of a task.

### SharedCache

A *task* is a goroutine that runs an operation: a flight for `LoadLatest`,
`LoadVersion`, `SwitchVersion` and `ActivateVersion`, the caller itself for
`LoadCached`, `Load` and `Prune`. `pc` says where it stands, and the values of
`pc` are the points of the code between which another task or process can
intervene:

    StartLatest   latest -> resolve -> compare --------------+--> current (registry behind)
                                                             |
    StartVersion  --> maintenance -> load -> exact -> fetch -> put -> publish
                                       (LoadExactHit: straight to plan)
                  --> plan -> list -> victim <-> recheck -> remove     (pruneCache)
                  --> activate -> reload -> verify -> commit -> adopt  (switch, latest, activate)

    StartCached   --> current -> read -> serve -> remember
    StartPrune    --> plan -> ...

`disk[v]` is what `Get` would find in `versions/v`: nothing, part of a package, a
complete package it rejects for a reason outside the program, or a good one.
`older` is the order of modification times that `Prune` sorts by. `current` is the
active pointer. `mem` and `memCurrent` are `Client.snapshots` and
`Client.current`; both are gone when the process dies (`Crash`), while the files
stay and the system releases the locks. `rotted` remembers which packages were
made unreadable from outside (`Rot`), so that a property can tell the program's
doing from other damage; a passing I/O error is `Rot` followed by `Heal`.

Abstractions, and why they are sound for what is stated:

- a version is a number in the order of `comparePackageVersions`;
- a metadata write (`Commit`) is one step, because `CacheMetadata` refines
  `CacheContract`, where it is one; `RecordCheck` does not touch what this module
  speaks of;
- the deferred unlocks at the end of an operation are one step (`Return`): they
  follow one another without any other effect, and a later unlock only allows
  less;
- the order in which `Prune` removes its victims is left open, and so is which of
  two tasks gets a free lock (the code polls);
- two directories never have the same modification time;
- the registry may answer any version to any question about `latest`.

### PackageInstall and PackageStore

One version, file by file, as the file system sees it. `target` is
`versions/<v>`, a function from `cachedFiles` to contents; `staging[p]` is the
`.install-*` directory of a `Put`; a build is a package that verifies, and two
builds are two packages of the same version from different registries. Each read,
write, unlink and rename is a step:

    StartGet   --> read (file after file) --> served | missed | failed
    StartPut   --> stat --> read -----------> stored
                     |        +-- damaged --> clear --> unlink* --> stage
                     +-- absent -----------------------------------> stage
                   stage --> write (file after file) --> rename --> stored
                                       +-- name taken --> read --> stored | failed
    StartPrune --> clear --> unlink* --> removed

The client holds `version:v` around all of this and `Prune` takes it itself, but
`FileCache` is a public type: `direct` are the processes that call `Get` and `Put`
without the lock. Some properties hold for them too (`AtomicRead`,
`PublishedWhole`, `UnlockedPutsAgree`), others only where all writers take the
lock (`KeepsStore`, half of `PutLasts`); the properties say which.

`open` are those whose `RemoveAll` has a handle of the directory that now bears
the name: unlinking goes through the handle, so a `RemoveAll` that began before
another process replaced the directory takes nothing out of the new one.
`seen`, `broken` and `calm` are histories that only the properties read. A staging
directory that a crash or a failed `RemoveAll` leaves behind has a name nobody reads, and
is forgotten.
A power failure keeps directories, which are taken to be journaled, and may tear
every file of a package not flushed since its rename: `Put` syncs nothing. `Get`
then rejects the package and `Put` reinstalls it.

`PackageStore` is what those who take the lock may rely on: `absent`, `partial`,
`unreadable`, `valid`, changed by the holder only, except for damage (`Spoil`) and
its end (`Heal`, an I/O error that has passed). A package appears only where nothing
was, goes only by way of its parts, and the lock passes from its holder to nobody
before it passes to another.

### CacheMetadata

A *writer* is a goroutine inside `RecordCheck` or `SetCurrent`. `request` is the
closure it passes to `changeState`, `copy` the state it has read and changed.
`TakeMetadata`, `ReadAndChange` and the four steps of `atomicfile.Write` (`CreateTemp`,
`FillTemp`, `SyncTemp`, `RenameTemp`) are those other processes can fall between;
`Fail` is every error return, that of an unlock after the replacement included;
`Crash` may come anywhere, and `PowerLoss` stops every process and may take the
contents of a `current.json` that was never synced (`flushed`). `Damage` makes
`current.json` unreadable, after which every writer fails until some write already
under way replaces the file. The temporary file of a crashed writer stays as litter
under a random name and is forgotten here. The clock readings are arbitrary: each
process has a clock.

### Flights

A *call* goes from `beginOperation` to its return, a *flight* is the object behind
a key, from `StartFlight` to the last caller that still refers to it. `FinishFlight`
is the block of `runFlight` under `client.mu`; `ReportFlight` is the report after it.
`ContextEnds` may come at any time, and where both the context and the task are
over, `select` picks either. The warnings of a returned snapshot are any set
(which they are is in `PackageUpdate`).
The work of a task is `SharedCache`; here it ends in a result, never in a
cancellation, because its context is cut off from that of its caller.

### VersionOrder

A version is three numbers and a sequence of identifiers; an identifier is its
place in the order of strings and, if it has digits only, its number. `Compare`
follows the code, numbers too large for an `int` included, with which `Atoi`
fails: a version with such a component compares as equal to all, an identifier
as a word. `Precedes` is the order that semver.org defines. `Proper` and `Fits`
say for which versions the two agree: no leading zeros, which `versionPattern`
admits although semantic versions do not, and numbers that fit an `int`.

### PackageUpdate

    ResolveLatest -> compare --(registry behind)------------------> fallback
                        |                                              ^
                      start -> load --(hit)-------------> activate     | (LoadLatest, schema
                                 |                           ^         |  not supported)
                               fetch -> extract -> decode -> store     |
                                                     +-----------------+

Everything the code reads is chosen where it reads it: the registry's version,
the entries of the archive in any order, and the manifest, which is parsed only
after the last entry. A text stands for the contents of a file, and a manifest
entry for the text its digest and size name. `disk` and `active` are as in
`SharedCache`, in more detail. Other clients, whose SDK may support any schema,
store and activate packages as long as this operation does not hold
`maintenance`, and files on disk may be damaged as long as it does not either;
damage under the lock is in `SharedCache`. So are failures of locks and of the disk, with one
exception: the fallback of `LoadLatest` turns them into another error, so `FallbackFails` may
happen with a good package active. The two reads of the fallback, of `current.json` and of the
package, are one step here and apart in `SharedCache`. The client is fresh, with no
snapshot in memory. JSON is a set of texts that decode.

### VerifyData

    candidate --> baseline? --> check --> loadBaseline --> status --+
                                  |                                 v
                                  +--> find ---------> loadCandidate --> current
                                                                 --> reload --> passed

The command reads an archive with `loadDataPackage`, entry by entry; the client
reads the same archive with `extractFiles`. The two take entries that are not
regular files, and files that occur twice, differently: `mine` and `theirs` are what
each has read so far, and `Download` what the client would make of it. Then
`verifyPackages` runs a client against a registry of its own, first with the
baseline, then with the candidate: `LoadLatestStep` are the actions of
`PackageUpdate`, with `ExtractLocal` in the place of an arbitrary archive. With step
`"off"` there is no command and the module is `PackageUpdate`, so one run checks both.

The file `catalog` stands for `catalog.json`, `models.json` and `api.json`, whose keys
`verifySnapshot` compares: `Inventories` are the catalogs that pass this comparison.
The two checks that follow `LoadCached` and `Load` are answered from the client's
memory; the package on disk is not read again (`Reload`).

### Trace

`frames` are the open stages, innermost last, each with the time its children
took so far; `inner` is a history of how long each stage has been the innermost
one, against which the reported durations are checked. Every `Start` in the
code gets the context of the innermost open stage, and every stage is closed
before the one around it: `Download` closes its stage before it opens `verify`
with its caller's context.

## The runs

| Run | Question | Instance |
|---|---|---|
| `update` | `InstallAlone`, `RetentionBound`, `NoAutomaticDowngrade`, `FreshPackageKept` | 2 processes, 3 versions, `MaxVersions` 2, the SDK of `c2` cannot decode the newest, `c2` may crash, also inside a removal |
| `faults` | `CurrentIntact`, `NoDeadlock`, `KeepsPromise`, `KeepsPackages` | 2 processes, a direct `Prune`, a crash, one damaged package |
| `one_client` | `SnapshotStable`, `LoadedIsCached`, `OperationsReturn` (liveness) | 2 goroutines of one client that may restart, every operation, 2 versions, `MaxVersions` -1, one damaged package, `current.json` deleted |
| `install` | `AtomicRead`, `PublishedWhole`, `PutLasts`, `UnlockedPutsAgree`, `KeepsStore` | 2 processes with the lock or without, 2 builds, 2 files, 2 crashes, power failures or damaged files |
| `metadata` | `CopyIsFresh`, `LastUpdateMatches`, `AcknowledgedCheck`, `NeverTorn`, `KeepsContract`, `WritersReturn` (liveness) | 2 writers, 2 versions, 2 clock readings |
| `flights` | `OneFlightPerKey`, `CancelIsPrivate`, `ReportTellsResult`, `WarnOnce`, `CallsReturn`, `CallsReported` (the last two liveness) | 2 calls, 2 keys, 2 flight objects, 1 warning |
| `verify` | `TypeOK`, `WarningTellsDrift`, `FallbackAnnounced`, `StrongestDecides`, `PassMeansUsable`, `SoundPasses`, `StoresLoadable`, `ActivatesIntact`, `NeverOlder` | one operation, or the command over 3 versions, 5 versions, 2 files, 3 texts, 3 schemas |
| `trace` | `ExclusiveDurations` | 5 stages, 5 clock ticks |

Four runs show where the code does not do what its documentation says:

- `downgrade`: `LoadLatest` compares the registry's version with the active one
  before it takes `maintenance`, and `SwitchVersion` and `ActivateVersion` do not
  take `latest`. Another process can activate a newer version in between, and
  `LoadLatest` then activates the older one. (`update` shows that two automatic
  updates cannot do this to each other: the lock `latest` sees to it.)
- `pruned_switch`: a client that holds version 1 in memory, whose package was
  pruned meanwhile, cannot switch to it: the snapshot in memory counts as a cache
  hit, nothing is downloaded, and `SetCurrent`, which looks at the disk, fails.
  (`one_client` shows that pruning is the only cause.)
- `cached_misses`: `LoadCached` reads the active version and then waits for its
  lock; if the version is switched away from and pruned meanwhile, it returns
  `ErrNoCachedData` although a version is active.
- `unsupported`: after an update of a future schema `LoadLatest` wraps the error of the
  *candidate*, whatever the fallback failed with: a version lock not free in time, an
  unreadable `current.json`, a read that fails for a moment. `ErrUnsupportedSchema`, which is
  documented for the case that there is no compatible cache, then comes back with a
  readable package active.

Three more divergences were met that no run shows. `WarningSchemaUpdateSkipped` is
documented for a *future* schema, but a package with an *older* one takes the same path
and gets the same warning (`snapshotFromPackage`); `FallbackAnnounced` says no more
than that the schema is another one. `WarningRegistryBehind` is documented to mean that
the registry's version is older than the active one; the fallback reads the active
version again, so if another process has switched down in between, the snapshot may be
of the registry's version or of an older one. The warning then still names the version
compared with, which is what `FallbackAnnounced` states. And a version with a number too large for
an `int` compares as equal to every other: `WarningTellsDrift` shows that the schema
warning then claims no order, but `LoadLatest` activates an older version in its place.
`NeverOlder` excludes such versions by `Fits`.

The bounds. Three versions with `MaxVersions` 2 are the least for which `Prune`
has something to remove and a choice of what; two processes are the least for
every race in the code, since all of them are between one lock holder and one
other task, and they are also enough for a third to be simulated by a crash and a
restart. The operations each task may run are chosen per run (`Ops`) so that both
sides of the race in question are there; all operations together are in
`one_client` and, without any bound, in the proofs. The retention properties are
checked with `LoadLatest`, whose `switchVersionOperation` is all that
`SwitchVersion` runs. In `flights` two calls meet in every way one key or two
allow, and the second flight object is there for the call that comes after the
first task has ended.

In `install` two files are the least for a package to be partial and for a reader to
be between two of them, two builds for it to mix them up, and two faults for a crash
to meet damage or another crash. The two processes and the two builds are
interchangeable, and the run uses this symmetry: it checks no liveness. The type
invariants of `SharedCache`, `PackageInstall`, `CacheMetadata`, `Flights` and `Trace`
are proved and not checked again.

In `verify` the versions are 1.0.0-2, 1.0.0-10, 1.0.0-a, 1.0.0 and one with a
component too large for an `int`: the pairs for which text and number, word and
number, pre-release and release, and overflow differ. Schemas 1, 2 and 3 with 2
supported are older, equal and newer. Two files, one of which the client decodes
and one of which it only compares, are enough to have one missing, twice,
altered or unlisted; of three texts two decode and one of these has the keys
`verifySnapshot` wants. `MaxOdd` allows one entry that the command and the client
take differently, which is enough for either to miss a file or to see another.
`MaxTotal` is one entry more than a package, `MaxTokens` two digests in
`dist.integrity`, a weaker and a stronger or two of the same strength. `MaxStored` bounds
the packages other clients put into the cache to one; that the version returned by a
fallback may be another than the one compared with takes two and is left to the proof
(`Announced`), which has no such bound. `verify`
does not look for deadlocks: the module follows one operation to its end. The
same holds of `trace`, where `MaxStages` and `MaxTime` are bounds of the instance
and neither is used in the proof.

## Fairness

`SharedCache!FairSpec` asks weak fairness of each task's steps. Goroutines are
scheduled, and no wait is without end: `acquireLock` waits two minutes at most, a
task has three (`client.go`), and `FileCache.Prune` and `LoadCached` give up
when the context they were passed ends (`GiveUp`); a caller that passes a context
without end and calls `Prune` directly is outside this assumption. Nothing is
assumed about who gets a lock, about the registry, about the callers, or about crashes.
`CacheMetadata!FairSpec` asks the same of writers, for the two-minute deadline inside
`changeState`. `Flights!FairSpec` asks it of calls and of tasks, which have a
deadline; no call is assumed to be cancelled. In `PackageInstall` and `VerifyData`
nothing is said about what must happen, so no fairness is assumed.

## The proofs

`SharedCacheProofs` proves of `SharedCache!Spec`, for any clients, tasks,
versions, `MaxVersions` and faults that satisfy `ClientAssumption` and
`VersionAssumption`: `TypeOK`, `CurrentIntact`, `InstallAlone`, `SnapshotStable`,
`NoDeadlock`, and the refinements `KeepsPromise` of `CachePromise` and `KeepsPackages`
of `PackageStore`. None of them is inductive. `IInv` has three parts, and each is preserved because of the ones
before it:

- `Typed`: the types, and that a task past its resolution names a version;
- `Locked`: the account of the locks. Who holds `version:v` is working on `v` or
  has it as a victim, nobody holds two, and a task inside a critical section holds
  its lock;
- `Guarded`: what the holder relies on. A victim being removed is not active, a
  package verified for activation stays until the commit, the target of a rename
  is free, a version being fetched is not in memory, and the active pointer is
  intact.

`CurrentIntact` needs both sides: `SetCurrent` verifies and commits under the
version lock, and `Prune` looks at the active pointer again under the same lock.
`NoDeadlock` follows from `Locked` alone, by the lock order: if a version lock is
held its holder waits for none; otherwise the holder of `maintenance` can go on;
otherwise the holder of `latest`.

What pruning and activation do under `maintenance` needs a second invariant, `MInv`:

- `Owned`: which operation stands where and holds `maintenance` and `latest` there, so
  that while one operation prunes or activates nobody else installs or commits;
- `Protected`: the victims never include the version of the operation or the active one,
  although the plan read `current` long before;
- `Ordered`: the directories are finitely many and linearly ordered by modification time;
- `Bounded`: `Doomed` leaves at most `MaxVersions` directories (`DoomedLeaves`, by counting
  along that order, `FewNewest`), and no directory appears until the operation ends.

From it `RetentionBound` follows for all operations. Three more hold under a
restriction: `NoAutomaticDowngrade` if no caller switches versions (`OnlyUpdates`),
`FreshPackageKept` if no caller calls `Prune` by itself (`OnlyClientsPrune`), and
`LoadedIsCached` if nothing is pruned at all. The runs `downgrade` and `pruned_switch` show
that the first and the last of them are needed.

`PackagesKept` proves, from `MInv` and one more invariant, that every version's directory
with its lock implements `PackageStore`, for all versions at once. The invariant is
`Halved`: what a task is removing is in parts already or gone, and stays so while it holds
the lock, which is why the end of a removal is a `Clear` and not a jump from a whole
package to none. `LockPasses` is the handover: a lock that is held goes to nobody else
in one step, in a crash either.

`OperationsRunOut` is the safety half of `OperationsReturn`. `Far` is the place of an
operation on its way (`LoadLatest` may turn to the active version, and `Load` to
`LoadLatest`, but never back), `Rest` what is left of the loops of `Prune` and of the
`RemoveAll` in `Put`. Each step of its own makes this pair smaller, and no other task,
crash or damage makes it larger; `FewVictims`, that the victims are finitely many, is
the invariant it needs. What remains for fairness is that a step is taken: that every
wait ends by its deadline. `MetadataRunsOut` says the same of the writers of
`current.json`, `CallsComeToAnEnd` of calls and flights, and `PackageOperationsEnd` of
`Get`, `Put` and `RemoveAll` file by file. The last is not a matter of course, because
processes without the lock work on the same directory: a `RemoveAll` is not kept going
by a `Put` that installs under it, since its handle is of the old directory.

`PackageInstallProofs` proves all the properties of `PackageInstall`, for any number of
processes, builds, files and faults: `TypeOK`, `AtomicRead`, `PublishedWhole`, `PutLasts`,
`UnlockedPutsAgree`, and `KeepsStore`, the refinement of `PackageStore`.
Its `IInv` adds four ideas:

- `Shape`: which operation stands where; a staging directory has the files written so far;
- `Watching`, for `AtomicRead`: a build that what has been read *and* what is still to be
  read could be (`CouldBe`) has been in place since the call began, because a file of a
  build comes into the target only with the whole of it; and while neither an empty
  name nor damage has been seen, the files read are still those in place;
- `Alone`, for `PutLasts` and `KeepsStore`: with all writers under the lock, the target
  of a `Put` that stages stays free;
- `Undisturbed`, for `UnlockedPutsAgree`: in a calm run no `Put` ever reads a package that
  does not verify, so none gets to its `RemoveAll`.

The refinement is step by step (`StoreStep`): only a rename publishes, only onto a free
name; only the holder's `RemoveAll` takes files away; and what a crash leaves of it is the
same `partial` for the next holder.

`CacheMetadataProofs` does the same for `CacheMetadata!Spec` under
`MetadataAssumption`: only the holder of `metadata` is inside the transaction, so its
`copy` stays the change of the `file` it will replace (`CopyIsFresh`); from this
follow `LastUpdateMatches`, `AcknowledgedCheck` and the refinement of
`CacheContract` (`KeepsContract`). `NeverTorn` holds because a writer at the rename has a
synced temporary file, so `current.json` is always flushed (`Flushed`).

`FlightsProofs` proves `TypeOK`, `OneFlightPerKey`, `CancelIsPrivate`, `ReportTellsResult` and
`WarnOnce` for any calls, keys, flight objects and warnings. `Table` makes
`client.flights` and the running flights the same relation, so that a new call finds
the one task there is; `Owned` ties a flight to the call that started it, which is how
its report reaches the right call after the call has left; `Warned` says that what
is handed to `OnWarning` was marked before, in one step under the mutex.
`NobodyForgotten` and `CallsComeToAnEnd` are what `CallsReturn` and `CallsReported` need
besides fairness: who waits, waits for a flight that runs or has left its result (`Kept`:
an object is not used again while a call refers to it), and who returned without a report
left a flight that will make it. The second assumes that the warnings are finitely many,
as the codes of a schema and its versions are.

`PackageUpdateProofs` proves `TypeOK`, `StoresLoadable`, `ActivatesIntact`, `NeverOlder`,
`WarningTellsDrift` and `FallbackAnnounced` for any versions, texts, schemas, archives and
other clients. `Ready` says what the operation has made sure of at each point: a package that comes to be decoded verifies against its manifest, one that
comes to be stored decodes, one that comes to be activated is on disk intact, and
`LoadLatest` past its comparison works on a version that does not compare as lower.
`NeverOlder` and `WarningTellsDrift` speak of semantic precedence and therefore rest on
`CompareIsPrecedence`; their theorems assume `Comparable`, that no identifier has leading
zeros, which the versions of the run satisfy and `versionPattern` does not enforce.
`IntegrityDecides` proves `StrongestDecides` for a list of digests of any length. The loop of
`verifyIntegrity` is a recursive function, and what it has selected after each round would
be an induction; it is done as a least counterexample instead: of the rounds after which
the selection is not the leading digest there would be a first.

`VerifyDataProofs` proves `PassMeansUsable`, under `Comparable`, for the command and the
client it drives together. A step of the client keeps the invariant of `PackageUpdateProofs`,
whatever the archive; to it come `Inputs`, what `verifyPackages` has accepted at each of its
steps, `Private`, that the command's cache holds nothing but what `CacheHit` accepts and the
snapshot returned is one of these, `Driven`, where the client stands while the command
waits for it, and `Returned`, what it has answered. The cache is used by nobody else, which is why a package once
stored is still there when the second `LoadCached` asks for it. `SoundPassed` is the
other direction, `SoundPasses`: a candidate with nothing to refuse is passed. Its invariant
`Progress` follows the command and the client step by step, and says that as long as the
inputs are sound no step refuses and the client stands where the command needs it; it
holds because the two readers of an archive accept the same sound archives (`ServedSound`).

`VersionOrderProofs` proves that `Compare` gives opposite answers to opposite
questions and finds only the same version equal (`CompareAntisymmetric`), that it
is the precedence of semantic versions (`CompareIsPrecedence`), and that this is
transitive (`PrecedesTransitive`), for versions of any length under `Proper` and,
for the second, `Fits`. All three rest on the first position at which two
sequences differ, which exists because the natural numbers are well-founded
(`LeastElement`). `VersionsAreNumbers` puts them together for `SharedCache`: finitely many
versions that are `Proper` and `Fits` have places 1, 2, 3, ... that are ordered as
`comparePackageVersions` orders the versions.

`TraceProofs` proves `ReportedDurations` for any nesting, any number of stages and
any clock. The invariant keeps an account of each open stage (`Account`): the
time since its start, up to now or up to the start of the stage opened inside it,
is its own or that of its children. A stage that ends passes its whole time on
and its parent becomes the innermost one, so the account closes again.
`DurationsWithinReport` proves that the durations add up to no more than the time since the
operation began, so that the part of a report no stage accounts for is never negative. The
sum is spoken of by its partial sums, which exist (`HasSums`), and the invariant is that
whatever stays below the times in `inner` adds up to no more than `now` (`InnerFits`).

Only model-checked:

- liveness (`OperationsReturn`, `WritersReturn`, `CallsReturn`, `CallsReported`): liveness under
  fairness and `ENABLED` are beyond the prover. Proved is that the steps run out, see above.

No module here has a recursive operator.

## Not modelled

- HTTP, gzip, tar, digests and JSON: a text is what an entry names or it is not,
  and it decodes or it does not;
- the wording of warnings, and which stages an operation opens;
- version strings that differ only after `+` or in leading zeros, which the code
  compares as equal;
- file systems that lose or reorder changes of directories in a power failure: neither
  `Put` nor `atomicfile.Write` syncs a directory, so on such a system a change that was
  reported may be undone, and `KeepsContract` would not survive the power failure;
- errors of `Unlock` itself, other than as an error returned by the operation: the
  lock is released all the same;
- `NewCache`, which combines two interfaces, and custom stores and lockers beyond the
  contract in `CacheContract`: their code is not here;
- the accessors of `snapshot.go` and `types_custom.go`: copies of and lookups in an
  immutable value;
- `schemasync`, `schemacheck` and `schemagen`: sequential developer tools that download,
  compare or print, and stop at the first error; they share `atomicfile.Write` with
  the cache but run alone. Generated types, embedded data and the example have no
  behaviour to state;
- the limits of `verifydata`'s reader and its printed report.

## What is left

The plan of the modules is carried out. What could still be added:

1. a property of what `Put` does to a package that it could not read for a moment: it
   removes and reinstalls it (`cache_file.go`, `Put`), and a crash in between leaves the
   active version without a package; `CurrentIntact` excuses this;
2. a repair of the case where the active package is damaged and the registry is
   behind, should the code get one: `LoadLatest` then falls back to the damaged package
   every time.

Running the checks: `tlc -config <run>.cfg <module>` for each run of `PROJECT.json`,
`tlapm M.tla` for `M` in `SharedCacheProofs`, `PackageInstallProofs`, `CacheMetadataProofs`,
`FlightsProofs`, `PackageUpdateProofs`, `VerifyDataProofs`, `VersionOrderProofs` and
`TraceProofs`.
