--------------------------- MODULE PackageInstall ---------------------------
(***************************************************************************)
(* FileCache.Get and Put and the removal of a package (cache_file.go,      *)
(* cache_file_prune.go), file by file, for one version: the directory      *)
(* versions/<v>, the staging directories .install-* and the version lock.  *)
(*                                                                         *)
(* The client calls Get and Put under the version lock; an application may *)
(* call them on a FileCache without it.  Prune takes the lock itself.      *)
(*                                                                         *)
(* A build is a package that verifies.  Two builds of a version exist when *)
(* two registries publish different files for it.  A file is not there, is *)
(* the one of some build, or is torn: nothing a manifest names.            *)
(***************************************************************************)
EXTENDS Integers

CONSTANTS
    Procs,      \* goroutines, of whatever process
    Writers,    \* those that install and prune
    Builds,     \* packages of this version
    NumFiles,   \* the length of cachedFiles, in the order they are read and written
    MaxFaults,  \* bound: crashes, power failures, damaged files
    None,       \* a file that is not there
    Torn,       \* a file no manifest names
    NoDir,      \* a directory that is not there
    Nobody

Files    == 1 .. NumFiles
Contents == Builds \cup {Torn, None}
Dirs     == [Files -> Contents]
Empty    == [f \in Files |-> None]

ASSUME InstallAssumption ==
    /\ Writers \subseteq Procs
    /\ Nobody \notin Procs
    /\ NumFiles \in Nat \ {0}
    /\ MaxFaults \in Nat
    /\ None # Torn
    /\ None \notin Builds
    /\ Torn \notin Builds
    /\ NoDir \notin Dirs

VARIABLES
    target,   \* versions/<v>
    flushed,  \* whether its files have reached the disk
    lock,     \* holder of "version:<v>"
    open,     \* who holds a handle of the directory that is now the target
    direct,   \* the processes that call Get and Put without the lock
    op, pc,   \* the operation of a process and where it stands
    build,    \* the package it installs
    staging,  \* its .install-* directory
    next,     \* the file it reads or writes next
    got,      \* the files it has read
    seen,     \* history: what the target has been since it began to read
    broken,   \* history: the target is damaged or half removed since its rename
    calm,     \* history: nothing was pruned, damaged or misread so far
    faults

place   == <<target, flushed, open, broken>>
history == <<seen, calm, faults>>
own     == <<op, pc, build, staging, next, got>>
vars    == <<place, lock, direct, own, history>>

Ends == {"stored", "served", "removed", "missed", "failed"}
Pcs  == {"idle", "stat", "read", "clear", "unlink", "stage", "write"} \cup Ends

-----------------------------------------------------------------------------
(* Helpers. *)

\* Mutant: verification takes any file for the one the manifest names.
VerifiesPresent(dir, b) == \A f \in Files : dir[f] # None

\* packageFromEntry accepts the files: they are those their manifest names.
Verifies(dir, b) == \A f \in Files : dir[f] = b

Whole(dir) == dir # NoDir /\ \E b \in Builds : Verifies(dir, b)

\* os.ReadFile finds no such file.
Missing(f) == IF target = NoDir THEN TRUE ELSE target[f] = None

\* A directory as a whole: not there, a build, or anything else (Torn).
Kind(dir) ==
    IF dir = NoDir THEN NoDir ELSE IF Whole(dir) THEN dir[1] ELSE Torn

Goto(p, label) == pc' = [pc EXCEPT ![p] = label]

Readers == {p \in Procs : pc[p] = "read"}

\* The target becomes dir before the eyes of those who watch.
Becomes(dir, watchers) ==
    /\ target' = dir
    /\ seen' = [p \in Procs |-> IF p \in watchers THEN seen[p] \cup {Kind(dir)} ELSE seen[p]]

BeginRead(p) ==
    /\ Goto(p, "read")
    /\ seen' = [seen EXCEPT ![p] = {Kind(target)}]
    /\ next' = [next EXCEPT ![p] = 1]

Init ==
    /\ target = NoDir
    /\ flushed = TRUE
    /\ lock = Nobody
    /\ open = {}
    /\ direct \in SUBSET Procs
    /\ op = [p \in Procs |-> "none"]
    /\ pc = [p \in Procs |-> "idle"]
    /\ build = [p \in Procs |-> None]
    /\ staging = [p \in Procs |-> NoDir]
    /\ next = [p \in Procs |-> 1]
    /\ got = [p \in Procs |-> Empty]
    /\ seen = [p \in Procs |-> {}]
    /\ broken = FALSE
    /\ calm = TRUE
    /\ faults = 0

-----------------------------------------------------------------------------
(* Starting an operation, with the version lock or without it.  The wait for *)
(* the lock is in SharedCache.                                               *)

TakesLock(p, o) == p \notin direct \/ o = "prune"

Begin(p, o, b) ==
    /\ pc[p] = "idle"
    /\ TakesLock(p, o) => lock = Nobody
    /\ lock' = IF TakesLock(p, o) THEN p ELSE lock
    /\ op' = [op EXCEPT ![p] = o]
    /\ build' = [build EXCEPT ![p] = b]
    /\ UNCHANGED <<place, direct, staging, got, faults>>

StartGet(p) ==
    /\ Begin(p, "get", None)
    /\ BeginRead(p)
    /\ UNCHANGED calm

\* Put has verified the entry it was given.
StartPut(p) ==
    /\ p \in Writers
    /\ \E b \in Builds : Begin(p, "put", b)
    /\ Goto(p, "stat")
    /\ UNCHANGED <<next, seen, calm>>

\* Prune comes to this version, which is neither active nor kept.
StartPrune(p) ==
    /\ p \in Writers
    /\ Begin(p, "prune", None)
    /\ Goto(p, "clear")
    /\ calm' = FALSE
    /\ UNCHANGED <<next, seen>>

-----------------------------------------------------------------------------
(* Get: the files one after the other, then their verification. *)

ReadFile(p) ==
    /\ pc[p] = "read"
    /\ next[p] <= NumFiles
    /\ ~Missing(next[p])
    /\ got' = [got EXCEPT ![p][next[p]] = target[next[p]]]
    /\ next' = [next EXCEPT ![p] = @ + 1]
    /\ UNCHANGED <<place, lock, direct, op, pc, build, staging, history>>

\* What Get has read is forgotten unless it is its answer.
EndRead(p, label) ==
    /\ Goto(p, label)
    /\ next' = [next EXCEPT ![p] = 1]
    /\ got' = IF label = "served" THEN got ELSE [got EXCEPT ![p] = Empty]

Accept(p) ==
    /\ pc[p] = "read"
    /\ next[p] > NumFiles
    /\ Whole(got[p])
    /\ EndRead(p, IF op[p] = "get" THEN "served" ELSE "stored")
    /\ UNCHANGED <<place, lock, direct, op, build, staging, history>>

\* Get has failed.  Put removes what is in place, unless it has already tried
\* to rename its own directory there.
AfterMiss(p) ==
    IF op[p] = "get" THEN "missed" ELSE IF staging[p] = NoDir THEN "clear" ELSE "failed"

\* A file is missing, or the files are not those the manifest names.
Reject(p) ==
    /\ pc[p] = "read"
    /\ IF next[p] <= NumFiles THEN Missing(next[p]) ELSE ~Whole(got[p])
    /\ EndRead(p, AfterMiss(p))
    /\ UNCHANGED <<place, lock, direct, op, build, staging, history>>

\* A read error, which may pass.
Misread(p) ==
    /\ pc[p] = "read"
    /\ next[p] <= NumFiles
    /\ EndRead(p, IF op[p] = "get" THEN "failed" ELSE AfterMiss(p))
    /\ calm' = FALSE
    /\ UNCHANGED <<place, lock, direct, op, build, staging, seen, faults>>

-----------------------------------------------------------------------------
(* RemoveAll of the target, by Put and by Prune. *)

Cleared(p) == Goto(p, IF op[p] = "put" THEN "stage" ELSE "removed")

OpenTarget(p) ==
    /\ pc[p] = "clear"
    /\ IF target = NoDir
       THEN Cleared(p) /\ UNCHANGED open
       ELSE Goto(p, "unlink") /\ open' = open \cup {p}
    /\ UNCHANGED <<target, flushed, broken, lock, direct, op, build, staging, next, got, history>>

Unlink(p) ==
    /\ pc[p] = "unlink"
    /\ p \in open
    /\ \E f \in Files : /\ target[f] # None
                        /\ Becomes([target EXCEPT ![f] = None], Readers)
    /\ UNCHANGED <<flushed, open, broken, lock, direct, own, calm, faults>>

\* The directory is empty, or its name now belongs to another empty one.
RemoveDir(p) ==
    /\ pc[p] = "unlink"
    /\ target = Empty
    /\ Becomes(NoDir, Readers)
    /\ flushed' = TRUE
    /\ open' = {}
    /\ broken' = FALSE
    /\ Cleared(p)
    /\ UNCHANGED <<lock, direct, op, build, staging, next, got, calm, faults>>

\* Somebody else has removed the directory.
FindGone(p) ==
    /\ pc[p] = "unlink"
    /\ target = NoDir
    /\ Cleared(p)
    /\ UNCHANGED <<place, lock, direct, op, build, staging, next, got, history>>

-----------------------------------------------------------------------------
(* Put. *)

\* Mutant: what is in place is taken for the package.
StatTrusting(p) ==
    /\ pc[p] = "stat"
    /\ Goto(p, IF target = NoDir THEN "stage" ELSE "stored")
    /\ UNCHANGED <<place, lock, direct, op, build, staging, next, got, history>>

Stat(p) ==
    /\ pc[p] = "stat"
    /\ IF target = NoDir
       THEN Goto(p, "stage") /\ UNCHANGED <<next, seen>>
       ELSE BeginRead(p)
    /\ UNCHANGED <<place, lock, direct, op, build, staging, got, calm, faults>>

MkdirTemp(p) ==
    /\ pc[p] = "stage"
    /\ staging' = [staging EXCEPT ![p] = Empty]
    /\ seen' = [seen EXCEPT ![p] = {}]
    /\ Goto(p, "write")
    /\ UNCHANGED <<place, lock, direct, op, build, next, got, calm, faults>>

\* Mutant: the files are written where readers look for them.
WriteInPlace(p) ==
    /\ pc[p] = "write"
    /\ next[p] <= NumFiles
    /\ Becomes([(IF target = NoDir THEN Empty ELSE target) EXCEPT ![next[p]] = build[p]], Readers)
    /\ staging' = [staging EXCEPT ![p][next[p]] = build[p]]
    /\ next' = [next EXCEPT ![p] = @ + 1]
    /\ UNCHANGED <<flushed, open, broken, lock, direct, op, pc, build, got, calm, faults>>

WriteFile(p) ==
    /\ pc[p] = "write"
    /\ next[p] <= NumFiles
    /\ staging' = [staging EXCEPT ![p][next[p]] = build[p]]
    /\ next' = [next EXCEPT ![p] = @ + 1]
    /\ UNCHANGED <<place, lock, direct, op, pc, build, got, history>>

\* Mutant: the last file is still to be written.
CanRenameEarly(p) == next[p] >= NumFiles /\ target \in {NoDir, Empty}

\* rename(2) replaces no directory but an empty one.
CanRename(p) == next[p] > NumFiles /\ target \in {NoDir, Empty}

\* The files become the package under its name; nothing is synced before.
Rename(p) ==
    /\ pc[p] = "write"
    /\ CanRename(p)
    /\ Becomes(staging[p], Readers \cup {p})
    /\ flushed' = FALSE
    /\ open' = {}
    /\ broken' = FALSE
    /\ staging' = [staging EXCEPT ![p] = NoDir]
    /\ next' = [next EXCEPT ![p] = 1]
    /\ Goto(p, "stored")
    /\ UNCHANGED <<lock, direct, op, build, got, calm, faults>>

\* Another Put has been faster, or the rename has failed: Get decides.
RenameFails(p) ==
    /\ pc[p] = "write"
    /\ next[p] > NumFiles
    /\ BeginRead(p)
    /\ UNCHANGED <<place, lock, direct, op, build, staging, got, calm, faults>>

-----------------------------------------------------------------------------
(* The end of an operation, errors, crashes. *)

\* The staging directory is removed, or is left behind under a name nobody reads.
Unstaged(gone) == staging' = [p \in Procs |-> IF p \in gone THEN NoDir ELSE staging[p]]

\* What is left of a process: nothing but what it had put on the disk.
Gone(gone) ==
    /\ op' = [p \in Procs |-> IF p \in gone THEN "none" ELSE op[p]]
    /\ pc' = [p \in Procs |-> IF p \in gone THEN "idle" ELSE pc[p]]
    /\ build' = [p \in Procs |-> IF p \in gone THEN None ELSE build[p]]
    /\ Unstaged(gone)
    /\ next' = [p \in Procs |-> IF p \in gone THEN 1 ELSE next[p]]
    /\ got' = [p \in Procs |-> IF p \in gone THEN Empty ELSE got[p]]
    /\ open' = open \ gone
    /\ lock' = IF lock \in gone THEN Nobody ELSE lock

Forgotten(gone) == seen' = [p \in Procs |-> IF p \in gone THEN {} ELSE seen[p]]

Removing(gone) == \E p \in gone : pc[p] = "unlink" /\ p \in open

\* The staging directory is removed, or that fails and nobody is told; the caller
\* unlocks.
Return(p) ==
    /\ pc[p] \in Ends
    /\ Gone({p})
    /\ Forgotten({p})
    /\ UNCHANGED <<target, flushed, broken, direct, calm, faults>>

\* A call to the file system fails, RemoveAll because a directory that is not
\* empty bears the name by now.
Fail(p) ==
    /\ pc[p] \in {"stat", "clear", "unlink", "stage", "write"}
    /\ pc[p] = "write" => next[p] <= NumFiles
    /\ Goto(p, "failed")
    /\ broken' = (broken \/ Removing({p}))
    /\ open' = open \ {p}
    /\ UNCHANGED <<target, flushed, lock, direct, op, build, staging, next, got, history>>

\* The process dies; the system releases its locks.
Crash(p) ==
    /\ pc[p] # "idle"
    /\ faults < MaxFaults
    /\ faults' = faults + 1
    /\ broken' = (broken \/ Removing({p}))
    /\ Gone({p})
    /\ Forgotten({p})
    /\ UNCHANGED <<target, flushed, direct, calm>>

\* The machine stops.  The rename was not preceded by a sync, so files of the
\* package may have lost their contents; directories are taken to be journaled.
PowerLoss ==
    /\ faults < MaxFaults
    /\ faults' = faults + 1
    /\ \E lost \in SUBSET Files :
          /\ lost # {} => ~flushed /\ \A f \in lost : target[f] # None
          /\ target' = IF lost = {} THEN target
                       ELSE [f \in Files |-> IF f \in lost THEN Torn ELSE target[f]]
          /\ broken' = (broken \/ lost # {} \/ Removing(Procs))
    /\ flushed' = TRUE
    /\ calm' = FALSE
    /\ Gone(Procs)
    /\ Forgotten(Procs)
    /\ UNCHANGED direct

\* The system writes the files of the package to the disk.
Flush ==
    /\ ~flushed
    /\ flushed' = TRUE
    /\ UNCHANGED <<target, open, broken, lock, direct, own, history>>

\* Something other than this program damages a file.
Damage ==
    /\ faults < MaxFaults
    /\ faults' = faults + 1
    /\ target # NoDir
    /\ \E f \in Files : /\ target[f] \in Builds
                        /\ Becomes([target EXCEPT ![f] = Torn], Readers)
    /\ broken' = TRUE
    /\ calm' = FALSE
    /\ UNCHANGED <<flushed, open, lock, direct, own>>

-----------------------------------------------------------------------------

GetStep(p) == ReadFile(p) \/ Accept(p) \/ Reject(p) \/ Misread(p)

RemoveStep(p) == OpenTarget(p) \/ Unlink(p) \/ RemoveDir(p) \/ FindGone(p)

PutStep(p) == Stat(p) \/ MkdirTemp(p) \/ WriteFile(p) \/ Rename(p) \/ RenameFails(p)

Step(p) ==
    \/ StartGet(p) \/ StartPut(p) \/ StartPrune(p)
    \/ GetStep(p) \/ RemoveStep(p) \/ PutStep(p)
    \/ Return(p) \/ Fail(p) \/ Crash(p)

Next == (\E p \in Procs : Step(p)) \/ PowerLoss \/ Flush \/ Damage

Spec == Init /\ [][Next]_vars

-----------------------------------------------------------------------------
(* Properties. *)

\* Every variable keeps its type.
TypeOK ==
    /\ target \in Dirs \cup {NoDir}
    /\ flushed \in BOOLEAN
    /\ lock \in Procs \cup {Nobody}
    /\ open \in SUBSET Procs
    /\ direct \in SUBSET Procs
    /\ op \in [Procs -> {"none", "get", "put", "prune"}]
    /\ pc \in [Procs -> Pcs]
    /\ build \in [Procs -> Builds \cup {None}]
    /\ staging \in [Procs -> Dirs \cup {NoDir}]
    /\ next \in [Procs -> 1 .. NumFiles + 1]
    /\ got \in [Procs -> Dirs]
    /\ seen \in [Procs -> SUBSET (Builds \cup {NoDir, Torn})]
    /\ broken \in BOOLEAN
    /\ calm \in BOOLEAN
    /\ faults \in 0 .. MaxFaults

\* The answer of a Get was true at one moment of the call, although it reads
\* file by file and may hold no lock while the package is removed and another
\* build installed: a package it answers with was in place as a whole, and where
\* it finds none, or files that do not verify, there was none or a damaged one.
AtomicRead ==
    \A p \in Procs :
        /\ pc[p] = "served" => \E b \in seen[p] \cap Builds : Verifies(got[p], b)
        /\ pc[p] = "missed" => seen[p] \cap {NoDir, Torn} # {}

\* A directory under the name of the version has all the files of one build,
\* unless somebody is removing it or a fault came between: a crash inside the
\* staging leaves the name free.
PublishedWhole ==
    target # NoDir =>
        Whole(target) \/ broken \/ \E p \in Procs : pc[p] = "unlink" /\ p \in open

\* A Put that returns nil has met a whole package in the course of the call,
\* and if all writers hold the version lock it is still there, unless damaged.
PutLasts ==
    \A p \in Procs :
        pc[p] = "stored" =>
            /\ seen[p] \cap Builds # {}
            /\ direct \cap Writers = {} => Whole(target) \/ broken

\* Without damage, misreading and pruning even Puts that hold no lock agree:
\* none removes what another has installed.
UnlockedPutsAgree ==
    calm => /\ \A p \in Procs : pc[p] \notin {"clear", "unlink"}
            /\ target # NoDir => Whole(target)

\* What the four words of SharedCache stand for.
Summary ==
    IF target = NoDir THEN "absent"
    ELSE IF Whole(target) THEN "valid"
    ELSE IF \E f \in Files : target[f] = None THEN "partial" ELSE "unreadable"

Store == INSTANCE PackageStore WITH package <- Summary, holder <- lock

\* As long as those who write hold the version lock, each of their steps is a
\* step of PackageStore, which is how SharedCache sees a package.
KeepsStore ==
    Store!Init /\ [][direct \cap Writers = {} => Store!Next]_vars
=============================================================================
