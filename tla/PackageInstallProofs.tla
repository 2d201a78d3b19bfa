----------------------- MODULE PackageInstallProofs -----------------------
(***************************************************************************)
(* Proofs about PackageInstall, for any number of processes, writers,      *)
(* builds, files and faults.                                               *)
(*                                                                         *)
(* IInv is inductive.  Its parts, each kept by the lemma of its name:      *)
(*   Typed           types, and that a handle is one of a directory;       *)
(*   Locked, Shape   who holds the lock, which operation stands where;     *)
(*   Watching        what a reader has read was in place meanwhile;        *)
(*   Alone           what the holder of the lock may rely on;              *)
(*   Undisturbed     what all may rely on before any fault or pruning;     *)
(* and four of the properties themselves.                                  *)
(* OperationsEnd says that nobody can keep a removal or a read going.      *)
(***************************************************************************)
EXTENDS PackageInstall, FiniteSetTheorems, TLAPS

\* The types, and what they do not say.
Typed ==
    /\ TypeOK
    /\ \A p \in Procs : pc[p] = "write" => staging[p] # NoDir
    /\ open # {} => target # NoDir
    /\ ~flushed => target # NoDir

\* There is a first file, and it is the first to be read and written.
LEMMA FirstFile == 1 \in 1 .. NumFiles + 1 /\ 1 \in Files
BY InstallAssumption DEF Files

\* An empty directory is one.
LEMMA EmptyDir == Empty \in Dirs
BY DEF Empty, Dirs, Contents

\* No directory is not a directory.
LEMMA NoDirs == NoDir \notin Dirs
BY InstallAssumption

\* A file of a directory.
LEMMA DirFile ==
    ASSUME NEW dir \in Dirs, NEW f \in Files
    PROVE  dir[f] \in Contents
BY DEF Dirs

\* A directory with one file replaced.
LEMMA DirWith ==
    ASSUME NEW dir \in Dirs, NEW f \in Files, NEW c \in Contents
    PROVE  [dir EXCEPT ![f] = c] \in Dirs
BY DEF Dirs

\* What a directory is as a whole.
LEMMA KindType ==
    ASSUME NEW dir \in Dirs \cup {NoDir}
    PROVE  Kind(dir) \in Builds \cup {NoDir, Torn}
BY FirstFile DEF Kind, Whole, Verifies

\* Every step keeps the types.
LEMMA TypeStep ==
    ASSUME Typed, [Next]_vars
    PROVE  Typed'
<1> USE InstallAssumption, NoDirs
<1> USE DEF Typed, TypeOK, Goto, Pcs, Ends, place, history, own
<1>1. ASSUME NEW p \in Procs, StartGet(p) PROVE Typed'
  BY <1>1, KindType, FirstFile DEF StartGet, Begin, TakesLock, BeginRead
<1>2. ASSUME NEW p \in Procs, StartPut(p) PROVE Typed'
  BY <1>2 DEF StartPut, Begin, TakesLock
<1>3. ASSUME NEW p \in Procs, StartPrune(p) PROVE Typed'
  BY <1>3 DEF StartPrune, Begin, TakesLock
<1>4. ASSUME NEW p \in Procs, ReadFile(p) PROVE Typed'
  <2>1. next[p] \in Files /\ next[p] + 1 \in 1 .. NumFiles + 1 /\ target \in Dirs
    BY <1>4 DEF ReadFile, Missing, Files
  <2>2. [got[p] EXCEPT ![next[p]] = target[next[p]]] \in Dirs
    BY <2>1, DirFile, DirWith
  <2>3. got' = [got EXCEPT ![p] = [got[p] EXCEPT ![next[p]] = target[next[p]]]]
    BY <1>4 DEF ReadFile
  <2>4. QED  BY <1>4, <2>1, <2>2, <2>3 DEF ReadFile
<1>5. ASSUME NEW p \in Procs, Accept(p) PROVE Typed'
  BY <1>5, FirstFile, EmptyDir DEF Accept, EndRead
<1>6. ASSUME NEW p \in Procs, Reject(p) PROVE Typed'
  BY <1>6, FirstFile, EmptyDir DEF Reject, EndRead, AfterMiss
<1>7. ASSUME NEW p \in Procs, Misread(p) PROVE Typed'
  BY <1>7, FirstFile, EmptyDir DEF Misread, EndRead, AfterMiss
<1>8. ASSUME NEW p \in Procs, OpenTarget(p) PROVE Typed'
  BY <1>8 DEF OpenTarget, Cleared
<1>9. ASSUME NEW p \in Procs, Unlink(p) PROVE Typed'
  <2>1. PICK f \in Files : Becomes([target EXCEPT ![f] = None], Readers)
    BY <1>9 DEF Unlink
  <2>2. target \in Dirs
    BY <1>9 DEF Unlink
  <2>3. [target EXCEPT ![f] = None] \in Dirs
    BY <2>2, DirWith DEF Contents
  <2>4. target' \in Dirs /\ seen' \in [Procs -> SUBSET (Builds \cup {NoDir, Torn})]
    BY <2>1, <2>3, KindType DEF Becomes
  <2>5. QED  BY <1>9, <2>4 DEF Unlink
<1>10. ASSUME NEW p \in Procs, RemoveDir(p) PROVE Typed'
  <2>1. target' = NoDir /\ seen' \in [Procs -> SUBSET (Builds \cup {NoDir, Torn})]
    BY <1>10, KindType DEF RemoveDir, Becomes
  <2>2. QED  BY <1>10, <2>1 DEF RemoveDir, Cleared
<1>11. ASSUME NEW p \in Procs, FindGone(p) PROVE Typed'
  BY <1>11 DEF FindGone, Cleared
<1>12. ASSUME NEW p \in Procs, Stat(p) PROVE Typed'
  BY <1>12, KindType, FirstFile DEF Stat, BeginRead
<1>13. ASSUME NEW p \in Procs, MkdirTemp(p) PROVE Typed'
  BY <1>13, EmptyDir DEF MkdirTemp
<1>14. ASSUME NEW p \in Procs, WriteFile(p) PROVE Typed'
  <2>1. next[p] \in Files /\ next[p] + 1 \in 1 .. NumFiles + 1
    BY <1>14 DEF WriteFile, Files
  <2>2. staging' = [staging EXCEPT ![p] = [staging[p] EXCEPT ![next[p]] = build[p]]]
    BY <1>14 DEF WriteFile
  <2>3. staging[p] \in Dirs
    BY <1>14 DEF WriteFile
  <2>4. [staging[p] EXCEPT ![next[p]] = build[p]] \in Dirs
    BY <2>1, <2>3, DirWith DEF Contents
  <2>5. /\ staging' \in [Procs -> Dirs \cup {NoDir}]
        /\ \A q \in Procs : pc[q] = "write" => staging'[q] # NoDir
    BY <2>2, <2>4
  <2>6. next' \in [Procs -> 1 .. NumFiles + 1]
    BY <1>14, <2>1 DEF WriteFile
  <2>7. QED  BY <1>14, <2>5, <2>6 DEF WriteFile
<1>15. ASSUME NEW p \in Procs, Rename(p) PROVE Typed'
  <2>1. target' = staging[p] /\ seen' \in [Procs -> SUBSET (Builds \cup {NoDir, Torn})]
    BY <1>15, KindType DEF Rename, Becomes
  <2>2. QED  BY <1>15, <2>1, FirstFile DEF Rename
<1>16. ASSUME NEW p \in Procs, RenameFails(p) PROVE Typed'
  BY <1>16, KindType, FirstFile DEF RenameFails, BeginRead
<1>17. ASSUME NEW p \in Procs, Return(p) PROVE Typed'
  BY <1>17, FirstFile, EmptyDir DEF Return, Gone, Unstaged, Forgotten
<1>18. ASSUME NEW p \in Procs, Fail(p) PROVE Typed'
  BY <1>18 DEF Fail
<1>19. ASSUME NEW p \in Procs, Crash(p) PROVE Typed'
  BY <1>19, FirstFile, EmptyDir DEF Crash, Gone, Unstaged, Forgotten
<1>20. ASSUME PowerLoss PROVE Typed'
  <2>1. target' \in Dirs \cup {NoDir} /\ (target' = NoDir <=> target = NoDir)
       /\ broken' \in BOOLEAN
    <3>1. PICK lost \in SUBSET Files :
              /\ lost # {} => ~flushed
              /\ target' = IF lost = {} THEN target
                           ELSE [f \in Files |-> IF f \in lost THEN Torn ELSE target[f]]
              /\ broken' = (broken \/ lost # {} \/ Removing(Procs))
      BY <1>20 DEF PowerLoss
    <3>2. CASE lost # {}
      <4>1. target \in Dirs
        BY <3>1, <3>2
      <4>2. [f \in Files |-> IF f \in lost THEN Torn ELSE target[f]] \in Dirs
        BY <4>1 DEF Dirs, Contents
      <4>3. QED  BY <3>1, <3>2, <4>1, <4>2
    <3>3. QED  BY <3>1, <3>2
  <2>2. open' = {} /\ faults' \in 0 .. MaxFaults /\ lock' \in Procs \cup {Nobody}
    BY <1>20 DEF PowerLoss, Gone
  <2>3. QED  BY <1>20, <2>1, <2>2, FirstFile, EmptyDir DEF PowerLoss, Gone, Unstaged, Forgotten
<1>21. ASSUME Flush PROVE Typed'
  BY <1>21 DEF Flush
<1>22. ASSUME Damage PROVE Typed'
  <2>1. PICK f \in Files : Becomes([target EXCEPT ![f] = Torn], Readers)
    BY <1>22 DEF Damage
  <2>2. target \in Dirs /\ [target EXCEPT ![f] = Torn] \in Dirs
    BY <1>22, DirWith DEF Damage, Contents
  <2>3. target' \in Dirs /\ seen' \in [Procs -> SUBSET (Builds \cup {NoDir, Torn})]
    BY <2>1, <2>2, KindType DEF Becomes
  <2>4. faults' \in 0 .. MaxFaults
    BY <1>22 DEF Damage
  <2>5. QED  BY <1>22, <2>2, <2>3, <2>4 DEF Damage
<1>23. CASE UNCHANGED vars
  BY <1>23 DEF vars
<1>24. QED
  BY <1>1, <1>2, <1>3, <1>4, <1>5, <1>6, <1>7, <1>8, <1>9, <1>10, <1>11, <1>12, <1>13,
       <1>14, <1>15, <1>16, <1>17, <1>18, <1>19, <1>20, <1>21, <1>22, <1>23 DEF Next,
       Step, GetStep, RemoveStep, PutStep
-----------------------------------------------------------------------------
\* Who holds the version lock.
Locked == \A p \in Procs : pc[p] # "idle" /\ TakesLock(p, op[p]) => lock = p

\* Which operation is at which point, and what it has staged.
Shape ==
    \A p \in Procs :
        /\ pc[p] \in {"stat", "stage", "write", "stored"} => op[p] = "put"
        /\ pc[p] \in {"served", "missed"} => op[p] = "get"
        /\ pc[p] \in {"clear", "unlink"} => op[p] \in {"put", "prune"}
        /\ pc[p] = "read" => op[p] \in {"get", "put"}
        /\ op[p] \in {"put", "prune"} => p \in Writers
        /\ op[p] = "put" => build[p] \in Builds
        /\ staging[p] # NoDir =>
               op[p] = "put" /\ pc[p] \in {"read", "write", "failed", "stored"}
        /\ pc[p] \notin {"read", "write", "failed"} => next[p] = 1
        /\ pc[p] = "write" => \A f \in Files : f < next[p] => staging[p][f] = build[p]

\* Whoever has taken the lock holds it.
LEMMA LockStep ==
    ASSUME Typed, Locked, [Next]_vars
    PROVE  Locked'
<1> USE InstallAssumption
<1> USE DEF Typed, TypeOK, Locked, TakesLock, Goto, place, own, history
<1>1. ASSUME NEW p \in Procs, StartGet(p) PROVE Locked'
  BY <1>1 DEF StartGet, Begin, TakesLock, BeginRead
<1>2. ASSUME NEW p \in Procs, StartPut(p) PROVE Locked'
  BY <1>2 DEF StartPut, Begin, TakesLock
<1>3. ASSUME NEW p \in Procs, StartPrune(p) PROVE Locked'
  BY <1>3 DEF StartPrune, Begin, TakesLock
<1>4. ASSUME NEW p \in Procs, ReadFile(p) PROVE Locked'
  BY <1>4 DEF ReadFile
<1>5. ASSUME NEW p \in Procs, Accept(p) PROVE Locked'
  BY <1>5 DEF Accept, EndRead
<1>6. ASSUME NEW p \in Procs, Reject(p) PROVE Locked'
  BY <1>6 DEF Reject, EndRead, AfterMiss
<1>7. ASSUME NEW p \in Procs, Misread(p) PROVE Locked'
  BY <1>7 DEF Misread, EndRead, AfterMiss
<1>8. ASSUME NEW p \in Procs, OpenTarget(p) PROVE Locked'
  BY <1>8 DEF OpenTarget, Cleared
<1>9. ASSUME NEW p \in Procs, Unlink(p) PROVE Locked'
  BY <1>9 DEF Unlink, Becomes
<1>10. ASSUME NEW p \in Procs, RemoveDir(p) PROVE Locked'
  BY <1>10 DEF RemoveDir, Becomes, Cleared
<1>11. ASSUME NEW p \in Procs, FindGone(p) PROVE Locked'
  BY <1>11 DEF FindGone, Cleared
<1>12. ASSUME NEW p \in Procs, Stat(p) PROVE Locked'
  BY <1>12 DEF Stat, BeginRead
<1>13. ASSUME NEW p \in Procs, MkdirTemp(p) PROVE Locked'
  BY <1>13 DEF MkdirTemp
<1>14. ASSUME NEW p \in Procs, WriteFile(p) PROVE Locked'
  BY <1>14 DEF WriteFile
<1>15. ASSUME NEW p \in Procs, Rename(p) PROVE Locked'
  BY <1>15 DEF Rename, CanRename, Becomes
<1>16. ASSUME NEW p \in Procs, RenameFails(p) PROVE Locked'
  BY <1>16 DEF RenameFails, BeginRead
<1>17. ASSUME NEW p \in Procs, Return(p) PROVE Locked'
  BY <1>17 DEF Return, Gone, Unstaged, Forgotten
<1>18. ASSUME NEW p \in Procs, Fail(p) PROVE Locked'
  BY <1>18 DEF Fail
<1>19. ASSUME NEW p \in Procs, Crash(p) PROVE Locked'
  BY <1>19 DEF Crash, Gone, Unstaged, Forgotten
<1>20. ASSUME PowerLoss PROVE Locked'
  BY <1>20 DEF PowerLoss, Gone, Unstaged, Forgotten
<1>21. ASSUME Flush PROVE Locked'
  BY <1>21 DEF Flush
<1>22. ASSUME Damage PROVE Locked'
  BY <1>22 DEF Damage, Becomes
<1>23. CASE UNCHANGED vars
  BY <1>23 DEF vars
<1>24. QED
  BY <1>1, <1>2, <1>3, <1>4, <1>5, <1>6, <1>7, <1>8, <1>9, <1>10, <1>11, <1>12, <1>13,
       <1>14, <1>15, <1>16, <1>17, <1>18, <1>19, <1>20, <1>21, <1>22, <1>23 DEF Next,
       Step, GetStep, RemoveStep, PutStep
-----------------------------------------------------------------------------
\* Every step keeps the shape of the operations.
LEMMA ShapeStep ==
    ASSUME Typed, Shape, [Next]_vars
    PROVE  Shape'
<1> USE InstallAssumption
<1> USE DEF Typed, TypeOK, Shape, Goto, Ends, place, own, history
<1>1. ASSUME NEW p \in Procs, StartGet(p) PROVE Shape'
  BY <1>1 DEF StartGet, Begin, TakesLock, BeginRead
<1>2. ASSUME NEW p \in Procs, StartPut(p) PROVE Shape'
  BY <1>2 DEF StartPut, Begin, TakesLock
<1>3. ASSUME NEW p \in Procs, StartPrune(p) PROVE Shape'
  BY <1>3 DEF StartPrune, Begin, TakesLock
<1>4. ASSUME NEW p \in Procs, ReadFile(p) PROVE Shape'
  BY <1>4 DEF ReadFile
<1>5. ASSUME NEW p \in Procs, Accept(p) PROVE Shape'
  BY <1>5 DEF Accept, EndRead
<1>6. ASSUME NEW p \in Procs, Reject(p) PROVE Shape'
  BY <1>6 DEF Reject, EndRead, AfterMiss
<1>7. ASSUME NEW p \in Procs, Misread(p) PROVE Shape'
  BY <1>7 DEF Misread, EndRead, AfterMiss
<1>8. ASSUME NEW p \in Procs, OpenTarget(p) PROVE Shape'
  BY <1>8 DEF OpenTarget, Cleared
<1>9. ASSUME NEW p \in Procs, Unlink(p) PROVE Shape'
  BY <1>9 DEF Unlink, Becomes
<1>10. ASSUME NEW p \in Procs, RemoveDir(p) PROVE Shape'
  BY <1>10 DEF RemoveDir, Becomes, Cleared
<1>11. ASSUME NEW p \in Procs, FindGone(p) PROVE Shape'
  BY <1>11 DEF FindGone, Cleared
<1>12. ASSUME NEW p \in Procs, Stat(p) PROVE Shape'
  BY <1>12 DEF Stat, BeginRead
<1>13. ASSUME NEW p \in Procs, MkdirTemp(p) PROVE Shape'
  BY <1>13 DEF MkdirTemp, Files
<1>14. ASSUME NEW p \in Procs, WriteFile(p) PROVE Shape'
  <2>1. staging' = [staging EXCEPT ![p] = [staging[p] EXCEPT ![next[p]] = build[p]]]
    BY <1>14 DEF WriteFile
  <2>2. staging[p] \in Dirs /\ next' = [next EXCEPT ![p] = next[p] + 1]
    BY <1>14 DEF WriteFile
  <2>3. \A f \in Files : f < next'[p] => staging'[p][f] = build[p]
    <3> SUFFICES ASSUME NEW f \in Files, f < next[p] + 1
                 PROVE  [staging[p] EXCEPT ![next[p]] = build[p]][f] = build[p]
      BY <2>1, <2>2 DEF WriteFile
    <3>1. CASE f = next[p]
      BY <3>1, <2>2 DEF Dirs
    <3>2. CASE f < next[p]
      BY <3>2, <2>2, <1>14 DEF Dirs, WriteFile, Files
    <3>3. QED  BY <3>1, <3>2 DEF Files
  <2>4. \A q \in Procs : (staging'[q] # NoDir => staging[q] # NoDir)
       /\ (q # p => staging'[q] = staging[q] /\ next'[q] = next[q])
    BY <1>14, <2>1, <2>2 DEF WriteFile
  <2>5. QED  BY <1>14, <2>3, <2>4 DEF WriteFile
<1>15. ASSUME NEW p \in Procs, Rename(p) PROVE Shape'
  BY <1>15 DEF Rename, CanRename, Becomes
<1>16. ASSUME NEW p \in Procs, RenameFails(p) PROVE Shape'
  BY <1>16 DEF RenameFails, BeginRead
<1>17. ASSUME NEW p \in Procs, Return(p) PROVE Shape'
  BY <1>17 DEF Return, Gone, Unstaged, Forgotten
<1>18. ASSUME NEW p \in Procs, Fail(p) PROVE Shape'
  BY <1>18 DEF Fail
<1>19. ASSUME NEW p \in Procs, Crash(p) PROVE Shape'
  BY <1>19 DEF Crash, Gone, Unstaged, Forgotten
<1>20. ASSUME PowerLoss PROVE Shape'
  BY <1>20 DEF PowerLoss, Gone, Unstaged, Forgotten
<1>21. ASSUME Flush PROVE Shape'
  BY <1>21 DEF Flush
<1>22. ASSUME Damage PROVE Shape'
  BY <1>22 DEF Damage, Becomes
<1>23. CASE UNCHANGED vars
  BY <1>23 DEF vars
<1>24. QED
  BY <1>1, <1>2, <1>3, <1>4, <1>5, <1>6, <1>7, <1>8, <1>9, <1>10, <1>11, <1>12, <1>13,
       <1>14, <1>15, <1>16, <1>17, <1>18, <1>19, <1>20, <1>21, <1>22, <1>23 DEF Next,
       Step, GetStep, RemoveStep, PutStep
-----------------------------------------------------------------------------
\* What Get has read belongs to what it has seen.
CouldBe(p, b) ==
    \A f \in Files : IF f < next[p] THEN got[p][f] = b ELSE target # NoDir /\ target[f] = b

Reading(p) ==
    /\ Kind(target) \in seen[p]
    /\ \A b \in Builds : CouldBe(p, b) => b \in seen[p]
    /\ seen[p] \cap {NoDir, Torn} = {} =>
           \A f \in Files : f < next[p] => got[p][f] = target[f]

Watching == \A p \in Procs : pc[p] = "read" => Reading(p)

\* A directory that verifies is its build.
LEMMA KindWhole ==
    ASSUME NEW dir \in Dirs, NEW b \in Builds, \A f \in Files : dir[f] = b
    PROVE  Whole(dir) /\ Kind(dir) = b
BY FirstFile, InstallAssumption DEF Kind, Whole, Verifies

\* A directory that does not is none.
LEMMA KindBroken ==
    ASSUME NEW dir, ~Whole(dir)
    PROVE  Kind(dir) \in {NoDir, Torn}
BY DEF Kind, Whole

\* The target changes while p is reading.
LEMMA ReadOver ==
    ASSUME Typed, Typed', NEW p \in Procs, Reading(p),
           next'[p] = next[p], got'[p] = got[p], seen'[p] = seen[p] \cup {Kind(target')},
           ~Whole(target) \/ ~Whole(target'),
           \A b \in Builds, f \in Files :
               target' # NoDir /\ target'[f] = b =>
                   (target # NoDir /\ target[f] = b) \/ Kind(target') = b
    PROVE  Reading(p)'
<1>1. Kind(target') \in seen'[p]
  OBVIOUS
<1>2. seen'[p] \cap {NoDir, Torn} # {}
  BY KindBroken DEF Reading
<1>3. ASSUME NEW b \in Builds, CouldBe(p, b)' PROVE b \in seen'[p]
  <2>1. CASE Kind(target') = b
    BY <2>1
  <2>2. CASE Kind(target') # b
    <3>1. CouldBe(p, b)
      BY <1>3, <2>2 DEF CouldBe
    <3>2. QED  BY <3>1 DEF Reading
  <2>3. QED  BY <2>1, <2>2
<1>4. QED  BY <1>1, <1>2, <1>3 DEF Reading

\* A read begins with what is in place.
LEMMA ReadBegins ==
    ASSUME Typed, NEW p \in Procs, seen'[p] = {Kind(target)}, next'[p] = 1, target' = target
    PROVE  Reading(p)'
<1>1. ASSUME NEW b \in Builds, CouldBe(p, b)' PROVE b \in seen'[p]
  <2>1. \A f \in Files : target # NoDir /\ target[f] = b
    BY <1>1 DEF CouldBe, Files
  <2>2. target \in Dirs
    BY <2>1, FirstFile DEF Typed, TypeOK
  <2>3. QED  BY <2>1, <2>2, KindWhole
<1>2. QED  BY <1>1 DEF Reading, Files

\* A step that concerns neither the target nor this reader.
LEMMA ReadSame ==
    ASSUME NEW p \in Procs, Reading(p), target' = target, next'[p] = next[p],
           got'[p] = got[p], seen'[p] = seen[p]
    PROVE  Reading(p)'
BY DEF Reading, CouldBe

\* A staging directory is complete when it is renamed.
LEMMA StagedWhole ==
    ASSUME Typed, Shape, NEW p \in Procs, pc[p] = "write", next[p] > NumFiles
    PROVE  staging[p] \in Dirs /\ build[p] \in Builds /\ Verifies(staging[p], build[p])
              /\ Whole(staging[p]) /\ Kind(staging[p]) = build[p]
<1>1. staging[p] \in Dirs /\ build[p] \in Builds
  BY DEF Typed, TypeOK, Shape
<1>2. Verifies(staging[p], build[p])
  BY InstallAssumption DEF Typed, TypeOK, Shape, Verifies, Files
<1>3. QED  BY <1>1, <1>2, KindWhole DEF Verifies

\* A reader that has only whole directories before its eyes has read from the
\* one that is in place; a change of the target is never from one build to
\* another.
LEMMA WatchStep ==
    ASSUME Typed, Typed', Shape, Watching, [Next]_vars
    PROVE  Watching'
<1> USE InstallAssumption
<1> USE DEF Typed, TypeOK, Goto, Ends, place, own, history
<1> USE ReadSame DEF Watching
<1>1. ASSUME NEW p \in Procs, StartGet(p) PROVE Watching'
  BY <1>1, ReadSame, ReadBegins DEF StartGet, Begin, TakesLock, BeginRead
<1>2. ASSUME NEW p \in Procs, StartPut(p) PROVE Watching'
  BY <1>2, ReadSame DEF StartPut, Begin, TakesLock
<1>3. ASSUME NEW p \in Procs, StartPrune(p) PROVE Watching'
  BY <1>3, ReadSame DEF StartPrune, Begin, TakesLock
<1>4. ASSUME NEW p \in Procs, ReadFile(p) PROVE Watching'
  <2>1. Reading(p)'
    <3>1. next[p] \in Files /\ got[p] \in Dirs /\ target \in Dirs
      BY <1>4 DEF ReadFile, Missing, Files
    <3>2. next'[p] = next[p] + 1 /\ target' = target /\ seen' = seen
      BY <1>4 DEF ReadFile
    <3>3. got'[p] = [got[p] EXCEPT ![next[p]] = target[next[p]]]
      BY <1>4 DEF ReadFile
    <3>4. \A f \in Files : f < next'[p] <=> f < next[p] \/ f = next[p]
      BY <3>1, <3>2 DEF Files
    <3>5. \A f \in Files : got'[p][f] = IF f = next[p] THEN target[f] ELSE got[p][f]
      BY <3>1, <3>3 DEF Dirs
    <3>6. \A b \in Builds : CouldBe(p, b)' => CouldBe(p, b)
      BY <3>1, <3>2, <3>4, <3>5, NoDirs DEF CouldBe, Files
    <3>7. Reading(p)
      BY <1>4 DEF Watching, ReadFile
    <3>8. QED  BY <3>2, <3>4, <3>5, <3>6, <3>7 DEF Reading
  <2>2. ASSUME NEW q \in Procs, q # p, pc'[q] = "read" PROVE Reading(q)'
    BY <1>4, <2>2, ReadSame DEF ReadFile, Watching
  <2>3. QED  BY <2>1, <2>2 DEF Watching
<1>5. ASSUME NEW p \in Procs, Accept(p) PROVE Watching'
  BY <1>5, ReadSame DEF Accept, EndRead
<1>6. ASSUME NEW p \in Procs, Reject(p) PROVE Watching'
  BY <1>6, ReadSame DEF Reject, EndRead, AfterMiss
<1>7. ASSUME NEW p \in Procs, Misread(p) PROVE Watching'
  BY <1>7, ReadSame DEF Misread, EndRead, AfterMiss
<1>8. ASSUME NEW p \in Procs, OpenTarget(p) PROVE Watching'
  BY <1>8, ReadSame DEF OpenTarget, Cleared
<1>9. ASSUME NEW p \in Procs, Unlink(p) PROVE Watching'
  <2> SUFFICES ASSUME NEW q \in Procs, pc'[q] = "read" PROVE Reading(q)'
    BY DEF Watching
  <2>1. PICK f \in Files : target[f] # None /\ Becomes([target EXCEPT ![f] = None], Readers)
    BY <1>9 DEF Unlink
  <2>2. target \in Dirs /\ pc' = pc
    BY <1>9 DEF Unlink
  <2>3. target'[f] = None /\ \A g \in Files : g # f => target'[g] = target[g]
    BY <2>1, <2>2 DEF Becomes, Dirs
  <2>4. ~Whole(target')
    BY <2>3 DEF Whole, Verifies
  <2>5. QED
    BY <1>9, <2>1, <2>2, <2>3, <2>4, NoDirs, ReadOver DEF Unlink, Becomes, Readers, Watching
<1>10. ASSUME NEW p \in Procs, RemoveDir(p) PROVE Watching'
  <2> SUFFICES ASSUME NEW q \in Procs, pc'[q] = "read" PROVE Reading(q)'
    BY DEF Watching
  <2>1. target' = NoDir /\ ~Whole(target') /\ pc[q] = "read" /\ q # p
    BY <1>10 DEF RemoveDir, Becomes, Cleared, Whole
  <2>2. QED
    BY <1>10, <2>1, ReadOver DEF RemoveDir, Becomes, Cleared, Readers, Watching
<1>11. ASSUME NEW p \in Procs, FindGone(p) PROVE Watching'
  BY <1>11, ReadSame DEF FindGone, Cleared
<1>12. ASSUME NEW p \in Procs, Stat(p) PROVE Watching'
  BY <1>12, ReadSame, ReadBegins DEF Stat, BeginRead
<1>13. ASSUME NEW p \in Procs, MkdirTemp(p) PROVE Watching'
  BY <1>13, ReadSame DEF MkdirTemp
<1>14. ASSUME NEW p \in Procs, WriteFile(p) PROVE Watching'
  BY <1>14, ReadSame DEF WriteFile
<1>15. ASSUME NEW p \in Procs, Rename(p) PROVE Watching'
  <2> SUFFICES ASSUME NEW q \in Procs, pc'[q] = "read" PROVE Reading(q)'
    BY DEF Watching
  <2>1. /\ target' = staging[p]
        /\ pc[q] = "read"
        /\ q # p
    BY <1>15 DEF Rename, Becomes
  <2>2. ~Whole(target)
    BY <1>15, FirstFile DEF Rename, CanRename, Empty, Whole, Verifies
  <2>3. Verifies(target', build[p]) /\ Kind(target') = build[p]
    BY <1>15, <2>1, StagedWhole DEF Rename, CanRename
  <2>4. QED
    BY <1>15, <2>1, <2>2, <2>3, ReadOver DEF Rename, Becomes, Readers, Watching, Verifies
<1>16. ASSUME NEW p \in Procs, RenameFails(p) PROVE Watching'
  BY <1>16, ReadSame, ReadBegins DEF RenameFails, BeginRead
<1>17. ASSUME NEW p \in Procs, Return(p) PROVE Watching'
  BY <1>17, ReadSame DEF Return, Gone, Unstaged, Forgotten
<1>18. ASSUME NEW p \in Procs, Fail(p) PROVE Watching'
  BY <1>18, ReadSame DEF Fail
<1>19. ASSUME NEW p \in Procs, Crash(p) PROVE Watching'
  BY <1>19, ReadSame DEF Crash, Gone, Unstaged, Forgotten
<1>20. ASSUME PowerLoss PROVE Watching'
  BY <1>20 DEF PowerLoss, Gone
<1>21. ASSUME Flush PROVE Watching'
  BY <1>21, ReadSame DEF Flush
<1>22. ASSUME Damage PROVE Watching'
  <2> SUFFICES ASSUME NEW q \in Procs, pc'[q] = "read" PROVE Reading(q)'
    BY DEF Watching
  <2>1. PICK f \in Files : Becomes([target EXCEPT ![f] = Torn], Readers)
    BY <1>22 DEF Damage
  <2>2. target \in Dirs /\ pc' = pc
    BY <1>22 DEF Damage
  <2>3. target'[f] = Torn /\ \A g \in Files : g # f => target'[g] = target[g]
    BY <2>1, <2>2 DEF Becomes, Dirs
  <2>4. ~Whole(target')
    BY <2>3 DEF Whole, Verifies
  <2>5. /\ next' = next /\ got' = got /\ Reading(q)
        /\ seen'[q] = seen[q] \cup {Kind(target')}
    BY <1>22, <2>1, <2>2 DEF Damage, Becomes, Readers, Watching
  <2>6. \A b \in Builds, g \in Files : target'[g] = b => target[g] = b
    BY <2>3
  <2>7. QED  BY <2>2, <2>4, <2>5, <2>6, NoDirs, ReadOver
<1>23. CASE UNCHANGED vars
  BY <1>23 DEF vars
<1>24. QED
  BY <1>1, <1>2, <1>3, <1>4, <1>5, <1>6, <1>7, <1>8, <1>9, <1>10, <1>11, <1>12, <1>13,
       <1>14, <1>15, <1>16, <1>17, <1>18, <1>19, <1>20, <1>21, <1>22, <1>23 DEF Next,
       Step, GetStep, RemoveStep, PutStep
-----------------------------------------------------------------------------
\* Get answers what it has seen.
LEMMA AnswerStep ==
    ASSUME Typed, Shape, Watching, AtomicRead, [Next]_vars
    PROVE  AtomicRead'
<1> USE InstallAssumption
<1> USE DEF Typed, TypeOK, Goto, Ends, place, own, history
<1> USE DEF AtomicRead
<1>1. ASSUME NEW p \in Procs, StartGet(p) PROVE AtomicRead'
  BY <1>1 DEF StartGet, Begin, TakesLock, BeginRead
<1>2. ASSUME NEW p \in Procs, StartPut(p) PROVE AtomicRead'
  BY <1>2 DEF StartPut, Begin, TakesLock
<1>3. ASSUME NEW p \in Procs, StartPrune(p) PROVE AtomicRead'
  BY <1>3 DEF StartPrune, Begin, TakesLock
<1>4. ASSUME NEW p \in Procs, ReadFile(p) PROVE AtomicRead'
  BY <1>4 DEF ReadFile
<1>5. ASSUME NEW p \in Procs, Accept(p) PROVE AtomicRead'
  <2>1. CASE op[p] = "get"
    <3>1. PICK b \in Builds : Verifies(got[p], b)
      BY <1>5 DEF Accept, Whole
    <3>2. CouldBe(p, b) /\ Reading(p)
      BY <1>5, <3>1 DEF Accept, CouldBe, Verifies, Watching, Files
    <3>3. b \in seen[p]
      BY <3>2 DEF Reading
    <3>4. QED  BY <1>5, <2>1, <3>1, <3>3 DEF Accept, EndRead, AtomicRead
  <2>2. CASE op[p] # "get"
    BY <1>5, <2>2 DEF Accept, EndRead, AtomicRead
  <2>3. QED  BY <2>1, <2>2
<1>6. ASSUME NEW p \in Procs, Reject(p) PROVE AtomicRead'
  <2>1. Reading(p)
    BY <1>6 DEF Reject, Watching
  <2>2. seen[p] \cap {NoDir, Torn} # {}
    <3>1. CASE next[p] <= NumFiles
      <4>1. ~Whole(target)
        BY <1>6, <3>1 DEF Reject, Missing, Whole, Verifies, Files
      <4>2. QED  BY <2>1, <4>1, KindBroken DEF Reading
    <3>2. CASE next[p] > NumFiles
      <4>1. ASSUME seen[p] \cap {NoDir, Torn} = {} PROVE FALSE
        <5>1. \A f \in Files : got[p][f] = target[f]
          BY <2>1, <3>2, <4>1 DEF Reading, Files
        <5>2. Whole(target)
          BY <2>1, <4>1, KindBroken DEF Reading
        <5>3. got[p] \in Dirs
          OBVIOUS
        <5>4. Whole(got[p])
          BY <5>1, <5>2, <5>3, NoDirs DEF Whole, Verifies
        <5>5. QED  BY <1>6, <3>2, <5>4 DEF Reject
      <4>2. QED  BY <4>1
    <3>3. QED  BY <3>1, <3>2
  <2>3. QED  BY <1>6, <2>2 DEF Reject, EndRead, AfterMiss
<1>7. ASSUME NEW p \in Procs, Misread(p) PROVE AtomicRead'
  BY <1>7 DEF Misread, EndRead, AfterMiss
<1>8. ASSUME NEW p \in Procs, OpenTarget(p) PROVE AtomicRead'
  BY <1>8 DEF OpenTarget, Cleared
<1>9. ASSUME NEW p \in Procs, Unlink(p) PROVE AtomicRead'
  BY <1>9 DEF Unlink, Becomes
<1>10. ASSUME NEW p \in Procs, RemoveDir(p) PROVE AtomicRead'
  BY <1>10 DEF RemoveDir, Becomes, Cleared
<1>11. ASSUME NEW p \in Procs, FindGone(p) PROVE AtomicRead'
  BY <1>11 DEF FindGone, Cleared
<1>12. ASSUME NEW p \in Procs, Stat(p) PROVE AtomicRead'
  BY <1>12 DEF Stat, BeginRead
<1>13. ASSUME NEW p \in Procs, MkdirTemp(p) PROVE AtomicRead'
  BY <1>13 DEF MkdirTemp
<1>14. ASSUME NEW p \in Procs, WriteFile(p) PROVE AtomicRead'
  BY <1>14 DEF WriteFile
<1>15. ASSUME NEW p \in Procs, Rename(p) PROVE AtomicRead'
  BY <1>15 DEF Rename, CanRename, Becomes
<1>16. ASSUME NEW p \in Procs, RenameFails(p) PROVE AtomicRead'
  BY <1>16 DEF RenameFails, BeginRead
<1>17. ASSUME NEW p \in Procs, Return(p) PROVE AtomicRead'
  BY <1>17 DEF Return, Gone, Unstaged, Forgotten
<1>18. ASSUME NEW p \in Procs, Fail(p) PROVE AtomicRead'
  BY <1>18 DEF Fail
<1>19. ASSUME NEW p \in Procs, Crash(p) PROVE AtomicRead'
  BY <1>19 DEF Crash, Gone, Unstaged, Forgotten
<1>20. ASSUME PowerLoss PROVE AtomicRead'
  BY <1>20 DEF PowerLoss, Gone
<1>21. ASSUME Flush PROVE AtomicRead'
  BY <1>21 DEF Flush
<1>22. ASSUME Damage PROVE AtomicRead'
  BY <1>22 DEF Damage, Becomes
<1>23. CASE UNCHANGED vars
  BY <1>23 DEF vars
<1>24. QED
  BY <1>1, <1>2, <1>3, <1>4, <1>5, <1>6, <1>7, <1>8, <1>9, <1>10, <1>11, <1>12, <1>13,
       <1>14, <1>15, <1>16, <1>17, <1>18, <1>19, <1>20, <1>21, <1>22, <1>23 DEF Next,
       Step, GetStep, RemoveStep, PutStep
-----------------------------------------------------------------------------
\* Only renames, removals and faults touch the target.
LEMMA PublishStep ==
    ASSUME Typed, Shape, PublishedWhole, [Next]_vars
    PROVE  PublishedWhole'
<1> USE InstallAssumption
<1> USE DEF Typed, TypeOK, Goto, Ends, place, own, history
<1> USE DEF PublishedWhole
<1>1. ASSUME NEW p \in Procs, StartGet(p) PROVE PublishedWhole'
  BY <1>1 DEF PublishedWhole, StartGet, Begin, TakesLock, BeginRead
<1>2. ASSUME NEW p \in Procs, StartPut(p) PROVE PublishedWhole'
  BY <1>2 DEF PublishedWhole, StartPut, Begin, TakesLock
<1>3. ASSUME NEW p \in Procs, StartPrune(p) PROVE PublishedWhole'
  BY <1>3 DEF PublishedWhole, StartPrune, Begin, TakesLock
<1>4. ASSUME NEW p \in Procs, ReadFile(p) PROVE PublishedWhole'
  BY <1>4 DEF PublishedWhole, ReadFile
<1>5. ASSUME NEW p \in Procs, Accept(p) PROVE PublishedWhole'
  BY <1>5 DEF PublishedWhole, Accept, EndRead
<1>6. ASSUME NEW p \in Procs, Reject(p) PROVE PublishedWhole'
  BY <1>6 DEF PublishedWhole, Reject, EndRead, AfterMiss
<1>7. ASSUME NEW p \in Procs, Misread(p) PROVE PublishedWhole'
  BY <1>7 DEF PublishedWhole, Misread, EndRead, AfterMiss
<1>8. ASSUME NEW p \in Procs, OpenTarget(p) PROVE PublishedWhole'
  BY <1>8 DEF PublishedWhole, OpenTarget, Cleared
<1>9. ASSUME NEW p \in Procs, Unlink(p) PROVE PublishedWhole'
  BY <1>9 DEF PublishedWhole, Unlink
<1>10. ASSUME NEW p \in Procs, RemoveDir(p) PROVE PublishedWhole'
  BY <1>10 DEF PublishedWhole, RemoveDir, Becomes
<1>11. ASSUME NEW p \in Procs, FindGone(p) PROVE PublishedWhole'
  BY <1>11 DEF PublishedWhole, FindGone, Cleared
<1>12. ASSUME NEW p \in Procs, Stat(p) PROVE PublishedWhole'
  BY <1>12 DEF PublishedWhole, Stat, BeginRead
<1>13. ASSUME NEW p \in Procs, MkdirTemp(p) PROVE PublishedWhole'
  BY <1>13 DEF PublishedWhole, MkdirTemp
<1>14. ASSUME NEW p \in Procs, WriteFile(p) PROVE PublishedWhole'
  BY <1>14 DEF PublishedWhole, WriteFile
<1>15. ASSUME NEW p \in Procs, Rename(p) PROVE PublishedWhole'
  BY <1>15, StagedWhole DEF PublishedWhole, Rename, CanRename, Becomes
<1>16. ASSUME NEW p \in Procs, RenameFails(p) PROVE PublishedWhole'
  BY <1>16 DEF PublishedWhole, RenameFails, BeginRead
<1>17. ASSUME NEW p \in Procs, Return(p) PROVE PublishedWhole'
  BY <1>17 DEF PublishedWhole, Return, Gone
<1>18. ASSUME NEW p \in Procs, Fail(p) PROVE PublishedWhole'
  BY <1>18 DEF PublishedWhole, Fail, Removing
<1>19. ASSUME NEW p \in Procs, Crash(p) PROVE PublishedWhole'
  BY <1>19 DEF PublishedWhole, Crash, Gone, Removing
<1>20. ASSUME PowerLoss PROVE PublishedWhole'
  <2>1. target' = target \/ broken'
    BY <1>20 DEF PowerLoss
  <2>2. (broken \/ Removing(Procs)) => broken'
    BY <1>20 DEF PowerLoss
  <2>3. QED  BY <2>1, <2>2 DEF PublishedWhole, Removing
<1>21. ASSUME Flush PROVE PublishedWhole'
  BY <1>21 DEF PublishedWhole, Flush
<1>22. ASSUME Damage PROVE PublishedWhole'
  BY <1>22 DEF PublishedWhole, Damage
<1>23. CASE UNCHANGED vars
  BY <1>23 DEF vars
<1>24. QED
  BY <1>1, <1>2, <1>3, <1>4, <1>5, <1>6, <1>7, <1>8, <1>9, <1>10, <1>11, <1>12, <1>13,
       <1>14, <1>15, <1>16, <1>17, <1>18, <1>19, <1>20, <1>21, <1>22, <1>23 DEF Next,
       Step, GetStep, RemoveStep, PutStep
-----------------------------------------------------------------------------
\* What the holder of the version lock may rely on if all writers take it.
Locking == direct \cap Writers = {}

Alone ==
    Locking => \A p \in Procs :
        /\ pc[p] \in {"stage", "write"} => target = NoDir
        /\ pc[p] = "read" /\ op[p] = "put" /\ next[p] > 1 => target # NoDir

\* A directory remains one when a file of it changes.
LEMMA StillThere ==
    ASSUME Typed, target # NoDir, NEW f \in Files, NEW c \in Contents
    PROVE  [target EXCEPT ![f] = c] # NoDir
BY DirWith, NoDirs DEF Typed, TypeOK

\* At most one process is in a Put or a pruning, if all writers take the lock.
LEMMA OneWriter ==
    ASSUME Locked, Shape, Locking, NEW p \in Procs, NEW q \in Procs,
           op[p] \in {"put", "prune"}, pc[p] # "idle",
           op[q] \in {"put", "prune"}, pc[q] # "idle"
    PROVE  p = q
BY DEF Locked, Shape, Locking, TakesLock

\* Nobody creates or removes the target beside a Put that holds the lock, if
\* all writers take it.
LEMMA AloneStep ==
    ASSUME Typed, Locked, Shape, Alone, [Next]_vars
    PROVE  Alone'
<1> USE InstallAssumption
<1> USE DEF Typed, TypeOK, Shape, Goto, Ends, place, own, history
<1> USE DEF Alone, Locking
<1>1. ASSUME NEW p \in Procs, StartGet(p) PROVE Alone'
  BY <1>1 DEF StartGet, Begin, TakesLock, BeginRead
<1>2. ASSUME NEW p \in Procs, StartPut(p) PROVE Alone'
  BY <1>2 DEF StartPut, Begin, TakesLock
<1>3. ASSUME NEW p \in Procs, StartPrune(p) PROVE Alone'
  BY <1>3 DEF StartPrune, Begin, TakesLock
<1>4. ASSUME NEW p \in Procs, ReadFile(p) PROVE Alone'
  BY <1>4 DEF ReadFile, Missing
<1>5. ASSUME NEW p \in Procs, Accept(p) PROVE Alone'
  BY <1>5 DEF Accept, EndRead
<1>6. ASSUME NEW p \in Procs, Reject(p) PROVE Alone'
  BY <1>6 DEF Reject, EndRead, AfterMiss
<1>7. ASSUME NEW p \in Procs, Misread(p) PROVE Alone'
  BY <1>7 DEF Misread, EndRead, AfterMiss
<1>8. ASSUME NEW p \in Procs, OpenTarget(p) PROVE Alone'
  BY <1>8 DEF OpenTarget, Cleared
<1>9. ASSUME NEW p \in Procs, Unlink(p) PROVE Alone'
  <2>1. target # NoDir /\ target' # NoDir /\ pc' = pc /\ op' = op /\ next' = next
       /\ direct' = direct
    BY <1>9, StillThere DEF Unlink, Becomes, Contents
  <2>2. QED  BY <2>1
<1>10. ASSUME NEW p \in Procs, RemoveDir(p) PROVE Alone'
  <2>1. ASSUME Locking, NEW q \in Procs, q # p PROVE ~(op[q] = "put" /\ pc[q] # "idle")
    BY <1>10, <2>1, OneWriter DEF RemoveDir
  <2>2. QED  BY <1>10, <2>1 DEF RemoveDir, Becomes, Cleared
<1>11. ASSUME NEW p \in Procs, FindGone(p) PROVE Alone'
  BY <1>11 DEF FindGone, Cleared
<1>12. ASSUME NEW p \in Procs, Stat(p) PROVE Alone'
  BY <1>12 DEF Stat, BeginRead
<1>13. ASSUME NEW p \in Procs, MkdirTemp(p) PROVE Alone'
  BY <1>13 DEF MkdirTemp
<1>14. ASSUME NEW p \in Procs, WriteFile(p) PROVE Alone'
  BY <1>14 DEF WriteFile
<1>15. ASSUME NEW p \in Procs, Rename(p) PROVE Alone'
  <2>1. ASSUME Locking, NEW q \in Procs, q # p PROVE ~(op[q] = "put" /\ pc[q] # "idle")
    BY <1>15, <2>1, OneWriter DEF Rename
  <2>2. QED  BY <1>15, <2>1 DEF Rename, Becomes
<1>16. ASSUME NEW p \in Procs, RenameFails(p) PROVE Alone'
  BY <1>16 DEF RenameFails, BeginRead
<1>17. ASSUME NEW p \in Procs, Return(p) PROVE Alone'
  BY <1>17 DEF Return, Gone, Unstaged, Forgotten
<1>18. ASSUME NEW p \in Procs, Fail(p) PROVE Alone'
  BY <1>18 DEF Fail
<1>19. ASSUME NEW p \in Procs, Crash(p) PROVE Alone'
  BY <1>19 DEF Crash, Gone, Unstaged, Forgotten
<1>20. ASSUME PowerLoss PROVE Alone'
  BY <1>20 DEF PowerLoss, Gone
<1>21. ASSUME Flush PROVE Alone'
  BY <1>21 DEF Flush
<1>22. ASSUME Damage PROVE Alone'
  <2>1. target # NoDir /\ target' # NoDir /\ pc' = pc /\ op' = op /\ next' = next
       /\ direct' = direct
    BY <1>22, StillThere DEF Damage, Becomes, Contents
  <2>2. QED  BY <2>1
<1>23. CASE UNCHANGED vars
  BY <1>23 DEF vars
<1>24. QED
  BY <1>1, <1>2, <1>3, <1>4, <1>5, <1>6, <1>7, <1>8, <1>9, <1>10, <1>11, <1>12, <1>13,
       <1>14, <1>15, <1>16, <1>17, <1>18, <1>19, <1>20, <1>21, <1>22, <1>23 DEF Next,
       Step, GetStep, RemoveStep, PutStep
-----------------------------------------------------------------------------
\* What Put has met stays.
LEMMA LastStep ==
    ASSUME Typed, Locked, Shape, Watching, PublishedWhole, Alone,
     PutLasts, [Next]_vars
    PROVE  PutLasts'
<1> USE InstallAssumption
<1> USE DEF Typed, TypeOK, Shape, Goto, Ends, place, own, history
<1> USE DEF PutLasts, Locking
<1>1. ASSUME NEW p \in Procs, StartGet(p) PROVE PutLasts'
  BY <1>1 DEF StartGet, Begin, TakesLock, BeginRead
<1>2. ASSUME NEW p \in Procs, StartPut(p) PROVE PutLasts'
  BY <1>2 DEF StartPut, Begin, TakesLock
<1>3. ASSUME NEW p \in Procs, StartPrune(p) PROVE PutLasts'
  BY <1>3 DEF StartPrune, Begin, TakesLock
<1>4. ASSUME NEW p \in Procs, ReadFile(p) PROVE PutLasts'
  BY <1>4 DEF ReadFile
<1>5. ASSUME NEW p \in Procs, Accept(p) PROVE PutLasts'
  <2>1. CASE op[p] = "put"
    <3>1. PICK b \in Builds : Verifies(got[p], b)
      BY <1>5 DEF Accept, Whole
    <3>2. CouldBe(p, b) /\ Reading(p)
      BY <1>5, <3>1 DEF Accept, CouldBe, Verifies, Watching, Files
    <3>3. seen[p] \cap Builds # {}
      BY <3>2 DEF Reading
    <3>4. Locking => Whole(target) \/ broken
      <4>1. ASSUME Locking PROVE \A q \in Procs : pc[q] # "unlink"
        BY <1>5, <2>1, <4>1, OneWriter DEF Accept
      <4>2. Locking => target # NoDir
        BY <1>5, <2>1 DEF Accept, Alone
      <4>3. QED  BY <4>1, <4>2 DEF PublishedWhole
    <3>5. QED  BY <1>5, <2>1, <3>3, <3>4 DEF Accept, EndRead
  <2>2. CASE op[p] # "put"
    BY <1>5, <2>2 DEF Accept, EndRead
  <2>3. QED  BY <2>1, <2>2
<1>6. ASSUME NEW p \in Procs, Reject(p) PROVE PutLasts'
  BY <1>6 DEF Reject, EndRead, AfterMiss
<1>7. ASSUME NEW p \in Procs, Misread(p) PROVE PutLasts'
  BY <1>7 DEF Misread, EndRead, AfterMiss
<1>8. ASSUME NEW p \in Procs, OpenTarget(p) PROVE PutLasts'
  BY <1>8 DEF OpenTarget, Cleared
<1>9. ASSUME NEW p \in Procs, Unlink(p) PROVE PutLasts'
  <2>1. ASSUME Locking, NEW q \in Procs, q # p PROVE pc[q] # "stored"
    BY <1>9, <2>1, OneWriter DEF Unlink
  <2>2. pc[p] # "stored" /\ \A q \in Procs : q # p => pc'[q] = pc[q]
       /\ seen[q] \subseteq seen'[q]
    BY <1>9 DEF Unlink, Becomes, Cleared
  <2>3. QED  BY <1>9, <2>1, <2>2 DEF Unlink
<1>10. ASSUME NEW p \in Procs, RemoveDir(p) PROVE PutLasts'
  <2>1. ASSUME Locking, NEW q \in Procs, q # p PROVE pc[q] # "stored"
    BY <1>10, <2>1, OneWriter DEF RemoveDir
  <2>2. pc[p] # "stored" /\ \A q \in Procs : q # p => pc'[q] = pc[q]
       /\ seen[q] \subseteq seen'[q]
    BY <1>10 DEF RemoveDir, Becomes, Cleared
  <2>3. QED  BY <1>10, <2>1, <2>2 DEF RemoveDir, Cleared
<1>11. ASSUME NEW p \in Procs, FindGone(p) PROVE PutLasts'
  BY <1>11 DEF FindGone, Cleared
<1>12. ASSUME NEW p \in Procs, Stat(p) PROVE PutLasts'
  BY <1>12 DEF Stat, BeginRead
<1>13. ASSUME NEW p \in Procs, MkdirTemp(p) PROVE PutLasts'
  BY <1>13 DEF MkdirTemp
<1>14. ASSUME NEW p \in Procs, WriteFile(p) PROVE PutLasts'
  BY <1>14 DEF WriteFile
<1>15. ASSUME NEW p \in Procs, Rename(p) PROVE PutLasts'
  <2>1. ASSUME Locking, NEW q \in Procs, q # p PROVE pc[q] # "stored"
    BY <1>15, <2>1, OneWriter DEF Rename, CanRename
  <2>2. pc[p] # "stored" /\ \A q \in Procs : q # p => pc'[q] = pc[q]
       /\ seen[q] \subseteq seen'[q]
    BY <1>15 DEF Rename, CanRename, Becomes, Cleared
  <2>3. Whole(target') /\ Kind(target') \in Builds /\ Kind(target') \in seen'[p]
    BY <1>15, StagedWhole DEF Rename, CanRename, Becomes
  <2>4. QED  BY <1>15, <2>1, <2>2, <2>3 DEF Rename
<1>16. ASSUME NEW p \in Procs, RenameFails(p) PROVE PutLasts'
  BY <1>16 DEF RenameFails, BeginRead
<1>17. ASSUME NEW p \in Procs, Return(p) PROVE PutLasts'
  BY <1>17 DEF Return, Gone, Unstaged, Forgotten
<1>18. ASSUME NEW p \in Procs, Fail(p) PROVE PutLasts'
  BY <1>18 DEF Fail
<1>19. ASSUME NEW p \in Procs, Crash(p) PROVE PutLasts'
  BY <1>19 DEF Crash, Gone, Unstaged, Forgotten
<1>20. ASSUME PowerLoss PROVE PutLasts'
  BY <1>20 DEF PowerLoss, Gone
<1>21. ASSUME Flush PROVE PutLasts'
  BY <1>21 DEF Flush
<1>22. ASSUME Damage PROVE PutLasts'
  BY <1>22 DEF Damage, Becomes
<1>23. CASE UNCHANGED vars
  BY <1>23 DEF vars
<1>24. QED
  BY <1>1, <1>2, <1>3, <1>4, <1>5, <1>6, <1>7, <1>8, <1>9, <1>10, <1>11, <1>12, <1>13,
       <1>14, <1>15, <1>16, <1>17, <1>18, <1>19, <1>20, <1>21, <1>22, <1>23 DEF Next,
       Step, GetStep, RemoveStep, PutStep
-----------------------------------------------------------------------------
\* Without faults and pruning, a Put that looks at a package finds it whole.
Undisturbed ==
    /\ UnlockedPutsAgree
    /\ calm => \A p \in Procs :
          pc[p] = "read" /\ op[p] = "put" /\ staging[p] = NoDir =>
              target # NoDir /\ \A f \in Files : f < next[p] => got[p][f] = target[f]

\* Without faults and pruning, no Put finds anything but a whole package.
LEMMA CalmStep ==
    ASSUME Typed, Typed', Shape, Undisturbed, [Next]_vars
    PROVE  Undisturbed'
<1> USE InstallAssumption
<1> USE DEF Typed, TypeOK, Shape, Goto, Ends, place, own, history, Undisturbed, UnlockedPutsAgree
<1>1. ASSUME NEW p \in Procs, StartGet(p) PROVE Undisturbed'
  BY <1>1 DEF StartGet, Begin, TakesLock, BeginRead
<1>2. ASSUME NEW p \in Procs, StartPut(p) PROVE Undisturbed'
  BY <1>2 DEF StartPut, Begin, TakesLock
<1>3. ASSUME NEW p \in Procs, StartPrune(p) PROVE Undisturbed'
  BY <1>3 DEF StartPrune, Begin, TakesLock
<1>4. ASSUME NEW p \in Procs, ReadFile(p) PROVE Undisturbed'
  <2>1. next[p] \in Files /\ got[p] \in Dirs /\ target \in Dirs
    BY <1>4 DEF ReadFile, Missing, Files
  <2>2. next'[p] = next[p] + 1 /\ target' = target /\ calm' = calm /\ pc' = pc
    BY <1>4 DEF ReadFile
  <2>3. got'[p] = [got[p] EXCEPT ![next[p]] = target[next[p]]]
    BY <1>4 DEF ReadFile
  <2>4. \A f \in Files : f < next'[p] <=> f < next[p] \/ f = next[p]
    BY <2>1, <2>2 DEF Files
  <2>5. \A f \in Files : got'[p][f] = IF f = next[p] THEN target[f] ELSE got[p][f]
    BY <2>1, <2>3 DEF Dirs
  <2>6. \A q \in Procs : q # p => got'[q] = got[q] /\ next'[q] = next[q]
    BY <1>4 DEF ReadFile
  <2>7. op' = op /\ staging' = staging
    BY <1>4 DEF ReadFile
  <2>8. UnlockedPutsAgree'
    BY <2>2
  <2>9. QED  BY <2>1, <2>2, <2>4, <2>5, <2>6, <2>7, <2>8, NoDirs
<1>5. ASSUME NEW p \in Procs, Accept(p) PROVE Undisturbed'
  BY <1>5 DEF Accept, EndRead
<1>6. ASSUME NEW p \in Procs, Reject(p) PROVE Undisturbed'
  <2>1. ASSUME calm, op[p] = "put", staging[p] = NoDir PROVE FALSE
    <3>1. target # NoDir /\ Whole(target)
         /\ \A f \in Files : f < next[p] => got[p][f] = target[f]
      BY <1>6, <2>1 DEF Reject
    <3>2. next[p] > NumFiles
      BY <1>6, <3>1 DEF Reject, Missing, Whole, Verifies, Files
    <3>3. \A f \in Files : got[p][f] = target[f]
      BY <3>1, <3>2 DEF Files
    <3>4. QED  BY <1>6, <3>1, <3>2, <3>3, NoDirs DEF Reject, Whole, Verifies
  <2>2. QED  BY <1>6, <2>1 DEF Reject, EndRead, AfterMiss
<1>7. ASSUME NEW p \in Procs, Misread(p) PROVE Undisturbed'
  BY <1>7 DEF Misread, EndRead, AfterMiss
<1>8. ASSUME NEW p \in Procs, OpenTarget(p) PROVE Undisturbed'
  BY <1>8 DEF OpenTarget, Cleared
<1>9. ASSUME NEW p \in Procs, Unlink(p) PROVE Undisturbed'
  BY <1>9 DEF Unlink
<1>10. ASSUME NEW p \in Procs, RemoveDir(p) PROVE Undisturbed'
  BY <1>10 DEF RemoveDir
<1>11. ASSUME NEW p \in Procs, FindGone(p) PROVE Undisturbed'
  BY <1>11 DEF FindGone, Cleared
<1>12. ASSUME NEW p \in Procs, Stat(p) PROVE Undisturbed'
  BY <1>12 DEF Stat, BeginRead, Files
<1>13. ASSUME NEW p \in Procs, MkdirTemp(p) PROVE Undisturbed'
  BY <1>13 DEF MkdirTemp
<1>14. ASSUME NEW p \in Procs, WriteFile(p) PROVE Undisturbed'
  <2>1. pc' = pc /\ op' = op /\ target' = target /\ got' = got /\ calm' = calm
    BY <1>14 DEF WriteFile
  <2>2. \A q \in Procs : q # p => staging'[q] = staging[q] /\ next'[q] = next[q]
    BY <1>14 DEF WriteFile
  <2>3. QED  BY <1>14, <2>1, <2>2 DEF WriteFile
<1>15. ASSUME NEW p \in Procs, Rename(p) PROVE Undisturbed'
  <2>1. ~Whole(target) /\ Whole(target')
    BY <1>15, FirstFile, StagedWhole DEF Rename, CanRename, Empty, Whole, Verifies, Becomes
  <2>2. pc' = [pc EXCEPT ![p] = "stored"] /\ calm' = calm
    BY <1>15 DEF Rename
  <2>3. calm => target = NoDir
    BY <2>1
  <2>4. calm => \A q \in Procs : ~(pc'[q] = "read" /\ op'[q] = "put" /\ staging'[q] = NoDir)
    BY <1>15, <2>2, <2>3 DEF Rename
  <2>5. UnlockedPutsAgree'
    BY <2>1, <2>2
  <2>6. QED  BY <2>2, <2>4, <2>5
<1>16. ASSUME NEW p \in Procs, RenameFails(p) PROVE Undisturbed'
  BY <1>16 DEF RenameFails, BeginRead
<1>17. ASSUME NEW p \in Procs, Return(p) PROVE Undisturbed'
  BY <1>17 DEF Return, Gone, Unstaged, Forgotten
<1>18. ASSUME NEW p \in Procs, Fail(p) PROVE Undisturbed'
  BY <1>18 DEF Fail
<1>19. ASSUME NEW p \in Procs, Crash(p) PROVE Undisturbed'
  BY <1>19 DEF Crash, Gone, Unstaged, Forgotten
<1>20. ASSUME PowerLoss PROVE Undisturbed'
  BY <1>20 DEF PowerLoss
<1>21. ASSUME Flush PROVE Undisturbed'
  BY <1>21 DEF Flush
<1>22. ASSUME Damage PROVE Undisturbed'
  BY <1>22 DEF Damage
<1>23. CASE UNCHANGED vars
  BY <1>23 DEF vars
<1>24. QED
  BY <1>1, <1>2, <1>3, <1>4, <1>5, <1>6, <1>7, <1>8, <1>9, <1>10, <1>11, <1>12, <1>13,
       <1>14, <1>15, <1>16, <1>17, <1>18, <1>19, <1>20, <1>21, <1>22, <1>23 DEF Next,
       Step, GetStep, RemoveStep, PutStep
-----------------------------------------------------------------------------
\* The target stays as it is.
LEMMA SameStore ==
    ASSUME target' = target, lock = Nobody \/ lock' \in {lock, Nobody}
    PROVE  Store!Next
BY DEF Store!Next, Store!Pass, Store!Kept, Summary, Whole, Verifies

\* The process that writes holds the lock.
LEMMA Holder ==
    ASSUME Typed, Locked, Shape, Locking, NEW p \in Procs,
           op[p] \in {"put", "prune"}, pc[p] # "idle"
    PROVE  lock = p /\ lock # Nobody
BY InstallAssumption DEF Locked, Shape, Locking, TakesLock

\* Files of the target lose their contents.
LEMMA SpoilStep ==
    ASSUME target \in Dirs, target' \in Dirs,
           \E f \in Files : target'[f] = Torn,
           \A f \in Files : target'[f] = target[f] \/ (target'[f] = Torn /\ target[f] # None),
           lock' \in {lock, Nobody}
    PROVE  Store!Next
<1> USE InstallAssumption, NoDirs
<1>1. ~Whole(target')
  BY DEF Whole, Verifies
<1>2. (\E f \in Files : target[f] = None) <=> \E f \in Files : target'[f] = None
  OBVIOUS
<1>3. Summary' = IF \E f \in Files : target'[f] = None THEN "partial" ELSE "unreadable"
  BY <1>1 DEF Summary, Whole, Verifies
<1>4. CASE \E f \in Files : target[f] = None
  <2>1. ~Whole(target)
    BY <1>4 DEF Whole, Verifies
  <2>2. Summary = "partial"
    BY <1>4, <2>1 DEF Summary
  <2>3. QED  BY <1>2, <1>3, <1>4, <2>2 DEF Store!Next, Store!Pass, Store!Kept
<1>5. CASE ~\E f \in Files : target[f] = None
  <2>1. Summary \in {"valid", "unreadable"} /\ Summary' = "unreadable"
    BY <1>2, <1>3, <1>5 DEF Summary
  <2>2. QED  BY <2>1 DEF Store!Next, Store!Spoil, Store!Kept
<1>6. QED  BY <1>4, <1>5

\* Each step, seen through Summary, is a step of PackageStore.
LEMMA StoreStep ==
    ASSUME Typed, Typed', Locked, Shape, Alone, [Next]_vars
    PROVE  Locking => Store!Next
<1> USE InstallAssumption
<1> USE DEF Typed, TypeOK, place, own, history
<1>1. ASSUME NEW p \in Procs, StartGet(p) PROVE Locking => Store!Next
  BY <1>1, SameStore DEF StartGet, Begin
<1>2. ASSUME NEW p \in Procs, StartPut(p) PROVE Locking => Store!Next
  BY <1>2, SameStore DEF StartPut, Begin
<1>3. ASSUME NEW p \in Procs, StartPrune(p) PROVE Locking => Store!Next
  BY <1>3, SameStore DEF StartPrune, Begin
<1>4. ASSUME NEW p \in Procs, ReadFile(p) PROVE Locking => Store!Next
  BY <1>4, SameStore DEF ReadFile
<1>5. ASSUME NEW p \in Procs, Accept(p) PROVE Locking => Store!Next
  BY <1>5, SameStore DEF Accept
<1>6. ASSUME NEW p \in Procs, Reject(p) PROVE Locking => Store!Next
  BY <1>6, SameStore DEF Reject
<1>7. ASSUME NEW p \in Procs, Misread(p) PROVE Locking => Store!Next
  BY <1>7, SameStore DEF Misread
<1>8. ASSUME NEW p \in Procs, OpenTarget(p) PROVE Locking => Store!Next
  BY <1>8, SameStore DEF OpenTarget
<1>9. ASSUME NEW p \in Procs, Unlink(p) PROVE Locking => Store!Next
  <2> SUFFICES ASSUME Locking PROVE Store!Next
    OBVIOUS
  <2>1. PICK f \in Files : Becomes([target EXCEPT ![f] = None], Readers)
    BY <1>9 DEF Unlink
  <2>2. target \in Dirs /\ target' = [target EXCEPT ![f] = None]
    BY <1>9, <2>1 DEF Unlink, Becomes
  <2>3. target' \in Dirs /\ target'[f] = None
    BY <2>2, DirWith DEF Contents, Dirs
  <2>4. ~Whole(target)' /\ Summary' = "partial"
    BY <2>3, NoDirs DEF Summary, Whole, Verifies
  <2>5. Summary # "absent"
    BY <2>2, NoDirs DEF Summary
  <2>6. lock # Nobody /\ lock' = lock
    BY <1>9, Holder DEF Unlink, Shape
  <2>7. QED  BY <2>4, <2>5, <2>6 DEF Store!Next, Store!Break, Store!Kept
<1>10. ASSUME NEW p \in Procs, RemoveDir(p) PROVE Locking => Store!Next
  <2> SUFFICES ASSUME Locking PROVE Store!Next
    OBVIOUS
  <2>1. Summary = "partial"
    BY <1>10, EmptyDir, FirstFile, NoDirs DEF RemoveDir, Summary, Whole, Verifies, Empty
  <2>2. Summary' = "absent"
    BY <1>10 DEF RemoveDir, Becomes, Summary
  <2>3. lock # Nobody /\ lock' = lock
    BY <1>10, Holder DEF RemoveDir, Shape
  <2>4. QED  BY <2>1, <2>2, <2>3 DEF Store!Next, Store!Clear, Store!Kept
<1>11. ASSUME NEW p \in Procs, FindGone(p) PROVE Locking => Store!Next
  BY <1>11, SameStore DEF FindGone
<1>12. ASSUME NEW p \in Procs, Stat(p) PROVE Locking => Store!Next
  BY <1>12, SameStore DEF Stat
<1>13. ASSUME NEW p \in Procs, MkdirTemp(p) PROVE Locking => Store!Next
  BY <1>13, SameStore DEF MkdirTemp
<1>14. ASSUME NEW p \in Procs, WriteFile(p) PROVE Locking => Store!Next
  BY <1>14, SameStore DEF WriteFile
<1>15. ASSUME NEW p \in Procs, Rename(p) PROVE Locking => Store!Next
  <2> SUFFICES ASSUME Locking PROVE Store!Next
    OBVIOUS
  <2>1. Summary = "absent"
    BY <1>15 DEF Rename, Alone, Summary
  <2>2. target' \in Dirs /\ Whole(target)'
    BY <1>15, StagedWhole DEF Rename, CanRename, Becomes, Whole, Verifies
  <2>3. Summary' = "valid"
    BY <2>2, NoDirs DEF Summary
  <2>4. lock # Nobody /\ lock' = lock
    BY <1>15, Holder DEF Rename, Shape
  <2>5. QED  BY <2>1, <2>3, <2>4 DEF Store!Next, Store!Publish, Store!Kept
<1>16. ASSUME NEW p \in Procs, RenameFails(p) PROVE Locking => Store!Next
  BY <1>16, SameStore DEF RenameFails
<1>17. ASSUME NEW p \in Procs, Return(p) PROVE Locking => Store!Next
  BY <1>17, SameStore DEF Return, Gone
<1>18. ASSUME NEW p \in Procs, Fail(p) PROVE Locking => Store!Next
  BY <1>18, SameStore DEF Fail, Gone
<1>19. ASSUME NEW p \in Procs, Crash(p) PROVE Locking => Store!Next
  BY <1>19, SameStore DEF Crash, Gone
<1>20. ASSUME PowerLoss PROVE Locking => Store!Next
  <2>1. PICK lost \in SUBSET Files :
            /\ lost # {} => ~flushed /\ \A f \in lost : target[f] # None
            /\ target' = IF lost = {} THEN target
                         ELSE [f \in Files |-> IF f \in lost THEN Torn ELSE target[f]]
    BY <1>20 DEF PowerLoss
  <2>2. CASE lost = {}
    BY <1>20, <2>1, <2>2, SameStore DEF PowerLoss, Gone
  <2>3. CASE lost # {}
    <3>1. target \in Dirs /\ target' = [f \in Files |-> IF f \in lost THEN Torn ELSE target[f]]
      BY <2>1, <2>3
    <3>2. target' \in Dirs
      BY <3>1 DEF Dirs, Contents
    <3>3. \E f \in Files : target'[f] = Torn
      BY <2>1, <2>3, <3>1
    <3>4. \A f \in Files : target'[f] = target[f] \/ (target'[f] = Torn /\ target[f] # None)
      BY <2>1, <2>3, <3>1
    <3>5. lock' \in {lock, Nobody}
      BY <1>20 DEF PowerLoss, Gone
    <3>6. QED  BY <3>1, <3>2, <3>3, <3>4, <3>5, SpoilStep
  <2>4. QED  BY <2>2, <2>3
<1>21. ASSUME Flush PROVE Locking => Store!Next
  BY <1>21, SameStore DEF Flush
<1>22. ASSUME Damage PROVE Locking => Store!Next
  <2>1. PICK f \in Files : target[f] \in Builds
       /\ Becomes([target EXCEPT ![f] = Torn], Readers)
    BY <1>22 DEF Damage
  <2>2. target \in Dirs /\ target' = [target EXCEPT ![f] = Torn]
    BY <1>22, <2>1 DEF Damage, Becomes
  <2>3. target' \in Dirs /\ target'[f] = Torn
    BY <2>2, DirWith DEF Contents, Dirs
  <2>4. \A g \in Files : target'[g] = target[g] \/ (target'[g] = Torn /\ target[g] # None)
    BY <2>1, <2>2 DEF Dirs
  <2>5. lock' \in {lock, Nobody}
    BY <1>22 DEF Damage
  <2>6. QED  BY <2>2, <2>3, <2>4, <2>5, SpoilStep
<1>23. CASE UNCHANGED vars
  BY <1>23, SameStore DEF vars
<1>24. QED
  BY <1>1, <1>2, <1>3, <1>4, <1>5, <1>6, <1>7, <1>8, <1>9, <1>10, <1>11, <1>12, <1>13,
       <1>14, <1>15, <1>16, <1>17, <1>18, <1>19, <1>20, <1>21, <1>22, <1>23 DEF Next,
       Step, GetStep, RemoveStep, PutStep
-----------------------------------------------------------------------------

\* The inductive invariant.
IInv ==
    /\ Typed /\ Locked /\ Shape
    /\ Watching /\ AtomicRead
    /\ PublishedWhole
    /\ Alone /\ PutLasts
    /\ Undisturbed

\* At first nobody does anything and there is no package.
LEMMA InitInv == ASSUME Init PROVE IInv
<1> USE InstallAssumption DEF Init
<1>1. Typed
  <2>1. /\ direct \in SUBSET Procs
        /\ got \in [Procs -> Dirs]
        /\ seen \in [Procs -> SUBSET (Builds \cup {NoDir, Torn})]
    BY EmptyDir
  <2>2. next \in [Procs -> 1 .. NumFiles + 1] /\ faults \in 0 .. MaxFaults
    BY FirstFile
  <2>3. pc \in [Procs -> Pcs]
    BY DEF Pcs
  <2>4. QED  BY <2>1, <2>2, <2>3 DEF Typed, TypeOK
<1>2. Locked /\ Shape
  BY DEF Locked, Shape
<1>3. Watching /\ AtomicRead /\ PublishedWhole
  BY DEF Watching, AtomicRead, PublishedWhole
<1>4. Alone /\ PutLasts /\ Undisturbed
  BY DEF Alone, PutLasts, Undisturbed, UnlockedPutsAgree
<1>5. QED  BY <1>1, <1>2, <1>3, <1>4 DEF IInv

LEMMA StepInv == ASSUME IInv, [Next]_vars PROVE IInv'
<1> USE DEF IInv
<1>1. Typed'
  BY TypeStep
<1>2. Locked' /\ Shape'
  BY LockStep, ShapeStep
<1>3. Watching' /\ AtomicRead' /\ PublishedWhole'
  BY <1>1, WatchStep, AnswerStep, PublishStep
<1>4. Alone' /\ PutLasts'
  BY AloneStep, LastStep
<1>5. Undisturbed'
  BY <1>1, CalmStep
<1>6. QED  BY <1>1, <1>2, <1>3, <1>4, <1>5

\* Every reachable state of the file system and of its users satisfies IInv.
THEOREM Inductive == Spec => []IInv
BY InitInv, StepInv, PTL DEF Spec

\* The variables keep their types.
THEOREM TypeCorrect == Spec => []TypeOK
<1>1. IInv => TypeOK
  BY DEF IInv, Typed
<1>2. QED  BY <1>1, Inductive, PTL

\* Get reads file by file and may hold no lock, but its answer was true at one
\* moment of the call, whatever number of writers replaces the package meanwhile.
THEOREM AnswersAtomic == Spec => []AtomicRead
<1>1. IInv => AtomicRead
  BY DEF IInv
<1>2. QED  BY <1>1, Inductive, PTL

\* A directory under the name of the version is a whole build, or is being
\* removed, or a fault has touched it.
THEOREM NothingHalfInstalled == Spec => []PublishedWhole
<1>1. IInv => PublishedWhole
  BY DEF IInv
<1>2. QED  BY <1>1, Inductive, PTL

\* A Put that returns nil has met a whole package, and it is still there if all
\* writers take the version lock.
THEOREM StoredIsThere == Spec => []PutLasts
<1>1. IInv => PutLasts
  BY DEF IInv
<1>2. QED  BY <1>1, Inductive, PTL

\* Without faults and pruning no Put removes anything, lock or no lock.
THEOREM PutsAgree == Spec => []UnlockedPutsAgree
<1>1. IInv => UnlockedPutsAgree
  BY DEF IInv, Undisturbed
<1>2. QED  BY <1>1, Inductive, PTL

\* With all writers under the version lock, the file system implements the
\* package of four states that SharedCache works with.
THEOREM ImplementsStore == Spec => KeepsStore
<1>1. Init => Store!Init
  BY DEF Init, Store!Init, Store!Packages, Summary
<1>2. ASSUME IInv, [Next]_vars PROVE [direct \cap Writers = {} => Store!Next]_vars
  <2>1. Typed'
    BY <1>2, TypeStep DEF IInv
  <2>2. Locking => Store!Next
    BY <1>2, <2>1, StoreStep DEF IInv
  <2>3. QED  BY <2>2 DEF Locking
<1>3. QED  BY <1>1, <1>2, Inductive, PTL DEF Spec, KeepsStore

-----------------------------------------------------------------------------
(* Operations come to an end.                                                *)

\* How far an operation is from its end.  A Put reads before it has a staging
\* directory, or after its rename has failed.
Far(p) ==
    IF pc[p] = "read" THEN IF staging[p] = NoDir THEN 7 ELSE 2
    ELSE [stat |-> 8, clear |-> 6, unlink |-> 5, stage |-> 4, write |-> 3, idle |-> 0,
          stored |-> 1, served |-> 1, removed |-> 1, missed |-> 1, failed |-> 1][pc[p]]

\* What is left of its loop: of reading, of writing, or of RemoveAll.
Rest(p) ==
    IF pc[p] \in {"read", "write"} THEN (NumFiles + 1) - next[p]
    ELSE IF pc[p] = "unlink" /\ p \in open
         THEN 1 + Cardinality({f \in Files : target[f] # None})
    ELSE 0

Nearer(p) == \/ Far(p)' < Far(p)
             \/ Far(p)' = Far(p) /\ Rest(p)' < Rest(p)

\* The steps of an operation once it has begun.
OwnStep(p) ==
    GetStep(p) \/ RemoveStep(p) \/ PutStep(p) \/ Return(p)
    \/ Fail(p) \/ Crash(p)

\* Every step of an operation brings it nearer to its end, and nothing takes it
\* further away: no other process, with the lock or without, puts files into the
\* directory that is being read or removed so that it would never end.
OperationsEnd ==
    [][\A p \in Procs :
          /\ OwnStep(p) => Nearer(p)
          /\ pc[p] # "idle" => Nearer(p) \/ (Far(p)' = Far(p) /\ Rest(p)' <= Rest(p))]_vars

\* The files that are left of a directory can be counted, and one fewer when one
\* is unlinked.
LEMMA FilesLeft ==
    ASSUME NEW dir
    PROVE  /\ Cardinality({f \in Files : dir[f] # None}) \in Nat
           /\ \A g \in Files :
                 dir \in Dirs /\ dir[g] # None =>
                    Cardinality({f \in Files : [dir EXCEPT ![g] = None][f] # None})
                        < Cardinality({f \in Files : dir[f] # None})
<1>. DEFINE left == {f \in Files : dir[f] # None}
<1>1. IsFiniteSet(Files)
  BY InstallAssumption, FS_Interval DEF Files
<1>2. IsFiniteSet(left) /\ Cardinality(left) \in Nat
  BY <1>1, FS_Subset, FS_CardinalityType
<1>3. ASSUME NEW g \in Files, dir \in Dirs, dir[g] # None
      PROVE  {f \in Files : [dir EXCEPT ![g] = None][f] # None} = left \ {g} /\ g \in left
  BY <1>3 DEF Dirs
<1>. HIDE DEF left
<1>4. ASSUME NEW g \in Files, dir \in Dirs, dir[g] # None
      PROVE  Cardinality(left \ {g}) < Cardinality(left)
  <2>1. g \in left
    BY <1>3, <1>4
  <2>2. Cardinality(left \ {g}) = Cardinality(left) - 1
    BY <1>2, <2>1, FS_RemoveElement
  <2>. QED  BY <1>2, <2>2
<1>. QED  BY <1>2, <1>3, <1>4 DEF left

\* What is left is a number.
LEMMA RestNat == ASSUME Typed, NEW p \in Procs PROVE Rest(p) \in Nat
<1>1. next[p] \in 1 .. NumFiles + 1 /\ NumFiles \in Nat
  BY InstallAssumption DEF Typed, TypeOK
<1>2. CASE pc[p] \in {"read", "write"}
  BY <1>1, <1>2 DEF Rest
<1>3. CASE pc[p] \notin {"read", "write"}
  BY <1>3, FilesLeft DEF Rest
<1>. QED  BY <1>2, <1>3

\* A step of its own brings an operation nearer to its end.
LEMMA OwnNearer ==
    ASSUME Typed, Typed', NEW p \in Procs, OwnStep(p)
    PROVE  Nearer(p)
<1>. USE DEF Goto
<1>0. pc[p] \in Pcs /\ pc \in [Procs -> Pcs] /\ next \in [Procs -> 1 .. NumFiles + 1]
      /\ NumFiles \in Nat
  BY InstallAssumption DEF Typed, TypeOK
<1>1. ASSUME pc'[p] \in {"idle", "stage"} \cup Ends, pc[p] # pc'[p], pc'[p] # "idle" => pc[p] \notin Ends,
             pc[p] # "idle", pc'[p] = "stage" => pc[p] \in {"stat", "clear", "unlink"}
      PROVE  Nearer(p)
  BY <1>0, <1>1 DEF Nearer, Far, Pcs, Ends
<1>2. CASE ReadFile(p)
  <2>1. pc[p] = "read" /\ pc' = pc /\ staging' = staging /\ next'[p] = next[p] + 1
    BY <1>0, <1>2 DEF ReadFile, own
  <2>2. next[p] \in Int /\ (NumFiles + 1) - (next[p] + 1) < (NumFiles + 1) - next[p]
    BY <1>0
  <2>. QED  BY <2>1, <2>2 DEF Nearer, Far, Rest
<1>3. CASE Accept(p)
  BY <1>0, <1>1, <1>3 DEF Accept, EndRead, Ends
<1>4. CASE Reject(p) \/ Misread(p)
  <2>1. pc[p] = "read" /\ pc'[p] \in {"missed", "failed", "clear"}
        /\ (pc'[p] = "clear" => staging[p] = NoDir)
    BY <1>0, <1>4 DEF Reject, Misread, EndRead, AfterMiss
  <2>. QED  BY <2>1 DEF Nearer, Far
<1>5. CASE OpenTarget(p)
  <2>1. pc[p] = "clear" /\ pc'[p] \in {"stage", "removed", "unlink"}
    BY <1>0, <1>5 DEF OpenTarget, Cleared
  <2>. QED  BY <2>1 DEF Nearer, Far
<1>6. CASE Unlink(p)
  <2>1. pc[p] = "unlink" /\ pc' = pc /\ staging' = staging /\ p \in open /\ open' = open
    BY <1>6 DEF Unlink, own
  <2>2. PICK g \in Files : target[g] # None /\ target' = [target EXCEPT ![g] = None]
    BY <1>6 DEF Unlink, Becomes
  <2>3. target \in Dirs
    BY <2>1 DEF Typed, TypeOK
  <2>. DEFINE left == Cardinality({f \in Files : target[f] # None})
  <2>4. left \in Nat /\ left' \in Nat /\ left' < left
    BY <2>2, <2>3, FilesLeft
  <2>5. Rest(p) = 1 + left /\ Rest(p)' = 1 + left'
    BY <2>1 DEF Rest
  <2>6. \A a, b \in Nat : b < a => 1 + b < 1 + a
    OBVIOUS
  <2>7. Rest(p)' < Rest(p)
    BY <2>4, <2>5, <2>6
  <2>. QED  BY <2>1, <2>7 DEF Nearer, Far
<1>7. CASE RemoveDir(p) \/ FindGone(p)
  <2>1. pc[p] = "unlink" /\ pc'[p] \in {"stage", "removed"}
    BY <1>0, <1>7 DEF RemoveDir, FindGone, Cleared
  <2>. QED  BY <1>1, <2>1 DEF Ends
<1>8. CASE Stat(p)
  <2>1. pc[p] = "stat" /\ pc'[p] \in {"stage", "read"}
    BY <1>0, <1>8 DEF Stat, BeginRead
  <2>. QED  BY <2>1 DEF Nearer, Far
<1>9. CASE MkdirTemp(p)
  <2>1. pc[p] = "stage" /\ pc'[p] = "write"
    BY <1>0, <1>9 DEF MkdirTemp
  <2>. QED  BY <2>1 DEF Nearer, Far
<1>10. CASE WriteFile(p)
  <2>1. pc[p] = "write" /\ pc' = pc /\ next'[p] = next[p] + 1
    BY <1>0, <1>10 DEF WriteFile
  <2>2. next[p] \in Int /\ (NumFiles + 1) - (next[p] + 1) < (NumFiles + 1) - next[p]
    BY <1>0
  <2>. QED  BY <2>1, <2>2 DEF Nearer, Far, Rest
<1>11. CASE Rename(p)
  BY <1>0, <1>1, <1>11 DEF Rename, Ends
<1>12. CASE RenameFails(p)
  <2>1. pc[p] = "write" /\ pc'[p] = "read" /\ staging' = staging
    BY <1>0, <1>12 DEF RenameFails, BeginRead
  <2>2. staging[p] # NoDir
    BY <2>1 DEF Typed
  <2>. QED  BY <2>1, <2>2 DEF Nearer, Far
<1>13. CASE Return(p) \/ Crash(p)
  <2>1. pc'[p] = "idle" /\ pc[p] # "idle"
    BY <1>0, <1>13 DEF Return, Crash, Gone, Ends
  <2>. QED  BY <1>1, <2>1
<1>14. CASE Fail(p)
  <2>1. pc'[p] = "failed" /\ pc[p] \in {"stat", "clear", "unlink", "stage", "write"}
    BY <1>0, <1>14 DEF Fail
  <2>. QED  BY <1>1, <2>1 DEF Ends
<1>. QED
  BY <1>2, <1>3, <1>4, <1>5, <1>6, <1>7, <1>8, <1>9, <1>10, <1>11, <1>12, <1>13, <1>14
     DEF OwnStep, GetStep, RemoveStep, PutStep

\* Damage leaves as many files to remove as there were.
LEMMA DamageLeaves ==
    ASSUME Typed, Damage
    PROVE  Cardinality({f \in Files : target'[f] # None})
             = Cardinality({f \in Files : target[f] # None})
<1>1. PICK g \in Files : target[g] \in Builds /\ target' = [target EXCEPT ![g] = Torn]
  BY DEF Damage, Becomes
<1>2. target \in Dirs /\ None \notin Builds /\ Torn # None
  BY InstallAssumption DEF Damage, Typed, TypeOK
<1>3. \A f \in Files : target'[f] # None <=> target[f] # None
  BY <1>1, <1>2 DEF Dirs
<1>4. {f \in Files : target'[f] # None} = {f \in Files : target[f] # None}
  BY <1>3
<1>. QED  BY <1>4

\* What remains of the directory that p has a handle of does not grow.
LEMMA HandleShrinks ==
    ASSUME Typed, Typed', [Next]_vars, NEW p \in Procs, p \in open'
    PROVE  Cardinality({f \in Files : target'[f] # None})
             <= Cardinality({f \in Files : target[f] # None})
           \/ p \notin open
<1>. DEFINE left == Cardinality({f \in Files : target[f] # None})
<1>1. left \in Nat /\ left' \in Nat
  BY FilesLeft
<1>2. CASE target' = target
  BY <1>1, <1>2
<1>3. ASSUME NEW q \in Procs, Unlink(q) PROVE left' < left
  <2>1. PICK g \in Files : target[g] # None /\ target' = [target EXCEPT ![g] = None]
    BY <1>3 DEF Unlink, Becomes
  <2>2. target \in Dirs
    BY <1>3 DEF Unlink, Typed, TypeOK
  <2>. QED  BY <2>1, <2>2, FilesLeft
<1>4. CASE Damage
  BY <1>1, <1>4, DamageLeaves
<1>5. ASSUME NEW q \in Procs, RemoveDir(q) \/ Rename(q) PROVE FALSE
  BY <1>5 DEF RemoveDir, Rename
<1>6. CASE PowerLoss
  BY <1>6 DEF PowerLoss, Gone
<1>7. ASSUME NEW q \in Procs, Step(q), ~Unlink(q), ~RemoveDir(q), ~Rename(q)
      PROVE  target' = target
  BY <1>7 DEF Step, GetStep, RemoveStep, PutStep, StartGet, StartPut, StartPrune, Begin, place,
     ReadFile, Accept, Reject, Misread, OpenTarget, FindGone, Stat, MkdirTemp, WriteFile,
     RenameFails, Return, Fail, Crash
<1>8. CASE Flush \/ UNCHANGED vars
  BY <1>2, <1>8 DEF Flush, vars, place
<1>9. left' < left => left' <= left
  BY <1>1
<1>. QED
  BY <1>2, <1>3, <1>4, <1>5, <1>6, <1>7, <1>8, <1>9 DEF Next

\* A step of another process, damage or a flush changes nothing of an operation
\* but the directories its handles are of.
LEMMA OthersLeave ==
    ASSUME Typed, [Next]_vars, NEW p \in Procs, pc[p] # "idle", ~OwnStep(p),
           pc'[p] # "idle"
    PROVE  /\ pc'[p] = pc[p] /\ staging'[p] = staging[p]
           /\ next'[p] = next[p]
           /\ p \in open' => p \in open
<1>. USE DEF Goto, own, place, history, Typed, TypeOK
<1>1. ASSUME NEW q \in Procs, Step(q)
      PROVE  q # p
  BY <1>1 DEF OwnStep, Step, StartGet, StartPut, StartPrune, Begin
<1>2. ASSUME NEW q \in Procs, q # p, StartGet(q) \/ StartPut(q) \/ StartPrune(q)
      PROVE  /\ pc'[p] = pc[p] /\ staging'[p] = staging[p] /\ next'[p] = next[p]
             /\ p \in open' => p \in open
  BY <1>2 DEF StartGet, StartPut, StartPrune, Begin, BeginRead
<1>3. ASSUME NEW q \in Procs, q # p, GetStep(q)
      PROVE  /\ pc'[p] = pc[p] /\ staging'[p] = staging[p] /\ next'[p] = next[p]
             /\ p \in open' => p \in open
  BY <1>3 DEF GetStep, ReadFile, Accept, Reject, Misread, EndRead
<1>4. ASSUME NEW q \in Procs, q # p, RemoveStep(q)
      PROVE  /\ pc'[p] = pc[p] /\ staging'[p] = staging[p] /\ next'[p] = next[p]
             /\ p \in open' => p \in open
  BY <1>4 DEF RemoveStep, OpenTarget, Unlink, RemoveDir, FindGone, Cleared
<1>5. ASSUME NEW q \in Procs, q # p, PutStep(q)
      PROVE  /\ pc'[p] = pc[p] /\ staging'[p] = staging[p] /\ next'[p] = next[p]
             /\ p \in open' => p \in open
  BY <1>5 DEF PutStep, Stat, MkdirTemp, WriteFile, Rename, RenameFails, BeginRead
<1>6. ASSUME NEW q \in Procs, q # p, Return(q) \/ Fail(q) \/ Crash(q)
      PROVE  /\ pc'[p] = pc[p] /\ staging'[p] = staging[p] /\ next'[p] = next[p]
             /\ p \in open' => p \in open
  BY <1>6 DEF Return, Fail, Crash, Gone, Unstaged
<1>7. CASE PowerLoss
  BY <1>7 DEF PowerLoss, Gone
<1>8. CASE Flush \/ Damage \/ UNCHANGED vars
  BY <1>8 DEF Flush, Damage, vars
<1>. QED
  BY <1>1, <1>2, <1>3, <1>4, <1>5, <1>6, <1>7, <1>8 DEF Next, Step

\* Nothing takes an operation further from its end.
LEMMA NoFurther ==
    ASSUME Typed, Typed', [Next]_vars, NEW p \in Procs, pc[p] # "idle", ~OwnStep(p)
    PROVE  Nearer(p) \/ (Far(p)' = Far(p) /\ Rest(p)' <= Rest(p))
<1>1. CASE pc'[p] = "idle"
  BY <1>1 DEF Nearer, Far, Typed, TypeOK, Pcs, Ends
<1>2. CASE pc'[p] # "idle"
  <2>1. /\ pc'[p] = pc[p] /\ staging'[p] = staging[p] /\ next'[p] = next[p]
        /\ p \in open' => p \in open
    BY <1>2, OthersLeave
  <2>2. Far(p)' = Far(p)
    BY <2>1 DEF Far
  <2>3. Rest(p) \in Nat
    BY RestNat
  <2>4. CASE pc[p] = "unlink" /\ p \in open'
    <3>. DEFINE left == Cardinality({f \in Files : target[f] # None})
    <3>1. left \in Nat /\ left' \in Nat /\ left' <= left
      BY <2>1, <2>4, FilesLeft, HandleShrinks
    <3>2. Rest(p) = 1 + left /\ Rest(p)' = 1 + left'
      BY <2>1, <2>4 DEF Rest
    <3>3. \A a, b \in Nat : b <= a => 1 + b <= 1 + a
      OBVIOUS
    <3>4. Rest(p)' <= Rest(p)
      BY <3>1, <3>2, <3>3
    <3>. QED  BY <2>2, <3>4
  <2>5. CASE pc[p] = "unlink" /\ p \notin open'
    <3>1. Rest(p)' = 0
      BY <2>1, <2>5 DEF Rest
    <3>. QED  BY <2>2, <2>3, <3>1
  <2>6. CASE pc[p] # "unlink"
    <3>1. Rest(p)' = Rest(p)
      BY <2>1, <2>6 DEF Rest
    <3>. QED  BY <2>2, <2>3, <3>1
  <2>. QED  BY <2>4, <2>5, <2>6
<1>. QED  BY <1>1, <1>2

\* Get, Put and the removal of a package end after so many steps, whatever other
\* processes do to the same directory meanwhile.
THEOREM PackageOperationsEnd == Spec => OperationsEnd
<1>1. IInv => Typed
  BY DEF IInv
<1>2. Typed /\ Typed' /\ [Next]_vars =>
         [\A p \in Procs :
            /\ OwnStep(p) => Nearer(p)
            /\ pc[p] # "idle" =>
                  Nearer(p) \/ (Far(p)' = Far(p) /\ Rest(p)' <= Rest(p))]_vars
  BY OwnNearer, NoFurther
<1>. QED  BY Inductive, <1>1, <1>2, PTL DEF Spec, OperationsEnd
=============================================================================
