------------------------ MODULE CacheMetadataProofs ------------------------
(***************************************************************************)
(* Proofs about CacheMetadata for every number of writers, versions and    *)
(* clock readings: the transaction of changeState implements the contract, *)
(* and it comes to an end.                                                 *)
(***************************************************************************)
EXTENDS CacheMetadata, TLAPS

InTransaction == Writing \cup {"read", "unlock"}

\* A writer inside its transaction holds the lock "metadata".
Exclusive == \A w \in Writers : pc[w] \in InTransaction => metadata = w

\* A writer past the idle state has something to write.
Requested ==
    \A w \in Writers :
        pc[w] \in InTransaction \cup {"lock"} => request[w] \in CheckRequests \cup SetRequests

\* The change a writer has made is in the file until it unlocks.
CheckWritten ==
    \A w \in Writers :
        pc[w] \in {"unlock", "done"} /\ request[w].kind = "check" =>
            /\ file.lastCheck # NoRecord
            /\ file.lastCheck.at >= request[w].at

\* What a writer renames is complete and synced, so current.json always is.
Flushed ==
    /\ flushed
    /\ \A w \in Writers :
          /\ pc[w] = "sync" => temp[w] = "written"
          /\ pc[w] = "rename" => temp[w] = "synced"

IInv ==
    /\ TypeOK /\ Exclusive /\ Requested
    /\ CopyIsFresh /\ LastUpdateMatches /\ CheckWritten
    /\ Flushed /\ NeverTorn

-----------------------------------------------------------------------------
(* The two changes of the contract. *)

\* RecordCheck yields a CacheState, leaves the activation alone and keeps the
\* newest check.
LEMMA CheckedState ==
    ASSUME NEW s \in Contract!CacheStates, NEW c \in Contract!Checks
    PROVE  /\ Contract!Checked(s, c) \in Contract!CacheStates
           /\ Contract!Checked(s, c).version = s.version
           /\ Contract!Checked(s, c).lastUpdate = s.lastUpdate
           /\ Contract!Checked(s, c).lastCheck # NoRecord
           /\ Contract!Checked(s, c).lastCheck.at >= c.at
           /\ s.lastCheck # NoRecord =>
                 Contract!Checked(s, c).lastCheck.at >= s.lastCheck.at
BY MetadataAssumption
   DEF Contract!Checked, Contract!CacheStates, Contract!Checks, Contract!Updates

\* SetCurrent yields a CacheState with the version active, leaves the check alone
\* and records a switch only from another version.
LEMMA ActivatedState ==
    ASSUME NEW s \in Contract!CacheStates, NEW v \in Versions, NEW now \in Times
    PROVE  /\ Contract!Activated(s, v, now) \in Contract!CacheStates
           /\ Contract!Activated(s, v, now).version = v
           /\ Contract!Activated(s, v, now).lastCheck = s.lastCheck
           /\ s.version = v => Contract!Activated(s, v, now) = s
           /\ s.version # v =>
                 /\ Contract!Activated(s, v, now).lastUpdate.current = v
                 /\ Contract!Activated(s, v, now).lastUpdate.previous = s.version
BY MetadataAssumption
   DEF Contract!Activated, Contract!CacheStates, Contract!Checks, Contract!Updates

\* A check on record carries a clock reading.
LEMMA CheckTime ==
    ASSUME NEW s \in Contract!CacheStates, s.lastCheck # NoRecord
    PROVE  s.lastCheck.at \in Int
<1>1. s.lastCheck \in Contract!Checks
  BY DEF Contract!CacheStates
<1>2. QED
  BY <1>1, MetadataAssumption DEF Contract!Checks

\* What a request makes of a state that satisfies the invariant.
LEMMA ChangeState ==
    ASSUME NEW s \in Contract!CacheStates, NEW r \in CheckRequests \cup SetRequests,
           NEW now \in Times,
           s.lastUpdate # NoRecord => /\ s.lastUpdate.current = s.version
                                      /\ s.lastUpdate.previous # s.version
    PROVE  /\ Change(r, s, now) \in Contract!CacheStates
           /\ Change(r, s, now).lastUpdate # NoRecord =>
                 /\ Change(r, s, now).lastUpdate.current = Change(r, s, now).version
                 /\ Change(r, s, now).lastUpdate.previous # Change(r, s, now).version
           /\ s.lastCheck # NoRecord =>
                 /\ Change(r, s, now).lastCheck # NoRecord
                 /\ Change(r, s, now).lastCheck.at >= s.lastCheck.at
           /\ r.kind = "check" =>
                 /\ Change(r, s, now).lastCheck # NoRecord
                 /\ Change(r, s, now).lastCheck.at >= r.at
           /\ \/ \E c \in Contract!Checks : Change(r, s, now) = Contract!Checked(s, c)
              \/ \E v \in Versions : Change(r, s, now) = Contract!Activated(s, v, now)
<1>1. CASE r \in CheckRequests
  <2> DEFINE c == [at |-> r.at, latest |-> r.latest]
  <2>1. /\ c \in Contract!Checks
        /\ c.at = r.at
        /\ Change(r, s, now) = Contract!Checked(s, c)
    BY <1>1 DEF CheckRequests, Contract!Checks, Change
  <2> HIDE DEF c
  <2>2. QED
    BY <2>1, CheckedState
<1>2. CASE r \in SetRequests
  <2>1. /\ r.kind # "check"
        /\ r.version \in Versions
        /\ Change(r, s, now) = Contract!Activated(s, r.version, now)
    BY <1>2 DEF SetRequests, Change
  <2>2. s.lastCheck # NoRecord => s.lastCheck.at >= s.lastCheck.at
    BY CheckTime
  <2>3. CASE s.version = r.version
    BY <2>1, <2>2, <2>3, ActivatedState
  <2>4. CASE s.version # r.version
    <3> DEFINE s2 == Contract!Activated(s, r.version, now)
    <3>0. Change(r, s, now) = s2
      BY <2>1
    <3>1. s2 \in Contract!CacheStates /\ s2.version = r.version /\ s2.lastCheck = s.lastCheck
      BY <2>1, ActivatedState
    <3>2. s2.lastUpdate.current = s2.version /\ s2.lastUpdate.previous # s2.version
      BY <2>1, <2>4, ActivatedState
    <3> HIDE DEF s2
    <3>3. QED
      BY <2>1, <2>2, <3>0, <3>1, <3>2
  <2>5. QED
    BY <2>3, <2>4
<1>3. QED
  BY <1>1, <1>2

\* A new or a legacy current.json and no writer running satisfy the invariant.
LEMMA InitIInv == ASSUME Init PROVE IInv
BY MetadataAssumption
   DEF Init, IInv, TypeOK, Exclusive, Requested, CopyIsFresh, LastUpdateMatches, CheckWritten,
       Flushed, NeverTorn, InTransaction, Writing, NoRequest, Contract!Init, Contract!EmptyState, Contract!CacheStates,
       Contract!NoVersion

\* The rename of atomicfile.Write puts in place a change of the file it replaces.
LEMMA ReplaceState ==
    ASSUME IInv, NEW w \in Writers, RenameTemp(w)
    PROVE  \E now \in Times : file' = Change(request[w], file, now)
BY DEF IInv, CopyIsFresh, RenameTemp, Replace, Writing

\* A writer that gives up or dies leaves current.json as it is.
LEMMA AbandonIInv == ASSUME IInv, NEW w \in Writers, Abandon(w) PROVE IInv'
<1> USE MetadataAssumption
<1>1. Contract!EmptyState \in Contract!CacheStates
  BY DEF Contract!EmptyState, Contract!CacheStates, Contract!NoVersion
<1>2. QED
  BY <1>1 DEF Abandon, Goto, Freed, NoRequest, diskVars, IInv, TypeOK, Exclusive, Requested,
     CopyIsFresh, LastUpdateMatches, CheckWritten, Flushed, NeverTorn, InTransaction, Writing

\* Every step of a writer, a crash, damage from outside and a power failure keep
\* the invariant.
LEMMA StepIInv == ASSUME IInv, [Next]_vars PROVE IInv'
<1> USE MetadataAssumption
<1> USE DEF IInv, TypeOK, Exclusive, Requested, CopyIsFresh, LastUpdateMatches, CheckWritten,
            Flushed, NeverTorn, InTransaction, Writing, Goto, Freed, diskVars
<1>0. Contract!EmptyState \in Contract!CacheStates
  BY DEF Contract!EmptyState, Contract!CacheStates, Contract!NoVersion
<1>1. ASSUME NEW w \in Writers, AskCheck(w) \/ AskSetCurrent(w) PROVE IInv'
  <2>1. PICK r \in CheckRequests \cup SetRequests : request' = [request EXCEPT ![w] = r]
    BY <1>1 DEF AskCheck, AskSetCurrent
  <2>2. /\ pc[w] \in {"idle", "done"}
        /\ pc' = [pc EXCEPT ![w] = "lock"]
        /\ UNCHANGED <<file, metadata, copy, temp, readable, flushed, damaged>>
    BY <1>1 DEF AskCheck, AskSetCurrent
  <2>3. TypeOK' /\ Exclusive' /\ Requested'
    BY <2>1, <2>2
  <2>4. CopyIsFresh' /\ LastUpdateMatches'
    BY <2>1, <2>2
  <2>5. CheckWritten' /\ Flushed' /\ NeverTorn'
    BY <2>1, <2>2
  <2>6. QED
    BY <2>3, <2>4, <2>5
<1>2. ASSUME NEW w \in Writers, TakeMetadata(w) PROVE IInv'
  BY <1>2 DEF TakeMetadata
<1>3. ASSUME NEW w \in Writers, ReadAndChange(w) PROVE IInv'
  <2>1. PICK now \in Times : copy' = [copy EXCEPT ![w] = Change(request[w], file, now)]
    BY <1>3 DEF ReadAndChange
  <2>2. Change(request[w], file, now) \in Contract!CacheStates
    BY <1>3, ChangeState DEF ReadAndChange
  <2>3. QED
    BY <1>3, <2>1, <2>2 DEF ReadAndChange
<1>4. ASSUME NEW w \in Writers, CreateTemp(w) \/ FillTemp(w) \/ SyncTemp(w) PROVE IInv'
  <2>1. /\ pc[w] \in Writing
        /\ UNCHANGED <<file, metadata, request, copy, readable, flushed, damaged>>
    BY <1>4 DEF CreateTemp, FillTemp, SyncTemp
  <2>2. PICK label \in Writing, t \in {"empty", "written", "synced"} :
            /\ pc' = [pc EXCEPT ![w] = label]
            /\ temp' = [temp EXCEPT ![w] = t]
            /\ label = "sync" => t = "written"
            /\ label = "rename" => t = "synced"
    BY <1>4 DEF CreateTemp, FillTemp, SyncTemp
  <2>3. TypeOK' /\ Exclusive' /\ Requested'
    BY <2>1, <2>2
  <2>4. CopyIsFresh' /\ LastUpdateMatches'
    BY <2>1, <2>2
  <2>5. CheckWritten' /\ Flushed' /\ NeverTorn'
    BY <2>1, <2>2
  <2>6. QED
    BY <2>3, <2>4, <2>5
<1>5. ASSUME NEW w \in Writers, RenameTemp(w) PROVE IInv'
  <2>1. PICK now \in Times : file' = Change(request[w], file, now)
    BY <1>5, ReplaceState
  <2>2. /\ pc[w] = "rename"
        /\ request[w] \in CheckRequests \cup SetRequests
        /\ pc' = [pc EXCEPT ![w] = "unlock"]
        /\ readable' = TRUE /\ flushed' = TRUE /\ damaged' = FALSE
        /\ temp' = [temp EXCEPT ![w] = "none"]
        /\ UNCHANGED <<metadata, request, copy>>
    BY <1>5 DEF RenameTemp, Replace
  <2>3. /\ file' \in Contract!CacheStates
        /\ LastUpdateMatches'
        /\ file.lastCheck # NoRecord =>
              file'.lastCheck # NoRecord /\ file'.lastCheck.at >= file.lastCheck.at
        /\ request[w].kind = "check" =>
              file'.lastCheck # NoRecord /\ file'.lastCheck.at >= request[w].at
    BY <2>1, <2>2, ChangeState
  <2>4. TypeOK' /\ Exclusive' /\ Requested'
    BY <2>2, <2>3
  <2>5. Flushed' /\ NeverTorn'
    BY <2>2
  <2>6. CopyIsFresh'
    BY <2>2
  <2>7. CheckWritten'
    <3>1. ASSUME NEW u \in Writers, pc'[u] \in {"unlock", "done"}, request[u].kind = "check"
          PROVE  file'.lastCheck # NoRecord /\ file'.lastCheck.at >= request[u].at
      <4>1. CASE u = w
        BY <2>3, <3>1, <4>1
      <4>2. CASE u # w
        <5>1. file.lastCheck # NoRecord /\ file.lastCheck.at >= request[u].at
          BY <2>2, <3>1, <4>2
        <5>2. /\ file'.lastCheck # NoRecord
              /\ file'.lastCheck.at >= file.lastCheck.at
              /\ file' \in Contract!CacheStates
          BY <2>3, <5>1
        <5>3. /\ file.lastCheck.at \in Int
              /\ file'.lastCheck.at \in Int
              /\ request[u].at \in Int
          <6>1. request[u] \in CheckRequests
            BY <3>1, <2>2 DEF CheckRequests, SetRequests, NoRequest
          <6>2. request[u].at \in Int
            BY <6>1 DEF CheckRequests
          <6>3. QED
            BY <5>1, <5>2, <6>2, CheckTime
        <5>4. QED
          BY <5>1, <5>2, <5>3
      <4>3. QED
        BY <4>1, <4>2
    <3>2. QED
      BY <2>2, <3>1
  <2>8. QED
    BY <2>3, <2>6, <2>7, <2>4, <2>5
<1>6. ASSUME NEW w \in Writers, Unlock(w) PROVE IInv'
  BY <1>0, <1>6 DEF Unlock
<1>7. ASSUME NEW w \in Writers, Fail(w) \/ Crash(w) PROVE IInv'
  BY <1>7, AbandonIInv DEF Fail, Crash
<1>8. CASE Damage
  BY <1>8 DEF Damage
<1>9. CASE PowerLoss
  BY <1>0, <1>9 DEF PowerLoss, NoRequest
<1>10. CASE UNCHANGED vars
  BY <1>10 DEF vars
<1>11. QED
  BY <1>1, <1>2, <1>3, <1>4, <1>5, <1>6, <1>7, <1>8, <1>9, <1>10 DEF Next, Step, Write

-----------------------------------------------------------------------------
(* The theorems. *)

\* The inductive invariant: only the holder of "metadata" is inside the
\* transaction, so what it has read is what it replaces.
THEOREM Inductive == Spec => []IInv
BY InitIInv, StepIInv, PTL DEF Spec

\* Every variable keeps its type.
THEOREM TypeCorrect == Spec => []TypeOK
<1>1. IInv => TypeOK
  BY DEF IInv
<1>2. QED
  BY Inductive, <1>1, PTL

\* What changeState writes was computed from the file it replaces.
THEOREM FreshCopy == Spec => []CopyIsFresh
<1>1. IInv => CopyIsFresh
  BY DEF IInv
<1>2. QED
  BY Inductive, <1>1, PTL

\* LastUpdate always describes how the active version became active.
THEOREM UpdateRecord == Spec => []LastUpdateMatches
<1>1. IInv => LastUpdateMatches
  BY DEF IInv
<1>2. QED
  BY Inductive, <1>1, PTL

\* A check that was reported as recorded is never lost or replaced by an older one.
THEOREM CheckRecord == Spec => []AcknowledgedCheck
<1>1. IInv => AcknowledgedCheck
  BY DEF IInv, CheckWritten, AcknowledgedCheck
<1>2. QED
  BY Inductive, <1>1, PTL

\* current.json can always be decoded unless something else damaged it.
THEOREM Untorn == Spec => []NeverTorn
<1>1. IInv => NeverTorn
  BY DEF IInv
<1>2. QED
  BY Inductive, <1>1, PTL

\* The transaction implements the contract of CacheStore: every step leaves the
\* file alone or makes exactly one SetCurrent or RecordCheck on it.
THEOREM Refinement == Spec => KeepsContract
<1>1. Init => Contract!Init
  BY DEF Init
<1>2. ASSUME IInv, [Next]_vars PROVE [Contract!Next]_file
  <2>1. ASSUME NEW w \in Writers, RenameTemp(w) PROVE Contract!Next
    <3>1. PICK now \in Times : file' = Change(request[w], file, now)
      BY <1>2, <2>1, ReplaceState
    <3>2. request[w] \in CheckRequests \cup SetRequests /\ file \in Contract!CacheStates
      BY <1>2, <2>1 DEF RenameTemp, IInv, TypeOK, Requested, InTransaction, Writing
    <3>3. \/ \E c \in Contract!Checks : file' = Contract!Checked(file, c)
          \/ \E v \in Versions : file' = Contract!Activated(file, v, now)
      BY <1>2, <3>1, <3>2, ChangeState DEF IInv, LastUpdateMatches
    <3>4. QED
      BY <3>3 DEF Contract!Next, Contract!SetCurrent, Contract!RecordCheck
  <2>2. ASSUME NEW w \in Writers,
               AskCheck(w) \/ AskSetCurrent(w) \/ TakeMetadata(w) \/ ReadAndChange(w)
               \/ CreateTemp(w) \/ FillTemp(w) \/ SyncTemp(w) \/ Unlock(w) \/ Fail(w) \/ Crash(w)
        PROVE  UNCHANGED file
    BY <2>2 DEF AskCheck, AskSetCurrent, TakeMetadata, ReadAndChange, CreateTemp, FillTemp,
       SyncTemp, Unlock, Fail, Crash, Abandon
  <2>3. CASE Damage \/ PowerLoss \/ UNCHANGED vars
    BY <2>3 DEF Damage, PowerLoss, vars
  <2>4. QED
    BY <1>2, <2>1, <2>2, <2>3 DEF Next, Step, Write
<1>3. QED
  BY Inductive, <1>1, <1>2, PTL DEF Spec, KeepsContract, Contract!Spec

-----------------------------------------------------------------------------
(* Metadata operations come to an end.                                       *)

\* How many steps a writer has before it.
Far(w) == [idle |-> 0, done |-> 0, unlock |-> 1, rename |-> 2, sync |-> 3, fill |-> 4,
           create |-> 5, read |-> 6, lock |-> 7][pc[w]]

\* Every step of a writer brings it nearer to its end, which it reaches after at
\* most seven, and nothing takes it back: it waits once, for the lock, and it does
\* not read again what another process has changed.
WritersRunOut ==
    [][\A w \in Writers : /\ Step(w) => Far(w)' < Far(w)
                          /\ pc[w] \notin {"idle", "done"} => Far(w)' <= Far(w)]_vars

\* A step of its own.
LEMMA WriterNearer ==
    ASSUME TypeOK, NEW w \in Writers, Step(w)
    PROVE  Far(w)' < Far(w)
<1>. USE DEF TypeOK, Far, Goto
<1>1. CASE TakeMetadata(w) \/ ReadAndChange(w)
  BY <1>1 DEF TakeMetadata, ReadAndChange
<1>2. CASE CreateTemp(w) \/ FillTemp(w) \/ SyncTemp(w) \/ RenameTemp(w)
  BY <1>2 DEF CreateTemp, FillTemp, SyncTemp, RenameTemp
<1>3. CASE Unlock(w)
  BY <1>3 DEF Unlock
<1>4. CASE Fail(w)
  BY <1>4 DEF Fail, Abandon, Writing
<1>. QED  BY <1>1, <1>2, <1>3, <1>4 DEF Step, Write

\* The steps of others, crashes and damage.
LEMMA WriterStays ==
    ASSUME TypeOK, [Next]_vars, NEW w \in Writers, pc[w] \notin {"idle", "done"}, ~Step(w)
    PROVE  pc'[w] \in {pc[w], "idle"}
<1>. USE DEF TypeOK, Goto
<1>1. ASSUME NEW u \in Writers, AskCheck(u) \/ AskSetCurrent(u) PROVE pc'[w] = pc[w]
  BY <1>1 DEF AskCheck, AskSetCurrent
<1>2. ASSUME NEW u \in Writers, u # w, Step(u) PROVE pc'[w] = pc[w]
  BY <1>2 DEF Step, Write, TakeMetadata, ReadAndChange, CreateTemp, FillTemp, SyncTemp, RenameTemp,
     Unlock, Fail, Abandon
<1>3. ASSUME NEW u \in Writers, Crash(u) PROVE pc'[w] \in {pc[w], "idle"}
  BY <1>3 DEF Crash, Abandon
<1>4. CASE Damage \/ PowerLoss \/ UNCHANGED vars
  BY <1>4 DEF Damage, PowerLoss, vars
<1>. QED  BY <1>1, <1>2, <1>3, <1>4 DEF Next

\* A metadata operation runs out of steps.  With the deadline of changeState, by
\* which its one wait ends, it returns.
THEOREM MetadataRunsOut == Spec => WritersRunOut
<1>1. ASSUME TypeOK, [Next]_vars, NEW w \in Writers, pc[w] \notin {"idle", "done"}, ~Step(w)
      PROVE  Far(w)' <= Far(w)
  <2>1. pc[w] \in Writing \cup {"lock", "read", "unlock"}
    BY <1>1 DEF TypeOK
  <2>. QED  BY <1>1, <2>1, WriterStays DEF Far, Writing
<1>2. ASSUME TypeOK, NEW w \in Writers, Far(w)' < Far(w), pc'[w] \in Writing \cup {"idle", "lock", "read", "unlock", "done"}
      PROVE  Far(w)' <= Far(w)
  BY <1>2 DEF Far, TypeOK, Writing
<1>3. TypeOK /\ TypeOK' /\ [Next]_vars =>
         [\A w \in Writers : /\ Step(w) => Far(w)' < Far(w)
                             /\ pc[w] \notin {"idle", "done"} => Far(w)' <= Far(w)]_vars
  <2>1. ASSUME TypeOK' PROVE \A w \in Writers : pc'[w] \in Writing \cup {"idle", "lock", "read", "unlock", "done"}
    BY <2>1 DEF TypeOK
  <2>. QED  BY <1>1, <1>2, <2>1, WriterNearer
<1>. QED  BY TypeCorrect, <1>3, PTL DEF Spec, WritersRunOut
=============================================================================
