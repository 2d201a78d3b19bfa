--------------------------- MODULE VerifyDataProofs --------------------------
(***************************************************************************)
(* Proofs about VerifyData for any versions, texts, schemas and archives:  *)
(* a candidate the command passes can be published, and a sound one that   *)
(* updates a sound baseline is refused for no reason of its own.           *)
(***************************************************************************)
EXTENDS VerifyData, PackageUpdateProofs

\* The texts of an archive.
EntriesRead ==
    /\ \A f \in DOMAIN mine : mine[f] \in Texts
    /\ \A f \in DOMAIN theirs : theirs[f] \in Texts

\* A package that verifies, of the version the command expects.
Verified(p, v) ==
    /\ p \in Packages
    /\ p.manifest.version = v
    /\ VerifyFiles(p.manifest, p.texts)

\* What loadDataPackage has accepted, and what Download would.
Given(data) ==
    /\ data \in Data
    /\ data.own \in Packages
    /\ Verified(data.own, data.own.manifest.version)
    /\ data.served # NoPackage => Verified(data.served, data.own.manifest.version)

Reading == {"candidate", "baseline"}
Final   == {"loadCandidate", "current", "reload", "passed"}
Passing == {"find", "loadBaseline", "status"} \cup Final

\* What verifyPackages has made sure of at each point.
Inputs ==
    /\ step \in Passing \cup {"check", "baseline"} => Given(candidate)
    /\ step \in Passing \cup {"check"} /\ baseline # NoData => Given(baseline)
    /\ step \in {"candidate", "baseline", "find"} => baseline = NoData
    /\ step \in Passing =>
          /\ ~TooNew(candidate)
          /\ strict => candidate.own.texts["schema"] = EmbeddedSchema
    /\ step = "loadBaseline" => baseline # NoData /\ latest = baseline
    /\ step \in Passing \ {"loadBaseline"} => latest = candidate
    /\ step \in Final /\ baseline # NoData =>
          Compare(candidate.own.manifest.version, baseline.own.manifest.version) > 0

\* The cache of the command holds what its client has stored, and nothing else.
Private ==
    step # "off" =>
        /\ op = "loadLatest"
        /\ \A v \in Versions : disk[v] # NoPackage => CacheHit(v)
        /\ active # NoVersion => disk[active] # NoPackage
        /\ result.kind = "snapshot" =>
              /\ disk[result.manifest.version] # NoPackage
              /\ disk[result.manifest.version].manifest = result.manifest

\* Where the client stands while the command runs it.
Driven ==
    /\ step \in Reading \cup {"check", "find", "status"} => pc = "resolve"
    /\ step \in {"loadBaseline", "loadCandidate"} /\ pc \notin {"resolve", "done"} =>
          ver = latest.own.manifest.version
    /\ step # "off" /\ pc \in {"fetch", "extract", "decode", "store"} =>
          disk[ver] = NoPackage

\* What the client has returned at the end.
Returned ==
    /\ step \in {"current", "reload", "passed"} =>
          result.kind = "snapshot" /\ result.manifest = candidate.own.manifest
    /\ step \in {"reload", "passed"} => active = candidate.own.manifest.version

\* The inductive invariant.
VInv == Typed /\ Ready /\ EntriesRead /\ Inputs /\ Private /\ Driven /\ Returned

-----------------------------------------------------------------------------
(* Which steps are the client's.                                             *)

\* A step that is not the command's own is one of PackageUpdate, but for the
\* archive and for a client that is asked again.
LEMMA ClientStep ==
    ASSUME [VerifyNext]_allVars
    PROVE  \/ [Next]_vars
           \/ ExtractLocal /\ step \in {"loadBaseline", "loadCandidate"} /\ UNCHANGED tool
           \/ VerifyBaseline /\ step' = "status"
<1> USE DEF vars, allVars
<1>1. ASSUME LoadLatestStep
      PROVE  \/ [Next]_vars
             \/ ExtractLocal /\ step \in {"loadBaseline", "loadCandidate"} /\ UNCHANGED tool
  BY <1>1 DEF LoadLatestStep, Next, Own
<1>2. ASSUME VerifyBaseline PROVE UNCHANGED vars \/ step' = "status"
  BY <1>2 DEF VerifyBaseline, Refuse, Enter
<1>3. ASSUME \/ \E f \in Names, text \in Texts, regular \in BOOLEAN : ReadEntry(f, text, regular)
             \/ EndArchive \/ RefuseArchive \/ CheckSchema \/ FindLatest
             \/ CheckLatest \/ VerifyCandidate \/ CurrentVersion \/ Reload \/ Abort
      PROVE  UNCHANGED vars
  BY <1>3 DEF ReadEntry, EndArchive, RefuseArchive, CheckSchema, FindLatest, CheckLatest,
       VerifyCandidate, CurrentVersion, Reload, Abort, Refuse, Enter
<1>4. QED
  BY <1>1, <1>2, <1>3 DEF VerifyNext

\* The client stays well typed and knows what it has made sure of.
LEMMA ClientInv ==
    ASSUME VInv, [VerifyNext]_allVars
    PROVE  Typed' /\ Ready'
<1> USE DEF VInv
<1>1. CASE [Next]_vars
  BY <1>1, TypeStep, ReadyStep
<1>2. CASE ExtractLocal /\ step \in {"loadBaseline", "loadCandidate"} /\ UNCHANGED tool
  <2>1. CASE latest.served = NoPackage
    <3>1. DownloadFails
      BY <1>2, <2>1 DEF ExtractLocal, DownloadFails
    <3>2. [Next]_vars
      BY <3>1 DEF Next, Own
    <3>3. QED  BY <3>2, TypeStep, ReadyStep
  <2>2. CASE latest.served # NoPackage
    <3>1. /\ pc = "extract" /\ pc' = "decode"
          /\ package' = latest.served
          /\ UNCHANGED <<op, ver, seen, files, total, pending, result, disk, active>>
      BY <1>2, <2>2 DEF ExtractLocal, request, cache
    <3>2. Given(latest)
      BY <1>2 DEF Inputs, Passing, Final
    <3>3. ver = latest.own.manifest.version
      BY <1>2, <3>1 DEF Driven
    <3>4. /\ package' \in Packages
          /\ package'.manifest.version = ver
          /\ VerifyFiles(package'.manifest, package'.texts)
      BY <2>2, <3>1, <3>2, <3>3 DEF Given, Verified
    <3>5. Typed'
      BY <3>1, <3>4 DEF Typed, TypeOK
    <3>6. Ready'
      BY <3>1, <3>4 DEF Ready
    <3>7. QED  BY <3>5, <3>6
  <2>3. QED  BY <2>1, <2>2
<1>3. CASE VerifyBaseline /\ step' = "status"
  <2>1. /\ step = "loadBaseline"
        /\ pc' = "resolve"
        /\ ver' = NoVersion /\ seen' = NoVersion
        /\ package' = NoPackage
        /\ pending' = NoWarning
        /\ result' = Running
        /\ UNCHANGED <<op, files, total, disk, active>>
    BY <1>3 DEF VerifyBaseline, Refuse, Enter, cache
  <2>2. op = "loadLatest"
    BY <2>1 DEF Private
  <2>3. Typed'
    BY <2>1 DEF Typed, TypeOK
  <2>4. Ready'
    BY <2>1, <2>2 DEF Ready, Running
  <2>5. QED  BY <2>3, <2>4
<1>4. QED
  BY <1>1, <1>2, <1>3, ClientStep

-----------------------------------------------------------------------------
(* The command's own steps.                                                  *)

\* Archives hold texts.
LEMMA EntriesStep ==
    ASSUME EntriesRead, [VerifyNext]_allVars
    PROVE  EntriesRead'
<1> USE DEF EntriesRead
<1>1. ASSUME NEW f \in Names, NEW text \in Texts, NEW regular \in BOOLEAN,
             ReadEntry(f, text, regular)
      PROVE  EntriesRead'
  BY <1>1 DEF ReadEntry, With
<1>2. CASE EndArchive
  BY <1>2 DEF EndArchive, Nothing
<1>3. ASSUME ~EndArchive,
             ~ \E f \in Names, text \in Texts, regular \in BOOLEAN : ReadEntry(f, text, regular)
      PROVE  UNCHANGED <<mine, theirs>>
  BY <1>3 DEF VerifyNext, allVars, tool, reading, RefuseArchive, CheckSchema, FindLatest,
       VerifyBaseline, CheckLatest, VerifyCandidate, CurrentVersion, Reload, LoadLatestStep,
       Abort, Refuse, Enter
<1>4. QED
  BY <1>1, <1>2, <1>3

\* What is read as a package and verifies is one, for the command and its client.
LEMMA ArchiveGiven ==
    ASSUME EntriesRead, NEW m \in Manifests, VerifyFiles(m, mine),
           NEW served \in IF Download(m) = {} THEN {NoPackage} ELSE Download(m)
    PROVE  Given([own |-> [manifest |-> m, texts |-> [f \in DataFiles |-> mine[f]]],
                  served |-> served])
<1> DEFINE own == [manifest |-> m, texts |-> [f \in DataFiles |-> mine[f]]]
<1>1. own \in Packages /\ own.manifest = m /\ VerifyFiles(own.manifest, own.texts)
  <2>1. \A f \in DataFiles : f \in DOMAIN mine /\ mine[f] \in Texts
    BY DEF EntriesRead, VerifyFiles
  <2>2. QED  BY <2>1 DEF Packages, VerifyFiles
<1>2. served # NoPackage => Verified(served, m.version)
  <2>1. SUFFICES ASSUME served # NoPackage PROVE Verified(served, m.version)
    OBVIOUS
  <2>2. PICK n \in Manifests :
            /\ n.version = m.version
            /\ VerifyFiles(n, theirs)
            /\ served = [manifest |-> n, texts |-> [f \in DataFiles |-> theirs[f]]]
    <3>1. served \in Download(m)
      BY <2>1
    <3>2. TheirManifests(m) \subseteq Manifests
      BY DEF TheirManifests
    <3>3. QED  BY <3>1, <3>2 DEF Download
  <2>3. \A f \in DataFiles : f \in DOMAIN theirs /\ theirs[f] \in Texts
    BY <2>2 DEF EntriesRead, VerifyFiles
  <2>4. QED  BY <2>2, <2>3 DEF Verified, Packages, VerifyFiles
<1> HIDE DEF own
<1>3. served \in Packages \cup {NoPackage}
  BY <1>2 DEF Verified
<1>4. [own |-> own, served |-> served] \in Data
  BY <1>1, <1>3 DEF Data
<1>5. Given([own |-> own, served |-> served])
  BY <1>1, <1>2, <1>4 DEF Given, Verified
<1>6. QED  BY <1>5 DEF own

\* The command goes on only with packages it has accepted.
LEMMA InputsStep ==
    ASSUME VInv, [VerifyNext]_allVars
    PROVE  Inputs'
<1> USE DEF VInv, Inputs, Passing, Final
<1>1. ASSUME NEW f \in Names, NEW text \in Texts, NEW regular \in BOOLEAN,
             ReadEntry(f, text, regular)
      PROVE  Inputs'
  BY <1>1 DEF ReadEntry, inputs, Given, TooNew
<1>2. CASE EndArchive
  <2> DEFINE Read(m, served) ==
          [own |-> [manifest |-> m, texts |-> [f \in DataFiles |-> mine[f]]], served |-> served]
  <2>0. PICK m \in Manifests :
            /\ VerifyFiles(m, mine)
            /\ \E served \in IF Download(m) = {} THEN {NoPackage} ELSE Download(m) :
                  IF step = "candidate"
                  THEN /\ candidate' = Read(m, served)
                       /\ step' \in {"baseline", "check"}
                       /\ UNCHANGED baseline
                  ELSE /\ baseline' = Read(m, served)
                       /\ step' = "check"
                       /\ UNCHANGED candidate
    BY <1>2 DEF EndArchive
  <2> HIDE DEF Read
  <2>1. PICK served \in IF Download(m) = {} THEN {NoPackage} ELSE Download(m) :
            IF step = "candidate"
            THEN /\ candidate' = Read(m, served)
                 /\ step' \in {"baseline", "check"}
                 /\ UNCHANGED baseline
            ELSE /\ baseline' = Read(m, served)
                 /\ step' = "check"
                 /\ UNCHANGED candidate
    BY <2>0
  <2>2. Given(Read(m, served))
    BY <2>0, <2>1, ArchiveGiven DEF Read
  <2>3. step \in {"candidate", "baseline"} /\ step' \in {"baseline", "check"}
    BY <1>2, <2>1 DEF EndArchive
  <2>4. Given(candidate)' /\ (baseline' # NoData => Given(baseline)')
    BY <2>1, <2>2, <2>3 DEF Given
  <2>5. step' = "baseline" => baseline' = NoData
    BY <2>1, <2>3
  <2>6. QED  BY <2>3, <2>4, <2>5
<1>3. CASE RefuseArchive \/ Abort
  BY <1>3 DEF RefuseArchive, Abort
<1>4. CASE CheckSchema
  <2>1. /\ step = "check"
        /\ UNCHANGED <<candidate, baseline>>
        /\ \/ step' = "refused"
           \/ /\ ~TooNew(candidate)
              /\ strict' => candidate.own.texts["schema"] = EmbeddedSchema
              /\ latest' = IF baseline = NoData THEN candidate ELSE baseline
              /\ step' = IF baseline = NoData THEN "find" ELSE "loadBaseline"
    BY <1>4 DEF CheckSchema
  <2>2. Given(candidate)' /\ (baseline' # NoData => Given(baseline)')
    BY <2>1 DEF Given
  <2>3. CASE step' = "refused"
    BY <2>3
  <2>4. CASE step' # "refused"
    <3>1. /\ ~TooNew(candidate)'
          /\ (strict => candidate.own.texts["schema"] = EmbeddedSchema)'
      BY <2>1, <2>4 DEF TooNew
    <3>2. CASE baseline = NoData
      BY <2>1, <2>2, <2>4, <3>1, <3>2
    <3>3. CASE baseline # NoData
      BY <2>1, <2>2, <2>4, <3>1, <3>3
    <3>4. QED  BY <3>2, <3>3
  <2>5. QED  BY <2>3, <2>4
<1>5. CASE FindLatest
  BY <1>5 DEF FindLatest, Refuse, Enter, inputs, Given, TooNew
<1>6. CASE VerifyBaseline
  BY <1>6 DEF VerifyBaseline, Refuse, Enter, inputs, Given, TooNew
<1>7. CASE CheckLatest
  BY <1>7 DEF CheckLatest, Expected, Refuse, Enter, inputs, Given, TooNew
<1>8. CASE VerifyCandidate \/ CurrentVersion \/ Reload
  BY <1>8 DEF VerifyCandidate, CurrentVersion, Reload, Refuse, Enter, inputs, Given, TooNew
<1>9. CASE (step = "off" /\ UNCHANGED tool) \/ LoadLatestStep \/ UNCHANGED allVars
  BY <1>9 DEF LoadLatestStep, allVars, tool, inputs, Given, TooNew
<1>10. QED
  BY <1>1, <1>2, <1>3, <1>4, <1>5, <1>6, <1>7, <1>8, <1>9 DEF VerifyNext

-----------------------------------------------------------------------------
(* The client in the command's cache.                                        *)

\* Whether there is a command does not change.
LEMMA StaysOff ==
    ASSUME [VerifyNext]_allVars, step' # "off"
    PROVE  step # "off"
BY DEF VerifyNext, allVars, tool, ReadEntry, EndArchive, RefuseArchive, CheckSchema, FindLatest,
     VerifyBaseline, CheckLatest, VerifyCandidate, CurrentVersion, Reload, LoadLatestStep, Abort

\* The steps of the client that change neither its cache nor what it returns.
LEMMA QuietSteps ==
    ASSUME \/ ResolveLatest \/ CompareLatest \/ TakeMaintenance \/ LoadMiss \/ Fetch \/ Decode
           \/ ExtractLocal /\ latest.served # NoPackage
           \/ DecodeUnsupported /\ op = "loadLatest"
    PROVE  UNCHANGED <<op, result, disk, active>>
BY DEF ResolveLatest, CompareLatest, TakeMaintenance, LoadMiss, Fetch, Decode, ExtractLocal,
     DecodeUnsupported, Goto, request, cache

\* The steps of the client that end in an error.
LEMMA FailedSteps ==
    ASSUME \/ DecodeFails \/ FallbackFails
           \/ ExtractLocal /\ latest.served = NoPackage
    PROVE  /\ UNCHANGED <<op, ver, disk, active>>
           /\ pc' = "done"
           /\ result'.kind # "snapshot"
BY DEF DecodeFails, FallbackFails, ExtractLocal, Return, request, cache, Failed, SchemaFail

\* Without other clients on the cache, a version that is downloaded was not there.
LEMMA PutStores ==
    ASSUME VInv, step # "off", Put
    PROVE  /\ ver \in Versions /\ package \in Packages /\ package.manifest.version = ver
           /\ Accepts(ver, package) /\ Decodes(package)
           /\ disk' = [disk EXCEPT ![ver] = package]
           /\ pc' = "activate"
           /\ result' = Snapshot(package)
           /\ UNCHANGED <<op, ver, active>>
<1> USE DEF VInv
<1>1. pc = "store" /\ op = "loadLatest"
  BY DEF Put, Private
<1>2. /\ package \in Packages /\ package.manifest.version = ver
      /\ VerifyFiles(package.manifest, package.texts)
      /\ Decodes(package)
  BY <1>1 DEF Ready
<1>3. ver \in Versions /\ disk[ver] = NoPackage
  BY <1>1 DEF Typed, Driven
<1>4. Accepts(ver, package)
  BY <1>2, RealPackage DEF Accepts
<1>5. disk' = [disk EXCEPT ![ver] = package]
  BY <1>2, <1>3 DEF Put, Accepts
<1>6. QED
  BY <1>1, <1>2, <1>3, <1>4, <1>5 DEF Put, Loaded, request

\* What the client returns is a package it has in its cache.
LEMMA PrivateStep ==
    ASSUME VInv, [VerifyNext]_allVars
    PROVE  Private'
<1> SUFFICES ASSUME step' # "off" PROVE Private'
  BY DEF Private
<1> USE DEF VInv
<1>0. /\ step # "off"
      /\ op = "loadLatest"
      /\ \A v \in Versions : disk[v] # NoPackage => CacheHit(v)
      /\ active # NoVersion => disk[active] # NoPackage
      /\ result.kind = "snapshot" =>
            /\ disk[result.manifest.version] # NoPackage
            /\ disk[result.manifest.version].manifest = result.manifest
  BY StaysOff DEF Private
<1>1. ASSUME UNCHANGED <<op, disk, active>>, result' = result \/ result'.kind # "snapshot"
      PROVE  Private'
  <2>1. \A v \in Versions : CacheHit(v)' <=> CacheHit(v)
    BY <1>1 DEF CacheHit
  <2>2. QED  BY <1>0, <1>1, <2>1 DEF Private
<1>2. ASSUME NEW v \in Versions, disk[v] # NoPackage, result' = Snapshot(disk[v]) \/
                 result' = [Snapshot(disk[v]) EXCEPT
                               !.warnings = @ \cup {WithCurrent(pending, active)}],
             UNCHANGED <<op, disk, active>>
      PROVE  Private'
  <2>1. disk[v].manifest.version = v
    BY <1>0, <1>2 DEF CacheHit, Accepts
  <2>2. result'.manifest = disk[v].manifest
    BY <1>2 DEF Snapshot
  <2>3. \A w \in Versions : CacheHit(w)' <=> CacheHit(w)
    BY <1>2 DEF CacheHit
  <2>4. QED  BY <1>0, <1>2, <2>1, <2>2, <2>3 DEF Private
<1>3. CASE LoadLatestStep
  <2>1. CASE \/ ResolveLatest \/ CompareLatest \/ TakeMaintenance \/ LoadMiss \/ Fetch \/ Decode
             \/ DecodeUnsupported
    BY <1>0, <1>1, <2>1, QuietSteps
  <2>2. CASE ExtractLocal
    <3>1. CASE latest.served = NoPackage
      BY <1>1, <2>2, <3>1, FailedSteps
    <3>2. CASE latest.served # NoPackage
      BY <1>1, <2>2, <3>2, QuietSteps
    <3>3. QED  BY <3>1, <3>2
  <2>3. CASE DecodeFails \/ FallbackFails
    BY <1>1, <2>3, FailedSteps
  <2>4. CASE LoadHit
    <3>1. /\ ver \in Versions /\ disk[ver] # NoPackage
          /\ result' = Snapshot(disk[ver])
          /\ UNCHANGED <<op, disk, active>>
      BY <1>0, <2>4 DEF LoadHit, CacheHit, Accepts, Loaded, request, cache, Typed
    <3>2. QED  BY <1>2, <3>1
  <2>5. CASE Fallback
    <3>1. /\ active \in Versions /\ disk[active] # NoPackage
          /\ result' = [Snapshot(disk[active]) EXCEPT
                           !.warnings = @ \cup {WithCurrent(pending, active)}]
          /\ UNCHANGED <<op, disk, active>>
      BY <1>0, <2>5 DEF Fallback, Return, request, cache, Typed, TypeOK
    <3>2. QED  BY <1>2, <3>1
  <2>6. CASE Activate
    <3>1. /\ ver \in Versions
          /\ Accepts(ver, disk[ver])
          /\ active' = ver /\ result' = result
          /\ UNCHANGED <<op, disk>>
      BY <2>6 DEF Activate, Ready, Return, request, Typed
    <3>2. disk[ver] # NoPackage
      BY <3>1 DEF Accepts
    <3>3. \A v \in Versions : CacheHit(v)' <=> CacheHit(v)
      BY <3>1 DEF CacheHit
    <3>4. QED  BY <1>0, <3>1, <3>2, <3>3 DEF Private
  <2>7. CASE Put
    <3>1. /\ ver \in Versions /\ package \in Packages /\ package.manifest.version = ver
          /\ Accepts(ver, package) /\ Decodes(package)
          /\ disk' = [disk EXCEPT ![ver] = package]
          /\ result' = Snapshot(package)
          /\ UNCHANGED <<op, active>>
      BY <1>0, <2>7, PutStores
    <3>2. /\ disk'[ver] = package /\ package # NoPackage
          /\ \A v \in Versions \ {ver} : disk'[v] = disk[v]
      BY <3>1, RealPackage DEF Typed, TypeOK
    <3>3. ASSUME NEW v \in Versions, disk'[v] # NoPackage PROVE CacheHit(v)'
      <4>1. CASE v = ver
        BY <3>1, <3>2, <4>1 DEF CacheHit
      <4>2. CASE v # ver
        BY <1>0, <3>2, <3>3, <4>2 DEF CacheHit
      <4>3. QED  BY <4>1, <4>2
    <3>4. active # NoVersion => disk'[active] # NoPackage
      BY <1>0, <3>2 DEF Typed, TypeOK
    <3>5. result'.manifest = package.manifest
      BY <3>1 DEF Snapshot
    <3>6. QED  BY <1>0, <3>1, <3>2, <3>3, <3>4, <3>5 DEF Private
  <2>8. QED
    BY <1>3, <2>1, <2>2, <2>3, <2>4, <2>5, <2>6, <2>7 DEF LoadLatestStep
<1>4. CASE VerifyBaseline
  BY <1>1, <1>4 DEF VerifyBaseline, Refuse, Enter, vars, request, cache, Running
<1>5. CASE UNCHANGED vars
  BY <1>1, <1>5 DEF vars, request, cache
<1>6. QED
  BY <1>0, <1>3, <1>4, <1>5 DEF VerifyNext, allVars, ReadEntry, EndArchive, RefuseArchive,
       CheckSchema, FindLatest, CheckLatest, VerifyCandidate, CurrentVersion, Reload, Abort,
       Refuse, Enter

\* The client is at its beginning when the command turns to it, and works on
\* the version the registry of the command serves.
LEMMA DrivenStep ==
    ASSUME VInv, [VerifyNext]_allVars
    PROVE  Driven'
<1> USE DEF VInv, Reading
<1>1. CASE LoadLatestStep
  <2>1. /\ step \in {"loadBaseline", "loadCandidate"}
        /\ step # "off"
        /\ UNCHANGED <<step, latest>>
    BY <1>1 DEF LoadLatestStep, tool
  <2>2. CASE ResolveLatest /\ ver' = latest.own.manifest.version
    BY <2>1, <2>2 DEF ResolveLatest, Driven
  <2>3. CASE LoadMiss
    <3>1. pc = "load" /\ pc' = "fetch" /\ ~CacheHit(ver) /\ UNCHANGED <<ver, disk>>
      BY <2>3 DEF LoadMiss, Goto, request, cache
    <3>2. disk[ver] = NoPackage
      BY <2>1, <3>1 DEF Private, Typed
    <3>3. QED  BY <2>1, <3>1, <3>2 DEF Driven
  <2>4. CASE \/ Fetch \/ Decode
             \/ ExtractLocal /\ latest.served # NoPackage
    <3>1. /\ pc \in {"fetch", "extract", "decode"}
          /\ pc' \in {"extract", "decode", "store"}
          /\ UNCHANGED <<ver, disk>>
      BY <2>4 DEF Fetch, Decode, ExtractLocal, Goto, request, cache
    <3>2. QED  BY <2>1, <3>1 DEF Driven
  <2>5. CASE \/ CompareLatest \/ TakeMaintenance \/ LoadHit \/ DecodeUnsupported
    <3>1. op = "loadLatest"
      BY <2>1 DEF Private
    <3>2. /\ pc \in {"compare", "start", "load", "decode"}
          /\ pc' \in {"start", "load", "activate", "fallback"}
          /\ UNCHANGED <<ver, disk>>
      BY <2>5, <3>1 DEF CompareLatest, TakeMaintenance, LoadHit, DecodeUnsupported, Loaded,
           Goto, request, cache
    <3>3. QED  BY <2>1, <3>2 DEF Driven
  <2>6. CASE Put
    <3>1. pc = "store"
      BY <2>6 DEF Put
    <3>2. pc' = "activate" /\ ver' = ver
      BY <2>1, <2>6, PutStores
    <3>3. QED  BY <2>1, <3>1, <3>2 DEF Driven
  <2>7. CASE \/ DecodeFails \/ FallbackFails \/ Activate \/ Fallback
             \/ ExtractLocal /\ latest.served = NoPackage
    <3>1. pc' = "done"
      BY <2>7 DEF DecodeFails, FallbackFails, Activate, Fallback, ExtractLocal, Return
    <3>2. QED  BY <2>1, <3>1 DEF Driven
  <2>8. CASE ExtractLocal
    BY <2>4, <2>7, <2>8
  <2>9. QED
    BY <1>1, <2>2, <2>3, <2>4, <2>5, <2>6, <2>7, <2>8 DEF LoadLatestStep
<1>2. CASE VerifyBaseline
  BY <1>2 DEF VerifyBaseline, Refuse, Enter, vars, request, cache, Driven
<1>3. CASE step = "off" /\ UNCHANGED tool
  BY <1>3 DEF tool, Driven
<1>4. CASE UNCHANGED allVars
  BY <1>4 DEF allVars, vars, tool, request, cache, Driven
<1>5. ASSUME UNCHANGED <<ver, pc, disk>>, step # "off",
             step' \in Reading \cup {"check", "find", "loadBaseline", "loadCandidate"} =>
                 step \in Reading \cup {"check", "find", "status"},
             step' # "status"
      PROVE  Driven'
  BY <1>5 DEF Driven
<1>6. ASSUME NEW f \in Names, NEW text \in Texts, NEW regular \in BOOLEAN,
             ReadEntry(f, text, regular)
      PROVE  Driven'
  BY <1>5, <1>6 DEF ReadEntry, vars, request, cache
<1>7. CASE EndArchive
  <2>1. /\ step \in {"candidate", "baseline"} /\ step' \in {"baseline", "check"}
        /\ UNCHANGED vars
    BY <1>7 DEF EndArchive
  <2>2. QED  BY <1>5, <2>1 DEF vars, request, cache
<1>8. CASE RefuseArchive \/ CheckSchema \/ FindLatest \/ CheckLatest \/ Abort
  BY <1>5, <1>8 DEF RefuseArchive, CheckSchema, FindLatest, CheckLatest, Abort, Refuse, Enter,
       vars, request, cache
<1>9. CASE VerifyCandidate \/ CurrentVersion \/ Reload
  BY <1>5, <1>9 DEF VerifyCandidate, CurrentVersion, Reload, Refuse, Enter, vars, request, cache
<1>10. QED
  BY <1>1, <1>2, <1>3, <1>4, <1>6, <1>7, <1>8, <1>9 DEF VerifyNext

\* The client returns the candidate, which is active at the end.
LEMMA ReturnedStep ==
    ASSUME VInv, [VerifyNext]_allVars
    PROVE  Returned'
<1> USE DEF VInv, Returned
<1>1. CASE VerifyCandidate \/ CurrentVersion \/ Reload
  BY <1>1 DEF VerifyCandidate, CurrentVersion, Reload, SameAs, Refuse, Enter, inputs, vars, cache
<1>2. ASSUME ~(VerifyCandidate \/ CurrentVersion \/ Reload), ~UNCHANGED allVars
      PROVE  step' \notin {"current", "reload", "passed"}
  BY <1>2 DEF VerifyNext, tool, ReadEntry, EndArchive, RefuseArchive, CheckSchema, FindLatest,
       VerifyBaseline, CheckLatest, LoadLatestStep, Abort, Refuse, Enter
<1>3. CASE UNCHANGED allVars
  BY <1>3 DEF allVars, vars, tool, inputs, cache
<1>4. QED
  BY <1>1, <1>2, <1>3

-----------------------------------------------------------------------------
(* The theorem.                                                              *)

\* The command and its client begin with nothing.
LEMMA InitVInv == VerifyInit => VInv
<1> SUFFICES ASSUME VerifyInit PROVE VInv
  OBVIOUS
<1>1. Typed /\ Ready
  BY InitInv DEF VerifyInit, IInv
<1>2. EntriesRead /\ Returned /\ Inputs
  BY DEF VerifyInit, EntriesRead, Nothing, Returned, Inputs, Passing, Final
<1>3. Private /\ Driven
  BY DEF VerifyInit, Init, Private, Driven, Reading, Running
<1>4. QED  BY <1>1, <1>2, <1>3 DEF VInv

\* Every reachable state of the command satisfies VInv.
THEOREM VerifyInductive == VerifySpec => []VInv
<1>1. VInv /\ [VerifyNext]_allVars => VInv'
  BY ClientInv, EntriesStep, InputsStep, PrivateStep, DrivenStep, ReturnedStep DEF VInv
<1>2. QED  BY <1>1, InitVInv, PTL DEF VerifySpec

\* A candidate that passes is active, in the cache of the client file for file
\* as the command has read it, of the schema asked for, and an update of the
\* baseline.
THEOREM PassedUsable == ASSUME Comparable PROVE VerifySpec => []PassMeansUsable
<1>1. VInv => PassMeansUsable
  <2> SUFFICES ASSUME VInv, step = "passed" PROVE PassMeansUsable
    BY DEF PassMeansUsable
  <2> DEFINE v == candidate.own.manifest.version
  <2>1. /\ Given(candidate)
        /\ ~TooNew(candidate)
        /\ strict => candidate.own.texts["schema"] = EmbeddedSchema
        /\ baseline # NoData =>
              /\ Given(baseline)
              /\ Compare(v, baseline.own.manifest.version) > 0
    BY DEF VInv, Inputs, Passing, Final
  <2>2. active = v /\ result.kind = "snapshot" /\ result.manifest = candidate.own.manifest
    BY DEF VInv, Returned
  <2>3. /\ candidate.own \in Packages
        /\ VerifyFiles(candidate.own.manifest, candidate.own.texts)
        /\ v \in Versions
    BY <2>1, RealPackage DEF Given, Verified
  <2>4. /\ disk[v] # NoPackage
        /\ disk[v].manifest = candidate.own.manifest
        /\ CacheHit(v)
    BY <2>2, <2>3 DEF VInv, Private
  <2>5. disk[v] \in Packages /\ VerifyFiles(disk[v].manifest, disk[v].texts)
    BY <2>3, <2>4 DEF VInv, Typed, TypeOK, CacheHit, Accepts
  <2>6. disk[v] = candidate.own
    <3>1. /\ disk[v].texts \in [DataFiles -> Texts]
          /\ candidate.own.texts \in [DataFiles -> Texts]
      BY <2>3, <2>5, RealPackage
    <3>2. disk[v].texts = candidate.own.texts
      BY <2>3, <2>4, <2>5, <3>1 DEF VerifyFiles
    <3>3. QED  BY <2>3, <2>4, <2>5, <3>2 DEF Packages
  <2>7. Intact(v)
    BY <2>3, <2>4, IntactIfAccepted DEF VInv, CacheHit
  <2>8. /\ disk[v].manifest.schema = Supported
        /\ disk[v].texts["catalog"] \in Catalogs
    <3>1. disk[v].manifest.schema \in Nat
      BY <2>5, RealPackage, UpdateAssumption
    <3>2. QED  BY <2>4, <2>1, <3>1, UpdateAssumption DEF TooNew, CacheHit, Decodes, TooOld
  <2>9. Readable(v)
    BY <2>7, <2>8, UpdateAssumption DEF Readable
  <2>10. ASSUME baseline # NoData
         PROVE  LET b == baseline.own.manifest.version
                IN  b # v /\ (Fits(b) /\ Fits(v) => Precedes(b, v))
    <3> DEFINE b == baseline.own.manifest.version
    <3>1. b \in Versions /\ Compare(v, b) > 0
      BY <2>1, <2>10, RealPackage DEF Given
    <3>2. b # v
      <4>1. v \in AllVersions /\ Proper(v, v)
        BY <2>3, UpdateAssumption DEF Comparable
      <4>2. Compare(v, v) = 0
        BY <4>1, CompareAntisymmetric
      <4>3. QED  BY <3>1, <4>2
    <3>3. ASSUME Fits(b), Fits(v) PROVE Precedes(b, v)
      BY <2>3, <3>1, <3>3, CompareBoth
    <3>4. QED  BY <3>2, <3>3
  <2>11. QED
    BY <2>1, <2>2, <2>6, <2>8, <2>9, <2>10 DEF PassMeansUsable
<1>2. QED  BY <1>1, VerifyInductive, PTL
-----------------------------------------------------------------------------
(* No package is refused without a reason.                                   *)

\* Nothing the command may refuse the candidate for.
Passable ==
    /\ ~trouble
    /\ Sound(candidate)
    /\ candidate.own.manifest.schema = Supported
    /\ strict => candidate.own.texts["schema"] = EmbeddedSchema
    /\ baseline # NoData =>
          LET b == baseline.own.manifest.version
              v == candidate.own.manifest.version
          IN  Sound(baseline) /\ Fits(b) /\ Fits(v) /\ Precedes(b, v)

\* The version of the client before it turns to the package that is served.
Base == IF step \in {"status", "loadCandidate"} /\ baseline # NoData
        THEN baseline.own.manifest.version
        ELSE NoVersion

\* The cache holds that version and nothing else.
AtBase ==
    /\ active = Base
    /\ \A w \in Versions : disk[w] # NoPackage => w = Base

\* The client is on its way to the package that is served, or has it.
OnTrack ==
    /\ pc # "fallback"
    /\ pc \notin {"activate", "done"} => AtBase
    /\ pc \in {"decode", "store"} => package = latest.own
    /\ pc \in {"activate", "done"} =>
          /\ disk[latest.own.manifest.version] = latest.own
          /\ \A w \in Versions : disk[w] # NoPackage => w \in {Base, latest.own.manifest.version}
          /\ result.kind = "snapshot"
          /\ result.manifest = latest.own.manifest
    /\ pc = "done" => active = latest.own.manifest.version

\* While there is nothing to refuse, the command and its client get on.
Progress ==
    /\ step = "candidate" => candidate = NoData
    /\ step \in {"candidate", "baseline", "check", "find"} => AtBase
    /\ step = "status" => baseline # NoData
    /\ Passable =>
          /\ step # "refused"
          /\ step = "status" => AtBase
          /\ step \in {"loadBaseline", "loadCandidate"} => OnTrack
          /\ step \in {"current", "reload"} => active = candidate.own.manifest.version

\* What the client is given, while there is nothing to refuse.
LEMMA ServedSound ==
    ASSUME Comparable, VInv, Passable, step \in {"loadBaseline", "loadCandidate"}
    PROVE  /\ Sound(latest)
           /\ latest.own \in Packages /\ latest.own # NoPackage
           /\ latest.own.manifest.version \in Versions
           /\ Accepts(latest.own.manifest.version, latest.own)
           /\ Base # latest.own.manifest.version
           /\ Base # NoVersion => ~(Compare(latest.own.manifest.version, Base) < 0)
<1> DEFINE t == latest.own.manifest.version
<1>1. Sound(latest) /\ Given(latest)
  BY DEF VInv, Inputs, Passing, Final, Passable
<1>2. /\ latest.own \in Packages /\ latest.own # NoPackage
      /\ t \in Versions
      /\ Accepts(t, latest.own)
  BY <1>1, RealPackage DEF Given, Verified, Accepts
<1>3. CASE Base = NoVersion
  BY <1>1, <1>2, <1>3, RealVersion
<1>4. CASE Base # NoVersion
  <2> DEFINE b == baseline.own.manifest.version
  <2>1. /\ step = "loadCandidate" /\ baseline # NoData
        /\ Base = b
    BY <1>4 DEF Base
  <2>2. /\ latest = candidate
        /\ Given(baseline)
        /\ Compare(t, b) > 0
    BY <2>1 DEF VInv, Inputs, Passing, Final
  <2>3. b \in Versions
    BY <2>2, RealPackage DEF Given
  <2>4. Compare(t, b) \in {-1, 0, 1} /\ Compare(t, t) + Compare(t, t) = 0
        /\ Compare(t, t) \in {-1, 0, 1}
    BY <1>2, <2>3, CompareAntisymmetric, UpdateAssumption DEF Comparable
  <2>5. b # t
    BY <2>2, <2>4
  <2>6. ~(Compare(t, b) < 0)
    BY <2>2, <2>4
  <2>7. QED  BY <1>1, <1>2, <2>1, <2>5, <2>6
<1>5. QED  BY <1>3, <1>4

\* LoadLatest with the registry of the command gets to the package served.
LEMMA TrackStep ==
    ASSUME Comparable, VInv, Passable, OnTrack, LoadLatestStep
    PROVE  OnTrack'
<1> DEFINE t == latest.own.manifest.version
<1>0. /\ step \in {"loadBaseline", "loadCandidate"} /\ step # "off"
      /\ UNCHANGED tool
      /\ Base' = Base /\ latest' = latest
      /\ op = "loadLatest"
      /\ pc \notin {"resolve", "done"} => ver = t
  BY DEF LoadLatestStep, tool, inputs, Base, VInv, Private, Driven
<1>1. /\ Sound(latest)
      /\ latest.own \in Packages /\ latest.own # NoPackage
      /\ t \in Versions
      /\ Accepts(t, latest.own)
      /\ Base # t
      /\ Base # NoVersion => ~(Compare(t, Base) < 0)
  BY <1>0, ServedSound
<1>2. ASSUME pc \notin {"activate", "done"},
             pc' \in {"compare", "start", "load", "fetch", "extract"},
             UNCHANGED <<disk, active>>
      PROVE  OnTrack'
  BY <1>0, <1>2 DEF OnTrack, AtBase
<1>3. ASSUME pc \notin {"activate", "done"},
             pc' \in {"decode", "store"},
             package' = latest.own,
             UNCHANGED <<disk, active>>
      PROVE  OnTrack'
  BY <1>0, <1>3 DEF OnTrack, AtBase
<1>4. CASE ResolveLatest
  BY <1>2, <1>4 DEF ResolveLatest, cache
<1>5. CASE CompareLatest
  <2>1. pc = "compare" /\ active = Base /\ ver = t
    BY <1>0, <1>5 DEF CompareLatest, OnTrack, AtBase
  <2>2. ~(active # NoVersion /\ Compare(ver, active) < 0)
    BY <1>1, <2>1
  <2>3. pc' = "start" /\ UNCHANGED <<disk, active>>
    BY <1>5, <2>2 DEF CompareLatest, cache
  <2>4. QED  BY <1>2, <2>1, <2>3
<1>6. CASE TakeMaintenance \/ LoadMiss \/ Fetch
  BY <1>2, <1>6 DEF TakeMaintenance, LoadMiss, Fetch, Goto, cache
<1>7. CASE LoadHit
  <2>1. pc = "load" /\ ver = t /\ disk[t] # NoPackage
    BY <1>0, <1>7 DEF LoadHit, CacheHit, Accepts
  <2>2. t = Base
    BY <1>1, <2>1 DEF OnTrack, AtBase
  <2>3. QED  BY <1>1, <2>2
<1>8. CASE ExtractLocal
  <2>1. latest.served # NoPackage /\ latest.served = latest.own
    BY <1>1 DEF Sound
  <2>2. /\ pc = "extract" /\ pc' = "decode" /\ package' = latest.own
        /\ UNCHANGED <<disk, active>>
    BY <1>8, <2>1 DEF ExtractLocal, cache
  <2>3. QED  BY <1>3, <2>2
<1>9. CASE Decode \/ DecodeFails \/ DecodeUnsupported
  <2>1. pc = "decode" /\ package = latest.own
    BY <1>9 DEF Decode, DecodeFails, DecodeUnsupported, OnTrack
  <2>2. Decodes(package) /\ ~Unsupported(package)
    BY <1>1, <2>1 DEF Sound, Unsupported
  <2>3. Decode
    BY <1>9, <2>2 DEF DecodeFails, DecodeUnsupported
  <2>4. pc' = "store" /\ package' = latest.own /\ UNCHANGED <<disk, active>>
    BY <2>1, <2>3 DEF Decode, Goto, cache, download
  <2>5. QED  BY <1>3, <2>1, <2>4
<1>10. CASE Put
  <2>1. pc = "store" /\ package = latest.own /\ ver = t /\ AtBase
    BY <1>0, <1>10 DEF Put, OnTrack
  <2>2. /\ disk' = [disk EXCEPT ![t] = latest.own]
        /\ pc' = "activate"
        /\ result' = Snapshot(latest.own)
        /\ active' = active
    BY <1>0, <1>10, <2>1, PutStores
  <2>3. disk \in [Versions -> Packages \cup {NoPackage}]
    BY DEF VInv, Typed, TypeOK
  <2>4. disk'[t] = latest.own /\ \A w \in Versions : w # t => disk'[w] = disk[w]
    BY <1>1, <2>2, <2>3
  <2>5. \A w \in Versions : disk'[w] # NoPackage => w \in {Base, t}
    BY <2>1, <2>4 DEF AtBase
  <2>6. result'.kind = "snapshot" /\ result'.manifest = latest.own.manifest
    BY <2>2 DEF Snapshot
  <2>7. QED  BY <1>0, <2>2, <2>4, <2>5, <2>6 DEF OnTrack
<1>11. CASE Activate
  <2>1. /\ pc = "activate" /\ ver = t
        /\ disk[t] = latest.own
        /\ \A w \in Versions : disk[w] # NoPackage => w \in {Base, t}
        /\ result.kind = "snapshot"
        /\ result.manifest = latest.own.manifest
    BY <1>0, <1>11 DEF Activate, OnTrack
  <2>2. /\ pc' = "done" /\ result' = result /\ active' = t
        /\ disk' = disk
    BY <1>1, <1>11, <2>1 DEF Activate, Return
  <2>3. QED  BY <1>0, <2>1, <2>2 DEF OnTrack
<1>12. CASE Fallback \/ FallbackFails
  BY <1>12 DEF Fallback, FallbackFails, OnTrack
<1>13. QED
  BY <1>4, <1>5, <1>6, <1>7, <1>8, <1>9, <1>10, <1>11, <1>12 DEF LoadLatestStep

\* What there is to refuse a candidate for does not go away.
LEMMA PassableKept ==
    ASSUME UNCHANGED <<candidate, baseline, strict>>, trouble' = trouble, Passable'
    PROVE  Passable
BY DEF Passable, Sound

\* The command refuses nothing without a reason, and its client gets on.
LEMMA ProgressStep ==
    ASSUME Comparable, VInv, Progress, [VerifyNext]_allVars
    PROVE  Progress'
<1> USE DEF VInv
<1>1. ASSUME UNCHANGED <<step, candidate, baseline, latest, strict, trouble, pc, package,
                         result, disk, active>>
      PROVE  Progress'
  <2>1. Passable' => Passable
    BY <1>1, PassableKept
  <2>2. Base' = Base /\ (AtBase => AtBase')
    BY <1>1 DEF Base, AtBase
  <2>3. OnTrack => OnTrack'
    BY <1>1, <2>2 DEF OnTrack, AtBase
  <2>4. QED  BY <1>1, <2>1, <2>2, <2>3 DEF Progress
<1>2. CASE step = "off" /\ UNCHANGED tool
  BY <1>2 DEF tool, inputs, Progress, Passable
<1>3. ASSUME NEW f \in Names, NEW text \in Texts, NEW regular \in BOOLEAN,
             ReadEntry(f, text, regular)
      PROVE  Progress'
  BY <1>1, <1>3 DEF ReadEntry, vars, inputs, request, download, cache
<1>4. CASE EndArchive
  <2>1. /\ step \in {"candidate", "baseline"} /\ step' \in {"baseline", "check"}
        /\ UNCHANGED <<disk, active>>
    BY <1>4 DEF EndArchive, vars, cache
  <2>2. AtBase'
    BY <2>1 DEF Progress, AtBase, Base
  <2>3. QED  BY <2>1, <2>2 DEF Progress
<1>5. CASE RefuseArchive
  <2>1. /\ step \in {"candidate", "baseline"} /\ step' = "refused"
        /\ trouble' = (step = "baseline")
        /\ candidate' = candidate
    BY <1>5 DEF RefuseArchive, inputs
  <2>2. step = "candidate" => candidate' = NoData
    BY <2>1 DEF Progress
  <2>3. step = "candidate" => ~Sound(candidate')
    BY <2>2 DEF Sound, NoData
  <2>4. step = "baseline" => trouble'
    BY <2>1
  <2>5. ~Passable'
    BY <2>1, <2>3, <2>4 DEF Passable
  <2>6. QED  BY <2>1, <2>5 DEF Progress
<1>6. CASE Abort
  BY <1>6 DEF Abort, Progress, Passable
<1>7. CASE CheckSchema
  <2>1. /\ step = "check"
        /\ UNCHANGED <<candidate, baseline, trouble, disk, active, pc>>
        /\ IF TooNew(candidate) \/ (strict' /\ candidate.own.texts["schema"] # EmbeddedSchema)
           THEN step' = "refused"
           ELSE step' = IF baseline = NoData THEN "find" ELSE "loadBaseline"
    BY <1>7 DEF CheckSchema, vars, cache
  <2>2. AtBase /\ pc = "resolve"
    BY <2>1 DEF Progress, Driven
  <2>3. Passable' => step' # "refused"
    <3>1. Passable' => ~TooNew(candidate)
      BY <2>1, UpdateAssumption DEF Passable, TooNew
    <3>2. Passable' => (strict' => candidate.own.texts["schema"] = EmbeddedSchema)
      BY <2>1 DEF Passable
    <3>3. QED  BY <2>1, <3>1, <3>2
  <2>4. step' \in {"refused", "find", "loadBaseline"}
    BY <2>1
  <2>5. step' # "refused" => AtBase'
    BY <2>1, <2>2, <2>4 DEF AtBase, Base
  <2>6. step' = "loadBaseline" => OnTrack'
    BY <2>1, <2>2, <2>5 DEF OnTrack
  <2>7. QED  BY <2>3, <2>4, <2>5, <2>6 DEF Progress
<1>8. ASSUME step \in Passing, UNCHANGED <<candidate, baseline, strict, trouble>>
      PROVE  Passable' => Passable
  BY <1>8, PassableKept
<1>9. CASE FindLatest
  <2>1. /\ step = "find"
        /\ step' = "loadCandidate"
        /\ UNCHANGED <<candidate, baseline, latest, strict, trouble, vars>>
    BY <1>9 DEF FindLatest, Enter, inputs, Inputs, Passing, Final
  <2>2. AtBase /\ pc = "resolve" /\ baseline = NoData
    BY <2>1 DEF Progress, Driven, Inputs
  <2>3. AtBase'
    BY <2>1, <2>2 DEF AtBase, Base, vars, cache
  <2>4. OnTrack'
    BY <2>1, <2>2, <2>3 DEF OnTrack, vars
  <2>5. QED  BY <2>1, <2>4 DEF Progress
<1>10. CASE VerifyBaseline
  <2>1. /\ step = "loadBaseline" /\ pc = "done"
        /\ step' \in {"status", "refused"}
        /\ UNCHANGED <<candidate, baseline, strict, trouble, disk, active>>
        /\ SameAs(result, baseline) => step' = "status"
    BY <1>10 DEF VerifyBaseline, Refuse, Enter, inputs, vars, cache
  <2>2. baseline # NoData /\ latest = baseline /\ Given(baseline)
    BY <2>1 DEF Inputs, Passing
  <2>3. ASSUME Passable' PROVE step' = "status" /\ AtBase'
    <3>1. Passable /\ OnTrack
      BY <1>8, <2>1, <2>3 DEF Passing, Progress
    <3>2. SameAs(result, baseline)
      BY <2>1, <2>2, <3>1 DEF SameAs, OnTrack, Passable, Sound
    <3>3. step' = "status"
      BY <2>1, <3>2
    <3>4. /\ active = baseline.own.manifest.version
          /\ \A w \in Versions : disk[w] # NoPackage => w = baseline.own.manifest.version
      BY <2>1, <2>2, <3>1, RealVersion DEF OnTrack, Base
    <3>5. AtBase'
      BY <2>1, <2>2, <3>3, <3>4 DEF AtBase, Base
    <3>6. QED  BY <3>3, <3>5
  <2>4. QED  BY <2>1, <2>2, <2>3 DEF Progress
<1>11. CASE CheckLatest
  <2> DEFINE b == baseline.own.manifest.version
             v == candidate.own.manifest.version
  <2>1. /\ step = "status"
        /\ step' \in {"loadCandidate", "refused"}
        /\ UNCHANGED <<candidate, baseline, strict, trouble, latest, vars>>
        /\ Expected(active, latest.own.manifest.version) => step' = "loadCandidate"
    BY <1>11 DEF CheckLatest, Refuse, Enter, inputs
  <2>2. baseline # NoData /\ latest = candidate /\ pc = "resolve"
    BY <2>1 DEF Progress, Inputs, Passing, Driven
  <2>3. ASSUME Passable' PROVE step' = "loadCandidate" /\ OnTrack'
    <3>1. Passable /\ AtBase
      BY <1>8, <2>1, <2>3 DEF Passing, Progress
    <3>2. active = b
      BY <2>1, <2>2, <3>1 DEF AtBase, Base
    <3>3. b \in Versions /\ v \in Versions
      <4>1. Given(candidate)
        BY <2>1 DEF Inputs, Passing
      <4>2. baseline.own \in Packages
        BY <2>1, <2>2 DEF Inputs, Passing, Given
      <4>3. QED  BY <4>1, <4>2, RealPackage DEF Given
    <3>4. Fits(b) /\ Fits(v) /\ Precedes(b, v)
      BY <2>2, <3>1 DEF Passable
    <3>5. Compare(v, b) = 1
      BY <3>3, <3>4, CompareBoth
    <3>6. step' = "loadCandidate"
      BY <2>1, <2>2, <3>2, <3>5 DEF Expected
    <3>7. AtBase'
      BY <2>1, <2>2, <3>1, <3>6 DEF AtBase, Base, vars, cache
    <3>8. OnTrack'
      BY <2>1, <2>2, <3>7 DEF OnTrack, vars
    <3>9. QED  BY <3>6, <3>8
  <2>4. QED  BY <2>1, <2>3 DEF Progress
<1>12. CASE VerifyCandidate
  <2>1. /\ step = "loadCandidate" /\ pc = "done"
        /\ step' \in {"current", "refused"}
        /\ UNCHANGED <<candidate, baseline, strict, trouble, active>>
        /\ latest = candidate
    BY <1>12 DEF VerifyCandidate, Refuse, Enter, inputs, vars, cache, Inputs, Passing, Final
  <2>2. ASSUME Passable' PROVE step' = "current" /\ active = candidate.own.manifest.version
    <3>1. Passable /\ OnTrack
      BY <1>8, <2>1, <2>2 DEF Passing, Final, Progress
    <3>2. /\ result.kind = "snapshot"
          /\ result.manifest = candidate.own.manifest
          /\ active = candidate.own.manifest.version
      BY <2>1, <3>1 DEF OnTrack
    <3>3. SameAs(result, candidate)
      BY <3>1, <3>2 DEF SameAs, Passable, Sound
    <3>4. QED  BY <1>12, <3>2, <3>3 DEF VerifyCandidate, Enter
  <2>3. QED  BY <2>1, <2>2 DEF Progress
<1>13. CASE CurrentVersion \/ Reload
  <2>1. /\ step \in {"current", "reload"}
        /\ step' \in {"reload", "passed", "refused"}
        /\ UNCHANGED <<candidate, baseline, strict, trouble, active>>
        /\ active = candidate.own.manifest.version => step' # "refused"
    BY <1>13 DEF CurrentVersion, Reload, Refuse, Enter, inputs, vars, cache
  <2>2. Passable' => Passable /\ active = candidate.own.manifest.version
    BY <1>8, <2>1 DEF Passing, Final, Progress
  <2>3. QED  BY <2>1, <2>2 DEF Progress
<1>14. CASE LoadLatestStep
  <2>1. /\ step \in {"loadBaseline", "loadCandidate"}
        /\ UNCHANGED <<step, candidate, baseline, strict, trouble>>
    BY <1>14 DEF LoadLatestStep, tool, inputs
  <2>2. Passable' => OnTrack'
    BY <1>8, <1>14, <2>1, TrackStep DEF Passing, Final, Progress
  <2>3. QED  BY <2>1, <2>2 DEF Progress
<1>15. CASE UNCHANGED allVars
  BY <1>1, <1>15 DEF allVars, vars, tool, inputs, request, download, cache
<1>16. QED
  BY <1>2, <1>3, <1>4, <1>5, <1>6, <1>7, <1>9, <1>10, <1>11, <1>12, <1>13, <1>14, <1>15
     DEF VerifyNext

\* The command does not refuse a sound candidate of the supported schema, unless a
\* strict check of the schema fails, the baseline is not sound or not older, or the
\* disk or the network fails: for any versions, texts, schemas and archives.
THEOREM SoundPassed == ASSUME Comparable PROVE VerifySpec => []SoundPasses
<1>1. VerifyInit => Progress
  BY DEF VerifyInit, Init, Progress, AtBase, Base
<1>2. VInv /\ Progress /\ [VerifyNext]_allVars => Progress'
  BY ProgressStep
<1>3. Progress => SoundPasses
  BY DEF Progress, Passable, SoundPasses
<1>4. QED  BY <1>1, <1>2, <1>3, VerifyInductive, PTL DEF VerifySpec
=============================================================================
