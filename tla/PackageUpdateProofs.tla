------------------------ MODULE PackageUpdateProofs ------------------------
(***************************************************************************)
(* Proofs about PackageUpdate, for any versions, texts, catalogs, schemas  *)
(* and archives of any length.                                             *)
(***************************************************************************)
EXTENDS PackageUpdate, VersionOrderProofs

\* The types, and that an operation knows its version once it is under way.
Typed ==
    /\ TypeOK
    /\ pc \notin {"resolve", "done"} => ver \in Versions

\* What an operation has made sure of at each point.
Ready ==
    /\ pc \in {"resolve", "compare"} => op = "loadLatest"
    /\ pc \in {"decode", "store"} =>
          /\ package \in Packages
          /\ package.manifest.version = ver
          /\ VerifyFiles(package.manifest, package.texts)
    /\ pc = "store" => Decodes(package)
    /\ pc = "activate" =>
          /\ Accepts(ver, disk[ver])
          /\ result.kind = "snapshot"
          /\ result.manifest.version = ver
    /\ pc = "fallback" =>
          /\ op = "loadLatest"
          /\ pending \in Warnings
          /\ pending.registry = ver
          /\ \/ pending.code = "registry_behind" /\ pending.current = seen /\ seen # NoVersion
             \/ /\ pending.code = "schema_update_skipped"
                /\ pending.schema # Supported
                /\ pending.current = NoVersion
    /\ op = "loadLatest" /\ pc \notin {"resolve", "compare", "fallback", "done"} =>
          seen = NoVersion \/ ~(Compare(ver, seen) < 0)

\* NoPackage is none, and a text is listed by its digest.
LEMMA RealPackage ==
    ASSUME NEW p \in Packages
    PROVE  /\ p # NoPackage
           /\ p.manifest \in Manifests /\ p.texts \in [DataFiles -> Texts]
           /\ p.manifest.version \in Versions /\ p.manifest.schema \in Schemas
BY DEF Packages, NoPackage, Manifests

\* A version is never taken for none.
LEMMA RealVersion == NoVersion \notin Versions
BY UpdateAssumption

\* The warning of a schema.
LEMMA SchemaWarningsType ==
    ASSUME NEW m \in Manifests
    PROVE  /\ SchemaWarnings(m) \subseteq Warnings
           /\ Drift(m) \in {"schema_data_outdated", "schema_sdk_outdated", "schema_mismatch"}
BY DEF Manifests, Warnings, Codes, SchemaWarnings, Drift

\* The snapshot of a package.
LEMMA SnapshotType ==
    ASSUME NEW p \in Packages
    PROVE  /\ Snapshot(p).kind = "snapshot"
           /\ Snapshot(p).manifest = p.manifest
           /\ Snapshot(p).manifest \in Manifests
           /\ Snapshot(p).warnings = SchemaWarnings(p.manifest)
           /\ Snapshot(p).warnings \subseteq Warnings
BY RealPackage, SchemaWarningsType DEF Snapshot

\* A package that hits is one.
LEMMA HitPackage ==
    ASSUME Typed, NEW v \in Versions, Accepts(v, disk[v])
    PROVE  disk[v] \in Packages
BY DEF Typed, TypeOK, Accepts

\* An operation returns a snapshot or an error.
Outcome(r) ==
    \/ r \in {Running, Failed, SchemaFail}
    \/ /\ r.kind = "snapshot"
       /\ r.manifest \in Manifests
       /\ r.warnings \subseteq Warnings

\* A missing entry of a manifest is no text.
LEMMA UnlistedIsNoText == Unlisted \notin Texts
BY UpdateAssumption DEF Unlisted

-----------------------------------------------------------------------------
\* Every step keeps the types.
LEMMA TypeStep ==
    ASSUME Typed, Ready, [Next]_vars
    PROVE  Typed'
<1> USE UpdateAssumption DEF request, download, cache
<1>1. ASSUME ResolveLatest PROVE Typed'
  BY <1>1 DEF ResolveLatest, Typed, TypeOK
<1>2. ASSUME CompareLatest PROVE Typed'
  <2>1. ver \in Versions /\ active \in Versions \cup {NoVersion}
    BY <1>2 DEF CompareLatest, Typed, TypeOK
  <2>2. RegistryBehind(active, ver) \in Warnings
    BY <2>1 DEF RegistryBehind, Warnings, Codes
  <2>3. pending' \in Warnings \cup {NoWarning}
    BY <1>2, <2>2 DEF CompareLatest, Typed, TypeOK
  <2>4. QED  BY <1>2, <2>1, <2>3 DEF CompareLatest, Typed, TypeOK
<1>3. ASSUME TakeMaintenance PROVE Typed'
  BY <1>3 DEF TakeMaintenance, Goto, Typed, TypeOK
<1>4. ASSUME LoadHit PROVE Typed'
  <2>1. disk[ver] \in Packages
    BY <1>4, HitPackage DEF LoadHit, CacheHit, Typed
  <2>2. Outcome(result') /\ result' = Snapshot(disk[ver])
    BY <1>4, <2>1, SnapshotType DEF LoadHit, Loaded, Return, Outcome
  <2>3. QED  BY <1>4, <2>2 DEF LoadHit, Loaded, Return, Typed, TypeOK, Outcome
<1>5. ASSUME LoadMiss PROVE Typed'
  BY <1>5 DEF LoadMiss, Goto, Typed, TypeOK
<1>6. ASSUME Fetch PROVE Typed'
  BY <1>6 DEF Fetch, Goto, Typed, TypeOK
<1>7. ASSUME FetchFails PROVE Typed'
  BY <1>7 DEF FetchFails, Return, Typed, TypeOK
<1>8. ASSUME KeepEntry PROVE Typed'
  <2>1. DOMAIN files' \subseteq DataFiles \cup {"manifest"}
    BY <1>8 DEF KeepEntry, Typed, TypeOK
  <2>2. \A f \in DOMAIN files' : files'[f] \in Texts \cup {Unread}
    BY <1>8 DEF KeepEntry, Typed, TypeOK
  <2>3. total' \in 0..MaxTotal
    BY <1>8 DEF KeepEntry, Typed, TypeOK
  <2>4. QED  BY <1>8, <2>1, <2>2, <2>3 DEF KeepEntry, Typed, TypeOK
<1>9. ASSUME SkipEntry PROVE Typed'
  <2>1. total' \in 0..MaxTotal
    BY <1>9 DEF SkipEntry, Typed, TypeOK
  <2>2. QED  BY <1>9, <2>1 DEF SkipEntry, Typed, TypeOK
<1>10. ASSUME Verify PROVE Typed'
  <2>1. PICK m \in Manifests :
            /\ m.version = ver
            /\ VerifyFiles(m, files)
            /\ package' = [manifest |-> m, texts |-> [f \in DataFiles |-> files[f]]]
    BY <1>10 DEF Verify
  <2>2. \A f \in DataFiles : m.lists[f] \in Texts \cup {Unlisted}
    BY DEF Manifests
  <2>3. [f \in DataFiles |-> files[f]] \in [DataFiles -> Texts]
    BY <2>1, <2>2 DEF VerifyFiles
  <2>4. package' \in Packages
    BY <2>1, <2>3 DEF Packages
  <2>5. total' \in 0..MaxTotal /\ DOMAIN files' = {}
    BY <1>10 DEF Verify
  <2>6. QED  BY <1>10, <2>4, <2>5 DEF Verify, Typed, TypeOK
<1>11. ASSUME DownloadFails PROVE Typed'
  BY <1>11 DEF DownloadFails, Return, Typed, TypeOK
<1>12. ASSUME Decode PROVE Typed'
  BY <1>12 DEF Decode, Goto, Typed, TypeOK
<1>13. ASSUME DecodeFails PROVE Typed'
  BY <1>13 DEF DecodeFails, Return, Typed, TypeOK
<1>14. ASSUME DecodeUnsupported PROVE Typed'
  <2>1. package.manifest \in Manifests
    BY <1>14, RealPackage DEF DecodeUnsupported, Ready
  <2>2. SchemaUpdateSkipped(package.manifest) \in Warnings
    BY <2>1 DEF SchemaUpdateSkipped, Warnings, Codes, Manifests
  <2>3. QED  BY <1>14, <2>2 DEF DecodeUnsupported, Return, Typed, TypeOK
<1>15. ASSUME Put PROVE Typed'
  <2>1. package \in Packages /\ package.manifest.version \in Versions
    BY <1>15, RealPackage DEF Put, Ready
  <2>2. Outcome(result')
    BY <1>15, <2>1, SnapshotType DEF Put, Loaded, Return, Outcome
  <2>3. disk' \in [Versions -> Packages \cup {NoPackage}]
    BY <1>15, <2>1 DEF Put, Typed, TypeOK
  <2>4. QED  BY <1>15, <2>2, <2>3 DEF Put, Loaded, Return, Typed, TypeOK, Outcome
<1>16. ASSUME Activate PROVE Typed'
  BY <1>16 DEF Activate, Return, Typed, TypeOK
<1>17. ASSUME Fallback PROVE Typed'
  <2>1. active \in Versions /\ disk[active] \in Packages
    BY <1>17, HitPackage DEF Fallback, CacheHit, Typed, TypeOK
  <2>2. pending \in Warnings
    BY <1>17 DEF Fallback, Ready
  <2>3. WithCurrent(pending, active) \in Warnings
    BY <2>1, <2>2 DEF WithCurrent, Warnings
  <2>4. Outcome(result')
    BY <1>17, <2>1, <2>3, SnapshotType DEF Fallback, Return, Snapshot, Outcome
  <2>5. QED  BY <1>17, <2>4 DEF Fallback, Return, Typed, TypeOK, Outcome
<1>18. ASSUME FallbackFails PROVE Typed'
  BY <1>18 DEF FallbackFails, Return, Typed, TypeOK
<1>19. ASSUME NEW v \in Versions, OtherStores(v) PROVE Typed'
  <2>1. PICK schema \in Schemas, texts \in [DataFiles -> Texts] :
            disk' = [disk EXCEPT ![v] =
                        [manifest |-> [version |-> v, schema |-> schema, lists |-> texts],
                         texts |-> texts]]
    BY <1>19 DEF OtherStores
  <2>2. [manifest |-> [version |-> v, schema |-> schema, lists |-> texts],
         texts |-> texts] \in Packages
    BY DEF Packages, Manifests
  <2>3. disk' \in [Versions -> Packages \cup {NoPackage}]
    BY <2>1, <2>2 DEF Typed, TypeOK
  <2>4. QED  BY <1>19, <2>3 DEF OtherStores, Typed, TypeOK
<1>20. ASSUME NEW v \in Versions, OtherActivates(v) PROVE Typed'
  BY <1>20 DEF OtherActivates, Undisturbed, Typed, TypeOK
<1>21. ASSUME NEW v \in Versions, Damage(v) PROVE Typed'
  <2>1. PICK text \in Texts : disk' = [disk EXCEPT ![v].texts["catalog"] = text]
    BY <1>21 DEF Damage
  <2>2. disk[v] \in Packages
    BY <1>21 DEF Damage, Typed, TypeOK
  <2>3. [disk[v] EXCEPT !.texts["catalog"] = text] \in Packages
    BY <2>2 DEF Packages
  <2>4. disk' = [disk EXCEPT ![v] = [disk[v] EXCEPT !.texts["catalog"] = text]]
    BY <2>1
  <2>5. disk' \in [Versions -> Packages \cup {NoPackage}]
    BY <2>3, <2>4 DEF Typed, TypeOK
  <2>6. QED  BY <1>21, <2>5 DEF Damage, Typed, TypeOK
<1>22. CASE UNCHANGED vars
  BY <1>22 DEF vars, Typed, TypeOK
<1>23. QED
  BY <1>1, <1>2, <1>3, <1>4, <1>5, <1>6, <1>7, <1>8, <1>9, <1>10, <1>11, <1>12,
       <1>13, <1>14, <1>15, <1>16, <1>17, <1>18, <1>19, <1>20, <1>21, <1>22
       DEF Next, Own

\* Every step makes sure of what the next one relies on.
LEMMA ReadyStep ==
    ASSUME Typed, Ready, [Next]_vars
    PROVE  Ready'
<1> USE UpdateAssumption DEF request, download, cache
<1>1. ASSUME ResolveLatest PROVE Ready'
  BY <1>1 DEF ResolveLatest, Ready
<1>2. ASSUME CompareLatest PROVE Ready'
  <2>1. ver \in Versions /\ active \in Versions \cup {NoVersion}
    BY <1>2 DEF CompareLatest, Typed, TypeOK
  <2>2. CASE active # NoVersion /\ Compare(ver, active) < 0
    <3>1. pc' = "fallback" /\ pending' = RegistryBehind(active, ver) /\ seen' = active
      BY <1>2, <2>2 DEF CompareLatest
    <3>2. /\ RegistryBehind(active, ver) \in Warnings
          /\ RegistryBehind(active, ver).code = "registry_behind"
          /\ RegistryBehind(active, ver).registry = ver
          /\ RegistryBehind(active, ver).current = active
      BY <2>1, <2>2 DEF RegistryBehind, Warnings, Codes
    <3>3. QED  BY <1>2, <3>1, <3>2 DEF CompareLatest, Ready
  <2>3. CASE ~(active # NoVersion /\ Compare(ver, active) < 0)
    BY <1>2, <2>3 DEF CompareLatest, Ready
  <2>4. QED  BY <2>2, <2>3
<1>3. ASSUME TakeMaintenance PROVE Ready'
  BY <1>3 DEF TakeMaintenance, Goto, Ready
<1>4. ASSUME LoadHit PROVE Ready'
  <2>1. disk[ver] \in Packages /\ Accepts(ver, disk[ver])
    BY <1>4, HitPackage DEF LoadHit, CacheHit, Typed
  <2>2. CASE op = "loadVersion"
    BY <1>4, <2>1, <2>2, SnapshotType DEF LoadHit, Loaded, Return, Ready
  <2>3. CASE op # "loadVersion"
    <3>1. /\ result' = Snapshot(disk[ver])
          /\ Snapshot(disk[ver]).kind = "snapshot"
          /\ Snapshot(disk[ver]).manifest.version = ver
      BY <1>4, <2>1, <2>3, SnapshotType DEF LoadHit, Loaded, Accepts
    <3>2. QED  BY <1>4, <2>1, <2>3, <3>1 DEF LoadHit, Loaded, Ready
  <2>4. QED  BY <2>2, <2>3
<1>5. ASSUME LoadMiss PROVE Ready'
  BY <1>5 DEF LoadMiss, Goto, Ready
<1>6. ASSUME Fetch PROVE Ready'
  BY <1>6 DEF Fetch, Goto, Ready
<1>7. ASSUME FetchFails PROVE Ready'
  BY <1>7 DEF FetchFails, Return, Ready
<1>8. ASSUME KeepEntry PROVE Ready'
  BY <1>8 DEF KeepEntry, Ready
<1>9. ASSUME SkipEntry PROVE Ready'
  BY <1>9 DEF SkipEntry, Ready
<1>10. ASSUME Verify PROVE Ready'
  <2>1. PICK m \in Manifests :
            /\ m.version = ver
            /\ VerifyFiles(m, files)
            /\ package' = [manifest |-> m, texts |-> [f \in DataFiles |-> files[f]]]
    BY <1>10 DEF Verify
  <2>2. \A f \in DataFiles : m.lists[f] \in Texts \cup {Unlisted}
    BY DEF Manifests
  <2>3. [f \in DataFiles |-> files[f]] \in [DataFiles -> Texts]
    BY <2>1, <2>2 DEF VerifyFiles
  <2>4. package' \in Packages
    BY <2>1, <2>3 DEF Packages
  <2>5. VerifyFiles(m, [f \in DataFiles |-> files[f]])
    BY <2>1 DEF VerifyFiles
  <2>6. package'.manifest = m /\ VerifyFiles(package'.manifest, package'.texts)
    BY <2>1, <2>5
  <2>7. QED  BY <1>10, <2>1, <2>4, <2>6 DEF Verify, Ready
<1>11. ASSUME DownloadFails PROVE Ready'
  BY <1>11 DEF DownloadFails, Return, Ready
<1>12. ASSUME Decode PROVE Ready'
  BY <1>12 DEF Decode, Goto, Ready
<1>13. ASSUME DecodeFails PROVE Ready'
  BY <1>13 DEF DecodeFails, Return, Ready
<1>14. ASSUME DecodeUnsupported PROVE Ready'
  <2>1. package.manifest \in Manifests /\ package.manifest.version = ver
    BY <1>14, RealPackage DEF DecodeUnsupported, Ready
  <2>2. /\ SchemaUpdateSkipped(package.manifest) \in Warnings
        /\ SchemaUpdateSkipped(package.manifest).code = "schema_update_skipped"
        /\ SchemaUpdateSkipped(package.manifest).registry = ver
        /\ SchemaUpdateSkipped(package.manifest).current = NoVersion
        /\ SchemaUpdateSkipped(package.manifest).schema = package.manifest.schema
    BY <2>1 DEF SchemaUpdateSkipped, Warnings, Codes, Manifests
  <2>3. CASE op = "loadLatest"
    BY <1>14, <2>2, <2>3 DEF DecodeUnsupported, Unsupported, Ready
  <2>4. CASE op # "loadLatest"
    BY <1>14, <2>4 DEF DecodeUnsupported, Return, Ready
  <2>5. QED  BY <2>3, <2>4
<1>15. ASSUME Put PROVE Ready'
  <2>1. /\ package \in Packages
        /\ package.manifest.version = ver
        /\ ver \in Versions
        /\ VerifyFiles(package.manifest, package.texts)
    BY <1>15 DEF Put, Ready, Typed
  <2>2. Accepts(ver, disk'[ver])
    BY <1>15, <2>1, RealPackage DEF Put, Accepts, Typed, TypeOK
  <2>3. CASE op = "loadVersion"
    BY <1>15, <2>1, <2>3, SnapshotType DEF Put, Loaded, Return, Ready
  <2>4. CASE op # "loadVersion"
    <3>1. /\ result' = Snapshot(package)
          /\ Snapshot(package).kind = "snapshot"
          /\ Snapshot(package).manifest.version = ver
      BY <1>15, <2>1, <2>4, SnapshotType DEF Put, Loaded
    <3>2. QED  BY <1>15, <2>2, <2>4, <3>1 DEF Put, Loaded, Ready
  <2>5. QED  BY <2>3, <2>4
<1>16. ASSUME Activate PROVE Ready'
  BY <1>16 DEF Activate, Return, Ready
<1>17. ASSUME Fallback PROVE Ready'
  BY <1>17 DEF Fallback, Return, Ready
<1>18. ASSUME FallbackFails PROVE Ready'
  BY <1>18 DEF FallbackFails, Return, Ready
<1>19. ASSUME NEW v \in Versions, OtherStores(v) PROVE Ready'
  BY <1>19 DEF OtherStores, Undisturbed, Ready
<1>20. ASSUME NEW v \in Versions, OtherActivates(v) PROVE Ready'
  BY <1>20 DEF OtherActivates, Undisturbed, Ready
<1>21. ASSUME NEW v \in Versions, Damage(v) PROVE Ready'
  BY <1>21 DEF Damage, Undisturbed, Ready
<1>22. CASE UNCHANGED vars
  BY <1>22 DEF vars, Ready
<1>23. QED
  BY <1>1, <1>2, <1>3, <1>4, <1>5, <1>6, <1>7, <1>8, <1>9, <1>10, <1>11, <1>12,
       <1>13, <1>14, <1>15, <1>16, <1>17, <1>18, <1>19, <1>20, <1>21, <1>22
       DEF Next, Own

\* Only Fallback returns another version than the one LoadLatest was told of.
LEMMA AnnounceStep ==
    ASSUME Typed, Ready, FallbackAnnounced, [Next]_vars
    PROVE  FallbackAnnounced'
<1> USE UpdateAssumption DEF request, download, cache
<1>1. ASSUME ResolveLatest PROVE FallbackAnnounced'
  BY <1>1 DEF ResolveLatest, FallbackAnnounced
<1>2. ASSUME CompareLatest PROVE FallbackAnnounced'
  BY <1>2 DEF CompareLatest, FallbackAnnounced
<1>3. ASSUME TakeMaintenance PROVE FallbackAnnounced'
  BY <1>3 DEF TakeMaintenance, Goto, FallbackAnnounced
<1>4. ASSUME LoadHit PROVE FallbackAnnounced'
  BY <1>4 DEF LoadHit, Loaded, Return, FallbackAnnounced
<1>5. ASSUME LoadMiss PROVE FallbackAnnounced'
  BY <1>5 DEF LoadMiss, Goto, FallbackAnnounced
<1>6. ASSUME Fetch PROVE FallbackAnnounced'
  BY <1>6 DEF Fetch, Goto, FallbackAnnounced
<1>7. ASSUME FetchFails PROVE FallbackAnnounced'
  BY <1>7 DEF FetchFails, Return, FallbackAnnounced, Failed, SchemaFail
<1>8. ASSUME KeepEntry PROVE FallbackAnnounced'
  BY <1>8 DEF KeepEntry, FallbackAnnounced
<1>9. ASSUME SkipEntry PROVE FallbackAnnounced'
  BY <1>9 DEF SkipEntry, FallbackAnnounced
<1>10. ASSUME Verify PROVE FallbackAnnounced'
  BY <1>10 DEF Verify, FallbackAnnounced
<1>11. ASSUME DownloadFails PROVE FallbackAnnounced'
  BY <1>11 DEF DownloadFails, Return, FallbackAnnounced, Failed, SchemaFail
<1>12. ASSUME Decode PROVE FallbackAnnounced'
  BY <1>12 DEF Decode, Goto, FallbackAnnounced
<1>13. ASSUME DecodeFails PROVE FallbackAnnounced'
  BY <1>13 DEF DecodeFails, Return, FallbackAnnounced, Failed, SchemaFail
<1>14. ASSUME DecodeUnsupported PROVE FallbackAnnounced'
  BY <1>14 DEF DecodeUnsupported, Return, FallbackAnnounced, Failed, SchemaFail
<1>15. ASSUME Put PROVE FallbackAnnounced'
  BY <1>15 DEF Put, Loaded, Return, FallbackAnnounced
<1>16. ASSUME Activate PROVE FallbackAnnounced'
  BY <1>16 DEF Activate, Return, Ready, FallbackAnnounced, Failed
<1>17. ASSUME Fallback PROVE FallbackAnnounced'
  <2>1. active \in Versions /\ disk[active] \in Packages
    BY <1>17, HitPackage DEF Fallback, CacheHit, Typed, TypeOK
  <2>2. /\ pending \in Warnings
        /\ pending.registry = ver
        /\ \/ pending.code = "registry_behind" /\ pending.current = seen /\ seen # NoVersion
           \/ /\ pending.code = "schema_update_skipped"
              /\ pending.schema # Supported
              /\ pending.current = NoVersion
    BY <1>17 DEF Fallback, Ready
  <2> DEFINE warning == WithCurrent(pending, active)
  <2>3. /\ warning.registry = ver
        /\ \/ warning.code = "registry_behind" /\ warning.current = seen
           \/ /\ warning.code = "schema_update_skipped"
              /\ warning.schema # Supported
              /\ warning.current = active
    BY <2>2 DEF WithCurrent, Warnings
  <2>4. warning \in result'.warnings /\ result'.manifest = disk[active].manifest
    BY <1>17, <2>1, SnapshotType DEF Fallback, Return, Snapshot
  <2>5. disk[active].manifest.version = active
    BY <1>17 DEF Fallback, CacheHit, Accepts
  <2>6. ver' = ver /\ seen' = seen
    BY <1>17 DEF Fallback, Return
  <2> HIDE DEF warning
  <2>7. QED  BY <2>3, <2>4, <2>5, <2>6 DEF FallbackAnnounced
<1>18. ASSUME FallbackFails PROVE FallbackAnnounced'
  BY <1>18 DEF FallbackFails, Return, FallbackAnnounced, Failed, SchemaFail
<1>19. ASSUME NEW v \in Versions, OtherStores(v) PROVE FallbackAnnounced'
  BY <1>19 DEF OtherStores, Undisturbed, FallbackAnnounced
<1>20. ASSUME NEW v \in Versions, OtherActivates(v) PROVE FallbackAnnounced'
  BY <1>20 DEF OtherActivates, Undisturbed, FallbackAnnounced
<1>21. ASSUME NEW v \in Versions, Damage(v) PROVE FallbackAnnounced'
  BY <1>21 DEF Damage, Undisturbed, FallbackAnnounced
<1>22. CASE UNCHANGED vars
  BY <1>22 DEF vars, FallbackAnnounced
<1>23. QED
  BY <1>1, <1>2, <1>3, <1>4, <1>5, <1>6, <1>7, <1>8, <1>9, <1>10, <1>11, <1>12,
       <1>13, <1>14, <1>15, <1>16, <1>17, <1>18, <1>19, <1>20, <1>21, <1>22
       DEF Next, Own
-----------------------------------------------------------------------------
\* The numeric identifiers of the versions have no leading zeros.
Comparable == \A v, w \in Versions \cup {Embedded} : Proper(v, w)

DriftCodes == {"schema_data_outdated", "schema_sdk_outdated", "schema_mismatch"}

\* What WarningTellsDrift says of a manifest and the warnings that go with it.
Told(m, warnings) ==
    LET drift == {w.code : w \in warnings} \cap DriftCodes
        known == m.schema = Supported /\ Parses(m.version)
        older == m.schema < Supported \/ (known /\ Precedes(m.version, Embedded))
        newer == m.schema > Supported \/ (known /\ Precedes(Embedded, m.version))
    IN  IF m.schema = Supported /\ m.lists["schema"] = EmbeddedSchema THEN drift = {}
        ELSE Fits(m.version) \/ ~Parses(m.version) =>
                 drift = {IF older THEN "schema_data_outdated"
                          ELSE IF newer THEN "schema_sdk_outdated" ELSE "schema_mismatch"}

LEMMA ToldResult ==
    WarningTellsDrift <=> (result.kind = "snapshot" => Told(result.manifest, result.warnings))
BY DEF WarningTellsDrift, Told, DriftCodes

\* comparePackageVersions and the precedence of semantic versions.
LEMMA CompareBoth ==
    ASSUME Comparable, NEW v \in Versions, NEW w \in Versions \cup {Embedded}, Fits(v), Fits(w)
    PROVE  /\ Compare(v, w) \in {-1, 0, 1}
           /\ Compare(v, w) = -1 <=> Precedes(v, w)
           /\ Compare(v, w) = 1 <=> Precedes(w, v)
<1>1. /\ v \in AllVersions /\ w \in AllVersions
      /\ Proper(v, w) /\ Proper(w, v)
  BY UpdateAssumption DEF Comparable
<1>2. /\ Compare(v, w) \in {-1, 0, 1}
      /\ Compare(v, w) + Compare(w, v) = 0
      /\ Compare(w, v) \in {-1, 0, 1}
  BY <1>1, CompareAntisymmetric
<1>3. /\ Compare(v, w) = -1 <=> Precedes(v, w)
      /\ Compare(w, v) = -1 <=> Precedes(w, v)
  BY <1>1, CompareIsPrecedence
<1>4. QED  BY <1>2, <1>3

\* schemaWarnings finds who is the older one.
LEMMA ToldBySchema ==
    ASSUME Comparable, NEW m \in Manifests
    PROVE  Told(m, SchemaWarnings(m))
<1>1. m.version \in Versions /\ m.schema \in Nat /\ Supported \in Nat
  BY UpdateAssumption DEF Manifests
<1>2. CASE m.schema = Supported /\ m.lists["schema"] = EmbeddedSchema
  BY <1>2 DEF Told, SchemaWarnings
<1>3. CASE ~(m.schema = Supported /\ m.lists["schema"] = EmbeddedSchema)
  <2> DEFINE known == m.schema = Supported /\ Parses(m.version)
  <2>1. SUFFICES ASSUME Fits(m.version) \/ ~Parses(m.version)
                 PROVE  {w.code : w \in SchemaWarnings(m)} \cap DriftCodes =
                            {IF m.schema < Supported \/ (known /\ Precedes(m.version, Embedded))
                             THEN "schema_data_outdated"
                             ELSE IF \/ m.schema > Supported
                                     \/ known /\ Precedes(Embedded, m.version)
                             THEN "schema_sdk_outdated" ELSE "schema_mismatch"}
    BY <1>3 DEF Told
  <2>2. {w.code : w \in SchemaWarnings(m)} = {Drift(m)}
    <3> DEFINE told == [code |-> Drift(m), data |-> m.version, schema |-> m.schema,
                        current |-> NoVersion, registry |-> NoVersion]
    <3>1. SchemaWarnings(m) = {told}
      BY <1>3 DEF SchemaWarnings
    <3>2. told.code = Drift(m)
      OBVIOUS
    <3>3. QED  BY <3>1, <3>2
  <2>3. Drift(m) \in DriftCodes
    BY SchemaWarningsType DEF DriftCodes
  <2>4. /\ Compare(m.version, Embedded) \in {-1, 0, 1}
        /\ Compare(m.version, Embedded) = -1
               <=> Parses(m.version) /\ Precedes(m.version, Embedded)
        /\ Compare(m.version, Embedded) = 1
               <=> Parses(m.version) /\ Precedes(Embedded, m.version)
    <3>1. CASE Parses(m.version)
      BY <1>1, <2>1, <3>1, CompareBoth, UpdateAssumption
    <3>2. CASE ~Parses(m.version)
      BY <3>2 DEF Compare
    <3>3. QED  BY <3>1, <3>2
  <2>5. Drift(m) = IF m.schema < Supported \/ (known /\ Precedes(m.version, Embedded))
                   THEN "schema_data_outdated"
                   ELSE IF m.schema > Supported \/ (known /\ Precedes(Embedded, m.version))
                   THEN "schema_sdk_outdated" ELSE "schema_mismatch"
    <3>1. CASE m.schema < Supported
      BY <3>1 DEF Drift
    <3>2. CASE m.schema > Supported
      BY <1>1, <3>2 DEF Drift
    <3>3. CASE m.schema = Supported
      BY <1>1, <2>4, <3>3 DEF Drift
    <3>4. QED  BY <1>1, <3>1, <3>2, <3>3
  <2>6. QED  BY <2>2, <2>3, <2>5
<1>4. QED  BY <1>2, <1>3

\* A snapshot gets its warnings with its package, and a fallback adds one of
\* another kind.
LEMMA DriftStep ==
    ASSUME Comparable, Typed, Ready, WarningTellsDrift, [Next]_vars
    PROVE  WarningTellsDrift'
<1> USE UpdateAssumption DEF request, download, cache
<1>1. ASSUME ResolveLatest PROVE WarningTellsDrift'
  BY <1>1 DEF ResolveLatest, WarningTellsDrift
<1>2. ASSUME CompareLatest PROVE WarningTellsDrift'
  BY <1>2 DEF CompareLatest, WarningTellsDrift
<1>3. ASSUME TakeMaintenance PROVE WarningTellsDrift'
  BY <1>3 DEF TakeMaintenance, Goto, WarningTellsDrift
<1>4. ASSUME LoadHit PROVE WarningTellsDrift'
  <2>1. disk[ver] \in Packages /\ disk[ver].manifest \in Manifests
    BY <1>4, HitPackage, RealPackage DEF LoadHit, CacheHit, Typed
  <2>2. result' = Snapshot(disk[ver])
    BY <1>4 DEF LoadHit, Loaded, Return
  <2>3. Told(result.manifest, result.warnings)'
    BY <2>1, <2>2, SnapshotType, ToldBySchema
  <2>4. QED  BY <2>3, ToldResult, PTL
<1>5. ASSUME LoadMiss PROVE WarningTellsDrift'
  BY <1>5 DEF LoadMiss, Goto, WarningTellsDrift
<1>6. ASSUME Fetch PROVE WarningTellsDrift'
  BY <1>6 DEF Fetch, Goto, WarningTellsDrift
<1>7. ASSUME FetchFails PROVE WarningTellsDrift'
  BY <1>7 DEF FetchFails, Return, WarningTellsDrift, Failed, SchemaFail
<1>8. ASSUME KeepEntry PROVE WarningTellsDrift'
  BY <1>8 DEF KeepEntry, WarningTellsDrift
<1>9. ASSUME SkipEntry PROVE WarningTellsDrift'
  BY <1>9 DEF SkipEntry, WarningTellsDrift
<1>10. ASSUME Verify PROVE WarningTellsDrift'
  BY <1>10 DEF Verify, WarningTellsDrift
<1>11. ASSUME DownloadFails PROVE WarningTellsDrift'
  BY <1>11 DEF DownloadFails, Return, WarningTellsDrift, Failed, SchemaFail
<1>12. ASSUME Decode PROVE WarningTellsDrift'
  BY <1>12 DEF Decode, Goto, WarningTellsDrift
<1>13. ASSUME DecodeFails PROVE WarningTellsDrift'
  BY <1>13 DEF DecodeFails, Return, WarningTellsDrift, Failed, SchemaFail
<1>14. ASSUME DecodeUnsupported PROVE WarningTellsDrift'
  BY <1>14 DEF DecodeUnsupported, Return, WarningTellsDrift, Failed, SchemaFail
<1>15. ASSUME Put PROVE WarningTellsDrift'
  <2>1. package \in Packages /\ package.manifest \in Manifests
    BY <1>15, RealPackage DEF Put, Ready
  <2>2. result' = Snapshot(package)
    BY <1>15 DEF Put, Loaded, Return
  <2>3. Told(result.manifest, result.warnings)'
    BY <2>1, <2>2, SnapshotType, ToldBySchema
  <2>4. QED  BY <2>3, ToldResult, PTL
<1>16. ASSUME Activate PROVE WarningTellsDrift'
  BY <1>16 DEF Activate, Return, WarningTellsDrift, Failed, SchemaFail
<1>17. ASSUME Fallback PROVE WarningTellsDrift'
  <2>1. /\ active \in Versions
        /\ disk[active] \in Packages
        /\ disk[active].manifest \in Manifests
    BY <1>17, HitPackage, RealPackage DEF Fallback, CacheHit, Typed, TypeOK
  <2>2. WithCurrent(pending, active).code \notin DriftCodes
    BY <1>17 DEF Fallback, Ready, WithCurrent, Warnings, DriftCodes
  <2>3. /\ result'.manifest = disk[active].manifest
        /\ result'.warnings = SchemaWarnings(disk[active].manifest)
                                 \cup {WithCurrent(pending, active)}
    BY <1>17 DEF Fallback, Return, Snapshot
  <2>4. {w.code : w \in result'.warnings} \cap DriftCodes
            = {w.code : w \in SchemaWarnings(disk[active].manifest)} \cap DriftCodes
    BY <2>2, <2>3
  <2>5. Told(disk[active].manifest, SchemaWarnings(disk[active].manifest))
    BY <2>1, ToldBySchema
  <2>6. Told(result.manifest, result.warnings)'
    BY <2>3, <2>4, <2>5 DEF Told
  <2>7. QED  BY <2>6, ToldResult, PTL
<1>18. ASSUME FallbackFails PROVE WarningTellsDrift'
  BY <1>18 DEF FallbackFails, Return, WarningTellsDrift, Failed, SchemaFail
<1>19. ASSUME NEW v \in Versions, OtherStores(v) PROVE WarningTellsDrift'
  BY <1>19 DEF OtherStores, Undisturbed, WarningTellsDrift
<1>20. ASSUME NEW v \in Versions, OtherActivates(v) PROVE WarningTellsDrift'
  BY <1>20 DEF OtherActivates, Undisturbed, WarningTellsDrift
<1>21. ASSUME NEW v \in Versions, Damage(v) PROVE WarningTellsDrift'
  BY <1>21 DEF Damage, Undisturbed, WarningTellsDrift
<1>22. CASE UNCHANGED vars
  BY <1>22 DEF vars, WarningTellsDrift
<1>23. QED
  BY <1>1, <1>2, <1>3, <1>4, <1>5, <1>6, <1>7, <1>8, <1>9, <1>10, <1>11, <1>12,
       <1>13, <1>14, <1>15, <1>16, <1>17, <1>18, <1>19, <1>20, <1>21, <1>22
       DEF Next, Own

-----------------------------------------------------------------------------
\* The inductive invariant.
IInv == Typed /\ Ready /\ FallbackAnnounced

\* An operation begins with nothing but its request.
LEMMA InitInv == Init => IInv /\ WarningTellsDrift
<1> SUFFICES ASSUME Init PROVE IInv /\ WarningTellsDrift
  OBVIOUS
<1> USE UpdateAssumption DEF Init
<1>1. Typed
  <2>1. DOMAIN files = {} /\ total \in 0..MaxTotal
    OBVIOUS
  <2>2. ver \in Versions \cup {NoVersion}
    OBVIOUS
  <2>3. disk \in [Versions -> Packages \cup {NoPackage}]
    OBVIOUS
  <2>4. pc \in {"resolve", "start"} /\ (pc = "start" => ver \in Versions)
    OBVIOUS
  <2>5. QED  BY <2>1, <2>2, <2>3, <2>4 DEF Typed, TypeOK
<1>2. Ready
  BY DEF Ready, Running
<1>3. FallbackAnnounced /\ WarningTellsDrift
  BY DEF FallbackAnnounced, WarningTellsDrift, Running
<1>4. QED  BY <1>1, <1>2, <1>3 DEF IInv

LEMMA StepInv == IInv /\ [Next]_vars => IInv'
BY TypeStep, ReadyStep, AnnounceStep DEF IInv

\* Every reachable state of an operation satisfies IInv.
THEOREM Inductive == Spec => []IInv
BY InitInv, StepInv, PTL DEF Spec

\* The variables keep their types.
THEOREM TypeCorrect == Spec => []TypeOK
<1>1. IInv => TypeOK
  BY DEF IInv, Typed
<1>2. QED  BY <1>1, Inductive, PTL

\* LoadLatest never returns another version than the registry's in silence, and
\* the warning names the versions it is about.
THEOREM Announced == Spec => []FallbackAnnounced
<1>1. IInv => FallbackAnnounced
  BY DEF IInv
<1>2. QED  BY <1>1, Inductive, PTL

\* schemaWarnings tells the older of data and SDK, by the order of semantic
\* versions, as long as no number overflows an int.
THEOREM DriftTold == ASSUME Comparable PROVE Spec => []WarningTellsDrift
<1>1. IInv /\ WarningTellsDrift /\ [Next]_vars => WarningTellsDrift'
  BY DriftStep DEF IInv
<1>2. QED  BY <1>1, InitInv, Inductive, PTL DEF Spec

-----------------------------------------------------------------------------
(* What the steps do to the cache. *)

\* Accepted by Get or by Download: intact.
LEMMA IntactIfAccepted ==
    ASSUME Typed, NEW v \in Versions, Accepts(v, disk[v])
    PROVE  Intact(v)
<1>1. disk[v] \in Packages /\ disk[v] # NoPackage /\ disk[v].manifest.version = v
  BY HitPackage DEF Accepts
<1>2. /\ disk[v].texts \in [DataFiles -> Texts]
      /\ disk[v].manifest.lists \in [DataFiles -> Texts \cup {Unlisted}]
  BY <1>1, RealPackage DEF Manifests
<1>3. \A f \in DataFiles : disk[v].texts[f] = disk[v].manifest.lists[f]
  BY DEF Accepts, VerifyFiles
<1>4. disk[v].texts = disk[v].manifest.lists
  BY <1>2, <1>3
<1>5. QED  BY <1>1, <1>4 DEF Intact

\* A package the operation has downloaded is stored only if it can be loaded
\* again, and under the version that was asked for.
THEOREM StoredLoadable == Spec => StoresLoadable
<1>1. ASSUME IInv, [Next]_vars,
             NEW v \in Versions, pc = "store", disk'[v] # disk[v]
      PROVE  v = ver /\ Readable(v)'
  <2>1. Put
    BY <1>1 DEF Next, Own, vars, cache, ResolveLatest, CompareLatest, TakeMaintenance, LoadHit,
           LoadMiss, Fetch, FetchFails, KeepEntry, SkipEntry, Verify, DownloadFails, Decode,
           DecodeFails, DecodeUnsupported, Activate, Fallback, FallbackFails, OtherStores,
           OtherActivates, Damage, Undisturbed
  <2>2. /\ package \in Packages
        /\ package.manifest.version = ver
        /\ ver \in Versions
        /\ VerifyFiles(package.manifest, package.texts)
        /\ Decodes(package)
    BY <1>1 DEF IInv, Ready, Typed
  <2>3. disk' = [disk EXCEPT ![ver] = package]
    BY <1>1, <2>1, <2>2 DEF Put
  <2>4. v = ver /\ disk'[v] = package
    BY <1>1, <2>2, <2>3 DEF IInv, Typed, TypeOK
  <2>5. Typed'
    BY <1>1, TypeStep DEF IInv
  <2>6. Accepts(v, disk[v])'
    BY <2>2, <2>4, RealPackage DEF Accepts
  <2>7. Intact(v)'
    <3>1. disk'[v] # NoPackage /\ disk'[v].manifest.version = v
      BY <2>2, <2>4, RealPackage
    <3>2. /\ disk'[v].texts \in [DataFiles -> Texts]
          /\ disk'[v].manifest.lists \in [DataFiles -> Texts \cup {Unlisted}]
      BY <2>2, <2>4, RealPackage DEF Manifests
    <3>3. \A f \in DataFiles : disk'[v].texts[f] = disk'[v].manifest.lists[f]
      BY <2>2, <2>4 DEF VerifyFiles
    <3>4. disk'[v].texts = disk'[v].manifest.lists
      BY <3>2, <3>3
    <3>5. QED  BY <3>1, <3>4 DEF Intact
  <2>8. disk'[v].manifest.schema >= Supported /\ disk'[v].texts["catalog"] \in Catalogs
    <3>1. package.manifest.schema \in Nat
      BY <2>2, RealPackage, UpdateAssumption
    <3>2. package.manifest.schema >= Supported /\ package.texts["catalog"] \in Catalogs
      BY <2>2, <3>1, UpdateAssumption DEF Decodes, TooOld
    <3>3. QED  BY <2>4, <3>2
  <2>9. QED  BY <2>4, <2>7, <2>8 DEF Readable
<1>2. IInv /\ [Next]_vars =>
          [\A v \in Versions :
              pc = "store" /\ disk'[v] # disk[v] => v = ver /\ Readable(v)']_vars
  BY <1>1
<1>3. QED  BY <1>2, Inductive, PTL DEF Spec, StoresLoadable

\* Nobody else acts between the store and the activation, which therefore
\* succeeds, with an intact package of the version asked for.
THEOREM ActivatedIntact == Spec => ActivatesIntact
<1>1. ASSUME IInv, [Next]_vars, pc = "activate", ~UNCHANGED vars
      PROVE  active' = ver /\ Intact(ver) /\ result' = result
  <2>1. Activate
    BY <1>1 DEF Next, Own, ResolveLatest, CompareLatest, TakeMaintenance, LoadHit, LoadMiss, Put,
           Fetch, FetchFails, KeepEntry, SkipEntry, Verify, DownloadFails, Decode, DecodeFails,
           DecodeUnsupported, Fallback, FallbackFails, OtherStores, OtherActivates, Damage,
           Undisturbed
  <2>2. ver \in Versions /\ Accepts(ver, disk[ver]) /\ Typed
    BY <1>1 DEF IInv, Ready, Typed
  <2>3. QED  BY <2>1, <2>2, IntactIfAccepted DEF Activate, Return
<1>2. IInv /\ [Next]_vars =>
          [pc = "activate" => active' = ver /\ Intact(ver) /\ result' = result]_vars
  BY <1>1
<1>3. QED  BY <1>2, Inductive, PTL DEF Spec, ActivatesIntact

\* LoadLatest activates nothing older than what it has seen active.
THEOREM NoDowngrade == ASSUME Comparable PROVE Spec => NeverOlder
<1>1. ASSUME IInv, [Next]_vars, op = "loadLatest", pc = "activate",
             seen # NoVersion, Fits(seen), Fits(ver)
      PROVE  ~Precedes(ver, seen)
  <2>1. ver \in Versions /\ seen \in Versions
    BY <1>1 DEF IInv, Typed, TypeOK
  <2>2. ~(Compare(ver, seen) < 0)
    BY <1>1 DEF IInv, Ready
  <2>3. QED  BY <1>1, <2>1, <2>2, CompareBoth
<1>2. IInv /\ [Next]_vars =>
          [/\ op = "loadLatest"
           /\ pc = "activate"
           /\ active' # active
           /\ seen # NoVersion
           /\ Fits(seen) /\ Fits(ver)
           => ~Precedes(ver, seen)]_vars
  BY <1>1
<1>3. QED  BY <1>2, Inductive, PTL DEF Spec, NeverOlder

-----------------------------------------------------------------------------
(* verifyIntegrity: what the loop selects.                                   *)

\* One round of the loop after the other, for the first n digests.
Rounds(tokens, f, n) ==
    [i \in 0..n |->
        IF i = 0 THEN NoToken
        ELSE IF Stronger(tokens[i], f[i - 1]) THEN tokens[i]
        ELSE f[i - 1]]

\* There is a function that goes on as the loop does, for any number of digests: a
\* least number for which there is none would be neither 0 nor one more than another.
LEMMA RoundsExist ==
    ASSUME NEW tokens, NEW n \in Nat
    PROVE  \E f : f = Rounds(tokens, f, n)
<1> DEFINE T == {m \in Nat : ~ \E f : f = Rounds(tokens, f, m)}
<1>1. SUFFICES ASSUME T # {} PROVE FALSE
  OBVIOUS
<1>2. PICK m \in T : \A k \in T : m <= k
  BY <1>1, LeastElement
<1>3. m \in Nat /\ ~ \E f : f = Rounds(tokens, f, m)
  OBVIOUS
<1> HIDE DEF T
<1>4. m # 0
  <2> DEFINE f == [i \in 0..0 |-> NoToken]
  <2>1. f = Rounds(tokens, f, 0)
    BY DEF Rounds
  <2>2. QED  BY <1>3, <2>1
<1>5. PICK f : f = Rounds(tokens, f, m - 1)
  <2>1. m - 1 \in Nat /\ m - 1 \notin T
    BY <1>2, <1>3, <1>4
  <2>2. QED  BY <2>1 DEF T
<1> DEFINE g == [i \in 0..m |->
                   IF i # m THEN f[i]
                   ELSE IF Stronger(tokens[m], f[m - 1]) THEN tokens[m]
                   ELSE f[m - 1]]
<1>6. ASSUME NEW i \in 0..m
      PROVE  g[i] = IF i = 0 THEN NoToken
                    ELSE IF Stronger(tokens[i], g[i - 1]) THEN tokens[i]
                    ELSE g[i - 1]
  <2>1. CASE i = m
    <3>1. g[m - 1] = f[m - 1]
      BY <1>3, <1>4
    <3>2. QED  BY <1>3, <1>4, <2>1, <3>1
  <2>2. CASE i # m
    <3>1. i \in 0..(m - 1) /\ g[i] = f[i]
      BY <1>3, <2>2
    <3>2. i # 0 => i - 1 \in 0..m /\ i - 1 # m /\ g[i - 1] = f[i - 1]
      BY <1>3, <3>1
    <3>3. f[i] = IF i = 0 THEN NoToken
                 ELSE IF Stronger(tokens[i], f[i - 1]) THEN tokens[i]
                 ELSE f[i - 1]
      BY <1>5, <3>1 DEF Rounds
    <3>4. QED  BY <3>1, <3>2, <3>3
  <2>3. QED  BY <2>1, <2>2
<1>7. g = Rounds(tokens, g, m)
  BY <1>6 DEF Rounds
<1>8. QED  BY <1>3, <1>7

\* Selections is such a function.
LEMMA SelectionRounds ==
    ASSUME NEW tokens, Len(tokens) \in Nat
    PROVE  Selections(tokens) = Rounds(tokens, Selections(tokens), Len(tokens))
<1>1. Selections(tokens) = CHOOSE f : f = Rounds(tokens, f, Len(tokens))
  BY DEF Selections, Rounds
<1>2. QED  BY <1>1, RoundsExist

\* A list of digests is as long as its domain says.
LEMMA IntegrityLength ==
    ASSUME NEW tokens \in Integrities
    PROVE  /\ Len(tokens) \in Nat
           /\ DOMAIN tokens = 1..Len(tokens)
           /\ \A j \in 1..Len(tokens) : tokens[j] \in Tokens
<1>1. PICK k \in 0..MaxTokens : tokens \in [1..k -> Tokens]
  BY DEF Integrities
<1>2. k \in Nat
  BY UpdateAssumption
<1>3. tokens \in Seq(Tokens) /\ Len(tokens) = k
  BY <1>1, <1>2
<1>4. QED  BY <1>1, <1>2, <1>3

\* The token at place i is the first of the strongest among the first n.
Leads(tokens, i, n) ==
    /\ i \in 1..n
    /\ tokens[i].algorithm # "none"
    /\ \A j \in 1..n :
          IF j < i
          THEN Priority[tokens[j].algorithm] < Priority[tokens[i].algorithm]
          ELSE Priority[tokens[j].algorithm] <= Priority[tokens[i].algorithm]

Strengths == DOMAIN Priority

\* The kinds and their strengths.
LEMMA Priorities ==
    /\ \A a \in Strengths : Priority[a] \in 0..3
    /\ \A a \in Strengths : Priority[a] = 0 <=> a = "none"
    /\ "none" \in Strengths
BY DEF Strengths, Priority

\* The invariant of the loop: what is selected leads the digests read so far, and
\* nothing is selected as long as none is supported.
LEMMA SelectionLeads ==
    ASSUME NEW tokens \in Integrities, NEW n \in 0..Len(tokens)
    PROVE  \/ /\ Selections(tokens)[n] = NoToken
              /\ \A j \in 1..n : tokens[j].algorithm = "none"
           \/ \E i \in 1..n : Leads(tokens, i, n) /\ Selections(tokens)[n] = tokens[i]
<1> DEFINE best == Selections(tokens)
           Right(m) ==
               \/ /\ best[m] = NoToken
                  /\ \A j \in 1..m : tokens[j].algorithm = "none"
               \/ \E i \in 1..m : Leads(tokens, i, m) /\ best[m] = tokens[i]
           T == {m \in 0..Len(tokens) : ~Right(m)}
<1>0. /\ Len(tokens) \in Nat
      /\ \A j \in 1..Len(tokens) : tokens[j].algorithm \in Strengths
  BY IntegrityLength DEF Tokens, Strengths
<1>1. SUFFICES ASSUME T # {} PROVE FALSE
  OBVIOUS
<1>2. PICK m \in T : \A k \in T : m <= k
  <2>1. T \in SUBSET Nat
    BY <1>0
  <2> HIDE DEF T
  <2>2. QED  BY <1>1, <2>1, LeastElement
<1>3. m \in 0..Len(tokens) /\ ~Right(m)
  OBVIOUS
<1>4. ASSUME NEW k \in 0..Len(tokens)
      PROVE  best[k] = IF k = 0 THEN NoToken
                       ELSE IF Stronger(tokens[k], best[k - 1]) THEN tokens[k]
                       ELSE best[k - 1]
  <2> HIDE DEF best
  <2>1. best = Rounds(tokens, best, Len(tokens))
    BY <1>0, SelectionRounds DEF best
  <2> QED  BY <2>1 DEF Rounds
<1> HIDE DEF best
<1>5. m # 0
  <2>1. best[0] = NoToken
    BY <1>0, <1>4
  <2>2. QED  BY <1>3, <2>1
<1>6. Right(m - 1)
  <2>1. m - 1 \in 0..Len(tokens) /\ ~(m <= m - 1)
    BY <1>0, <1>3, <1>5
  <2>2. m - 1 \notin T
    BY <1>2, <2>1
  <2>3. QED  BY <2>1, <2>2
<1>7. m \in Nat \ {0} /\ \A j \in 1..m : tokens[j].algorithm \in Strengths
  BY <1>0, <1>3, <1>5
<1>8. best[m] = IF Stronger(tokens[m], best[m - 1]) THEN tokens[m] ELSE best[m - 1]
  BY <1>3, <1>4, <1>5
<1>9. CASE best[m - 1] = NoToken /\ \A j \in 1..(m - 1) : tokens[j].algorithm = "none"
  <2>1. Stronger(tokens[m], NoToken) <=> tokens[m].algorithm # "none"
    BY <1>7, Priorities DEF Stronger, NoToken
  <2>2. CASE tokens[m].algorithm = "none"
    <3>1. best[m] = NoToken
      BY <1>8, <1>9, <2>1, <2>2
    <3>2. \A j \in 1..m : tokens[j].algorithm = "none"
      BY <1>7, <1>9, <2>2
    <3>3. QED  BY <1>3, <3>1, <3>2
  <2>3. CASE tokens[m].algorithm # "none"
    <3>1. best[m] = tokens[m]
      BY <1>8, <1>9, <2>1, <2>3
    <3>2. ASSUME NEW j \in 1..m, j < m
          PROVE  Priority[tokens[j].algorithm] < Priority[tokens[m].algorithm]
      <4>1. tokens[j].algorithm = "none"
        BY <1>7, <1>9, <3>2
      <4>2. QED  BY <1>7, <2>3, <4>1, Priorities
    <3>3. Leads(tokens, m, m)
      BY <1>7, <2>3, <3>2, Priorities DEF Leads
    <3>4. QED  BY <1>3, <1>7, <3>1, <3>3
  <2>4. QED  BY <2>2, <2>3
<1>10. ASSUME NEW i \in 1..(m - 1), Leads(tokens, i, m - 1), best[m - 1] = tokens[i]
       PROVE  FALSE
  <2> DEFINE p == Priority[tokens[m].algorithm]
             q == Priority[tokens[i].algorithm]
  <2>1. i \in 1..m /\ i < m /\ i \in Nat
    BY <1>7, <1>10
  <2>2. p \in 0..3 /\ q \in 0..3 /\ q # 0
    BY <1>7, <1>10, <2>1, Priorities DEF Leads
  <2>3. CASE p > q
    <3>1. best[m] = tokens[m]
      BY <1>8, <1>10, <2>3 DEF Stronger
    <3>2. tokens[m].algorithm # "none"
      BY <1>7, <2>2, <2>3, Priorities
    <3>3. ASSUME NEW j \in 1..m, j < m PROVE Priority[tokens[j].algorithm] < p
      <4>1. j \in 1..(m - 1) /\ j \in 1..m
        BY <1>7, <3>3
      <4>2. Priority[tokens[j].algorithm] \in 0..3
        BY <1>7, Priorities
      <4>3. Priority[tokens[j].algorithm] <= q
        BY <1>10, <2>2, <4>1, <4>2 DEF Leads
      <4>4. QED  BY <2>2, <2>3, <4>2, <4>3
    <3>4. Leads(tokens, m, m)
      BY <1>7, <3>2, <3>3, <2>2 DEF Leads
    <3>5. QED  BY <1>3, <1>7, <3>1, <3>4
  <2>4. CASE ~(p > q)
    <3>1. best[m] = tokens[i]
      BY <1>8, <1>10, <2>4 DEF Stronger
    <3>2. ASSUME NEW j \in 1..m
          PROVE  IF j < i THEN Priority[tokens[j].algorithm] < q
                 ELSE Priority[tokens[j].algorithm] <= q
      <4>1. CASE j = m
        BY <2>1, <2>2, <2>4, <4>1
      <4>2. CASE j # m
        <5>1. j \in 1..(m - 1)
          BY <1>7, <4>2
        <5>2. QED  BY <1>10, <5>1 DEF Leads
      <4>3. QED  BY <4>1, <4>2
    <3>3. Leads(tokens, i, m)
      BY <1>10, <2>1, <3>2 DEF Leads
    <3>4. QED  BY <1>3, <2>1, <3>1, <3>3
  <2>5. QED  BY <2>3, <2>4
<1>11. QED  BY <1>6, <1>9, <1>10

\* At most one token leads.
LEMMA OneLeads ==
    ASSUME NEW tokens, NEW n \in Nat, NEW i, NEW k,
           \A j \in 1..n : tokens[j].algorithm \in Strengths,
           Leads(tokens, i, n), Leads(tokens, k, n)
    PROVE  i = k
<1>1. /\ i \in 1..n /\ k \in 1..n
      /\ Priority[tokens[i].algorithm] \in 0..3
      /\ Priority[tokens[k].algorithm] \in 0..3
  BY Priorities DEF Leads
<1>2. ~(i < k) /\ ~(k < i)
  BY <1>1 DEF Leads
<1>3. QED  BY <1>1, <1>2

\* verifyIntegrity lets the first of the strongest digests decide, in a list of any
\* length: an archive is accepted just if that one matches.
THEOREM IntegrityDecides == Spec => []StrongestDecides
<1>1. StrongestDecides
  <2> SUFFICES ASSUME NEW tokens \in Integrities
               PROVE  VerifyIntegrity(tokens) <=>
                          \E i \in DOMAIN tokens :
                              tokens[i].matches /\ Leads(tokens, i, Len(tokens))
    <3>1. \A tokens \in Integrities : DOMAIN tokens = 1..Len(tokens)
      BY IntegrityLength
    <3>2. QED  BY <3>1 DEF StrongestDecides, Leads
  <2> DEFINE n == Len(tokens)
  <2>1. /\ n \in Nat /\ DOMAIN tokens = 1..n
        /\ \A j \in 1..n : tokens[j].algorithm \in Strengths
    BY IntegrityLength DEF Tokens, Strengths
  <2> HIDE DEF n
  <2>2. CASE Selected(tokens) = NoToken /\ \A j \in 1..n : tokens[j].algorithm = "none"
    BY <2>1, <2>2 DEF VerifyIntegrity, NoToken, Leads
  <2>3. ASSUME NEW i \in 1..n, Leads(tokens, i, n), Selected(tokens) = tokens[i]
        PROVE  VerifyIntegrity(tokens) <=>
                   \E k \in DOMAIN tokens : tokens[k].matches /\ Leads(tokens, k, n)
    <3>1. \A k : Leads(tokens, k, n) => k = i
      BY <2>1, <2>3, OneLeads
    <3>2. tokens[i].algorithm # "none"
      BY <2>3 DEF Leads
    <3>3. QED  BY <2>1, <2>3, <3>1, <3>2 DEF VerifyIntegrity
  <2>4. \/ Selected(tokens) = NoToken /\ \A j \in 1..n : tokens[j].algorithm = "none"
        \/ \E i \in 1..n : Leads(tokens, i, n) /\ Selected(tokens) = tokens[i]
    BY <2>1, SelectionLeads DEF Selected, n
  <2>5. QED  BY <2>2, <2>3, <2>4 DEF n
<1>2. QED  BY <1>1, PTL
=============================================================================
