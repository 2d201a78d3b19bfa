--------------------------- MODULE PackageUpdate ----------------------------
(* One operation of one client, from the version it is asked for to the     *)
(* snapshot it returns: what the registry may send, what is verified, what  *)
(* this SDK can decode, what is stored and activated, and which warnings    *)
(* the snapshot carries (client_update.go, client_load.go, warning.go,      *)
(* cache_file.go, internal/artifact).  Locks, pruning and failures of the   *)
(* disk are in SharedCache; here they show only where they turn into        *)
(* another error, in the fallback of LoadLatest.                            *)
EXTENDS VersionOrder, FiniteSets

CONSTANTS
    Versions,       \* the versions of the instance
    NoVersion,      \* the empty version
    DataFiles,      \* the files a manifest lists, catalog.json and schema.json among them
    Texts,          \* the contents a file may have
    Catalogs,       \* the contents that decode to a catalog with both core maps
    Schemas,        \* schema versions
    Supported,      \* SupportedSchemaVersion, also that of the embedded schema
    Embedded,       \* the package version the SDK was generated from
    EmbeddedSchema, \* the embedded schema.json
    MaxTokens,      \* bound: digests in dist.integrity
    MaxTotal,       \* maxTotalFileBytes, in files of the usual size
    MaxStored       \* bound: packages in the cache when another process adds one

ASSUME UpdateAssumption ==
    /\ Versions \subseteq AllVersions
    /\ Embedded \in AllVersions /\ Fits(Embedded)
    /\ NoVersion \notin Versions
    /\ {"catalog", "schema"} \subseteq DataFiles
    /\ Catalogs \subseteq Texts
    /\ EmbeddedSchema \in Texts
    /\ "unlisted" \notin Texts
    /\ Schemas \subseteq Nat
    /\ Supported \in Nat
    /\ MaxTokens \in Nat
    /\ MaxTotal \in Nat
    /\ MaxStored \in Nat

VARIABLES
    op,        \* the operation
    pc,        \* the point it has reached
    ver,       \* the version it works on
    seen,      \* the active version LoadLatest compared with
    files,     \* the files extracted from the archive so far
    total,     \* the size of the entries read so far
    package,   \* the package downloaded and verified
    pending,   \* the warning of a fallback under way
    result,    \* the snapshot or the error
    disk,      \* versions/: the package of each version, or NoPackage
    active     \* the version current.json names

request  == <<op, ver, seen>>
download == <<files, total, package>>
cache    == <<disk, active>>
vars     == <<request, pc, download, pending, result, cache>>

-----------------------------------------------------------------------------
(* Packages. *)

Unlisted == "unlisted"
Unread   == "unread"

\* An entry of the manifest names a text by its digest and its size; one
\* whose digest and size disagree names none, and counts as Unlisted.
Manifests == [version : Versions, schema : Schemas,
              lists : [DataFiles -> Texts \cup {Unlisted}]]

Packages  == [manifest : Manifests, texts : [DataFiles -> Texts]]

NoPackage == [manifest |-> "none"]

\* VerifyFiles: each data file is listed, there, and has the listed digest.
VerifyFiles(manifest, texts) ==
    \A f \in DataFiles :
        /\ manifest.lists[f] # Unlisted
        /\ f \in DOMAIN texts
        /\ texts[f] = manifest.lists[f]

\* packageFromEntry, by which Get and Put judge a package.
Accepts(v, p) ==
    /\ p # NoPackage
    /\ p.manifest.version = v
    /\ VerifyFiles(p.manifest, p.texts)

-----------------------------------------------------------------------------
(* snapshotFromPackage and schemaWarnings. *)

TooOld(p) == p.manifest.schema < Supported

\* Mutant: an older schema is tried like a newer one.
DecodesAnyway(p) == p.texts["catalog"] \in Catalogs

Decodes(p) ==
    /\ ~TooOld(p)
    /\ p.texts["catalog"] \in Catalogs

\* ErrUnsupportedSchema, as opposed to a damaged package.
Unsupported(p) ==
    ~Decodes(p) /\ p.manifest.schema # Supported

\* Mutant: the package versions are compared the wrong way round.
DriftSwapped(manifest) ==
    LET order == Compare(Embedded, manifest.version)
    IN  IF manifest.schema < Supported THEN "schema_data_outdated"
        ELSE IF manifest.schema > Supported THEN "schema_sdk_outdated"
        ELSE IF order = 1 THEN "schema_sdk_outdated"
        ELSE IF order = -1 THEN "schema_data_outdated"
        ELSE "schema_mismatch"

\* Which of two different schemas is the older one.
Drift(manifest) ==
    LET order == Compare(manifest.version, Embedded)
    IN  IF manifest.schema < Supported THEN "schema_data_outdated"
        ELSE IF manifest.schema > Supported THEN "schema_sdk_outdated"
        ELSE IF order = 1 THEN "schema_sdk_outdated"
        ELSE IF order = -1 THEN "schema_data_outdated"
        ELSE "schema_mismatch"

SchemaWarnings(manifest) ==
    IF manifest.schema = Supported /\ manifest.lists["schema"] = EmbeddedSchema
    THEN {}
    ELSE {[code |-> Drift(manifest), data |-> manifest.version, schema |-> manifest.schema,
           current |-> NoVersion, registry |-> NoVersion]}

RegistryBehind(current, registry) ==
    [code |-> "registry_behind", data |-> NoVersion, schema |-> 0,
     current |-> current, registry |-> registry]

SchemaUpdateSkipped(manifest) ==
    [code |-> "schema_update_skipped", data |-> manifest.version, schema |-> manifest.schema,
     current |-> NoVersion, registry |-> manifest.version]

Codes == {"schema_data_outdated", "schema_sdk_outdated", "schema_mismatch",
          "registry_behind", "schema_update_skipped"}

Warnings == [code : Codes, data : Versions \cup {NoVersion}, schema : Schemas \cup {0},
             current : Versions \cup {NoVersion}, registry : Versions \cup {NoVersion}]

NoWarning == [code |-> "none"]

Snapshot(p) ==
    [kind |-> "snapshot", manifest |-> p.manifest,
     warnings |-> SchemaWarnings(p.manifest)]

Running    == [kind |-> "running"]
Failed     == [kind |-> "error"]
SchemaFail == [kind |-> "unsupported"]

-----------------------------------------------------------------------------
(* verifyIntegrity: dist.integrity is a list of digests; the first of the   *)
(* strongest kind decides.                                                  *)

Priority == [none |-> 0, sha256 |-> 1, sha384 |-> 2, sha512 |-> 3]

Tokens == [algorithm : DOMAIN Priority, matches : BOOLEAN]

Integrities == UNION {[1..n -> Tokens] : n \in 0..MaxTokens}

NoToken == [algorithm |-> "none", matches |-> FALSE]

\* Mutant: of two digests of one kind the later one counts.
StrongerOrSame(token, best) == Priority[token.algorithm] >= Priority[best.algorithm]

Stronger(token, best) == Priority[token.algorithm] > Priority[best.algorithm]

\* The digest selected after each round of the loop.
Selections(tokens) ==
    LET best[i \in 0..Len(tokens)] ==
            IF i = 0 THEN NoToken
            ELSE IF Stronger(tokens[i], best[i - 1]) THEN tokens[i]
            ELSE best[i - 1]
    IN  best

Selected(tokens) == Selections(tokens)[Len(tokens)]

VerifyIntegrity(tokens) ==
    /\ Selected(tokens).algorithm # "none"
    /\ Selected(tokens).matches

-----------------------------------------------------------------------------

Init ==
    /\ op \in {"loadLatest", "loadVersion", "switchVersion"}
    /\ ver \in IF op = "loadLatest" THEN {NoVersion} ELSE Versions
    /\ pc = IF op = "loadLatest" THEN "resolve" ELSE "start"
    /\ seen = NoVersion
    /\ files = [f \in {} |-> f]
    /\ total = 0
    /\ package = NoPackage
    /\ pending = NoWarning
    /\ result = Running
    /\ disk = [v \in Versions |-> NoPackage]
    /\ active = NoVersion

Return(outcome) ==
    /\ pc' = "done"
    /\ result' = outcome
    /\ UNCHANGED <<request, download, pending>>

Goto(point) ==
    /\ pc' = point
    /\ UNCHANGED <<request, download, pending, result, cache>>

-----------------------------------------------------------------------------
(* findLatestCheck and checkLatest.  The registry may name any version as   *)
(* the latest.                                                              *)

ResolveLatest ==
    /\ pc = "resolve"
    /\ ver' \in Versions
    /\ pc' = "compare"
    /\ UNCHANGED <<op, seen, download, pending, result, cache>>

CompareLatest ==
    /\ pc = "compare"
    /\ seen' = active
    /\ IF active # NoVersion /\ Compare(ver, active) < 0
       THEN pc' = "fallback" /\ pending' = RegistryBehind(active, ver)
       ELSE pc' = "start" /\ UNCHANGED pending
    /\ UNCHANGED <<op, ver, download, result, cache>>

-----------------------------------------------------------------------------
(* loadExactVersion, from the lock "maintenance" on. *)

TakeMaintenance == pc = "start" /\ Goto("load")

\* The snapshot is there: explicit loads return it, the others activate it.
Loaded(p) ==
    IF op = "loadVersion"
    THEN Return(Snapshot(p))
    ELSE /\ pc' = "activate"
         /\ result' = Snapshot(p)
         /\ UNCHANGED <<request, download, pending>>

CacheHit(v) == Accepts(v, disk[v]) /\ Decodes(disk[v])

LoadHit ==
    /\ pc = "load"
    /\ CacheHit(ver)
    /\ Loaded(disk[ver])
    /\ UNCHANGED cache

LoadMiss ==
    /\ pc = "load"
    /\ ~CacheHit(ver)
    /\ Goto("fetch")

\* The registry resolves the version and the archive has the digest it names.
Fetch ==
    /\ pc = "fetch"
    /\ \E tokens \in Integrities : VerifyIntegrity(tokens)
    /\ Goto("extract")

\* An answer that is missing, incomplete or about another version, a failed
\* or oversized transfer, or an archive without the digest it should have.
FetchFails ==
    /\ pc \in {"resolve", "fetch"}
    /\ Return(Failed)
    /\ UNCHANGED cache

-----------------------------------------------------------------------------
(* extractFiles and the rest of Download.  The archive is whatever is read. *)

KeepEntry ==
    /\ pc = "extract"
    /\ total < MaxTotal
    /\ \E f \in (DataFiles \cup {"manifest"}) \ DOMAIN files :
       \E text \in IF f = "manifest" THEN {Unread} ELSE Texts :
          files' = [g \in DOMAIN files \cup {f} |-> IF g = f THEN text ELSE files[g]]
    /\ total' = total + 1
    /\ UNCHANGED <<request, pc, package, pending, result, cache>>

\* Mutant: what is not kept is read without a limit.
SkipEntryUnlimited ==
    /\ pc = "extract"
    /\ total' = total + 1
    /\ UNCHANGED <<request, pc, files, package, pending, result, cache>>

\* A file that is not part of a package counts, but is not kept; an entry that
\* is not a regular file does not even count.
SkipEntry ==
    /\ pc = "extract"
    /\ total < MaxTotal
    /\ total' = total + 1
    /\ UNCHANGED <<request, pc, files, package, pending, result, cache>>

\* The end of the archive.  What manifest.json says is known only now.
Verify ==
    /\ pc = "extract"
    /\ "manifest" \in DOMAIN files
    /\ \E m \in Manifests :
          /\ m.version = ver
          /\ VerifyFiles(m, files)
          /\ package' = [manifest |-> m, texts |-> [f \in DataFiles |-> files[f]]]
    /\ files' = <<>>
    /\ total' = 0
    /\ pc' = "decode"
    /\ UNCHANGED <<request, pending, result, cache>>

\* A file that is there twice, an entry or an archive too large, no manifest or
\* one of another version, a file that is missing, not listed or not as listed.
DownloadFails ==
    /\ pc = "extract"
    /\ Return(Failed)
    /\ UNCHANGED cache

-----------------------------------------------------------------------------
(* downloadAndStore: decoding and Put. *)

Decode ==
    /\ pc = "decode"
    /\ Decodes(package)
    /\ Goto("store")

\* A damaged catalog of the supported schema.
DecodeFails ==
    /\ pc = "decode"
    /\ ~Decodes(package)
    /\ ~Unsupported(package)
    /\ Return(Failed)
    /\ UNCHANGED cache

\* LoadLatest keeps what it has, the explicit operations give up.
DecodeUnsupported ==
    /\ pc = "decode"
    /\ Unsupported(package)
    /\ IF op = "loadLatest"
       THEN /\ pc' = "fallback"
            /\ pending' = SchemaUpdateSkipped(package.manifest)
            /\ UNCHANGED <<request, download, result>>
       ELSE Return(SchemaFail)
    /\ UNCHANGED cache

\* Mutant: Put does not look at the package in place.
PutAnyway ==
    LET v == package.manifest.version
    IN  /\ pc = "store"
        /\ disk' = IF disk[v] = NoPackage THEN [disk EXCEPT ![v] = package] ELSE disk
        /\ Loaded(package)
        /\ UNCHANGED active

\* Put stores under the version the manifest names, unless a package Get accepts
\* is there.  The snapshot is the one downloaded in either case.
Put ==
    LET v == package.manifest.version
    IN  /\ pc = "store"
        /\ disk' = IF Accepts(v, disk[v]) THEN disk ELSE [disk EXCEPT ![v] = package]
        /\ Loaded(package)
        /\ UNCHANGED active

-----------------------------------------------------------------------------
(* activateCachedVersion, with the snapshot just loaded, and the fallback of *)
(* LoadLatest: loadCachedCurrent and snapshotWithWarning.                    *)

\* SetCurrent reads the package again.
Activate ==
    /\ pc = "activate"
    /\ IF Accepts(ver, disk[ver])
       THEN Return(result) /\ active' = ver
       ELSE Return(Failed) /\ UNCHANGED active
    /\ UNCHANGED disk

\* Mutant: the version retained is not filled in.
WithCurrentLost(warning, v) == warning

\* The warning names the version retained, unless it names one already.
WithCurrent(warning, v) ==
    IF warning.current = NoVersion THEN [warning EXCEPT !.current = v] ELSE warning

Fallback ==
    /\ pc = "fallback"
    /\ active # NoVersion
    /\ CacheHit(active)
    /\ Return([Snapshot(disk[active]) EXCEPT
                   !.warnings = @ \cup {WithCurrent(pending, active)}])
    /\ UNCHANGED cache

\* Nothing is active, or it cannot be read or decoded; or, whatever is active,
\* current.json is unreadable, the version lock is not to be had in time or not
\* released, the read fails or the context has ended.  After a skipped candidate
\* each of these is wrapped in the candidate's error, which tells of the schema.
FallbackFails ==
    /\ pc = "fallback"
    /\ \/ Return(IF pending.code = "schema_update_skipped" THEN SchemaFail ELSE Failed)
       \/ /\ active # NoVersion
          /\ Accepts(active, disk[active])
          /\ Unsupported(disk[active])
          /\ Return(SchemaFail)
    /\ UNCHANGED cache

-----------------------------------------------------------------------------
(* Other clients, with an SDK of any version, while this one does not hold  *)
(* "maintenance", and damage from outside.                                  *)

Undisturbed == pc \notin {"resolve", "compare", "start", "fallback"}

OtherStores(v) ==
    /\ ~Undisturbed
    /\ Cardinality({w \in Versions : disk[w] # NoPackage}) < MaxStored
    /\ disk[v] = NoPackage
    /\ \E schema \in Schemas, texts \in [DataFiles -> Texts] :
          disk' = [disk EXCEPT ![v] =
                      [manifest |-> [version |-> v, schema |-> schema, lists |-> texts],
                       texts |-> texts]]
    /\ UNCHANGED <<request, pc, download, pending, result, active>>

OtherActivates(v) ==
    /\ ~Undisturbed
    /\ Accepts(v, disk[v])
    /\ active' = v
    /\ UNCHANGED <<request, pc, download, pending, result, disk>>

Damage(v) ==
    /\ ~Undisturbed
    /\ disk[v] # NoPackage
    /\ \E text \in Texts : disk' = [disk EXCEPT ![v].texts["catalog"] = text]
    /\ UNCHANGED <<request, pc, download, pending, result, active>>

Own ==
    \/ ResolveLatest \/ CompareLatest \/ TakeMaintenance
    \/ LoadHit \/ LoadMiss \/ Fetch \/ FetchFails
    \/ KeepEntry \/ SkipEntry \/ Verify \/ DownloadFails
    \/ Decode \/ DecodeFails \/ DecodeUnsupported \/ Put
    \/ Activate \/ Fallback \/ FallbackFails

Next ==
    \/ Own
    \/ \E v \in Versions : OtherStores(v) \/ OtherActivates(v) \/ Damage(v)

Spec == Init /\ [][Next]_vars

-----------------------------------------------------------------------------
(* Properties. *)

\* Every variable keeps its type.
TypeOK ==
    /\ op \in {"loadLatest", "loadVersion", "switchVersion"}
    /\ pc \in {"resolve", "compare", "start", "load", "fetch", "extract", "decode", "store",
               "activate", "fallback", "done"}
    /\ ver \in Versions \cup {NoVersion}
    /\ seen \in Versions \cup {NoVersion}
    /\ DOMAIN files \subseteq DataFiles \cup {"manifest"}
    /\ \A f \in DOMAIN files : files[f] \in Texts \cup {Unread}
    /\ total \in 0..MaxTotal
    /\ package \in Packages \cup {NoPackage}
    /\ pending \in Warnings \cup {NoWarning}
    /\ \/ result \in {Running, Failed, SchemaFail}
       \/ /\ result.kind = "snapshot"
          /\ result.manifest \in Manifests
          /\ result.warnings \subseteq Warnings
    /\ disk \in [Versions -> Packages \cup {NoPackage}]
    /\ active \in Versions \cup {NoVersion}

\* Nothing missing, unlisted or altered, and in its own directory.
Intact(v) ==
    /\ disk[v] # NoPackage
    /\ disk[v].manifest.version = v
    /\ disk[v].texts = disk[v].manifest.lists

\* What this SDK can still make a snapshot of.
Readable(v) ==
    /\ Intact(v)
    /\ disk[v].manifest.schema >= Supported
    /\ disk[v].texts["catalog"] \in Catalogs

\* What an operation stores is intact and can be loaded again by the same SDK,
\* and it stores nothing but the version it was asked for: a package accepted
\* by Download is accepted by Get.
StoresLoadable ==
    [][\A v \in Versions :
          pc = "store" /\ disk'[v] # disk[v] => v = ver /\ Readable(v)']_vars

\* An update or a switch that has come to its activation does not fail there,
\* and activates the version it was asked for or the registry names, with an
\* intact package: Put replaces a damaged one and SetCurrent looks again.
ActivatesIntact ==
    [][pc = "activate" => active' = ver /\ Intact(ver) /\ result' = result]_vars

\* LoadLatest does not activate a version that semantic versioning puts before
\* the active one it has seen, as long as no number overflows an int.
NeverOlder ==
    [][/\ op = "loadLatest"
       /\ pc = "activate"
       /\ active' # active
       /\ seen # NoVersion
       /\ Fits(seen) /\ Fits(ver)
       => ~Precedes(ver, seen)]_vars

\* The schema warning of a snapshot: none if the schema is the embedded one,
\* else it tells who is the older by the schema version and then by the order of
\* semantic versions, and "mismatch" only if that order tells nothing or a number
\* of the version is too large for the code to tell it.
WarningTellsDrift ==
    result.kind = "snapshot" =>
        LET m     == result.manifest
            drift == {w.code : w \in result.warnings}
                         \cap {"schema_data_outdated", "schema_sdk_outdated", "schema_mismatch"}
            known == m.schema = Supported /\ Parses(m.version)
            older == m.schema < Supported \/ (known /\ Precedes(m.version, Embedded))
            newer == m.schema > Supported \/ (known /\ Precedes(Embedded, m.version))
        IN  IF m.schema = Supported /\ m.lists["schema"] = EmbeddedSchema THEN drift = {}
            ELSE Fits(m.version) \/ ~Parses(m.version) =>
                     drift = {IF older THEN "schema_data_outdated"
                              ELSE IF newer THEN "schema_sdk_outdated" ELSE "schema_mismatch"}

\* LoadLatest returns another version than the registry's only with a warning
\* that names the version it did not take, and as the current one the version it
\* compared with or, if it could not decode the update, the one it returns.  Only
\* another schema is a reason not to decode an update: a damaged one is an error.
FallbackAnnounced ==
    op = "loadLatest" /\ pc = "done" /\ result.kind = "snapshot" /\ result.manifest.version # ver =>
        \E w \in result.warnings :
            /\ w.registry = ver
            /\ \/ w.code = "registry_behind" /\ w.current = seen
               \/ /\ w.code = "schema_update_skipped"
                  /\ w.schema # Supported
                  /\ w.current = result.manifest.version

\* After an update of a future schema LoadLatest fails with ErrUnsupportedSchema
\* only if no package this SDK can read is active.
UnsupportedIsLast ==
    [][/\ op = "loadLatest"
       /\ result' = SchemaFail
       /\ pending.code = "schema_update_skipped"
       /\ pending.schema > Supported
       => active = NoVersion \/ ~Readable(active)]_vars

\* The selected digest is the first of the strongest kind there is.
StrongestDecides ==
    pc = "fetch" => \A tokens \in Integrities :
        VerifyIntegrity(tokens) <=>
            \E i \in DOMAIN tokens :
                /\ tokens[i].matches
                /\ tokens[i].algorithm # "none"
                /\ \A j \in DOMAIN tokens :
                      IF j < i
                      THEN Priority[tokens[j].algorithm] < Priority[tokens[i].algorithm]
                      ELSE Priority[tokens[j].algorithm] <= Priority[tokens[i].algorithm]
=============================================================================
