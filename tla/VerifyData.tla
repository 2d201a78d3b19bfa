----------------------------- MODULE VerifyData -----------------------------
(***************************************************************************)
(* The command internal/cmd/verifydata: may a package that is not published *)
(* yet be published?  It reads the package itself (loadDataPackage), offers *)
(* it to a client through a registry of its own, as an update of an earlier *)
(* package if one is given (verifyPackages, localRegistry), and compares    *)
(* what the client returns with what it has read (verifySnapshot).          *)
(*                                                                         *)
(* The client is PackageUpdate with nobody else on its cache.  With step   *)
(* "off" there is no command, and the module is PackageUpdate.             *)
(*                                                                         *)
(* The command and the client read the same archive by different code.     *)
(* The file "catalog" stands for catalog.json, models.json and api.json.   *)
(***************************************************************************)
EXTENDS PackageUpdate

CONSTANTS
    Offered,    \* the versions of the packages the command is given
    Inventories,\* the catalogs that have the keys of models.json and api.json
    MaxOdd      \* bound: entries the two readers take differently

ASSUME VerifyAssumption ==
    /\ Offered \subseteq Versions
    /\ Inventories \subseteq Catalogs
    /\ MaxOdd \in Nat

VARIABLES
    step,       \* where verifyPackages stands
    mine,       \* the files the command has read from the archive so far
    theirs,     \* those extractFiles would have read
    twice,      \* whether extractFiles would have met a file for the second time
    odd,        \* how many entries so far the two take differently
    candidate,  \* the package to verify
    baseline,   \* the package to update from, if any
    latest,     \* what the local registry serves
    strict,     \* -strict-schema
    trouble     \* history: an error of the disk or the network, a timeout, or a
                \* baseline that is no package

reading  == <<mine, theirs, twice, odd>>
inputs   == <<candidate, baseline, strict>>
tool     == <<step, reading, inputs, latest, trouble>>
allVars  == <<vars, tool>>

\* own: what the command has read; served: what Download makes of the archive,
\* with the version of own as the one the registry names.
Data   == [own : Packages, served : Packages \cup {NoPackage}]
NoData == [own |-> NoPackage, served |-> NoPackage]

Nothing == [f \in {} |-> f]

Names == DataFiles \cup {"manifest"}

VerifyInit ==
    /\ Init
    /\ step \in IF op = "loadLatest" THEN {"off", "candidate"} ELSE {"off"}
    /\ mine = Nothing
    /\ theirs = Nothing
    /\ twice = FALSE
    /\ odd = 0
    /\ candidate = NoData
    /\ baseline = NoData
    /\ latest = NoData
    /\ strict = FALSE
    /\ trouble = FALSE

Enter(point) ==
    /\ step' = point
    /\ UNCHANGED <<vars, reading, inputs, latest, trouble>>

Refuse == Enter("refused")

-----------------------------------------------------------------------------
(* loadDataPackage: the last entry of a name counts, of whatever type.       *)
(* extractFiles takes regular entries only, and no name twice.  What both    *)
(* skip or what the command refuses in any case makes no difference; its     *)
(* limits are those of extractFiles and count more entries.                  *)

With(texts, f, text) == [g \in DOMAIN texts \cup {f} |-> IF g = f THEN text ELSE texts[g]]

ReadEntry(f, text, regular) ==
    /\ step \in {"candidate", "baseline"}
    /\ mine' = With(mine, f, text)
    /\ IF regular /\ f \notin DOMAIN theirs
       THEN theirs' = With(theirs, f, text) /\ UNCHANGED <<twice, odd>>
       ELSE /\ odd < MaxOdd
            /\ odd' = odd + 1
            /\ twice' = (twice \/ regular)
            /\ UNCHANGED theirs
    /\ UNCHANGED <<vars, step, inputs, latest, trouble>>

\* A manifest.json that is another text is taken to say something else.
TheirManifests(m) ==
    IF "manifest" \notin DOMAIN theirs THEN {}
    ELSE IF theirs["manifest"] = mine["manifest"] THEN {m} ELSE Manifests \ {m}

Download(m) ==
    {[manifest |-> n, texts |-> [f \in DataFiles |-> theirs[f]]] :
        n \in {o \in TheirManifests(m) : ~twice /\ o.version = m.version /\ VerifyFiles(o, theirs)}}

\* The end of an archive that has all files, as its manifest lists them.
EndArchive ==
    /\ step \in {"candidate", "baseline"}
    /\ Names \subseteq DOMAIN mine
    /\ \E m \in Manifests :
          /\ m.version \in Offered
          /\ VerifyFiles(m, mine)
          /\ \E served \in IF Download(m) = {} THEN {NoPackage} ELSE Download(m) :
                LET data == [own |-> [manifest |-> m, texts |-> [f \in DataFiles |-> mine[f]]],
                             served |-> served]
                IN  IF step = "candidate"
                    THEN /\ candidate' = data
                         /\ step' \in {"baseline", "check"}
                         /\ UNCHANGED baseline
                    ELSE /\ baseline' = data
                         /\ step' = "check"
                         /\ UNCHANGED candidate
    /\ mine' = Nothing
    /\ theirs' = Nothing
    /\ twice' = FALSE
    /\ UNCHANGED <<vars, odd, strict, latest, trouble>>

\* A path, a type or a size that is not allowed, a file that is missing, not
\* listed or not as listed, or bytes that are no archive.
RefuseArchive ==
    /\ step \in {"candidate", "baseline"}
    /\ step' = "refused"
    /\ trouble' = (step = "baseline")
    /\ UNCHANGED <<vars, reading, inputs, latest>>

-----------------------------------------------------------------------------
(* verifyPackages. *)

\* Mutant: the schema this SDK supports counts as newer.
TooNewOrSame(data) == data.own.manifest.schema >= Supported

TooNew(data) == data.own.manifest.schema > Supported

\* The local registry starts with the baseline, if there is one.
CheckSchema ==
    /\ step = "check"
    /\ strict' \in BOOLEAN
    /\ IF TooNew(candidate) \/ (strict' /\ candidate.own.texts["schema"] # EmbeddedSchema)
       THEN step' = "refused" /\ UNCHANGED latest
       ELSE /\ latest' = IF baseline = NoData THEN candidate ELSE baseline
            /\ step' = IF baseline = NoData THEN "find" ELSE "loadBaseline"
    /\ UNCHANGED <<vars, reading, candidate, baseline, trouble>>

\* FindLatest: the registry names the version of what it serves.
FindLatest ==
    /\ step = "find"
    /\ IF latest.own.manifest.version = candidate.own.manifest.version
       THEN Enter("loadCandidate") ELSE Refuse

\* verifySnapshot: the five files byte by byte, and the keys of the catalog.
SameAs(snapshot, data) ==
    /\ snapshot.kind = "snapshot"
    /\ snapshot.manifest = data.own.manifest
    /\ data.own.texts["catalog"] \in Inventories

\* The registry turns to the candidate, and LoadLatest is about to be called again.
VerifyBaseline ==
    /\ step = "loadBaseline"
    /\ pc = "done"
    /\ IF SameAs(result, baseline)
       THEN /\ step' = "status"
            /\ latest' = candidate
            /\ pc' = "resolve"
            /\ ver' = NoVersion
            /\ seen' = NoVersion
            /\ package' = NoPackage
            /\ pending' = NoWarning
            /\ result' = Running
            /\ UNCHANGED <<op, files, total, cache, reading, inputs, trouble>>
       ELSE Refuse

\* Mutant: that an update is available is not required.
ExpectedLoosely(current, update) ==
    /\ current = baseline.own.manifest.version
    /\ update = candidate.own.manifest.version
    /\ ~(Compare(update, current) < 0)

\* The UpdateStatus of CheckLatest is the one wanted.
Expected(current, update) ==
    /\ current = baseline.own.manifest.version
    /\ update = candidate.own.manifest.version
    /\ Compare(update, current) > 0
    /\ ~(Compare(update, current) < 0)

CheckLatest ==
    /\ step = "status"
    /\ IF Expected(active, latest.own.manifest.version) THEN Enter("loadCandidate") ELSE Refuse

VerifyCandidate ==
    /\ step = "loadCandidate"
    /\ pc = "done"
    /\ IF /\ result.kind = "snapshot"
          /\ result.manifest.version = candidate.own.manifest.version
          /\ SameAs(result, candidate)
       THEN Enter("current") ELSE Refuse

CurrentVersion ==
    /\ step = "current"
    /\ IF active = candidate.own.manifest.version THEN Enter("reload") ELSE Refuse

\* LoadCached and Load: the client still holds the snapshot of the active
\* version, so neither reads the package again or asks the registry.
Reload ==
    /\ step = "reload"
    /\ IF active = candidate.own.manifest.version THEN Enter("passed") ELSE Refuse

-----------------------------------------------------------------------------
(* LoadLatest with the local registry. *)

\* The archive that is served is the one the command has read.
ExtractLocal ==
    /\ pc = "extract"
    /\ IF latest.served = NoPackage
       THEN Return(Failed)
       ELSE /\ package' = latest.served
            /\ pc' = "decode"
            /\ UNCHANGED <<request, files, total, pending, result>>
    /\ UNCHANGED cache

LoadLatestStep ==
    /\ step \in {"loadBaseline", "loadCandidate"}
    /\ \/ ResolveLatest /\ ver' = latest.own.manifest.version
       \/ CompareLatest \/ TakeMaintenance \/ LoadHit \/ LoadMiss \/ Fetch
       \/ ExtractLocal \/ Decode \/ DecodeFails \/ DecodeUnsupported \/ Put
       \/ Activate \/ Fallback \/ FallbackFails
    /\ UNCHANGED tool

\* An error of the disk or the network, or the deadline of two minutes.
Abort ==
    /\ step \notin {"off", "passed", "refused"}
    /\ trouble' = TRUE
    /\ step' = "refused"
    /\ UNCHANGED <<vars, reading, inputs, latest>>

VerifyNext ==
    \/ step = "off" /\ Next /\ UNCHANGED tool
    \/ \E f \in Names, text \in Texts, regular \in BOOLEAN : ReadEntry(f, text, regular)
    \/ EndArchive \/ RefuseArchive \/ CheckSchema \/ FindLatest
    \/ VerifyBaseline \/ CheckLatest \/ VerifyCandidate \/ CurrentVersion \/ Reload
    \/ LoadLatestStep \/ Abort

VerifySpec == VerifyInit /\ [][VerifyNext]_allVars

-----------------------------------------------------------------------------
(* Properties. *)

\* A candidate that passes can be published: the client has it active and on
\* disk with the very files the command has read, and could read it again; its
\* schema is the one asked for; and clients of the baseline take it for an
\* update, as semantic versioning does.  A package the command and the client
\* read differently never passes.
PassMeansUsable ==
    step = "passed" =>
        LET v == candidate.own.manifest.version
        IN  /\ active = v
            /\ Readable(v)
            /\ disk[v] = candidate.own
            /\ disk[v].manifest.schema = Supported
            /\ strict => disk[v].texts["schema"] = EmbeddedSchema
            /\ baseline # NoData =>
                   LET b == baseline.own.manifest.version
                   IN  b # v /\ (Fits(b) /\ Fits(v) => Precedes(b, v))

\* This SDK can load the package, as the command has read it.
Sound(data) ==
    /\ data.served # NoPackage
    /\ data.served = data.own
    /\ Decodes(data.own)
    /\ data.own.texts["catalog"] \in Inventories

\* A sound candidate of the supported schema that is newer than a sound baseline
\* is refused for no other reason than trouble.
SoundPasses ==
    step = "refused" /\ Sound(candidate) /\ candidate.own.manifest.schema = Supported =>
        \/ trouble
        \/ strict /\ candidate.own.texts["schema"] # EmbeddedSchema
        \/ baseline # NoData /\
              LET b == baseline.own.manifest.version
                  v == candidate.own.manifest.version
              IN  ~Sound(baseline) \/ ~Fits(b) \/ ~Fits(v) \/ ~Precedes(b, v)
=============================================================================
