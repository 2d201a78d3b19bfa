--------------------------- MODULE CacheContract ---------------------------
(***************************************************************************)
(* The metadata half of the CacheStore contract (cache.go): SetCurrent and *)
(* RecordCheck each happen at one instant, on the whole of CacheState.     *)
(***************************************************************************)
EXTENDS Integers

CONSTANTS
    Versions,  \* package versions
    Times,     \* clock readings, as integers
    NoRecord   \* the nil *CheckState or *UpdateState

NoVersion == 0

Checks  == [at : Times, latest : Versions]
Updates == [at : Times, previous : Versions \cup {NoVersion}, current : Versions]
CacheStates ==
    [version    : Versions \cup {NoVersion},
     lastCheck  : Checks \cup {NoRecord},
     lastUpdate : Updates \cup {NoRecord}]

EmptyState == [version |-> NoVersion, lastCheck |-> NoRecord, lastUpdate |-> NoRecord]

VARIABLE state

\* SetCurrent: a change of version is recorded together with the version it
\* replaces; activating the active version again records nothing.
Activated(s, v, now) ==
    IF s.version = v
    THEN s
    ELSE [s EXCEPT !.version = v,
                   !.lastUpdate = [at |-> now, previous |-> s.version, current |-> v]]

\* RecordCheck: the newest check stays, the activation is left alone.
Checked(s, check) ==
    IF s.lastCheck = NoRecord \/ check.at > s.lastCheck.at
    THEN [s EXCEPT !.lastCheck = check]
    ELSE s

\* A new cache, or one whose current.json was written by a release that knew
\* only the version.
Init == \E v \in Versions \cup {NoVersion} : state = [EmptyState EXCEPT !.version = v]

SetCurrent  == \E v \in Versions, now \in Times : state' = Activated(state, v, now)
RecordCheck == \E check \in Checks : state' = Checked(state, check)

Next == SetCurrent \/ RecordCheck

Spec == Init /\ [][Next]_state
=============================================================================
