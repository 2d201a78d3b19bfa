---------------------------- MODULE VersionOrder ----------------------------
(* The order of package versions (warning.go), by which LoadLatest decides  *)
(* whether the registry is behind and a warning whether the data or the SDK *)
(* is the older one.                                                        *)
EXTENDS Integers, Sequences

CONSTANT MaxInt     \* the largest int: strconv.Atoi fails on a larger number

ASSUME MaxIntAssumption == MaxInt \in Nat

(* A version is what versionPattern admits, cut at "+": three numbers and   *)
(* the identifiers of the pre-release, none if there is no "-".  Of an      *)
(* identifier only two things matter: its place in the order of strings,    *)
(* and the number it is written as, if it has digits only.  Strings that    *)
(* differ after the "+" or in leading zeros of the three numbers, which     *)
(* Compare cannot tell apart, are one version here.                         *)
NotNumber == -1

Identifiers == [text : Nat, number : Nat \cup {NotNumber}]

AllVersions == [core : [1..3 -> Nat], pre : Seq(Identifiers)]

\* parsePackageVersion.
Parses(v) == \A i \in 1..3 : v.core[i] <= MaxInt

\* numericIdentifier: digits, and few enough of them.
Numeric(id) == id.number # NotNumber /\ id.number <= MaxInt

\* Mutant: all identifiers are compared as strings.
LowerAsText(p, q) == p.text < q.text

\* One round of comparePrerelease for two identifiers that differ.
LowerIdentifier(p, q) ==
    \/ Numeric(p) /\ Numeric(q) /\ p.number < q.number
    \/ Numeric(p) /\ ~Numeric(q)
    \/ ~Numeric(p) /\ ~Numeric(q) /\ p.text < q.text

FirstDifference(s, t) ==
    CHOOSE i \in DOMAIN s \cap DOMAIN t :
        s[i] # t[i] /\ \A j \in 1..(i - 1) : s[j] = t[j]

SameStart(s, t) == \A i \in DOMAIN s \cap DOMAIN t : s[i] = t[i]

ComparePrerelease(s, t) ==
    IF SameStart(s, t)
    THEN IF Len(s) < Len(t) THEN -1 ELSE IF Len(s) > Len(t) THEN 1 ELSE 0
    ELSE LET i == FirstDifference(s, t)
         IN  IF LowerIdentifier(s[i], t[i]) THEN -1 ELSE 1

\* comparePackageVersions: versions that cannot be read count as equal.
Compare(v, w) ==
    IF ~Parses(v) \/ ~Parses(w) THEN 0
    ELSE IF v.core # w.core
    THEN LET i == FirstDifference(v.core, w.core)
         IN  IF v.core[i] < w.core[i] THEN -1 ELSE 1
    ELSE IF v.pre = w.pre THEN 0
    ELSE IF v.pre = <<>> THEN 1
    ELSE IF w.pre = <<>> THEN -1
    ELSE ComparePrerelease(v.pre, w.pre)

-----------------------------------------------------------------------------
(* The precedence of semantic versions (semver.org, 11), for numbers of any *)
(* size.                                                                    *)

\* Numbers without leading zeros, as semantic versions require and versionPattern
\* does not: an identifier is known by its text, and by its number if it has one.
Distinct(p, q) ==
    /\ p.text = q.text => p = q
    /\ p.number = q.number /\ p.number # NotNumber => p = q

Proper(v, w) == \A i \in DOMAIN v.pre, j \in DOMAIN w.pre : Distinct(v.pre[i], w.pre[j])

\* No number in the version is too large for an int.
Fits(v) ==
    /\ Parses(v)
    /\ \A i \in DOMAIN v.pre : v.pre[i].number <= MaxInt

PrecedesIdentifier(p, q) ==
    \/ p.number # NotNumber /\ q.number = NotNumber
    \/ p.number # NotNumber /\ q.number # NotNumber /\ p.number < q.number
    \/ p.number = NotNumber /\ q.number = NotNumber /\ p.text < q.text

PrecedesPrerelease(s, t) ==
    \/ \E i \in DOMAIN s \cap DOMAIN t :
          /\ PrecedesIdentifier(s[i], t[i])
          /\ \A j \in 1..(i - 1) : s[j] = t[j]
    \/ Len(s) < Len(t) /\ SameStart(s, t)

Precedes(v, w) ==
    \/ \E i \in 1..3 :
          /\ v.core[i] < w.core[i]
          /\ \A j \in 1..(i - 1) : v.core[j] = w.core[j]
    \/ /\ v.core = w.core
       /\ v.pre # <<>>
       /\ w.pre = <<>> \/ PrecedesPrerelease(v.pre, w.pre)
=============================================================================
