------------------------ MODULE VersionOrderProofs -------------------------
(* comparePackageVersions orders the versions it can read: it is            *)
(* antisymmetric, equal only for the same version, and, as long as no       *)
(* number overflows an int, the order of semantic versions, which is        *)
(* transitive.                                                              *)
EXTENDS VersionOrder, FiniteSetTheorems, WellFoundedInduction, TLAPS

-----------------------------------------------------------------------------
(* Sequences that differ differ in a first place. *)

\* A set of naturals has a least element.
LEMMA LeastElement ==
    ASSUME NEW T \in SUBSET Nat, T # {}
    PROVE  \E x \in T : \A y \in T : x <= y
<1>1. \E x \in T : \A y \in T : <<y, x>> \notin OpToRel(<, Nat)
  BY NatLessThanWellFounded, WFMin
<1>2. \A x, y \in Nat : <<y, x>> \notin OpToRel(<, Nat) => x <= y
  BY SMT DEF OpToRel
<1>. QED  BY <1>1, <1>2

\* The places two sequences have in common: all those before any one of them.
Common(s, t) == DOMAIN s \cap DOMAIN t

Initial(D) == D \subseteq Nat \ {0} /\ \A i \in D : 1..(i - 1) \subseteq D

\* What FirstDifference chooses.
LEMMA FirstDifferenceHolds ==
    ASSUME NEW s, NEW t, Initial(Common(s, t)), ~SameStart(s, t)
    PROVE  /\ FirstDifference(s, t) \in Common(s, t)
           /\ s[FirstDifference(s, t)] # t[FirstDifference(s, t)]
           /\ \A j \in 1..(FirstDifference(s, t) - 1) : s[j] = t[j]
<1>. DEFINE T == {i \in Common(s, t) : s[i] # t[i]}
<1>1. T \in SUBSET Nat /\ T # {}
  BY DEF SameStart, Common, Initial
<1>2. PICK i \in T : \A j \in T : i <= j
  BY <1>1, LeastElement
<1>3. \A j \in 1..(i - 1) : s[j] = t[j]
  <2>. SUFFICES ASSUME NEW j \in 1..(i - 1), s[j] # t[j] PROVE FALSE
    OBVIOUS
  <2>1. j \in T
    BY <1>2 DEF Initial
  <2>2. i \in Nat
    BY <1>1
  <2>. QED  BY <2>1, <2>2, <1>2
<1>. QED  BY <1>2, <1>3 DEF FirstDifference, Common

\* It is the same from both sides.
LEMMA FirstDifferenceSymmetric ==
    ASSUME NEW s, NEW t, Initial(Common(s, t)), ~SameStart(s, t)
    PROVE  ~SameStart(t, s) /\ FirstDifference(t, s) = FirstDifference(s, t)
<1>1. ~SameStart(t, s) /\ Common(t, s) = Common(s, t)
  BY DEF SameStart, Common
<1>. DEFINE i == FirstDifference(s, t)
            k == FirstDifference(t, s)
<1>2. i \in Common(s, t) /\ s[i] # t[i] /\ \A j \in 1..(i - 1) : s[j] = t[j]
  BY FirstDifferenceHolds
<1>3. k \in Common(s, t) /\ s[k] # t[k] /\ \A j \in 1..(k - 1) : s[j] = t[j]
  BY <1>1, FirstDifferenceHolds
<1>. HIDE DEF i, k
<1>4. i \in Nat \ {0} /\ k \in Nat \ {0}
  BY <1>2, <1>3 DEF Initial
<1>5. ~(i < k) /\ ~(k < i)
  BY <1>2, <1>3, <1>4
<1>6. i = k
  BY <1>4, <1>5
<1>. QED  BY <1>1, <1>6 DEF i, k

\* The three numbers of two versions, and two sequences, have this form.
LEMMA CommonInitial ==
    /\ \A s, t \in [1..3 -> Nat] : Initial(Common(s, t)) /\ Common(s, t) = 1..3
    /\ \A s, t \in Seq(Identifiers) : Initial(Common(s, t))
BY DEF Common, Initial

\* Equal lengths and the same start make the same sequence.
LEMMA SameSequence ==
    ASSUME NEW S, NEW s \in Seq(S), NEW t \in Seq(S), SameStart(s, t), Len(s) = Len(t)
    PROVE  s = t
<1>1. DOMAIN s = 1..Len(s) /\ DOMAIN t = 1..Len(s)
  OBVIOUS
<1>2. \A i \in 1..Len(s) : s[i] = t[i]
  BY <1>1 DEF SameStart
<1>. QED  BY <1>1, <1>2

-----------------------------------------------------------------------------
(* Identifiers. *)

\* One round of comparePrerelease prefers one of two identifiers.
LEMMA LowerEitherWay ==
    ASSUME NEW p \in Identifiers, NEW q \in Identifiers, p # q, Distinct(p, q)
    PROVE  LowerIdentifier(p, q) <=> ~LowerIdentifier(q, p)
<1>1. p.text \in Nat /\ q.text \in Nat /\ p.text # q.text
  BY DEF Identifiers, Distinct
<1>2. /\ p.number \in Nat \cup {NotNumber}
      /\ q.number \in Nat \cup {NotNumber}
      /\ p.number = q.number => p.number = NotNumber
  BY DEF Identifiers, Distinct
<1>. QED  BY <1>1, <1>2, MaxIntAssumption DEF LowerIdentifier, Numeric, NotNumber

\* As long as numbers fit, it is the precedence of semantic versions.
LEMMA LowerIsPrecedence ==
    ASSUME NEW p \in Identifiers, NEW q \in Identifiers,
           p.number <= MaxInt, q.number <= MaxInt
    PROVE  LowerIdentifier(p, q) <=> PrecedesIdentifier(p, q)
BY MaxIntAssumption DEF Identifiers, LowerIdentifier, PrecedesIdentifier, Numeric, NotNumber

\* Of two identifiers one precedes the other, and no third comes between.
LEMMA IdentifierOrder ==
    ASSUME NEW p \in Identifiers, NEW q \in Identifiers, NEW r \in Identifiers
    PROVE  /\ ~PrecedesIdentifier(p, p)
           /\ PrecedesIdentifier(p, q) /\ PrecedesIdentifier(q, r) => PrecedesIdentifier(p, r)
           /\ p # q /\ Distinct(p, q) => PrecedesIdentifier(p, q) \/ PrecedesIdentifier(q, p)
<1>. USE DEF Identifiers, PrecedesIdentifier, NotNumber
<1>1. ~PrecedesIdentifier(p, p)
  OBVIOUS
<1>2. PrecedesIdentifier(p, q) /\ PrecedesIdentifier(q, r) => PrecedesIdentifier(p, r)
  OBVIOUS
<1>3. p # q /\ Distinct(p, q) => PrecedesIdentifier(p, q) \/ PrecedesIdentifier(q, p)
  BY DEF Distinct
<1>. QED  BY <1>1, <1>2, <1>3

-----------------------------------------------------------------------------
(* Compare is antisymmetric. *)

\* comparePrerelease, for two different pre-releases.
LEMMA PrereleaseAntisymmetric ==
    ASSUME NEW s \in Seq(Identifiers), NEW t \in Seq(Identifiers), s # t,
           \A i \in DOMAIN s, j \in DOMAIN t : Distinct(s[i], t[j])
    PROVE  /\ ComparePrerelease(s, t) \in {-1, 1}
           /\ ComparePrerelease(t, s) = -ComparePrerelease(s, t)
<1>1. DOMAIN s = 1..Len(s) /\ DOMAIN t = 1..Len(t) /\ Len(s) \in Nat /\ Len(t) \in Nat
  OBVIOUS
<1>2. CASE SameStart(s, t)
  <2>1. Len(s) # Len(t)
    BY <1>2, SameSequence
  <2>2. SameStart(t, s)
    BY <1>2 DEF SameStart
  <2>3. Len(s) \in Nat /\ Len(t) \in Nat
    OBVIOUS
  <2>. QED  BY ONLY <1>2, <2>1, <2>2, <2>3 DEF ComparePrerelease
<1>3. CASE ~SameStart(s, t)
  <2>. DEFINE i == FirstDifference(s, t)
  <2>1. i \in DOMAIN s /\ i \in DOMAIN t /\ s[i] # t[i]
    BY <1>3, CommonInitial, FirstDifferenceHolds DEF Common
  <2>2. ~SameStart(t, s) /\ FirstDifference(t, s) = i
    BY <1>3, CommonInitial, FirstDifferenceSymmetric
  <2>3. s[i] \in Identifiers /\ t[i] \in Identifiers /\ Distinct(s[i], t[i])
    BY <2>1
  <2>4. LowerIdentifier(s[i], t[i]) <=> ~LowerIdentifier(t[i], s[i])
    BY <2>1, <2>3, LowerEitherWay
  <2>. QED  BY <1>3, <2>2, <2>4 DEF ComparePrerelease
<1>. QED  BY <1>2, <1>3

\* comparePackageVersions gives opposite answers to opposite questions, and "equal"
\* only for versions it cannot read and for the same version.
THEOREM CompareAntisymmetric ==
    ASSUME NEW v \in AllVersions, NEW w \in AllVersions, Proper(v, w)
    PROVE  /\ Compare(v, w) \in {-1, 0, 1}
           /\ Compare(v, w) + Compare(w, v) = 0
           /\ Compare(v, w) = 0 /\ Parses(v) /\ Parses(w) => v = w
<1>1. /\ v.core \in [1..3 -> Nat] /\ v.pre \in Seq(Identifiers)
      /\ w.core \in [1..3 -> Nat] /\ w.pre \in Seq(Identifiers)
      /\ v.core = w.core /\ v.pre = w.pre => v = w
  BY DEF AllVersions
<1>2. CASE ~Parses(v) \/ ~Parses(w)
  BY <1>2 DEF Compare
<1>3. CASE Parses(v) /\ Parses(w) /\ v.core # w.core
  <2>. DEFINE i == FirstDifference(v.core, w.core)
  <2>1. /\ i \in 1..3 /\ v.core[i] # w.core[i]
        /\ FirstDifference(w.core, v.core) = i
    <3>1. Initial(Common(v.core, w.core)) /\ Common(v.core, w.core) = 1..3
      BY <1>1, CommonInitial
    <3>2. ~SameStart(v.core, w.core)
      BY <1>1, <1>3 DEF SameStart
    <3>. QED  BY <3>1, <3>2, FirstDifferenceHolds, FirstDifferenceSymmetric
  <2>2. v.core[i] \in Nat /\ w.core[i] \in Nat
    BY <1>1, <2>1
  <2>. QED  BY <1>3, <2>1, <2>2 DEF Compare
<1>4. CASE Parses(v) /\ Parses(w) /\ v.core = w.core
  <2>1. CASE v.pre = w.pre
    <3>1. v = w
      BY <1>1, <1>4, <2>1
    <3>2. Compare(v, v) = 0
      BY <3>1, <1>4, <2>1 DEF Compare
    <3>. QED  BY ONLY <3>1, <3>2
  <2>2. CASE v.pre # w.pre /\ (v.pre = <<>> \/ w.pre = <<>>)
    BY <1>4, <2>2 DEF Compare
  <2>3. CASE v.pre # w.pre /\ v.pre # <<>> /\ w.pre # <<>>
    <3>1. /\ ComparePrerelease(v.pre, w.pre) \in {-1, 1}
          /\ ComparePrerelease(w.pre, v.pre) = -ComparePrerelease(v.pre, w.pre)
      BY <1>1, <2>3, PrereleaseAntisymmetric DEF Proper
    <3>. QED  BY <1>4, <2>3, <3>1 DEF Compare
  <2>. QED  BY <2>1, <2>2, <2>3
<1>. QED  BY <1>2, <1>3, <1>4

-----------------------------------------------------------------------------
(* Compare is the precedence of semantic versions. *)

\* comparePrerelease is the precedence of pre-releases, as long as numbers fit.
LEMMA PrereleaseIsPrecedence ==
    ASSUME NEW s \in Seq(Identifiers), NEW t \in Seq(Identifiers), s # t,
           \A i \in DOMAIN s, j \in DOMAIN t : Distinct(s[i], t[j]),
           \A i \in DOMAIN s : s[i].number <= MaxInt,
           \A i \in DOMAIN t : t[i].number <= MaxInt
    PROVE  ComparePrerelease(s, t) = -1 <=> PrecedesPrerelease(s, t)
<1>1. DOMAIN s = 1..Len(s) /\ DOMAIN t = 1..Len(t) /\ Len(s) \in Nat /\ Len(t) \in Nat
  OBVIOUS
<1>2. CASE SameStart(s, t)
  <2>1. \A i \in DOMAIN s \cap DOMAIN t : ~PrecedesIdentifier(s[i], t[i])
    BY <1>2, IdentifierOrder DEF SameStart
  <2>2. Len(s) # Len(t)
    BY <1>2, SameSequence
  <2>3. PrecedesPrerelease(s, t) <=> Len(s) < Len(t)
    BY <1>2, <2>1 DEF PrecedesPrerelease
  <2>4. ComparePrerelease(s, t) = -1 <=> Len(s) < Len(t)
    BY ONLY <1>2 DEF ComparePrerelease
  <2>. QED  BY <2>3, <2>4
<1>3. CASE ~SameStart(s, t)
  <2>. DEFINE i == FirstDifference(s, t)
  <2>1. /\ i \in DOMAIN s \cap DOMAIN t /\ s[i] # t[i]
        /\ \A j \in 1..(i - 1) : s[j] = t[j]
    BY <1>3, CommonInitial, FirstDifferenceHolds DEF Common
  <2>2. LowerIdentifier(s[i], t[i]) <=> PrecedesIdentifier(s[i], t[i])
    BY <2>1, LowerIsPrecedence
  <2>3. ASSUME NEW k \in DOMAIN s \cap DOMAIN t, PrecedesIdentifier(s[k], t[k]),
               \A j \in 1..(k - 1) : s[j] = t[j]
        PROVE  k = i
    <3>1. s[k] # t[k]
      BY <2>3, IdentifierOrder
    <3>2. ~(i < k) /\ ~(k < i)
      BY <1>1, <2>1, <2>3, <3>1
    <3>. HIDE DEF i
    <3>. QED  BY <1>1, <2>1, <3>2
  <2>4. PrecedesPrerelease(s, t) <=> PrecedesIdentifier(s[i], t[i])
    BY <1>3, <2>1, <2>3 DEF PrecedesPrerelease
  <2>. QED  BY <1>3, <2>2, <2>4 DEF ComparePrerelease
<1>. QED  BY <1>2, <1>3

\* As long as no number overflows an int, comparePackageVersions finds the one
\* of two versions lower that semantic versioning puts first.
THEOREM CompareIsPrecedence ==
    ASSUME NEW v \in AllVersions, NEW w \in AllVersions, Proper(v, w), Fits(v), Fits(w)
    PROVE  Compare(v, w) = -1 <=> Precedes(v, w)
<1>1. /\ v.core \in [1..3 -> Nat] /\ v.pre \in Seq(Identifiers)
      /\ w.core \in [1..3 -> Nat] /\ w.pre \in Seq(Identifiers)
      /\ Parses(v) /\ Parses(w)
  BY DEF AllVersions, Fits
<1>2. CASE v.core # w.core
  <2>. DEFINE i == FirstDifference(v.core, w.core)
  <2>1. /\ i \in 1..3 /\ v.core[i] # w.core[i]
        /\ \A j \in 1..(i - 1) : v.core[j] = w.core[j]
    <3>1. Initial(Common(v.core, w.core)) /\ Common(v.core, w.core) = 1..3
      BY <1>1, CommonInitial
    <3>2. ~SameStart(v.core, w.core)
      BY <1>1, <1>2 DEF SameStart
    <3>. QED  BY <3>1, <3>2, FirstDifferenceHolds
  <2>2. ASSUME NEW k \in 1..3, v.core[k] < w.core[k],
               \A j \in 1..(k - 1) : v.core[j] = w.core[j]
        PROVE  k = i
    <3>1. v.core[k] # w.core[k]
      BY <1>1, <2>2
    <3>2. ~(i < k) /\ ~(k < i)
      BY <2>1, <2>2, <3>1
    <3>. HIDE DEF i
    <3>. QED  BY <2>1, <3>2
  <2>3. Precedes(v, w) <=> v.core[i] < w.core[i]
    BY <1>2, <2>1, <2>2 DEF Precedes
  <2>. QED  BY <1>1, <1>2, <2>3 DEF Compare
<1>3. CASE v.core = w.core
  <2>1. Precedes(v, w) <=>
            v.pre # <<>> /\ (w.pre = <<>> \/ PrecedesPrerelease(v.pre, w.pre))
    BY <1>1, <1>3 DEF Precedes
  <2>2. CASE v.pre = w.pre
    <3>1. ~PrecedesPrerelease(v.pre, v.pre)
      BY <1>1, IdentifierOrder DEF PrecedesPrerelease
    <3>. QED  BY <1>1, <1>3, <2>1, <2>2, <3>1 DEF Compare
  <2>3. CASE v.pre # w.pre /\ (v.pre = <<>> \/ w.pre = <<>>)
    BY <1>1, <1>3, <2>1, <2>3 DEF Compare
  <2>4. CASE v.pre # w.pre /\ v.pre # <<>> /\ w.pre # <<>>
    <3>1. ComparePrerelease(v.pre, w.pre) = -1 <=> PrecedesPrerelease(v.pre, w.pre)
      BY <1>1, <2>4, PrereleaseIsPrecedence DEF Proper, Fits
    <3>. QED  BY <1>1, <1>3, <2>1, <2>4, <3>1 DEF Compare
  <2>. QED  BY <2>2, <2>3, <2>4
<1>. QED  BY <1>2, <1>3

-----------------------------------------------------------------------------
(* Precedence is transitive. *)

\* The first difference of the outer two is that of one of the pairs.
LEMMA PrereleaseTransitive ==
    ASSUME NEW s \in Seq(Identifiers), NEW t \in Seq(Identifiers), NEW u \in Seq(Identifiers),
           PrecedesPrerelease(s, t), PrecedesPrerelease(t, u)
    PROVE  PrecedesPrerelease(s, u)
<1>1. /\ DOMAIN s = 1..Len(s) /\ DOMAIN t = 1..Len(t) /\ DOMAIN u = 1..Len(u)
      /\ Len(s) \in Nat /\ Len(t) \in Nat /\ Len(u) \in Nat
  OBVIOUS
<1>. DEFINE First(x, y, i) ==
         /\ i \in DOMAIN x \cap DOMAIN y
         /\ PrecedesIdentifier(x[i], y[i])
         /\ \A j \in 1..(i - 1) : x[j] = y[j]
            Prefix(x, y) == Len(x) < Len(y) /\ SameStart(x, y)
<1>2. \A x, y : PrecedesPrerelease(x, y) <=> (\E i : First(x, y, i)) \/ Prefix(x, y)
  BY DEF PrecedesPrerelease
<1>3. ASSUME NEW i, First(s, t, i), NEW k, First(t, u, k)
      PROVE  PrecedesPrerelease(s, u)
  <2>1. i \in Nat /\ k \in Nat
    BY <1>1, <1>3
  <2>2. CASE i < k
    BY <1>1, <1>3, <2>1, <2>2 DEF PrecedesPrerelease
  <2>3. CASE k < i
    BY <1>1, <1>3, <2>1, <2>3 DEF PrecedesPrerelease
  <2>4. CASE i = k
    <3>1. PrecedesIdentifier(s[i], u[i])
      BY <1>3, <2>4, IdentifierOrder
    <3>. QED  BY <1>1, <1>3, <2>4, <3>1 DEF PrecedesPrerelease
  <2>. QED  BY <2>1, <2>2, <2>3, <2>4
<1>4. ASSUME NEW i, First(s, t, i), Prefix(t, u)
      PROVE  PrecedesPrerelease(s, u)
  <2>1. \A j \in DOMAIN t : t[j] = u[j] /\ j \in DOMAIN u
    BY <1>1, <1>4 DEF SameStart
  <2>. QED  BY <1>1, <1>4, <2>1 DEF PrecedesPrerelease
<1>5. ASSUME Prefix(s, t), NEW k, First(t, u, k)
      PROVE  PrecedesPrerelease(s, u)
  <2>1. \A j \in DOMAIN s : s[j] = t[j] /\ j \in DOMAIN t
    BY <1>1, <1>5 DEF SameStart
  <2>2. CASE k \in DOMAIN s
    BY <1>1, <1>5, <2>1, <2>2 DEF PrecedesPrerelease
  <2>3. CASE k \notin DOMAIN s
    <3>1. k \in Nat /\ Len(s) < k /\ k <= Len(u)
      BY <1>1, <1>5, <2>3
    <3>2. SameStart(s, u)
      BY <1>1, <1>5, <2>1, <3>1 DEF SameStart
    <3>. QED  BY <1>1, <3>1, <3>2 DEF PrecedesPrerelease
  <2>. QED  BY <2>2, <2>3
<1>6. ASSUME Prefix(s, t), Prefix(t, u)
      PROVE  PrecedesPrerelease(s, u)
  <2>1. SameStart(s, u)
    BY <1>1, <1>6 DEF SameStart
  <2>. QED  BY <1>1, <1>6, <2>1 DEF PrecedesPrerelease
<1>. QED  BY <1>2, <1>3, <1>4, <1>5, <1>6

\* The order of semantic versions is transitive: with the theorems above, versions
\* that fit can be taken for the numbers of their places in it.
THEOREM PrecedesTransitive ==
    ASSUME NEW u \in AllVersions, NEW v \in AllVersions, NEW w \in AllVersions,
           Precedes(u, v), Precedes(v, w)
    PROVE  Precedes(u, w)
<1>1. /\ u.core \in [1..3 -> Nat] /\ v.core \in [1..3 -> Nat] /\ w.core \in [1..3 -> Nat]
      /\ u.pre \in Seq(Identifiers) /\ v.pre \in Seq(Identifiers) /\ w.pre \in Seq(Identifiers)
  BY DEF AllVersions
<1>. DEFINE First(x, y, i) ==
         x.core[i] < y.core[i] /\ \A j \in 1..(i - 1) : x.core[j] = y.core[j]
            Later(x, y) == /\ x.core = y.core /\ x.pre # <<>>
                           /\ y.pre = <<>> \/ PrecedesPrerelease(x.pre, y.pre)
<1>2. \A x, y : Precedes(x, y) <=> (\E i \in 1..3 : First(x, y, i)) \/ Later(x, y)
  BY DEF Precedes
<1>3. ASSUME NEW i \in 1..3, First(u, v, i), NEW k \in 1..3, First(v, w, k)
      PROVE  Precedes(u, w)
  <2>1. /\ u.core[i] \in Nat /\ v.core[i] \in Nat /\ w.core[i] \in Nat
        /\ u.core[k] \in Nat /\ v.core[k] \in Nat /\ w.core[k] \in Nat
    BY <1>1, <1>3
  <2>2. CASE i <= k
    <3>1. u.core[i] < w.core[i]
      BY <1>3, <2>1, <2>2
    <3>2. \A j \in 1..(i - 1) : u.core[j] = w.core[j]
      BY <1>3, <2>2
    <3>. QED  BY <1>2, <1>3, <3>1, <3>2
  <2>3. CASE k < i
    <3>1. u.core[k] < w.core[k]
      BY <1>3, <2>1, <2>3
    <3>2. \A j \in 1..(k - 1) : u.core[j] = w.core[j]
      BY <1>3, <2>3
    <3>. QED  BY <1>2, <1>3, <3>1, <3>2
  <2>. QED  BY <2>2, <2>3
<1>4. ASSUME NEW i \in 1..3, First(u, v, i), Later(v, w) PROVE Precedes(u, w)
  BY <1>4 DEF Precedes
<1>5. ASSUME Later(u, v), NEW k \in 1..3, First(v, w, k) PROVE Precedes(u, w)
  BY <1>5 DEF Precedes
<1>6. ASSUME Later(u, v), Later(v, w) PROVE Precedes(u, w)
  <2>1. CASE w.pre = <<>>
    BY <1>6, <2>1 DEF Precedes
  <2>2. CASE w.pre # <<>>
    BY <1>1, <1>6, <2>2, PrereleaseTransitive DEF Precedes
  <2>. QED  BY <2>1, <2>2
<1>. QED  BY <1>2, <1>3, <1>4, <1>5, <1>6

-----------------------------------------------------------------------------
(* Versions as numbers. *)

\* comparePackageVersions orders any finitely many versions as their places among
\* them are ordered.  So SharedCache may take a version for a number, as long as
\* no number in it overflows an int and none has leading zeros.
THEOREM VersionsAreNumbers ==
    ASSUME NEW V \in SUBSET AllVersions, IsFiniteSet(V),
           \A v \in V : Fits(v),
           \A v, w \in V : Proper(v, w)
    PROVE  \E place \in [V -> Nat \ {0}] :
               \A v, w \in V : /\ Compare(v, w) < 0 <=> place[v] < place[w]
                               /\ Compare(v, w) > 0 <=> place[v] > place[w]
                               /\ place[v] = place[w] => v = w
<1>1. ASSUME NEW v \in V, NEW w \in V
      PROVE  /\ Compare(v, w) \in {-1, 0, 1}
             /\ Compare(v, w) + Compare(w, v) = 0
             /\ Compare(v, w) = 0 => v = w
             /\ Compare(v, w) = -1 <=> Precedes(v, w)
  <2>1. v \in AllVersions /\ w \in AllVersions /\ Parses(v) /\ Parses(w)
    BY DEF Fits
  <2>2. QED  BY <2>1, CompareAntisymmetric, CompareIsPrecedence
<1>2. \A v \in V : ~Precedes(v, v)
  <2> SUFFICES ASSUME NEW v \in V PROVE ~Precedes(v, v)
    OBVIOUS
  <2>1. Compare(v, v) \in {-1, 0, 1} /\ Compare(v, v) + Compare(v, v) = 0
    BY <1>1
  <2>2. Compare(v, v) # -1
    BY <2>1
  <2>3. QED  BY <1>1, <2>2
<1> DEFINE Below(v) == {u \in V : Precedes(u, v)}
<1>3. ASSUME NEW v \in V
      PROVE  IsFiniteSet(Below(v)) /\ Cardinality(Below(v)) \in Nat
  <2>1. Below(v) \subseteq V
    OBVIOUS
  <2>2. QED  BY <2>1, FS_Subset, FS_CardinalityType
<1>4. ASSUME NEW v \in V, NEW w \in V, Precedes(v, w)
      PROVE  Cardinality(Below(v)) < Cardinality(Below(w))
  <2>1. v \notin Below(v) /\ Below(v) \cup {v} \subseteq Below(w)
    <3>1. \A u \in Below(v) : Precedes(u, w)
      BY <1>4, PrecedesTransitive
    <3>2. QED  BY <1>2, <1>4, <3>1
  <2> HIDE DEF Below
  <2>2. Cardinality(Below(v) \cup {v}) = Cardinality(Below(v)) + 1
    BY <1>3, <2>1, FS_AddElement
  <2>3. Cardinality(Below(v) \cup {v}) <= Cardinality(Below(w))
    BY <1>3, <2>1, FS_Subset
  <2>4. QED  BY <1>3, <2>2, <2>3
<1> DEFINE place == [v \in V |-> Cardinality(Below(v)) + 1]
<1> HIDE DEF Below
<1>5. place \in [V -> Nat \ {0}]
  BY <1>3
<1>6. ASSUME NEW v \in V, NEW w \in V
      PROVE  /\ Compare(v, w) = -1 => place[v] < place[w]
             /\ Compare(v, w) = 1 => place[w] < place[v]
             /\ Compare(v, w) = 0 => v = w
  <2>1. Compare(v, w) = 1 => Compare(w, v) = -1
    BY <1>1
  <2>2. Precedes(v, w) => place[v] < place[w]
    BY <1>3, <1>4
  <2>3. Precedes(w, v) => place[w] < place[v]
    BY <1>3, <1>4
  <2>4. QED  BY <1>1, <2>1, <2>2, <2>3
<1> HIDE DEF place
<1>7. ASSUME NEW v \in V, NEW w \in V
      PROVE  /\ Compare(v, w) < 0 <=> place[v] < place[w]
             /\ Compare(v, w) > 0 <=> place[v] > place[w]
             /\ place[v] = place[w] => v = w
  <2>1. place[v] \in Nat /\ place[w] \in Nat
    BY <1>5
  <2>2. Compare(v, w) \in {-1, 0, 1}
    BY <1>1
  <2>3. QED  BY <1>6, <2>1, <2>2
<1>8. QED  BY <1>5, <1>7
=============================================================================
