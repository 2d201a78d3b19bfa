---------------------------- MODULE PackageStore ----------------------------
(***************************************************************************)
(* What the directory of one version is to those who take its lock: the    *)
(* four states SharedCache knows, and how they may change.                 *)
(***************************************************************************)
CONSTANT Nobody

VARIABLES
    package,  \* absent, partial, unreadable or valid
    holder    \* who holds the version lock

Packages == {"absent", "partial", "unreadable", "valid"}

\* A new cache, or one earlier processes have left behind.
Init == package \in Packages /\ holder = Nobody

\* A lock that is held goes to nobody else before it is free.
Kept == holder' \in {holder, Nobody}

\* A task gets the free lock, or its holder lets it go or dies.
Pass == package' = package /\ (holder = Nobody \/ Kept)

\* RemoveAll by the holder: first parts are gone, then the directory.
Break == holder # Nobody /\ package # "absent" /\ package' = "partial" /\ Kept

Clear ==
    holder # Nobody /\ package \in {"absent", "partial"} /\ package' = "absent" /\ Kept

\* The rename by the holder: the only way to a package, and never over one.
Publish == holder # Nobody /\ package = "absent" /\ package' = "valid" /\ Kept

\* Damage from outside, a power failure included, and an I/O error that passes.
Spoil == package \in {"valid", "unreadable"} /\ package' = "unreadable" /\ Kept

Heal == package = "unreadable" /\ package' = "valid" /\ holder' = holder

Next == Pass \/ Break \/ Clear \/ Publish \/ Spoil \/ Heal

Spec == Init /\ [][Next]_<<package, holder>>
=============================================================================
