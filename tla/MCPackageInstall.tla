-------------------------- MODULE MCPackageInstall --------------------------
(* An instance of PackageInstall for TLC. *)
EXTENDS PackageInstall, TLC

CONSTANTS p1, p2, b1, b2

Symmetry == {f @@ g : f \in Permutations(Procs), g \in Permutations(Builds)}
=============================================================================
