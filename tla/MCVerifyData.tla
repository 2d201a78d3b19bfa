---------------------------- MODULE MCVerifyData ----------------------------
(* An instance of VerifyData, and with it of PackageUpdate, for TLC. *)
EXTENDS MCPackageUpdate, VerifyData

\* 1.0.0-2, 1.0.0-10 and the version that does not fit an int.
FewOffered == {Pre(<<Number(2, 2)>>), Pre(<<Number(10, 1)>>), Release(100)}
=============================================================================
