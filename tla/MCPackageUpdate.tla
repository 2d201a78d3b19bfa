-------------------------- MODULE MCPackageUpdate --------------------------
(* Instances of PackageUpdate for TLC. *)
EXTENDS PackageUpdate

Number(n, text) == [text |-> text, number |-> n]
Word(text)      == [text |-> text, number |-> NotNumber]

Release(n)      == [core |-> <<1, 0, n>>, pre |-> <<>>]
Pre(ids)        == [core |-> <<1, 0, 0>>, pre |-> ids]

\* 1.0.0-2, 1.0.0-10, 1.0.0-a, 1.0.0 and 1.0.100, of which the last does not
\* fit an int.  As strings, "10" < "2" < "a".
FewVersions == {Pre(<<Number(2, 2)>>), Pre(<<Number(10, 1)>>), Pre(<<Word(3)>>),
                Release(0), Release(100)}

TheEmbedded == Pre(<<Number(10, 1)>>)
=============================================================================
