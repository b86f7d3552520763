-------------------------- MODULE MCReleaseValues ---------------------------
(* Values of up to two keys, one of them nested, for ReleaseValues. *)
EXTENDS ReleaseValues

Num(value) == Scalar("int", value)
Txt(value) == Scalar("str", value)
Million == Scalar("float", "1e+06")
Empty == Mapping(<<>>)
Under(key, node) == Mapping(key :> node)
Volume(name) == Under("name", Txt(name))

Defaults ==
    {Num("1"), Txt("x"), Null, Sequence(<<>>), Sequence(<<Txt("x"), Num("1")>>), Sequence(<<Volume("v")>>),
     Empty, Under("size", Num("1")), Under("size", Sequence(<<Txt("x")>>))}
Overrides ==
    {Num("2"), Txt("y"), Txt("1"), Null, Million, Sequence(<<Txt("y"), Txt("x"), Txt("y")>>),
     Sequence(<<Volume("v"), Volume("w")>>), Under("size", Num("2")), Under("size", Sequence(<<Num("2")>>)),
     Under("class", Txt("y"))}

SomeCharts == {NoNode, Empty} \cup {Under("a", node) : node \in Defaults}
              \cup {[kind |-> "mapping", of |-> [a |-> Num("1"), b |-> Under("size", Num("1"))]]}
SomeReleases == {Empty} \cup {Under("a", node) : node \in Overrides}
                \cup {[kind |-> "mapping", of |-> [a |-> Million, b |-> node]] : node \in {Txt("y"), Under("size", Num("2"))}}
SomeEdits == {Txt("z"), Num("1000000"), Null, Sequence(<<Txt("z")>>), Under("size", Num("2"))}
=============================================================================
