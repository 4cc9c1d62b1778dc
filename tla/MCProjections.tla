--------------------------- MODULE MCProjections ---------------------------
(* Leaves of every kind that a reader or a kernel makes, some of which a   *)
(* projection does not carry, in every place of a node.                    *)
EXTENDS Projections

Leaves ==
  {Sym("x"), Sym(")"), Sym("="), Num("1"), Num("-1"), Num("--1"),
   Leaf("Real", "1.5"), Leaf("Real", "1."), Leaf("Rat", "1/2"),
   Leaf("Str", ""), Leaf("Str", "a"), Leaf("Str", "a\"b"), Leaf("Str", "\\n"),
   Leaf("Str", "\n")}

Around(t) ==
  {Compound("f", <<t>>), Compound("=", <<Sym("x"), t>>), Compound("-", <<t, Num("1")>>),
   With("f", << >>, "via" :> t), With("=>", <<t, Sym("x")>>, "assume" :> t),
   With("f", <<Sym("assume")>>, ("assume" :> t) @@ ("when" :> Sym("x")))}

SomeTrees ==
  LET one == Leaves \cup UNION {Around(t) : t \in Leaves}
  IN one \cup UNION {Around(t) : t \in one \ Leaves} \cup {Compound("f", << >>), Sym("assume")}

HeightOf[t \in SomeTrees] ==
  LET parts == {HeightOf[u] : u \in PartsOf(t)}
  IN IF parts = {} THEN 0 ELSE 1 + CHOOSE h \in parts : \A g \in parts : g <= h

=============================================================================
