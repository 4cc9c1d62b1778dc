----------------------------- MODULE MCSurface -----------------------------
(* Texts over a few small sets of tokens, each of which is for one part of *)
(* the syntax, and trees that put every form in every place of every other *)
(* form.                                                                   *)
EXTENDS Surface

SomeAlphabets ==
  {{"x", "-", "1", "+", "(", ")", "^", "=>"},
   {"x", "[", "]", "end", ",", "..", "="},
   {"x", "{", "}", "|", ":", ",", "dict"}}

Differences == {{"x", "-"}}

NoTrees == {}

Leaves == {Sym("x"), Num("1"), Num("-1"), Meta("a", "seq")}

(* The nodes that have t as a part. *)
Around(t) ==
  LET x == Sym("x")
      bind(d) == Compound("binder", <<x, d>>)
  IN UNION {{Compound(op, <<t, x>>), Compound(op, <<x, t>>)} :
              op \in {"+", "-", "*", "^", "=", "=>", "->", "range", "|>", "@"}}
     \cup {Compound("neg", <<t>>), Compound("f", <<t>>),
           With("f", <<x>>, "assume" :> t),
           With("f", <<t>>, "style" :> Compound("style", <<x>>)),
           Compound("lam", <<Compound("binder", <<t, Sym("_")>>), x>>),
           Compound("lam", <<bind(Sym("_")), t>>),
           Indexed(t, <<x>>), Indexed(x, <<t, x>>),
           Indexed(x, <<Compound("range", <<t, x>>)>>),
           Indexed(x, <<With("range", <<x, t>>, "step" :> x), x>>),
           Compound("sum", <<bind(t), x>>), Compound("sum", <<bind(x), t>>),
           Compound("lim", <<bind(Compound("approach", <<t>>)), x>>),
           Compound("setbuild", <<t, bind(x)>>),
           With("setbuild", <<x, bind(t)>>, "when" :> t),
           Compound("dict", <<Compound("pair", <<t, x>>)>>),
           Compound("dict", <<Compound("pair", <<x, t>>)>>),
           Compound("seq", <<t, x>>), Compound("diff", <<t, x>>),
           Compound("broadcast", <<x, Compound("args", <<t>>)>>),
           Compound("subst", <<t, x>>), Compound("subst", <<x, t>>)}

SomeTrees ==
  LET one == Leaves \cup UNION {Around(t) : t \in Leaves}
  IN one \cup UNION {Around(t) : t \in one}

=============================================================================
