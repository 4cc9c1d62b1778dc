------------------------------- MODULE MCBridge -------------------------------
(* Trees of up to three operators whose operands are signed, nested on     *)
(* either side or compared, binders, calls, heads that are not mapped and  *)
(* contexts; and the forms in which SymPy may give what they are equal to. *)
EXTENDS Bridge

MCPoints ==
  {"x" :> 11 @@ "y" :> 23 @@ "pi" :> 29 @@ "inf" :> 71,
   "x" :> 40 @@ "y" :> 57 @@ "pi" :> 83 @@ "inf" :> 18,
   "x" :> 62 @@ "y" :> 35 @@ "pi" :> 14 @@ "inf" :> 90}

x == Sym("x")
y == Sym("y")
One(head, a) == Compound(head, <<a>>)
Two(head, a, b) == Compound(head, <<a, b>>)
Bind(head, domain, body) == Two(head, Two("binder", x, domain), body)
UpTo(a) == Two("range", Num("1"), a)

Under ==
  {x, Num("-1"), Sym("pi"), Sym("inf"), One("neg", y), Two("+", x, Num("1")),
   Two("-", x, y), Two("*", x, y), Two("/", x, y), Two("^", x, y),
   Two("^", x, Num("-1")), Two("<", x, y), One("sin", y), Two("*", One("neg", x), y)}

Arithmetic ==
  LET heads == DOMAIN Infix \cup {"="}
      nested == {Two(head, a, y) : head \in heads, a \in Under}
                  \cup {Two(head, x, a) : head \in heads, a \in Under}
                  \cup {One(head, a) : head \in {"neg", "abs"}, a \in Under}
  IN Under \cup nested
       \cup {Two(head, a, x) : head \in {"^", "-"}, a \in nested}
       \cup {Two(head, x, a) : head \in {"^", "/"}, a \in nested}

Calculus ==
  LET bodies == {x, Two("^", x, y), Two("+", x, y)}
  IN {Bind(head, UpTo(y), body) : head \in DOMAIN Integrals, body \in bodies}
       \cup {Bind("lim", One("approach", y), body) : body \in bodies}
       \cup {Bind("lam", Sym("_"), body) : body \in bodies}
       \cup {Compound("diff", <<body>> \o by) :
               body \in bodies, by \in {<<x>>, <<x, x>>, <<x, y>>, <<x, x, x>>}}
       \cup {Two("^", Bind("prod", UpTo(Num("2")), x), Num("-1"))}

Unfit ==
  {One("f", x), Two("+", x, One("f", One("g", y))), Compound("+", <<x, y, x>>),
   Bind("sum", y, x), Bind("lim", UpTo(y), x), One("diff", x), Compound("neg", << >>),
   One("rule", x), Two("^", x, Leaf("Rat", "1/2")),
   Two("*", x, With("sin", <<x>>, "when" :> One("f", x)))}
    \cup {UpTo(y), One("sin", UpTo(y)), Two("+", x, UpTo(y)), One("approach", y),
          Two("binder", x, y), One("f", UpTo(y)), Bind("sum", UpTo(y), UpTo(x)),
          Bind("lam", UpTo(y), x), Bind("int", UpTo(One("approach", y)), x)}

Conditions ==
  LET compared == {Two(op, x, Zero) : op \in DOMAIN PropertyOf}
                    \cup {Two(op, Zero, x) : op \in DOMAIN PropertyOf}
  IN compared
       \cup {Two("and", Two("<", Zero, y), c) : c \in compared}
       \cup {Two(">=", x, y), Two("=", x, Zero), x}

Contexts ==
  {With("sqrt", <<x>>, "assume" :> c) : c \in Conditions}
    \cup {With("+", <<x, y>>, "assume" :> c @@ "via" :> Sym("sympy")) : c \in Conditions}
    \cup {With("*", <<x, y>>, "via" :> via) : via \in {Sym("sympy"), Sym("fast")}}

MCTrees == Arithmetic \cup Calculus \cup Unfit \cup Contexts

-----------------------------------------------------------------------------

S(name) == One("Symbol", Leaf("Str", name))
I(n) == One("Integer", Num(n))
Minus(a) == Two("Mul", I("-1"), a)
Over(a) == Two("Pow", a, I("-1"))

Simple ==
  {S("x"), S("y"), With("Symbol", <<Leaf("Str", "x")>>, "positive" :> Sym("True")),
   I("1"), I("-1"), Two("Rational", Num("1"), Num("2")),
   With("Float", <<Leaf("Str", "0.5")>>, "precision" :> Num("53")),
   Sym("pi"), Sym("oo"), One("sin", S("y")), One("factorial", S("y"))}

Parts == Simple \cup {Minus(S("x")), Minus(S("y")), Over(S("x")), Over(S("y"))}

Composed ==
  {Two(head, a, b) : head \in {"Add", "Mul", "Pow", "Equality"}, a \in Parts, b \in Parts}
    \cup {Compound(head, <<a, b, c>>) : head \in {"Add", "Mul"},
            a \in {S("x"), I("-1")}, b \in {S("y"), Over(S("x")), Minus(S("y"))}, c \in Parts}
    \cup {One("Abs", a) : a \in Parts}
    \cup {Two("StrictLessThan", S("x"), S("y"))}

Held ==
  LET bodies == {S("x"), Two("Pow", S("x"), S("y")), Two("Add", S("y"), S("x"))}
      bounds == Compound("Tuple", <<S("x"), I("1"), S("y")>>)
      times(n) == Two("Tuple", S("x"), I(n))
  IN {Two(head, body, bounds) : head \in DOMAIN Bounded, body \in bodies}
       \cup {Compound("Limit", <<body, S("x"), S("y"), Leaf("Str", "+")>>) : body \in bodies}
       \cup {Two("Lambda", One("Tuple", S("x")), body) : body \in bodies}
       \cup {Compound("Derivative", <<body>> \o by) :
               body \in bodies,
               by \in {<<times("1")>>, <<times("2")>>, <<S("x"), times("1")>>,
                       <<S("x"), S("y")>>, <<times("3")>>}}
       \cup {Two("Pow", Two("Product", S("x"), Compound("Tuple", <<S("x"), I("1"), I("2")>>)),
                 I("-1"))}

MCReplies == Simple \cup Parts \cup Composed \cup Held

=============================================================================
