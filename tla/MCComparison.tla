----------------------------- MODULE MCComparison -----------------------------
(* Every two of eighteen trees in every mode: sums of two or three symbols *)
(* in several forms, quotients that are not finite at some samples or at   *)
(* all, and trees that one mode or another refuses.                        *)
EXTENDS Comparison

MCAlphabet == <<"e", "pi", "x", "y", "z">>

x == Sym("x")
y == Sym("y")
z == Sym("z")
Op(head, a, b) == Compound(head, <<a, b>>)
Root(t) == Compound("sqrt", <<t>>)
Zero == Op("-", x, x)
Unknown == Compound("f", <<x>>)
Assumed == With("+", <<x, y>>, "assume" :> x)

(* Trees that are equal for SymPy; the others are only equal to themselves. *)
Classes ==
  {{Op("+", x, y), Op("+", y, x)}, {y, Op("+", x, Op("-", y, x))},
   {Num("0"), Zero}, {Num("1"), Op("/", x, x), Op("*", Op("/", Num("1"), y), y)},
   {z, Op("*", Root(z), Root(z))}}

MCTrees ==
  UNION Classes
    \cup {x, Sym("pi"), Sym("e"), Compound("neg", <<z>>), Op("/", Num("1"), Zero),
          Unknown, Assumed}

MCTerms ==
  MCTrees \cup {Op("-", y, x), Op("/", Num("1"), y), Root(z)}

MCNormal ==
  [t \in MCTrees |->
     IF \E c \in Classes : t \in c
     THEN CHOOSE r \in CHOOSE c \in Classes : t \in c : TRUE
     ELSE t]

MCUnwritable == {Unknown, Assumed}

Plain(mode) == [mode |-> mode, items |-> "read", samples |-> 0, tol |-> 0]
NumericBy(samples, tol) ==
  [mode |-> "numeric", items |-> "read", samples |-> samples, tol |-> tol]
Illegible == [NumericBy(3, 5) EXCEPT !.items = "refused"]

(* Ten samples are the first at which z may be positive, z being the third *)
(* of three symbols, and a tolerance of 5 is above the rounding of sqrt.   *)
MCModes ==
  {Plain("structural"), Plain("simplify"), Plain("theory"), Illegible,
   NumericBy(0, 5), NumericBy(3, -1),
   NumericBy(1, 0), NumericBy(3, 5), NumericBy(12, 5), NumericBy(12, 500)}

(* The trees have heights, as the proof about SymbolsAreToldApart asks. *)
MCHeight[t \in MCTerms] ==
  IF PartsOf(t) = {} THEN 0 ELSE 1 + Max({MCHeight[u] : u \in PartsOf(t)})

ASSUME AreHeights(MCHeight, 3)

(* What a proof about FailMeansDifferent takes of SymPy holds of MCNormal. *)
ASSUME EqualTreesAgree

=============================================================================
