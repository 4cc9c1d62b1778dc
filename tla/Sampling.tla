------------------------------- MODULE Sampling -------------------------------
(***************************************************************************)
(* Trees as numbers (src/sympy.cpp, eval_numeric_compare): the points at   *)
(* which two trees are compared and their values there.                    *)
(*                                                                         *)
(* A value is a fraction of integers.  The infinities are those over zero, *)
(* and 0/0 is not a number; rounding is left out but for sqrt, which is    *)
(* taken to a thousandth and stands for the functions of one argument.     *)
(***************************************************************************)
EXTENDS SyntaxTrees, FiniteSetsExt

CONSTANTS
  Alphabet,   \* the names of symbols in the order of std::string
  Terms       \* the trees and the trees in them

ASSUME SamplingAssumption ==
  /\ Alphabet \in Seq(STRING)
  /\ \A t \in Terms :
       /\ t.args \in Seq(Terms)
       /\ PartsOf(t) \subseteq Terms
       /\ t.tag = "Sym" =>
            t = Sym(t.text) /\ \E k \in DOMAIN Alphabet : Alphabet[k] = t.text
       /\ t.tag = "Int" => t.text \in {"0", "1", "2"}

(* Trees are finite: they have heights, above those of their parts. *)
AreHeights(height, bound) ==
  /\ bound \in Nat
  /\ height \in [Terms -> 0 .. bound]
  /\ \A t \in Terms : \A u \in PartsOf(t) : height[u] < height[t]

(* The greatest common divisor of two numbers. *)
Gcd[p \in Nat \X Nat] ==
  IF p[2] = 0 THEN p[1] ELSE Gcd[<<p[2], p[1] % p[2]>>]

Size(n) == IF n < 0 THEN -n ELSE n

Numbers == [n : Int, d : Nat]

(* One integer over another, in lowest terms, with its sign on top. *)
Fraction[q \in Int \X Int] ==
  LET common == Gcd[<<Size(q[1]), Size(q[2])>>]
      Part(k) == IF q[2] < 0 THEN (-k) \div common ELSE k \div common
  IN IF common = 0 THEN [n |-> 0, d |-> 0] ELSE [n |-> Part(q[1]), d |-> Part(q[2])]

IsFinite(v) == v.d # 0
NotANumber == Fraction[<<0, 0>>]

Negate[v \in Numbers] == Fraction[<<-(v.n), v.d>>]

(* The sum, the product and the quotient of the two numbers of a pair. *)
Plus[p \in Numbers \X Numbers] ==
  LET v == p[1]
      w == p[2]
  IN IF v = NotANumber \/ w = NotANumber THEN NotANumber
     ELSE IF v.d = w.d THEN Fraction[<<v.n + w.n, v.d>>]
     ELSE Fraction[<<v.n * w.d + w.n * v.d, v.d * w.d>>]

Times[p \in Numbers \X Numbers] == Fraction[<<p[1].n * p[2].n, p[1].d * p[2].d>>]

(* A finite number over infinity is zero; over zero it is infinite. *)
Over[p \in Numbers \X Numbers] ==
  LET v == p[1]
      w == p[2]
  IN IF w.n < 0 THEN Fraction[<<-(v.n * w.d), v.d * Size(w.n)>>]
                ELSE Fraction[<<v.n * w.d, v.d * w.n>>]

(* The root of a number of millionths, in thousandths. *)
RootOf[square \in Nat] ==
  CHOOSE r \in 0 .. 1000 + square \div 1000 :
    r * r <= square /\ square < (r + 1) * (r + 1)

SquareRoot[v \in Numbers] ==
  CASE v.n < 0 \/ v = NotANumber -> NotANumber
    [] v.n > 0 /\ ~IsFinite(v) -> v
    [] v.n >= 0 /\ IsFinite(v) -> Fraction[<<RootOf[(v.n * 1000 * 1000) \div v.d], 1000>>]

(* |v - w| > tol, with tol in thousandths. *)
Differ(v, w, tol) ==
  LET gap == Plus[<<v, Negate[w]>>]
  IN Size(gap.n) > (tol * gap.d) \div 1000

-----------------------------------------------------------------------------

Constant(name) ==
  CASE name = "pi" -> Fraction[<<3142, 1000>>]
    [] name = "e" -> Fraction[<<2718, 1000>>]

(* collect_numeric_symbols *)
Symbols[t \in Terms] ==
  IF t.tag = "Sym"
  THEN {t.text} \ {"pi", "e"}
  ELSE UNION {Symbols[u] : u \in PartsOf(t)}

(* The place of a name among others, counted from zero. *)
Place(name) == CHOOSE k \in 1 .. Len(Alphabet) : Alphabet[k] = name
Index(name, names) == Cardinality({n \in names : Place(n) < Place(name)})

(* A mutant of SampleValue: every variable has the same value. *)
SampleOnly(sample, index) ==
  LET value == (((sample + 1) * 3 * 37) % 2001) - 1000
  IN IF value = 0 THEN 125 ELSE value

(* sample_value, in thousandths *)
SampleValue(sample, index) ==
  LET value == (((sample + 1) * (index + 3) * 37) % 2001) - 1000
  IN IF value = 0 THEN 125 * (index + 1) ELSE value

Point(sample, names) ==
  [n \in names |-> Fraction[<<SampleValue(sample, Index(n, names)), 1000>>]]

-----------------------------------------------------------------------------

(* numeric_atom: the integers are written with one digit of these. *)
IntOf(text) ==
  CASE text = "0" -> 0
    [] text = "1" -> 1
    [] text = "2" -> 2

(* Whether the value of t is refused with an Error: that does not depend   *)
(* on the point.                                                           *)
Refused[t \in Terms] ==
  /\ t.tag = "Compound"
  /\ \/ t.attrs # NoAttrs
     \/ ~ \/ Unary(t, "neg") \/ Unary(t, "sqrt")
          \/ \E op \in {"+", "-", "*", "/"} : Binary(t, op)
     \/ \E k \in DOMAIN t.args : Refused[t.args[k]]

(* eval_numeric_compare at one node, from the values of its arguments.  An *)
(* Error, which Refused foretells, leaves no number.                       *)
ValueBy(values, t, point) ==
  LET Arg(k) == values[t.args[k]]
  IN CASE t.tag = "Int" -> Fraction[<<IntOf(t.text), 1>>]
       [] t.tag = "Sym" /\ t.text \in {"pi", "e"} -> Constant(t.text)
       [] /\ t.tag = "Sym"
          /\ t.text \in DOMAIN point \ {"pi", "e"} -> point[t.text]
       [] Unary(t, "neg") -> Negate[Arg(1)]
       [] Unary(t, "sqrt") -> SquareRoot[Arg(1)]
       [] Binary(t, "+") -> Plus[<<Arg(1), Arg(2)>>]
       [] Binary(t, "-") -> Plus[<<Arg(1), Negate[Arg(2)]>>]
       [] Binary(t, "*") -> Times[<<Arg(1), Arg(2)>>]
       [] Binary(t, "/") -> Over[<<Arg(1), Arg(2)>>]
       [] OTHER -> NotANumber

ValueAt(tree, point) ==
  LET At[t \in Terms] == ValueBy(At, t, point)
  IN At[tree]

=============================================================================
