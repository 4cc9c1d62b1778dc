--------------------------- MODULE ComputerAlgebra ---------------------------
(***************************************************************************)
(* What src/sympy.cpp relies on and does not contain: how Python reads an  *)
(* expression, how srepr writes one, and when two expressions are equal.   *)
(*                                                                         *)
(* The value of an expression is a residue modulo Prime at a point, where  *)
(* each symbol has its value.  Sums, products, quotients and small integer *)
(* powers are those of the field; every other operation is some function   *)
(* of its operands, a different one for each, so that expressions with the *)
(* same value at all points are equal for a reason SymPy could know.       *)
(***************************************************************************)
EXTENDS Srepr

CONSTANTS
  Replies,  \* the expressions SymPy may return
  Prime,
  Points    \* the points: functions from the names of symbols to residues

-----------------------------------------------------------------------------

(* Python's grammar: what an operator binds by, and what its right operand *)
(* is read by.  ** takes a signed operand on its right, and a sign takes   *)
(* a ** in its operand.                                                    *)
Comparisons == {"==", "!=", "<", "<=", ">", ">="}

Binding(op) ==
  CASE op \in Comparisons -> <<1, 2>>
    [] op \in {"+", "-"} -> <<2, 3>>
    [] op \in {"*", "/"} -> <<3, 4>>
    [] op = "**" -> <<5, 4>>
    [] OTHER -> <<0, 0>>

(* A comparison of several operands is the "and" of the comparisons of     *)
(* every two neighbours: the last operand of a chain is compared again.    *)
IsChain(t) == t.text \in Comparisons \cup {"and"}

LastOperand(t) ==
  IF t.text = "and" THEN t.args[Len(t.args)].args[2] ELSE t.args[2]

Joined(op, left, right) ==
  IF op \in Comparisons /\ IsChain(left.value) /\ ~left.closed
  THEN LET next == Compound(op, <<LastOperand(left.value), right>>)
       IN IF left.value.text = "and"
          THEN [left.value EXCEPT !.args = Append(@, next)]
          ELSE Compound("and", <<left.value, next>>)
  ELSE Compound(op, <<left.value, right>>)

(* What was read, and whether parentheses keep it from a chain. *)
Got(value, at, closed) == [value |-> value, at |-> at, closed |-> closed]

RECURSIVE ReadFrom(_, _, _), ReadPrimary(_, _), ReadList(_, _), Climb(_, _, _)

(* The expressions of a list and what closes it. *)
ReadList(s, before) ==
  LET Add(item) == Took(Append(before.value, item.value), item.at)
      List(so) == IF Peek(s, so.at) = "," THEN ReadList(s, [so EXCEPT !.at = @ + 1])
                  ELSE [so EXCEPT !.at = @ + 1]
  IN IF Peek(s, before.at) = ")" THEN [before EXCEPT !.at = @ + 1]
     ELSE List(Add(ReadFrom(s, before.at, 1)))

ReadPrimary(s, i) ==
  LET Group(list) ==
        Got(IF Len(list.value) = 1 THEN list.value[1] ELSE Compound("Tuple", list.value),
            list.at, TRUE)
      Applied(list) ==
        Got(Compound(s[i], list.value),
            IF Peek(s, list.at) = ".doit()" THEN list.at + 1 ELSE list.at, TRUE)
  IN CASE s[i] = "(" -> Group(ReadList(s, Took(<< >>, i + 1)))
       [] s[i] # "(" /\ Peek(s, i + 1) = "(" ->
            Applied(ReadList(s, Took(<< >>, i + 2)))
       [] OTHER -> Got(IF IsNumeral(s[i]) THEN Num(s[i]) ELSE Sym(s[i]), i + 1, TRUE)

(* On with the operators that bind by least or more. *)
Climb(s, left, least) ==
  LET op == Peek(s, left.at)
      Joining(right) == Got(Joined(op, left, right.value), right.at, FALSE)
  IN IF Binding(op)[1] < least THEN left
     ELSE Climb(s, Joining(ReadFrom(s, left.at + 1, Binding(op)[2])), least)

ReadFrom(s, i, least) ==
  LET Minus(operand) == Got(Compound("neg", <<operand.value>>), operand.at, TRUE)
  IN Climb(s, IF s[i] = "-" THEN Minus(ReadFrom(s, i + 1, 4)) ELSE ReadPrimary(s, i),
           least)

ReadPython(s) == ReadFrom(s, 1, 1).value

-----------------------------------------------------------------------------

(* srepr, with the keywords of a constructor. *)
RECURSIVE SreprTokens(_)
SreprTokens(v) ==
  CASE v.tag = "Str" -> <<"'" \o v.text>>
    [] v.tag \in {"Sym", "Int"} -> <<v.text>>
    [] v.tag = "Compound" ->
         LET parts == [k \in DOMAIN v.args |-> SreprTokens(v.args[k])]
                        \o SetToSeq({<<key, "=">> \o SreprTokens(v.attrs[key]) :
                                       key \in DOMAIN v.attrs})
         IN <<v.text, "(">>
              \o FlattenSeq([k \in DOMAIN parts |->
                               (IF k = 1 THEN << >> ELSE <<",">>) \o parts[k]])
              \o <<")">>

-----------------------------------------------------------------------------

(* One name for what Facet, Python and SymPy call differently. *)
Names ==
  "Add" :> "+" @@ "Mul" :> "*" @@ "Pow" :> "^" @@ "**" :> "^" @@ "==" :> "="
    @@ "Eq" :> "=" @@ "Ne" :> "!=" @@ "Gt" :> ">" @@ "Ge" :> ">=" @@ "Lt" :> "<"
    @@ "Le" :> "<=" @@ Relation @@ Bounded @@ "Abs" :> "abs"
    @@ "integrate" :> "int" @@ "summation" :> "sum" @@ "Limit" :> "lim"
    @@ "limit" :> "lim" @@ "Derivative" :> "diff" @@ "Lambda" :> "lam"
    @@ "math.sin" :> "sin" @@ "math.sqrt" :> "sqrt" @@ "math.pi" :> "pi"
    @@ "infinity" :> "inf" @@ "oo" :> "inf" @@ "Rational" :> "/"

Named(word) == IF word \in DOMAIN Names THEN Names[word] ELSE word

(* A variable and its bounds are operands as the others.  What Facet keeps *)
(* in a binder comes first there and last in the other two; (x, n) after a *)
(* derivative is n times x.                                                *)
Flat(operand) ==
  CASE Tuple(operand, 2) /\ operand.args[2].tag = "Compound" ->
         [k \in 1 .. (CHOOSE n \in 1 .. 3 : IsLiteral(operand.args[2], ToString(n)))
            |-> operand.args[1]]
    [] Tuple(operand, 1) \/ Tuple(operand, 3) -> operand.args
    [] OTHER -> <<operand>>

Plain(t) ==
  IF Len(t.args) = 2 /\ IsCompound(t.args[1], "binder")
  THEN LET over == t.args[1].args[2]
       IN <<t.args[2], t.args[1].args[1]>>
            \o (IF over.tag = "Compound" THEN over.args ELSE << >>)
  ELSE LET all == FlattenSeq([k \in DOMAIN t.args |-> Flat(t.args[k])])
       IN IF t.text = "lam" \/ t.text = "Lambda" THEN Reverse(all)
          ELSE IF t.text = "Limit" THEN SubSeq(all, 1, 3) ELSE all

InverseOf(n) == IF n = 0 THEN 0 ELSE CHOOSE k \in 1 .. Prime - 1 : (k * n) % Prime = 1

Literal ==
  "0" :> 0 @@ "1" :> 1 @@ "2" :> 2 @@ "3" :> 3 @@ "0.5" :> InverseOf(2)
    @@ "1/2" :> InverseOf(2)

Negative(n) == (Prime - n) % Prime

Codes ==
  <<"sin", "cos", "sqrt", "abs", "int", "sum", "prod", "lim", "diff", "lam", "=",
    "!=", ">", ">=", "<", "<=", "and", "^">>
Code(name) == CHOOSE k \in 1 .. Len(Codes) : Codes[k] = name

Some(name, values) ==
  FoldLeft(LAMBDA so, v : (5 * so * so + 7 * v + 3) % Prime, Code(name), values)

Power(b, e) ==
  CASE e \in 0 .. 3 -> FoldLeft(LAMBDA so, k : (so * b) % Prime, 1, [k \in 1 .. e |-> k])
    [] e = Prime - 1 -> InverseOf(b)
    [] OTHER -> Some("^", <<b, e>>)

RECURSIVE ValueAt(_, _)
ValueAt(t, point) ==
  LET name == Named(t.text)
      v == [k \in DOMAIN Plain(t) |-> ValueAt(Plain(t)[k], point)]
  IN CASE IsNegative(t.text) -> Negative(Literal[Rest(t.text, 2)])
       [] t.text \in DOMAIN Literal -> Literal[t.text]
       [] t.tag # "Compound" /\ name \in DOMAIN point -> point[name]
       [] t.text \in {"Symbol", "Integer", "Float"} -> v[1]
       [] name = "+" ->
            FoldLeft(LAMBDA so, next : (so + next) % Prime, 0, v)
       [] name = "*" ->
            FoldLeft(LAMBDA so, next : (so * next) % Prime, 1, v)
       [] name = "-" -> (v[1] + Negative(v[2])) % Prime
       [] name = "/" -> (v[1] * InverseOf(v[2])) % Prime
       [] name = "neg" -> Negative(v[1])
       [] name = "^" -> Power(v[1], v[2])
       [] name = "factorial" ->  \* the product of x from 1 to its operand
            Some("prod", <<point["x"], point["x"], 1, v[1]>>)
       [] OTHER -> Some(name, v)

Value(t) == [point \in Points |-> ValueAt(t, point)]

ValueOf == [r \in Replies |-> Value(r)]

=============================================================================
