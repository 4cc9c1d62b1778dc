-------------------------------- MODULE Srepr --------------------------------
(***************************************************************************)
(* The results of SymPy (src/sympy.cpp): SreprParser, which reads the      *)
(* constructor calls that srepr writes, and from_srepr, which makes a tree *)
(* of Facet of them.                                                       *)
(*                                                                         *)
(* A call is a compound, the value of a string or a number is a leaf of    *)
(* its kind, a name that is not called is a symbol.  Nothing stands for an *)
(* Error.                                                                  *)
(***************************************************************************)
EXTENDS Syntax, SequencesExt

Leaf(tag, text) == [tag |-> tag, text |-> text, args |-> << >>, attrs |-> NoAttrs]

Nothing == Leaf("Error", "")

Peek(s, i) == IF i <= Len(s) THEN s[i] ELSE ""
Took(value, i) == [value |-> value, at |-> i]
NothingAt == Took(Nothing, 0)

IsString(piece) == Len(piece) > 0 /\ Char(piece, 1) = "'"

(* SreprParser::expr, and the arguments of a call.  A keyword is passed    *)
(* over with its value.                                                    *)
RECURSIVE Expr(_, _), Arguments(_, _, _)

Arguments(s, i, call) ==
  LET keyword == IsWord(Peek(s, i)) /\ Peek(s, i + 1) = "="
      arg == Expr(s, IF keyword THEN i + 2 ELSE i)
      next == IF keyword THEN call ELSE [call EXCEPT !.args = Append(@, arg.value)]
  IN CASE arg.value = Nothing -> NothingAt
       [] arg.value # Nothing /\ Peek(s, arg.at) = "," -> Arguments(s, arg.at + 1, next)
       [] arg.value # Nothing /\ Peek(s, arg.at) = ")" -> Took(next, arg.at + 1)
       [] OTHER -> NothingAt

Expr(s, i) ==
  LET piece == Peek(s, i)
  IN CASE IsString(piece) -> Took(Leaf("Str", Rest(piece, 2)), i + 1)
       [] IsInteger(piece) -> Took(Num(piece), i + 1)
       [] IsWord(piece) /\ ~IsString(piece) /\ Peek(s, i + 1) # "(" ->
            Took(Sym(piece), i + 1)
       [] IsWord(piece) /\ ~IsString(piece) /\ Peek(s, i + 1) = "(" ->
            IF Peek(s, i + 2) = ")" THEN Took(Compound(piece, << >>), i + 3)
            ELSE Arguments(s, i + 2, Compound(piece, << >>))
       [] OTHER -> NothingAt

(* SreprParser::parse *)
ParseSrepr(s) ==
  LET all == Expr(s, 1) IN IF all.at = Len(s) + 1 THEN all.value ELSE Nothing

-----------------------------------------------------------------------------

(* An Error of a part is one of the whole. *)
Node(head, args) ==
  IF Nothing \in {args[k] : k \in DOMAIN args} THEN Nothing ELSE Compound(head, args)

Arg(v, k) == IF k <= Len(v.args) THEN v.args[k] ELSE Nothing

IsLiteral(v, text) == v = Compound("Integer", <<Num(text)>>)

Tuple(v, count) == IsCompound(v, "Tuple") /\ Len(v.args) = count

Reciprocal(v) == Binary(v, "Pow") /\ IsLiteral(v.args[2], "-1")

(* A mutant of Fold: one node for all of them. *)
FoldAtOnce(head, parts) == IF Len(parts) = 1 THEN parts[1] ELSE Node(head, parts)

(* fold_variadic *)
Fold(head, parts) ==
  FoldLeft(LAMBDA left, right : Node(head, <<left, right>>), parts[1], Tail(parts))

Relation ==
  "Equality" :> "=" @@ "Unequality" :> "!=" @@ "GreaterThan" :> ">="
    @@ "StrictGreaterThan" :> ">" @@ "LessThan" :> "<=" @@ "StrictLessThan" :> "<"

Called ==
  {"sin", "cos", "tan", "log", "sqrt", "exp", "erf", "erfc", "factorial", "gamma"}

Bounded == "Integral" :> "int" @@ "Sum" :> "sum" @@ "Product" :> "prod"

(* A mutant of Variables: once, however often it is differentiated by. *)
VariablesOnce(by) == IF Tuple(by, 2) THEN <<by.args[1]>> ELSE <<by>>

(* The variables of one argument of Derivative: a tuple of another count   *)
(* stays, and is refused.                                                  *)
Variables(by) ==
  CASE Tuple(by, 2) /\ IsLiteral(by.args[2], "2") -> <<by.args[1], by.args[1]>>
    [] Tuple(by, 2) /\ IsLiteral(by.args[2], "1") -> <<by.args[1]>>
    [] OTHER -> <<by>>

RECURSIVE FromSrepr(_)

(* from_srepr, Mul *)
Product(v) ==
  LET first == v.args[1]
      second == Arg(v, 2)
      two == Len(v.args) = 2
      minusOne == first = Num("-1") \/ IsLiteral(first, "-1")
  IN CASE two /\ minusOne -> Node("neg", <<FromSrepr(second)>>)
       [] two /\ ~minusOne /\ Reciprocal(second) ->
            Node("/", <<FromSrepr(first), FromSrepr(second.args[1])>>)
       [] two /\ ~minusOne /\ ~Reciprocal(second) /\ Reciprocal(first) ->
            Node("/", <<FromSrepr(second), FromSrepr(first.args[1])>>)
       [] OTHER -> Fold("*", [k \in DOMAIN v.args |-> FromSrepr(v.args[k])])

FromSrepr(v) ==
  LET count == Len(v.args)
      parts == [k \in 1 .. count |-> FromSrepr(v.args[k])]
  IN CASE v.tag # "Compound" -> v
       [] v.text = "Symbol" /\ count = 1 /\ Arg(v, 1).tag = "Str" ->
            Sym(IF v.args[1].text = "oo" THEN "inf" ELSE v.args[1].text)
       [] v.text = "Integer" /\ count = 1 -> Num(v.args[1].text)
       [] v.text = "Rational" /\ count = 2 -> Node("/", parts)
       [] v.text = "Float" /\ count > 0 -> Leaf("Real", v.args[1].text)
       [] v.text = "Add" /\ count > 0 -> Fold("+", parts)
       [] v.text = "Mul" /\ count > 0 -> Product(v)
       [] v.text = "Pow" /\ count = 2 -> Node("^", parts)
       [] v.text = "Abs" /\ count = 1 -> Node("abs", parts)
       [] v.text \in Called /\ count = 1 -> Node(v.text, parts)
       [] v.text \in DOMAIN Bounded /\ count = 2 /\ Tuple(Arg(v, 2), 3) ->
            LET over == [k \in 1 .. 3 |-> FromSrepr(v.args[2].args[k])]
            IN Node(Bounded[v.text],
                    <<Node("binder", <<over[1], Node("range", <<over[2], over[3]>>)>>),
                      parts[1]>>)
       [] v.text = "Limit" /\ count >= 3 ->
            Node("lim",
                 <<Node("binder", <<parts[2], Node("approach", <<parts[3]>>)>>),
                   parts[1]>>)
       [] v.text = "Derivative" /\ count >= 2 ->
            LET by == FlattenSeq([k \in 1 .. count - 1 |-> Variables(v.args[k + 1])])
            IN Node("diff", <<parts[1]>> \o [k \in DOMAIN by |-> FromSrepr(by[k])])
       [] v.text \in DOMAIN Relation /\ count = 2 -> Node(Relation[v.text], parts)
       [] v.text = "Lambda" /\ count = 2 ->
            LET bound == IF Tuple(v.args[1], 1) THEN FromSrepr(v.args[1].args[1]) ELSE parts[1]
            IN Node("lam", <<Node("binder", <<bound, Sym("_")>>), parts[2]>>)
       [] OTHER -> Nothing

=============================================================================
