---------------------------- MODULE KernelSource ----------------------------
(***************************************************************************)
(* The source text of a kernel (src/sympy.cpp): the mapping tables of the  *)
(* manifests, the coverage of a tree by a table, and the writer.           *)
(*                                                                         *)
(* A text is the sequence of its tokens as Python takes them: a negative   *)
(* literal is two, and a rational, which is written n/d, is three.         *)
(***************************************************************************)
EXTENDS Syntax, SequencesExt

Infix == "+" :> "+" @@ "-" :> "-" @@ "*" :> "*" @@ "/" :> "/" @@ "^" :> "**"

InfixLevel == "+" :> 50 @@ "-" :> 50 @@ "*" :> 60 @@ "/" :> 60 @@ "^" :> 70

Functions ==
  [sympy |->
     "sin" :> "sin" @@ "cos" :> "cos" @@ "tan" :> "tan" @@ "log" :> "log"
       @@ "sqrt" :> "sqrt" @@ "simplify" :> "simplify" @@ "expand" :> "expand"
       @@ "exp" :> "exp" @@ "abs" :> "Abs" @@ "factor" :> "factor",
   python |->
     "sin" :> "math.sin" @@ "cos" :> "math.cos" @@ "tan" :> "math.tan"
       @@ "log" :> "math.log" @@ "sqrt" :> "math.sqrt" @@ "exp" :> "math.exp"]

Relations ==
  [sympy |-> "=" :> "Eq" @@ "!=" :> "Ne" @@ ">" :> "Gt" @@ ">=" :> "Ge"
               @@ "<" :> "Lt" @@ "<=" :> "Le",
   python |-> "=" :> "==" @@ "!=" :> "!=" @@ ">" :> ">" @@ ">=" :> ">="
                @@ "<" :> "<" @@ "<=" :> "<="]

Integrals == "int" :> "integrate" @@ "sum" :> "summation" @@ "prod" :> "Product"

(* The heads that are in the tables. *)
Mapped(kernel) ==
  DOMAIN Infix \cup DOMAIN Functions[kernel] \cup DOMAIN Relations[kernel]
    \cup (IF kernel = "sympy" THEN DOMAIN Integrals \cup {"lim", "diff", "lam"}
                              ELSE {})

-----------------------------------------------------------------------------

(* A mutant of Supports: whatever a table maps. *)
SupportsOfAny(kernel, head) ==
  head \in Mapped("sympy") \cup {"neg", "binder", "range", "approach"}

(* coverage_supports_head *)
Supports(kernel, head) ==
  \/ head \in Mapped(kernel)
  \/ head = "neg"
  \/ kernel = "sympy" /\ head \in {"binder", "range", "approach"}

(* The trees under t, and the step of a path that leads to each. *)
Steps(t) ==
  [k \in DOMAIN t.args |->
     [step |-> "args[" \o ToString(k - 1) \o "]", tree |-> t.args[k]]]
    \o [k \in DOMAIN SelectSeq(AttrKeys, LAMBDA key : key \in DOMAIN t.attrs) |->
          LET key == SelectSeq(AttrKeys, LAMBDA a : a \in DOMAIN t.attrs)[k]
          IN [step |-> "attrs[" \o key \o "]", tree |-> t.attrs[key]]]

(* coverage_walk: Coverage.missing *)
RECURSIVE Missing(_, _, _)
Missing(t, kernel, path) ==
  LET Unmapped(head) == <<[head |-> head, path |-> path]>>
      here == CASE t.attrs # NoAttrs -> Unmapped(t.text \o ":attrs")
                [] t.attrs = NoAttrs /\ ~Supports(kernel, t.text) -> Unmapped(t.text)
                [] OTHER -> << >>
      steps == Steps(t)
  IN IF t.tag # "Compound" THEN << >>
     ELSE here \o FlattenSeq([k \in DOMAIN steps |->
                    Missing(steps[k].tree, kernel, Append(path, steps[k].step))])

Covered(t, kernel) == Missing(t, kernel, << >>) = << >>

-----------------------------------------------------------------------------

(* (head (binder variable (domain ...)) body) *)
Binds(t, domain, count) ==
  /\ Len(t.args) = 2
  /\ IsCompound(t.args[1], "binder")
  /\ Len(t.args[1].args) = 2
  /\ LET over == t.args[1].args[2]
     IN domain = "" \/ (IsCompound(over, domain) /\ Len(over.args) = count)

(* What an operator takes, in the order in which it is written. *)
Operands(t) ==
  CASE t.text \in DOMAIN Integrals ->
         <<t.args[2], t.args[1].args[1]>> \o t.args[1].args[2].args
    [] t.text = "lim" -> <<t.args[2], t.args[1].args[1], t.args[1].args[2].args[1]>>
    [] t.text = "lam" -> <<t.args[1].args[1], t.args[2]>>
    [] OTHER -> t.args

(* Whether a covered tree is written, and not refused with an Error. *)
RECURSIVE IsWritten(_, _)
IsWritten(t, kernel) ==
  t.tag # "Compound"
    \/ /\ CASE t.text \in DOMAIN Infix \cup DOMAIN Relations[kernel] -> Len(t.args) = 2
            [] t.text = "neg" -> Len(t.args) = 1
            [] t.text \in DOMAIN Functions[kernel] -> TRUE
            [] t.text \in DOMAIN Integrals -> Binds(t, "range", 2)
            [] t.text = "lim" -> Binds(t, "approach", 1)
            [] t.text = "lam" -> Binds(t, "", 0)
            [] t.text = "diff" -> Len(t.args) >= 2
            [] OTHER -> FALSE
       /\ \A k \in DOMAIN Operands(t) : IsWritten(Operands(t)[k], kernel)

(* sympy_atom *)
AtomTokens(t, kernel) ==
  CASE t.text \in {"inf", "infinity"} -> <<"oo">>
    [] t.text = "pi" /\ kernel = "python" -> <<"math.pi">>
    [] t.tag = "Rat" ->
         LET slash == CHOOSE k \in 1 .. Len(t.text) : Char(t.text, k) = "/"
         IN <<SubSeq(t.text, 1, slash - 1), "/", Rest(t.text, slash + 1)>>
    [] IsNegative(t.text) -> <<"-", Rest(t.text, 2)>>
    [] OTHER -> <<t.text>>

Parenthesized(tokens) == <<"(">> \o tokens \o <<")">>

(* sympy_wrap *)
Wrap(tokens, level, outer) ==
  IF level < outer THEN Parenthesized(tokens) ELSE tokens

Call(name, parts) ==
  <<name>> \o Parenthesized(
    FlattenSeq([k \in DOMAIN parts |->
                  (IF k = 1 THEN << >> ELSE <<",">>) \o parts[k]]))

(* A mutant of Base: as it is written. *)
BaseAsWritten(tokens, kernel) == tokens

(* The base of a power in sympy: - binds less than **. *)
Base(tokens, kernel) ==
  IF kernel = "sympy" /\ tokens[1] = "-" THEN Parenthesized(tokens) ELSE tokens

(* print_source_prec and print_sympy_prec *)
RECURSIVE Tokens(_, _, _)
Tokens(t, kernel, outer) ==
  LET Operand(k, level) == Tokens(Operands(t)[k], kernel, level)
      parts == [k \in DOMAIN Operands(t) |-> Operand(k, 0)]
      bounds == Parenthesized(parts[2] \o <<",">> \o parts[3] \o <<",">> \o parts[4])
      level == InfixLevel[t.text]
  IN CASE t.tag # "Compound" -> AtomTokens(t, kernel)
       [] t.text = "neg" -> Wrap(<<"-">> \o Operand(1, 80), 80, outer)
       [] t.text = "^" ->
            Wrap(Base(Operand(1, level + 1), kernel) \o <<"**">> \o Operand(2, level),
                 level, outer)
       [] t.text \in DOMAIN Infix \ {"^"} ->
            Wrap(Operand(1, level) \o <<Infix[t.text]>> \o Operand(2, level + 1),
                 level, outer)
       [] t.text \in DOMAIN Relations.python /\ kernel = "python" ->
            Wrap(Operand(1, 30) \o <<Relations.python[t.text]>> \o Operand(2, 31),
                 30, outer)
       [] t.text \in DOMAIN Relations.sympy /\ kernel = "sympy" ->
            Call(Relations.sympy[t.text], parts)
       [] t.text \in DOMAIN Functions[kernel] -> Call(Functions[kernel][t.text], parts)
       [] t.text \in DOMAIN Integrals ->
            Call(Integrals[t.text], <<parts[1], bounds>>)
              \o (IF t.text = "prod" THEN <<".doit()">> ELSE << >>)
       [] t.text = "lim" -> Call("limit", parts)
       [] t.text = "lam" -> Call("Lambda", parts)
       [] t.text = "diff" -> Call("diff", parts)

(* print_sympy and print_source: the text as the one member of a set. *)
Source(t, kernel) ==
  IF Covered(t, kernel) /\ IsWritten(t, kernel) THEN {Tokens(t, kernel, 0)} ELSE {}

=============================================================================
