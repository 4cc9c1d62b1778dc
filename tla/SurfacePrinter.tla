--------------------------- MODULE SurfacePrinter ---------------------------
(***************************************************************************)
(* The writer of the surface syntax (src/facet.cpp, print_surface_prec):   *)
(* the tokens of a tree, with parentheses where its operator binds less    *)
(* than the one around it.  Glue stands for text written without a blank.  *)
(***************************************************************************)
EXTENDS Syntax, SequencesExt

RECURSIVE PrintPrec(_, _)

(* join(parts, ", ") *)
Join(parts) ==
  FoldLeft(LAMBDA all, part : IF all = << >> THEN part ELSE all \o <<",">> \o part,
           << >>, parts)

PrintAll(trees) == Join([k \in DOMAIN trees |-> PrintPrec(trees[k], 0)])

Parens(prec, parent, text) ==
  IF prec < parent THEN <<"(">> \o text \o <<")">> ELSE text

(* binder_surface; it throws for any other node. *)
IsBinder(t) == IsCompound(t, "binder")

PrintBinder(b) ==
  IF Unary(b.args[2], "approach")
  THEN PrintPrec(b.args[1], 0) \o <<"->">> \o PrintPrec(b.args[2].args[1], 0)
  ELSE PrintPrec(b.args[1], 0) \o <<":">> \o PrintPrec(b.args[2], 0)

(* surface_attr_suffix *)
RECURSIVE PrintSuffix(_, _)
PrintSuffix(t, k) ==
  IF k > Len(AttrKeys)
  THEN << >>
  ELSE LET key == AttrKeys[k]
           value == t.attrs[key]
           context == IF key \in {"style", "view", "render"} /\ IsCompound(value, key)
                      THEN PrintAll(value.args) ELSE PrintPrec(value, 0)
       IN (IF key \in DOMAIN t.attrs
           THEN <<"@", key, "(">> \o context \o <<")">> ELSE << >>)
            \o PrintSuffix(t, k + 1)

Suffix(t) == PrintSuffix(t, 1)

(* bracket_arg_surface *)
RECURSIVE PrintIndex(_, _, _)
PrintIndex(t, target, axis) ==
  CASE t = Compound("end", <<target, Num(ToString(axis))>>) -> <<"end">>
    [] Binary(t, "range") ->
         PrintIndex(t.args[1], target, axis) \o <<"..">>
           \o PrintIndex(t.args[2], target, axis)
           \o (IF "step" \in DOMAIN t.attrs
               THEN <<",", "step", "=">> \o PrintPrec(t.attrs["step"], 0) ELSE << >>)
    [] OTHER -> PrintPrec(t, 0)

PrintIndices(t) ==
  PrintPrec(t.args[1], 80) \o <<"[">>
    \o Join([k \in 1 .. Len(t.args) - 1 |-> PrintIndex(t.args[k + 1], t.args[1], k)])
    \o <<"]">>

When(attrs, before) ==
  IF "when" \in DOMAIN attrs THEN <<before>> \o PrintPrec(attrs["when"], 0) ELSE << >>

PrintPair(t) ==
  IF Binary(t, "pair")
  THEN PrintPrec(t.args[1], 0) \o <<":">> \o PrintPrec(t.args[2], 0)
  ELSE PrintPrec(t, 0)

(* The indices of an idx that is not a single lower one. *)
RECURSIVE PrintSubscripts(_, _)
PrintSubscripts(text, indices) ==
  IF indices = << >>
  THEN text
  ELSE LET t == Head(indices)
           arg == PrintPrec(t.args[1], 80)
       IN PrintSubscripts(
            CASE Unary(t, "up") -> text \o <<"^">> \o arg
              [] Unary(t, "down") -> Glue(Glue(text, <<"_">>), arg)
              [] OTHER -> Glue(text, <<"_">>) \o <<"{">> \o PrintPrec(t, 0) \o <<"}">>,
            Tail(indices))

(* A mutant of PrintInfix: every operator grouped as one that associates to  *)
(* the left.                                                               *)
PrintInfixLeft(t, parent) ==
  LET prec == Prec(t.text)
      glyph == IF t.text = "range" THEN ".." ELSE t.text
  IN Parens(prec, parent,
       PrintPrec(t.args[1], prec) \o <<glyph>> \o PrintPrec(t.args[2], prec + 1))

(* Infix operators; a range is written without blanks. *)
PrintInfix(t, parent) ==
  LET prec == Prec(t.text)
      right == RightAssoc(t.text)
      glyph == IF t.text = "range" THEN ".." ELSE t.text
  IN Parens(prec, parent,
       PrintPrec(t.args[1], IF right THEN prec + 1 ELSE prec) \o <<glyph>>
         \o PrintPrec(t.args[2], IF right THEN prec ELSE prec + 1))

PrintMeta(t) ==
  LET kind == IF "kind" \in DOMAIN t.attrs THEN t.attrs["kind"].text ELSE ""
  IN Glue(Glue(<<"?">>, PrintPrec(t.args[1], 0)),
          CASE kind = "seq" -> <<"...">> [] kind = "seq?" -> <<"...?">>
            [] OTHER -> << >>)

IsRule(t) ==
  /\ Binary(t, "rule") /\ t.args[1].tag = "Sym"
  /\ t.args[2].tag = "Compound" /\ t.args[2].text = "forall" /\ t.args[2].args # << >>

BinderFirst(t) == Len(t.args) = 2 /\ IsBinder(t.args[1])

(* The forms are tried in this order. *)
PrintPrec(t, parent) ==
  IF t.tag # "Compound" THEN Spelled(t.text)
  ELSE IF IsRule(t) THEN
    <<"rule", t.args[1].text, ":">> \o PrintPrec(t.args[2].args[Len(t.args[2].args)], 0)
      \o When(t.args[2].attrs, "when")
  ELSE IF Binary(t, "goal") /\ t.args[1].tag = "Sym" THEN
    <<"goal", t.args[1].text, ":">> \o PrintPrec(t.args[2], 0)
  ELSE IF Unary(t, "neg") THEN
    Parens(80, parent, Glue(<<"-">>, PrintPrec(t.args[1], 80)))
  ELSE IF t.text = "lam" /\ BinderFirst(t) THEN
    Parens(40, parent, PrintPrec(t.args[1].args[1], 40) \o <<"|->">> \o PrintPrec(t.args[2], 40))
  ELSE IF t.text \in {"at", "slice"} /\ Len(t.args) >= 2 THEN PrintIndices(t)
  ELSE IF BinderFirst(t) THEN
    <<t.text, "[">> \o PrintBinder(t.args[1]) \o <<"]", "(">>
      \o PrintPrec(t.args[2], 0) \o <<")">> \o Suffix(t)
  ELSE IF Binary(t, "idx") /\ Unary(t.args[2], "down") THEN
    Glue(Glue(PrintPrec(t.args[1], 80), <<"_">>), PrintPrec(t.args[2].args[1], 80))
  ELSE IF t.text = "idx" /\ Len(t.args) > 1 THEN
    PrintSubscripts(PrintPrec(t.args[1], 80), Tail(t.args))
  ELSE IF t.text = "diff" /\ Len(t.args) >= 2 THEN
    <<"diff", "[">> \o PrintAll(Tail(t.args)) \o <<"]", "(">>
      \o PrintPrec(t.args[1], 0) \o <<")">>
  ELSE IF Unary(t, "meta") THEN PrintMeta(t)
  ELSE IF Binary(t, "setbuild") THEN
    <<"set", "{">> \o PrintPrec(t.args[1], 0) \o <<"|">> \o PrintBinder(t.args[2])
      \o When(t.attrs, ",") \o <<"}">>
  ELSE IF t.text = "dict" THEN
    <<"dict", "{">> \o Join([k \in DOMAIN t.args |-> PrintPair(t.args[k])]) \o <<"}">>
  ELSE IF t.text \in {"scene", "set", "seq"} THEN
    <<t.text, "{">> \o PrintAll(t.args) \o <<"}">>
  ELSE IF Binary(t, "broadcast") /\ IsCompound(t.args[2], "args") THEN
    PrintPrec(t.args[1], 80) \o <<".(">> \o PrintAll(t.args[2].args) \o <<")">>
  ELSE IF Prec(t.text) >= 0 /\ Len(t.args) = 2 THEN PrintInfix(t, parent)
  ELSE IF t.text = "subst" /\ t.args # << >> THEN
    Parens(Prec("@"), parent, PrintPrec(t.args[1], Prec("@")) \o <<"@", "subst", "{">>
                                \o PrintAll(Tail(t.args)) \o <<"}">>)
  ELSE <<t.text, "(">> \o PrintAll(t.args) \o <<")">> \o Suffix(t)

=============================================================================
