--------------------------- MODULE SurfaceParser ---------------------------
(***************************************************************************)
(* The reader of the surface syntax (src/facet.cpp, class SurfaceParser):  *)
(* precedence climbing with implicit multiplication.                       *)
(*                                                                         *)
(* Each operator below is one of its functions: from the tokens s and the  *)
(* place i of the next one it gives what the function returns and the      *)
(* place after it, as the one member of a set, or the empty set where an   *)
(* Error is thrown.                                                        *)
(***************************************************************************)
EXTENDS Syntax

Peek(s, i) == IF i <= Len(s) THEN s[i] ELSE ""

Read(tree, i) == [tree |-> tree, at |-> i]
ReadAll(trees, i) == [trees |-> trees, at |-> i]

(* The token at i must be t; the result then goes on after it. *)
Expect(s, i, t, result) == IF Peek(s, i) = t THEN {result} ELSE {}

(* What follows an operand and cannot be the operand of a multiplication   *)
(* that is not written.                                                    *)
NeverStarts ==
  {"", ")", "]", "}", ",", ":", "|", ";", "..", "@", "~>", "|->",
   "+", "*", "/", "^", "=", "!=", ">", ">=", "<", "<=", ":=", "<-",
   "when", "via", "assume", "in", "else", "rule", "goal"}

(* An operand of "*" without the sign: a number, a name or a product. *)
Multiplies(t) == t.tag \in {"Sym", "Int"} \/ IsCompound(t, "*")

Negated(t) ==
  IF t.tag = "Int" THEN Num("-" \o t.text) ELSE Compound("neg", <<t>>)

Single(context) == Len(context.args) = 1 /\ context.attrs = NoAttrs

(* attach_context: target @ context.  An attribute that is there is an     *)
(* Error.                                                                  *)
Attach(target, context) ==
  LET attribute(value) ==
        IF context.text \in DOMAIN target.attrs
        THEN {}
        ELSE {With(target.text, target.args,
                   target.attrs @@ (context.text :> value))}
  IN CASE IsCompound(context, "subst") ->
            {Compound("subst", <<target>> \o context.args)}
       [] /\ target.tag = "Compound" /\ context.tag = "Compound"
          /\ context.text \in {"assume", "via", "need"} /\ Single(context) ->
            attribute(context.args[1])
       [] /\ target.tag = "Compound" /\ context.tag = "Compound"
          /\ context.text \in {"style", "view", "render"}
          /\ context.attrs = NoAttrs ->
            attribute(context)
       [] OTHER -> {Compound("@", <<target, context>>)}

Combine(op, l, r) ==
  CASE op = "@" -> Attach(l, r)
    [] op = ".." -> {Compound("range", <<l, r>>)}
    [] op = "|->" ->
         {Compound("lam", <<Compound("binder", <<l, Sym("_")>>), r>>)}
    [] OTHER -> {Compound(op, <<l, r>>)}

(* A mutant of EndOf: only an index that is end, or a bound that is. *)
EndAtTop(t, target, axis) ==
  LET end == Compound("end", <<target, Num(ToString(axis))>>)
  IN IF t = Sym("end") THEN end
     ELSE IF IsCompound(t, "range")
     THEN [t EXCEPT !.args = [k \in DOMAIN t.args |->
                                IF t.args[k] = Sym("end") THEN end ELSE t.args[k]]]
     ELSE t

(* rewrite_end: in the brackets after target, end is the length of its     *)
(* axis.                                                                   *)
RECURSIVE EndOf(_, _, _)
EndOf(t, target, axis) ==
  IF t = Sym("end")
  THEN Compound("end", <<target, Num(ToString(axis))>>)
  ELSE [t EXCEPT
          !.args = [k \in DOMAIN t.args |-> EndOf(t.args[k], target, axis)],
          !.attrs = [k \in DOMAIN t.attrs |-> EndOf(t.attrs[k], target, axis)]]

(* collect_meta: the metavariables of a tree in the order they are met. *)
RECURSIVE Metas(_, _)
Metas(t, seen) ==
  LET RECURSIVE inArgs(_, _)
      inArgs(k, found) ==
        IF k > Len(t.args) THEN found ELSE inArgs(k + 1, Metas(t.args[k], found))
      RECURSIVE inAttrs(_, _)
      inAttrs(k, found) ==
        IF k > Len(AttrKeys) THEN found
        ELSE inAttrs(k + 1, IF AttrKeys[k] \in DOMAIN t.attrs
                            THEN Metas(t.attrs[AttrKeys[k]], found) ELSE found)
  IN IF IsCompound(t, "meta") /\ t \in {seen[k] : k \in DOMAIN seen}
     THEN seen
     ELSE inAttrs(1, inArgs(1, IF IsCompound(t, "meta")
                               THEN Append(seen, t) ELSE seen))

-----------------------------------------------------------------------------

RECURSIVE Expr(_, _, _), Climb(_, _, _, _), Primary(_, _), Postfix(_, _, _)
RECURSIVE More(_, _, _, _), Pairs(_, _, _), BracketArgs(_, _, _, _)
RECURSIVE Names(_, _, _)

(* The rest of a list after an item: the items up to close. *)
More(s, i, close, items) ==
  IF Peek(s, i) = ","
  THEN UNION {More(s, r.at, close, Append(items, r.tree)) :
                r \in Expr(s, i + 1, 0)}
  ELSE Expect(s, i, close, ReadAll(items, i + 1))

(* args_until: a list that may be empty. *)
Items(s, i, close) ==
  IF Peek(s, i) = close
  THEN {ReadAll(<< >>, i + 1)}
  ELSE UNION {More(s, r.at, close, <<r.tree>>) : r \in Expr(s, i, 0)}

Made(head, lists) == {Read(Compound(head, l.trees), l.at) : l \in lists}

(* binder_tail and the rest of a set builder whose value is known. *)
SetBuilder(s, i, value) ==
  IF i > Len(s) \/ Peek(s, i + 1) # ":"
  THEN {}
  ELSE UNION {
    LET binder == Compound("binder", <<Atom(s[i]), d.tree>>)
    IN IF Peek(s, d.at) = ","
       THEN UNION {Expect(s, c.at, "}",
                     Read(With("setbuild", <<value, binder>>, "when" :> c.tree),
                          c.at + 1)) : c \in Expr(s, d.at + 1, 0)}
       ELSE Expect(s, d.at, "}",
                   Read(Compound("setbuild", <<value, binder>>), d.at + 1)) :
    d \in Expr(s, i + 2, 0)}

(* What is between braces, but for an empty pair: a set builder or a list. *)
Braced(s, i, head) ==
  UNION {IF head = "set" /\ Peek(s, r.at) = "|"
         THEN SetBuilder(s, r.at + 1, r.tree)
         ELSE Made(head, More(s, r.at, "}", <<r.tree>>)) : r \in Expr(s, i, 0)}

(* collection_literal *)
Collection(s, i, head) ==
  IF Peek(s, i) = "}" THEN {Read(Compound(head, << >>), i + 1)}
  ELSE Braced(s, i, head)

(* dict_literal: its pairs, not after an opening brace and a closing one. *)
Pairs(s, i, pairs) ==
  UNION {UNION {
    LET read == Append(pairs, Compound("pair", <<k.tree, v.tree>>))
    IN IF Peek(s, v.at) = ","
       THEN Pairs(s, v.at + 1, read)
       ELSE Expect(s, v.at, "}", Read(Compound("dict", read), v.at + 1)) :
    v \in IF Peek(s, k.at) = ":" THEN Expr(s, k.at + 1, 0) ELSE {}} :
    k \in Expr(s, i, 0)}

Dict(s, i) ==
  IF Peek(s, i) = "}" THEN {Read(Compound("dict", << >>), i + 1)}
  ELSE Pairs(s, i, << >>)

(* atom_or_group: any token that is no opening bracket is a name. *)
AtomOrGroup(s, i) ==
  LET t == Peek(s, i)
      next == Peek(s, i + 1)
  IN CASE i > Len(s) -> {}
       [] t = "(" ->
            UNION {Expect(s, r.at, ")", Read(r.tree, r.at + 1)) :
                     r \in Expr(s, i + 1, 0)}
       [] t = "{" -> Braced(s, i + 1, "set")
       [] t \notin {"(", "{"} /\ i <= Len(s) ->
            CASE next = ".(" ->
                   {Read(Compound("broadcast", <<Sym(t), Compound("args", l.trees)>>),
                         l.at) : l \in Items(s, i + 2, ")")}
              [] next = "(" /\ ~IsInteger(t) -> Made(t, Items(s, i + 2, ")"))
              [] next = "{" /\ t = "dict" -> Dict(s, i + 2)
              [] next = "{" /\ t \in {"set", "seq"} -> Collection(s, i + 2, t)
              [] next = "{" /\ t \notin {"dict", "set", "seq"} ->
                   Made(t, Items(s, i + 2, "}"))
              [] OTHER -> {Read(Atom(t), i + 1)}

(* "](" body ")" after the head of a binder. *)
Body(s, i, Build(_)) ==
  IF Peek(s, i) = "]" /\ Peek(s, i + 1) = "("
  THEN UNION {Expect(s, r.at, ")", Read(Build(r.tree), r.at + 1)) :
                r \in Expr(s, i + 2, 0)}
  ELSE {}

(* The variables of diff; no variable is written "]". *)
Names(s, i, names) ==
  IF i > Len(s)
  THEN {}
  ELSE LET read == Append(names, Atom(s[i]))
       IN IF Peek(s, i + 1) = "," THEN Names(s, i + 2, read)
          ELSE {ReadAll(read, i + 1)}

Diff(s, i) ==
  UNION {Body(s, v.at, LAMBDA body : Compound("diff", <<body>> \o v.trees)) :
           v \in IF Peek(s, i) = "]" THEN {ReadAll(<< >>, i)} ELSE Names(s, i, << >>)}

BinderForm(s, i, name) ==
  LET head == IF name = "param" THEN "parametric" ELSE name
      sep == Peek(s, i + 1)
      binder(domain) ==
        Compound("binder", <<Atom(s[i]),
          IF sep = "->" THEN Compound("approach", <<domain>>) ELSE domain>>)
  IN IF Peek(s, i) = "]" \/ sep \notin {":", "->"}
     THEN {}
     ELSE UNION {Body(s, d.at, LAMBDA body : Compound(head, <<binder(d.tree), body>>)) :
                   d \in Expr(s, i + 2, 0)}

(* bracket_args: the indices from the one of an axis on.  A range may have *)
(* a step.                                                                 *)
BracketArgs(s, i, target, args) ==
  UNION {
    LET arg == EndOf(r.tree, target, Len(args) + 1)
        isRange == IsCompound(arg, "range")
    IN CASE isRange /\ Peek(s, r.at) = "," /\ Peek(s, r.at + 1) = "step" ->
              IF Peek(s, r.at + 2) # "=" THEN {}
              ELSE UNION {
                LET read == Append(args, With("range", arg.args, "step" :> p.tree))
                IN IF Peek(s, p.at) = "," THEN BracketArgs(s, p.at + 1, target, read)
                   ELSE {ReadAll(read, p.at)} : p \in Expr(s, r.at + 3, 0)}
         [] Peek(s, r.at) = "," /\ ~(isRange /\ Peek(s, r.at + 1) = "step") ->
              BracketArgs(s, r.at + 1, target, Append(args, arg))
         [] OTHER -> {ReadAll(Append(args, arg), r.at)} :
    r \in Expr(s, i, 0)}

Indexed(target, args) ==
  Compound(IF \E k \in DOMAIN args : IsCompound(args[k], "range")
           THEN "slice" ELSE "at", <<target>> \o args)

(* bracket_postfix, after its "[". *)
Bracket(s, i, target) ==
  CASE target = Sym("diff") -> Diff(s, i)
    [] target.tag = "Sym" /\ target.text \in Binders \ {"diff"} ->
         BinderForm(s, i, target.text)
    [] OTHER ->
         UNION {Expect(s, a.at, "]", Read(Indexed(target, a.trees), a.at + 1)) :
                  a \in IF Peek(s, i) = "]" THEN {ReadAll(<< >>, i)}
                        ELSE BracketArgs(s, i, target, << >>)}

Postfix(s, i, value) ==
  IF Peek(s, i) = "["
  THEN UNION {Postfix(s, r.at, r.tree) : r \in Bracket(s, i + 1, value)}
  ELSE {Read(value, i)}

Primary(s, i) ==
  IF Peek(s, i) = "-"
  THEN {Read(Negated(r.tree), r.at) : r \in Primary(s, i + 1)}
  ELSE UNION {Postfix(s, r.at, r.tree) : r \in AtomOrGroup(s, i)}

(* A mutant of Climb: what is on the right of every operator binds tighter.  *)
ClimbLeft(s, i, lhs, min) ==
  LET op == Peek(s, i)
  IN CASE i <= Len(s) /\ Prec(op) >= min ->
            UNION {UNION {Climb(s, r.at, t, min) : t \in Combine(op, lhs, r.tree)} :
                     r \in Expr(s, i + 1, Prec(op) + 1)}
       [] /\ i <= Len(s) /\ Prec(op) < min /\ Prec("*") >= min
          /\ Multiplies(lhs) /\ op \notin NeverStarts ->
            UNION {Climb(s, r.at, Compound("*", <<lhs, r.tree>>), min) :
                     r \in Expr(s, i, Prec("*") + 1)}
       [] OTHER -> {Read(lhs, i)}

(* The loop of expr(min) after its first operand. *)
Climb(s, i, lhs, min) ==
  LET op == Peek(s, i)
      above == IF RightAssoc(op) THEN Prec(op) ELSE Prec(op) + 1
  IN CASE i <= Len(s) /\ Prec(op) >= min ->
            UNION {UNION {Climb(s, r.at, t, min) : t \in Combine(op, lhs, r.tree)} :
                     r \in Expr(s, i + 1, above)}
       [] /\ i <= Len(s) /\ Prec(op) < min /\ Prec("*") >= min
          /\ Multiplies(lhs) /\ op \notin NeverStarts ->
            UNION {Climb(s, r.at, Compound("*", <<lhs, r.tree>>), min) :
                     r \in Expr(s, i, Prec("*") + 1)}
       [] OTHER -> {Read(lhs, i)}

Expr(s, i, min) == UNION {Climb(s, r.at, r.tree, min) : r \in Primary(s, i)}

-----------------------------------------------------------------------------

(* rule_decl and labelled_decl: the tokens after them are not looked at. *)
Rule(s) ==
  UNION {
    LET rule(attrs, metas) ==
          Compound("rule", <<Sym(s[2]),
                             With("forall", Append(metas, b.tree), attrs)>>)
        found == Metas(b.tree, << >>)
    IN IF Peek(s, b.at) = "when"
       THEN {Read(rule("when" :> w.tree, Metas(w.tree, found)), w.at) :
               w \in Expr(s, b.at + 1, 0)}
       ELSE {Read(rule(NoAttrs, found), b.at)} :
    b \in Expr(s, 4, 0)}

Declaration(s) ==
  CASE Peek(s, 3) # ":" -> {}
    [] Peek(s, 3) = ":" /\ s[1] = "rule" -> Rule(s)
    [] OTHER -> {Read(Compound("goal", <<Sym(s[2]), b.tree>>), b.at) :
                   b \in Expr(s, 4, 0)}

(* read_surface: the tree of the tokens, unless an Error is thrown. *)
ReadSurface(s) ==
  IF Peek(s, 1) \in {"rule", "goal"}
  THEN {r.tree : r \in Declaration(s)}
  ELSE {r.tree : r \in {r \in Expr(s, 1, 0) : r.at > Len(s)}}

=============================================================================
