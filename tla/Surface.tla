------------------------------ MODULE Surface ------------------------------
(***************************************************************************)
(* facet read=surface emit=surface (src/facet_cli.cpp, main): a text is    *)
(* read and its tree written in surface syntax, as a formatter does, and   *)
(* the text that was written is read again.  The tree may also come from   *)
(* another projection or a kernel, and then be one that the surface reader *)
(* never makes.                                                            *)
(***************************************************************************)
EXTENDS SurfaceParser, SurfacePrinter

CONSTANTS
  Alphabets,   \* the sets of tokens a text may be made of
  MaxLength,   \* bound: tokens of a text
  GivenTrees   \* trees that come from elsewhere

VARIABLES
  stage,      \* "typing", "read", "refused", "written" or "read again"
  alphabet,   \* the tokens of the text
  text,       \* the text: typed first, then written
  tree,       \* the tree that was read, if any, as a set
  again       \* the tree of the text that was written, if any

vars == <<stage, alphabet, text, tree, again>>

Init ==
  /\ stage = "typing"
  /\ alphabet \in Alphabets
  /\ text = << >>
  /\ tree = {}
  /\ again = {}

Type(token) ==
  /\ stage = "typing"
  /\ Len(text) < MaxLength
  /\ text' = Append(text, token)
  /\ UNCHANGED <<stage, alphabet, tree, again>>

ReadText ==
  /\ stage = "typing"
  /\ tree' = ReadSurface(text)
  /\ stage' = IF tree' = {} THEN "refused" ELSE "read"
  /\ UNCHANGED <<alphabet, text, again>>

(* read_core, read_object or read_sympy_srepr gives a tree. *)
GetTree(t) ==
  /\ stage = "typing"
  /\ text = << >>
  /\ tree' = {t}
  /\ stage' = "read"
  /\ UNCHANGED <<alphabet, text, again>>

WriteText ==
  /\ stage = "read"
  /\ \E t \in tree : text' = PrintPrec(t, 0)
  /\ stage' = "written"
  /\ UNCHANGED <<alphabet, tree, again>>

ReadAgain ==
  /\ stage = "written"
  /\ again' = ReadSurface(text)
  /\ stage' = "read again"
  /\ UNCHANGED <<alphabet, text, tree>>

Next ==
  \/ \E token \in alphabet : Type(token)
  \/ ReadText
  \/ \E t \in GivenTrees : GetTree(t)
  \/ WriteText
  \/ ReadAgain

Spec == Init /\ [][Next]_vars

-----------------------------------------------------------------------------

(* The reference: a text of operands with operators between them is split  *)
(* at its loosest operator, the last one if that associates to the left    *)
(* (docs/spec.md, 5.2).                                                    *)
InfixOperators == Operators \ {"range", "|->", "@"}

IsChain(s) ==
  /\ Len(s) % 2 = 1
  /\ \A k \in 1 .. Len(s) :
       IF k % 2 = 0 THEN s[k] \in InfixOperators
       ELSE IsWord(s[k]) \/ IsInteger(s[k])

OperatorsOf(s) == {k \in 1 .. Len(s) : k % 2 = 0}

RECURSIVE Reference(_)
Reference(s) ==
  IF Len(s) = 1
  THEN Atom(s[1])
  ELSE LET loosest == {k \in OperatorsOf(s) :
                         \A n \in OperatorsOf(s) : Prec(s[k]) <= Prec(s[n])}
           k == CHOOSE k \in loosest :
                  \A n \in loosest : IF RightAssoc(s[k]) THEN k <= n ELSE n <= k
           head == IF s[k] = ".." THEN "range" ELSE s[k]
       IN Compound(head, <<Reference(SubSeq(s, 1, k - 1)),
                           Reference(SubSeq(s, k + 1, Len(s)))>>)

(* Where the operand after the k-th token ends at the m-th token: all the  *)
(* operators in between bind tighter than the k-th, the m-th does not.     *)
Above(op) == IF RightAssoc(op) THEN Prec(op) ELSE Prec(op) + 1

OperandEnds(s, k, m) ==
  /\ k < m
  /\ Prec(s[m]) < Above(s[k])
  /\ \A n \in OperatorsOf(s) : k < n /\ n < m => Prec(s[n]) >= Above(s[k])

(* An operator is swallowed when it is taken for an operand: it is not one *)
(* of NeverStarts and follows a name, a number or a product whose own      *)
(* operator binds less than a multiplication.                              *)
Swallowed(s) ==
  \E k, m \in OperatorsOf(s) :
    /\ OperandEnds(s, k, m)
    /\ Above(s[k]) <= Prec("*")
    /\ s[m] \notin NeverStarts
    /\ Multiplies(Reference(SubSeq(s, k + 1, m - 1)))

TypedChain == stage \in {"read", "refused"} /\ IsChain(text)

(* Operators bind as the table of docs/spec.md says. *)
OperatorsBind == TypedChain => tree = {Reference(text)}

(* They do, and the text is not refused, unless one is swallowed. *)
OperatorsBindUnlessSwallowed ==
  TypedChain /\ ~Swallowed(text) => tree = {Reference(text)}

-----------------------------------------------------------------------------

(* In the brackets after a target, end is always the end of an axis of     *)
(* that target or of a target in between, and never a free name, whatever  *)
(* is around it, but in the step of a range, which is not looked into.     *)
RECURSIVE EndsOf(_, _)
EndsOf(t, bound) ==
  \/ t \in bound
  \/ /\ t # Sym("end")
     /\ ~IsCompound(t, "end")
     /\ \A k \in DOMAIN t.args :
          EndsOf(t.args[k],
                 IF t.text \in {"at", "slice"} /\ k > 1
                 THEN bound \cup {Compound("end", <<t.args[1], Num(ToString(k - 1))>>)}
                 ELSE bound)

EndsAreBound ==
  stage = "read" /\ text # << >> =>
    \A t \in UNION {Subtrees(t) : t \in tree} :
      t.tag = "Compound" /\ t.text \in {"at", "slice"} =>
        \A k \in 2 .. Len(t.args) :
          EndsOf(t.args[k], {Compound("end", <<t.args[1], Num(ToString(k - 1))>>)})

-----------------------------------------------------------------------------

(* The trees that the surface syntax can carry.  What is left out is lost  *)
(* by a form that does not print all of its node, or is not what its text  *)
(* says: attributes of a node with a form of its own, attributes of an     *)
(* operand (the suffix has no parentheses), a sign before brackets or a    *)
(* numeral, a lambda as the variable of a lambda, a loose bound of a range *)
(* in brackets, and an operator that would be swallowed.                   *)
IsName(t) ==
  /\ t = Sym(t.text) /\ IsWord(t.text) /\ Atom(t.text) = t
  /\ t.text \notin {"rule", "goal", "end", "step"}

IsNumber(t) == t = Num(t.text) /\ IsInteger(t.text)

IsInfix(t) ==
  t.tag = "Compound" /\ Len(t.args) = 2 /\ t.text \in Operators \ {"..", "|->"}

IsLam(t) == IsCompound(t, "lam") /\ BinderFirst(t)

Forms ==
  {"rule", "goal", "neg", "lam", "at", "slice", "idx", "diff", "meta",
   "setbuild", "dict", "scene", "set", "seq", "broadcast", "subst", "range",
   "end", "step", "binder"}

IsCall(t) ==
  t.tag = "Compound" /\ IsName(Sym(t.text)) /\ t.text \notin Forms /\ ~BinderFirst(t)

IsBinderForm(t) ==
  t.tag = "Compound" /\ t.text \in Binders \ {"diff", "param"} /\ BinderFirst(t)

(* How tight a tree is that is printed with no parentheses around it. *)
Tightness(t) ==
  CASE IsInfix(t) -> Prec(t.text) [] IsLam(t) -> 40
    [] IsCompound(t, "subst") -> 10 [] OTHER -> 80

(* The operands that the last token of a tree ends, each with how tight an *)
(* operator must be to go on with it.                                      *)
RECURSIVE Edges(_)
Edges(t) ==
  IF IsInfix(t) \/ IsLam(t)
  THEN LET above == IF IsLam(t) THEN 40 ELSE Above(t.text)
       IN {<<t.args[2], above>>}
            \cup (IF Tightness(t.args[2]) < above THEN {} ELSE Edges(t.args[2]))
  ELSE {}

Swallows(t, op) ==
  \E e \in Edges(t) :
    Prec(op) < e[2] /\ e[2] <= Prec("*") /\ op \notin NeverStarts /\ Multiplies(e[1])

Contexts == {"assume", "via", "need", "style", "view", "render"}

IsSuffixed(t) == (IsCall(t) \/ IsBinderForm(t)) /\ t.attrs # NoAttrs

Attributes(t) ==
  \A k \in DOMAIN t.attrs :
    IF k \in {"style", "view", "render"}
    THEN t.attrs[k] = Compound(k, t.attrs[k].args)
    ELSE k \in Contexts

BindsName(b, approach) ==
  /\ b = Compound("binder", b.args) /\ Len(b.args) = 2 /\ IsName(b.args[1])
  /\ IsCompound(b.args[2], "approach") => approach /\ Unary(b.args[2], "approach")

IsBound(t, low) == Tightness(t) >= low /\ ~IsSuffixed(t) /\ ~IsCompound(t, "range")

Indices(t) ==
  /\ t.attrs = NoAttrs
  /\ t = Indexed(t.args[1], Tail(t.args))
  /\ Tightness(t.args[1]) < 80 \/ ~Unary(t.args[1], "neg")
  /\ ~IsSuffixed(t.args[1]) /\ t.args[1].text \notin Binders
  /\ \A k \in 2 .. Len(t.args) :
       IsCompound(t.args[k], "range") =>
         /\ Binary(t.args[k], "range")
         /\ DOMAIN t.args[k].attrs \subseteq {"step"}
         /\ IsBound(t.args[k].args[1], 35) /\ IsBound(t.args[k].args[2], 36)
         /\ ~Swallows(t.args[k].args[1], "..")

(* A node whose form says all of it, whatever its parts are. *)
KeptNode(t) ==
  CASE t.tag # "Compound" -> IsName(t) \/ IsNumber(t)
    [] Unary(t, "neg") -> /\ t.attrs = NoAttrs /\ ~IsSuffixed(t.args[1])
                            /\ ~IsInteger(Head(PrintPrec(t.args[1], 80)))
    [] IsLam(t) ->
         /\ t = Compound("lam", <<Compound("binder", <<t.args[1].args[1], Sym("_")>>),
                                  t.args[2]>>)
         /\ ~IsLam(t.args[1].args[1]) /\ ~IsSuffixed(t.args[1].args[1])
         /\ ~IsSuffixed(t.args[2])
    [] t.text \in {"at", "slice"} /\ Len(t.args) >= 2 -> Indices(t)
    [] IsBinderForm(t) -> BindsName(t.args[1], TRUE) /\ Attributes(t)
    [] Binary(t, "idx") ->
         /\ t.args[1].tag = "Sym" /\ Unary(t.args[2], "down")
         /\ t = Atom(t.args[1].text \o "_" \o t.args[2].args[1].text)
    [] IsCompound(t, "diff") ->
         t.attrs = NoAttrs /\ Len(t.args) >= 2 /\ \A k \in 2 .. Len(t.args) : IsName(t.args[k])
    [] IsCompound(t, "meta") ->
         \E kind \in {"one", "seq", "seq?"} :
           IsName(t.args[1]) /\ t = Meta(t.args[1].text, kind)
    [] Binary(t, "setbuild") ->
         DOMAIN t.attrs \subseteq {"when"} /\ BindsName(t.args[2], FALSE)
    [] IsCompound(t, "dict") ->
         t.attrs = NoAttrs /\ \A k \in DOMAIN t.args :
                                t.args[k] = Compound("pair", t.args[k].args)
                                  /\ Len(t.args[k].args) = 2
    [] t.tag = "Compound" /\ t.text \in {"scene", "set", "seq"} -> t.attrs = NoAttrs
    [] Binary(t, "broadcast") ->
         /\ t.attrs = NoAttrs /\ IsName(t.args[1])
         /\ t.args[2] = Compound("args", t.args[2].args)
    [] IsInfix(t) ->
         /\ t.attrs = NoAttrs
         /\ ~IsSuffixed(t.args[1]) /\ ~IsSuffixed(t.args[2])
         /\ t.text = "@" => Attach(t.args[1], t.args[2]) = {t}
         /\ LET glyph == IF t.text = "range" THEN ".." ELSE t.text
                below == IF RightAssoc(t.text) THEN Prec(t.text) + 1 ELSE Prec(t.text)
            IN Tightness(t.args[1]) < below \/ ~Swallows(t.args[1], glyph)
    [] IsCompound(t, "subst") -> t.attrs = NoAttrs /\ t.args # << >>
    [] IsCall(t) -> Attributes(t)
    [] OTHER -> FALSE

(* The parts of a node that are printed as trees of their own. *)
Parts(t) ==
  CASE IsLam(t) \/ IsBinderForm(t) -> <<t.args[2]>> \o
         (IF Unary(t.args[1].args[2], "approach") THEN t.args[1].args[2].args
          ELSE t.args[1].args)
    [] Binary(t, "setbuild") -> <<t.args[1]>> \o t.args[2].args
    [] IsCompound(t, "dict") -> FlattenSeq([k \in DOMAIN t.args |-> t.args[k].args])
    [] Binary(t, "broadcast") -> t.args[2].args
    [] IsCompound(t, "idx") \/ IsCompound(t, "meta") -> << >>
    [] IsCompound(t, "slice") ->
         FlattenSeq([k \in DOMAIN t.args |->
                      IF k > 1 /\ Binary(t.args[k], "range") THEN t.args[k].args
                      ELSE <<t.args[k]>>])
    [] OTHER -> t.args

RECURSIVE Kept(_)
Kept(t) ==
  /\ KeptNode(t)
  /\ \A k \in DOMAIN Parts(t) : Parts(t)[k] = Sym("_") \/ Kept(Parts(t)[k])
  /\ \A k \in DOMAIN t.attrs : IsCompound(t, "meta") \/ Kept(t.attrs[k])

(* Of the trees above a formatter keeps every one: what it writes is read, *)
(* and as the same tree.                                                   *)
FormattingKeepsTheTree ==
  stage = "read again" => \A t \in tree : Kept(t) => again = {t}

=============================================================================
