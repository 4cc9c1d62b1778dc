------------------------------- MODULE Syntax -------------------------------
(***************************************************************************)
(* The trees in one another, the registry of operators (src/registry.cpp)  *)
(* and the tokens of the surface syntax (src/lexer.cpp, Lexer::next).      *)
(***************************************************************************)
EXTENDS SyntaxTrees

RECURSIVE Subtrees(_)
Subtrees(t) ==
  {t} \cup UNION {Subtrees(t.args[k]) : k \in DOMAIN t.args}
      \cup UNION {Subtrees(t.attrs[k]) : k \in DOMAIN t.attrs}

-----------------------------------------------------------------------------

(* The binding power of each operator, by head and by spelling: range is   *)
(* written "..", and "@" is not in the table.                              *)
Levels ==
  <<<<10, {"|>", "@"}>>, <<20, {"=>", "~>", "~="}>>, <<25, {":="}>>,
    <<30, {"=", "===", "!=", ">", "<", ">=", "<="}>>, <<35, {"range", ".."}>>,
    <<40, {"|->"}>>, <<45, {"->"}>>, <<50, {"+", "-"}>>, <<60, {"*", "/"}>>,
    <<70, {"^"}>>>>

Operators == UNION {Levels[k][2] : k \in 1 .. Len(Levels)}

Prec(op) ==
  IF op \in Operators
  THEN Levels[CHOOSE k \in 1 .. Len(Levels) : op \in Levels[k][2]][1]
  ELSE -1

RightAssoc(op) == op \in {"|->", "->", "^"}

Binders ==
  {"sum", "prod", "int", "lim", "forall", "exists", "diff", "plot", "plot3d",
   "parametric", "param", "contour", "field", "complexplot", "manipulate",
   "setbuild", "seq", "fold", "scan"}

-----------------------------------------------------------------------------

(* What the lexer makes of two token sequences written with no blank       *)
(* between them: a word goes on with the word or numeral after it and with *)
(* "...", and "-" before a numeral is its sign.  Dots that stand for a name *)
(* are not looked at.                                                      *)
Glue(left, right) ==
  IF left = << >> \/ right = << >>
  THEN left \o right
  ELSE LET l == left[Len(left)]
           r == right[1]
       IN IF \/ IsWord(l) /\ (IsWord(r) \/ IsNumeral(r) \/ r \in {"...", "...?"})
             \/ l = "-" /\ IsNumeral(r)
          THEN SubSeq(left, 1, Len(left) - 1) \o <<l \o r>> \o Tail(right)
          ELSE left \o right

(* The place of the first underscore inside a word, 0 when there is none. *)
Underscore(word) ==
  LET places == {k \in 2 .. Len(word) - 1 : Char(word, k) = "_"}
  IN IF Len(word) = 0 \/ Char(word, 1) = "_" \/ places = {} THEN 0
     ELSE CHOOSE k \in places : \A n \in places : k <= n

EndsWith(word, suffix) ==
  /\ Len(word) >= Len(suffix)
  /\ Rest(word, Len(word) - Len(suffix) + 1) = suffix

Meta(name, kind) == With("meta", <<Sym(name)>>, "kind" :> Sym(kind))

(* surface_atom_from_token: "?x" is a metavariable, "x_i" an index. *)
Atom(token) ==
  LET under == Underscore(token)
      name == Rest(token, 2)
  IN CASE Len(token) > 1 /\ Char(token, 1) = "?" ->
            (CASE EndsWith(name, "...?") ->
                    Meta(SubSeq(name, 1, Len(name) - 4), "seq?")
               [] EndsWith(name, "...") ->
                    Meta(SubSeq(name, 1, Len(name) - 3), "seq")
               [] OTHER -> Meta(name, "one"))
       [] under > 0 /\ ~(Len(token) > 1 /\ Char(token, 1) = "?") ->
            Compound("idx", <<Sym(SubSeq(token, 1, under - 1)),
                              Compound("down", <<Sym(Rest(token, under + 1))>>)>>)
       [] IsInteger(token) -> Num(token)
       [] OTHER -> Sym(token)

=============================================================================
