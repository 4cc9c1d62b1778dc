-------------------------- MODULE StatementParser --------------------------
(***************************************************************************)
(* The reader of do blocks (src/facet.cpp, class StatementParser) over the *)
(* tokens of the layout pass.  The layout pass runs to its end in the      *)
(* constructor; then each statement, and each end of a block, is one step. *)
(* The recursion of statement() and block() is the stack open.             *)
(*                                                                         *)
(* NEWLINE, INDENT and DEDENT reach the parser as texts among the others,  *)
(* and it compares texts: nothing tells a layout token from a word of the  *)
(* same spelling.                                                          *)
(***************************************************************************)
EXTENDS Layout

CONSTANT
  Expressions   \* the token sequences SurfaceParser reads as an expression

ASSUME StatementAssumption ==
  /\ Expressions \subseteq Seq(STRING)
  /\ << >> \notin Expressions

VARIABLES
  phase,   \* "lex", "read", "finished" or "refused"
  pos,     \* pos_: the next token
  open,    \* the blocks being read, innermost last, by what they are of
  made     \* the statements read, in order: head, first and last token,
           \* and how many blocks they are in

parserVars == <<phase, pos, open, made>>

At(i, text) == i \in 1 .. Len(out) /\ out[i].text = text

Parts(i, j) == [k \in 1 .. j - i |-> out[i + k - 1].text]

(* A mutant of ExpressionUntil: a value of one token is taken for none. *)
LongExpressionUntil(delimiter, i) ==
  {j \in i + 2 .. Len(out) :
     /\ At(j, delimiter)
     /\ \A k \in i .. j - 1 : out[k].text \notin {delimiter, "INDENT", "DEDENT"}
     /\ Parts(i, j) \in Expressions}

(* expression_until(delimiter) from token i: the tokens up to the first    *)
(* delimiter, brackets or not, if the expression parser reads them.  The   *)
(* set holds the place of the delimiter, or nothing when an Error is       *)
(* thrown.                                                                 *)
ExpressionUntil(delimiter, i) ==
  {j \in i + 1 .. Len(out) :
     /\ At(j, delimiter)
     /\ \A k \in i .. j - 1 : out[k].text \notin {delimiter, "INDENT", "DEDENT"}
     /\ Parts(i, j) \in Expressions}

(* The head of block(): the place of its ":". *)
OpensBlock(i) == At(i, ":") /\ At(i + 1, "NEWLINE") /\ At(i + 2, "INDENT")

(* The heads of the statements that read a value up to the end of the line *)
(* and where the value starts.  A name is whatever token stands there.     *)
Keywords == {"while", "for", "if", "let", "mut", "return", "yield",
             "break", "continue"}

Conditions(i) ==
  {[head |-> out[k].text, last |-> j + 2] :
     k \in {k \in {i} : At(k, "while") \/ At(k, "if")},
     j \in {j \in ExpressionUntil(":", i + 1) : OpensBlock(j)}}

Loops(i) ==
  {[head |-> "for", last |-> j + 2] :
     j \in {j \in ExpressionUntil(":", i + 3) :
              At(i, "for") /\ At(i + 2, "in") /\ OpensBlock(j)}}

Bindings(i) ==
  {[head |-> out[i].text, last |-> j] :
     j \in {j \in ExpressionUntil("NEWLINE", i + 3) :
              (At(i, "let") \/ At(i, "mut")) /\ At(i + 2, "=")}}

Results(i) ==
  {[head |-> out[i].text, last |-> j] :
     j \in {j \in ExpressionUntil("NEWLINE", i + 1) :
              At(i, "return") \/ At(i, "yield")}}

Jumps(i) ==
  {[head |-> out[i].text, last |-> j] :
     j \in {j \in {i + 1} :
              (At(i, "break") \/ At(i, "continue")) /\ At(j, "NEWLINE")}}

(* A mutant of Assignments: "=" assigns. *)
EqualityAssigns(i) ==
  {[head |-> "assign", last |-> j] :
     j \in {j \in ExpressionUntil("NEWLINE", i + 2) :
              out[i].text \notin Keywords /\ (At(i + 1, "<-") \/ At(i + 1, "="))}}

(* An "=" in the place of the arrow is refused like any other token. *)
Assignments(i) ==
  {[head |-> "assign", last |-> j] :
     j \in {j \in ExpressionUntil("NEWLINE", i + 2) :
              out[i].text \notin Keywords /\ At(i + 1, "<-")}}

-----------------------------------------------------------------------------

Begin ==
  /\ phase = "lex"
  /\ pc \in {"done", "error"}
  /\ IF pc = "done" /\ At(1, "do") /\ OpensBlock(2)
     THEN /\ phase' = "read"
          /\ pos' = 5
          /\ open' = <<"do">>
     ELSE /\ phase' = "refused"
          /\ UNCHANGED <<pos, open>>
  /\ UNCHANGED <<made, vars>>

Made(s) ==
  made' = Append(made, [head |-> s.head, first |-> pos, last |-> s.last,
                        level |-> Len(open)])

(* A statement that opens a block. *)
Header ==
  /\ phase = "read"
  /\ ~At(pos, "DEDENT")
  /\ \E s \in Conditions(pos) \cup Loops(pos) :
       /\ Made(s)
       /\ open' = Append(open, s.head)
       /\ pos' = s.last + 1
  /\ UNCHANGED <<phase, vars>>

(* A statement of one line. *)
Simple ==
  /\ phase = "read"
  /\ ~At(pos, "DEDENT")
  /\ \E s \in Bindings(pos) \cup Results(pos) \cup Jumps(pos)
                \cup Assignments(pos) :
       /\ Made(s)
       /\ pos' = s.last + 1
  /\ UNCHANGED <<phase, open, vars>>

(* The block of an if may be followed by that of its else. *)
HasElse == Back(open) = "if" /\ At(pos + 1, "else")

(* Mutants of EndBlock: an else goes into the block of its if; the token   *)
(* after a DEDENT is skipped; what follows the block of the do is not      *)
(* looked at.                                                              *)
ElseInside ==
  /\ phase = "read"
  /\ At(pos, "DEDENT")
  /\ IF HasElse
     THEN /\ OpensBlock(pos + 2)
          /\ open' = Append(open, "else")
          /\ pos' = pos + 5
     ELSE /\ open' = Pop(open)
          /\ pos' = pos + 1
  /\ phase' = IF open' = << >> THEN "finished" ELSE "read"
  /\ UNCHANGED <<made, vars>>

SkipAfterDedent ==
  /\ phase = "read"
  /\ At(pos, "DEDENT")
  /\ open' = Pop(open)
  /\ pos' = pos + 2
  /\ phase' = IF Len(open) = 1 THEN "finished" ELSE "read"
  /\ UNCHANGED <<made, vars>>

IgnoreTheRest ==
  /\ phase = "read"
  /\ At(pos, "DEDENT")
  /\ ~HasElse
  /\ open' = Pop(open)
  /\ pos' = pos + 1
  /\ phase' = IF Len(open) = 1 THEN "finished" ELSE "read"
  /\ UNCHANGED <<made, vars>>

(* A DEDENT where a statement could start ends the innermost block.  The   *)
(* block of the do may be followed by nothing.                             *)
EndBlock ==
  /\ phase = "read"
  /\ At(pos, "DEDENT")
  /\ IF HasElse
     THEN /\ OpensBlock(pos + 2)
          /\ open' = Append(Pop(open), "else")
          /\ pos' = pos + 5
          /\ UNCHANGED phase
     ELSE /\ open' = Pop(open)
          /\ pos' = pos + 1
          /\ IF Len(open) > 1
             THEN UNCHANGED phase
             ELSE /\ pos = Len(out)
                  /\ phase' = "finished"
  /\ UNCHANGED <<made, vars>>

(* Any other token, or the end of the tokens, throws. *)
Statements(i) ==
  IF i \in 1 .. Len(out)
  THEN UNION {Conditions(i), Loops(i), Bindings(i), Results(i), Jumps(i),
              Assignments(i)}
  ELSE {}

Refuse ==
  /\ phase = "read"
  /\ IF At(pos, "DEDENT")
     THEN \/ HasElse /\ ~OpensBlock(pos + 2)
          \/ ~HasElse /\ Len(open) = 1 /\ pos # Len(out)
     ELSE Statements(pos) = {}
  /\ phase' = "refused"
  /\ UNCHANGED <<pos, open, made, vars>>

-----------------------------------------------------------------------------

ParserInit ==
  /\ Init
  /\ phase = "lex"
  /\ pos = 1
  /\ open = << >>
  /\ made = << >>

Lex == phase = "lex" /\ Next /\ UNCHANGED parserVars

ParserNext == Lex \/ Begin \/ Header \/ Simple \/ EndBlock \/ Refuse

ParserSpec == ParserInit /\ [][ParserNext]_<<vars, parserVars>>

-----------------------------------------------------------------------------

ParserTypeOK ==
  /\ TypeOK
  /\ phase \in {"lex", "read", "finished", "refused"}
  /\ pos \in 1 .. Len(out) + 1
  /\ open \in Seq({"do", "while", "if", "for", "else"})
  /\ \A k \in 1 .. Len(made) :
       /\ made[k].head \in Keywords \cup {"assign"}
       /\ made[k].first < made[k].last /\ made[k].last < pos

(* The parser and the layout pass agree on the nesting: the blocks being   *)
(* read are those open in the layout after the last token read, and each   *)
(* statement is in the block its column put it in.  They part only when an *)
(* INDENT is taken for the name of an assignment, after a value that ends  *)
(* in a colon (what follows a declaration is not looked at), and then the  *)
(* text is refused in the end.                                             *)
NamesAnIndent(k) == IsLayout(made[k].first, "INDENT")

NestingIsIndentation ==
  \/ phase = "finished"
  \/ \A k \in 1 .. Len(made) : ~NamesAnIndent(k)
  =>
    /\ phase \in {"read", "finished"} => Len(open) = out[pos - 1].level
    /\ \A k \in 1 .. Len(made) : made[k].level = out[made[k].first].level

(* A logical line, from its first token to its NEWLINE, that has the form  *)
(* of a statement (docs/Facet-IR-v2-specification.md, the table of section *)
(* 3.3): what is between the fixed words is an expression, or a name.      *)
Ends(i) == {j \in i .. Len(out) : IsLayout(j, "NEWLINE")}
LineEnd(i) == CHOOSE j \in Ends(i) : \A k \in Ends(i) : j <= k

Opener(i, e) == At(e - 1, ":") /\ e < Len(out) /\ IsLayout(e + 1, "INDENT")

Whole(i, e) ==
  \/ /\ out[i].text \in {"while", "if"}
     /\ Opener(i, e) /\ Parts(i + 1, e - 1) \in Expressions
  \/ /\ out[i].text = "for" /\ At(i + 2, "in")
     /\ Opener(i, e) /\ Parts(i + 3, e - 1) \in Expressions
  \/ /\ out[i].text \in {"let", "mut"} /\ At(i + 2, "=")
     /\ Parts(i + 3, e) \in Expressions
  \/ /\ out[i].text \in {"return", "yield"}
     /\ Parts(i + 1, e) \in Expressions
  \/ /\ out[i].text \in {"break", "continue"} /\ e = i + 1
  \/ /\ out[i].text \notin Keywords /\ At(i + 1, "<-")
     /\ Parts(i + 2, e) \in Expressions

WholeStatement(i) == StartsLine(i) /\ Ends(i) # {} /\ Whole(i, LineEnd(i))

(* A header whose colon is not its first. *)
EndsEarly(i) ==
  /\ out[i].text \in {"while", "if", "for"}
  /\ \E k \in i .. LineEnd(i) - 2 : At(k, ":")

(* No statement is lost: a line in the form of a statement, read where a   *)
(* statement is expected, is never what a text is refused for, unless the  *)
(* condition of a header has a colon within it, at which it is cut         *)
(* (expression_until).                                                     *)
WholeLinesAreRead ==
  pc = "done" /\ phase = "refused" /\ pos \in 5 .. Len(out) /\ WholeStatement(pos)
    => EndsEarly(pos)

(* Nothing else is taken for a statement: what is read as one is a logical *)
(* line of that form, unless it runs on, which it can do in two places     *)
(* only: a NEWLINE is also a name, and an INDENT too, and a condition ends *)
(* at its colon, on whatever line that is.                                 *)
Headers == {"while", "for", "if"}
EndOf(k) == IF made[k].head \in Headers THEN made[k].last - 1 ELSE made[k].last

RunsOn(k) ==
  \E i \in made[k].first .. EndOf(k) - 1 :
    /\ out[i].layout
    /\ made[k].head \in Headers \/ i <= made[k].first + 1

StatementsAreLinesOrRunOn ==
  \A k \in 1 .. Len(made) : RunsOn(k) \/ WholeStatement(made[k].first)

(* A do block that is read has lost no line and is not cut short: each     *)
(* line is a statement, an else, or inside a statement that runs on; and   *)
(* no bracket is open at its end, although the layout pass closes the      *)
(* blocks of such a text too.                                              *)
ReadsEveryLine ==
  phase = "finished" =>
    /\ depth = 0
    /\ open = << >>
    /\ \A i \in 5 .. Len(out) :
         StartsLine(i) =>
           \/ \E k \in 1 .. Len(made) : made[k].first = i
           \/ out[i].text = "else" /\ IsLayout(i - 1, "DEDENT")
           \/ \E k \in 1 .. Len(made) :
                RunsOn(k) /\ i \in made[k].first + 1 .. made[k].last

=============================================================================
