------------------------- MODULE MCStatementParser -------------------------
(* Texts that start with "do:", of a few lines out of those below.         *)
EXTENDS StatementParser

(* A condition with a colon in its braces. *)
ColonLine == <<"while", "dict", "{", "x", ":", "x", "}", ":">>

(* A value with a colon at its end: what follows a rule is not read.       *)
RuleLine == <<"yield", "rule", "r", ":", "x", ":">>

(* One line of each form, an else, the beginnings of forms whose name or   *)
(* colon is on the next line, a line with an open bracket and an equality. *)
StatementLines ==
  {<<"do", ":">>, <<":">>,
   <<"while", "x", ":">>, <<"for", "x", "in", "x", ":">>, <<"if", "x", ":">>,
   <<"else", ":">>, <<"let", "x", "=", "x">>, <<"return", "(", "x", ")">>,
   <<"break">>, <<"x", "<-", "x">>,
   <<"for">>, <<"in", "x">>, << >>, <<"<-", "x">>, <<"yield", "(", "x">>,
   <<"x", "=", "x">>, ColonLine, RuleLine}

SomeExpressions ==
  {<<"x">>, <<"(", "x", ")">>, <<"dict", "{", "x", ":", "x", "}">>,
   <<"x", "NEWLINE">>, <<"rule", "r", ":", "x", ":">>}

StartsWithDo == Len(out) > 0 => out[1].text = "do"

(* The texts of all of these lines are short; the longer ones only open    *)
(* and close blocks and have no line without a token, but for a condition  *)
(* with a colon in the first statement.                                    *)
BlockTexts == {"do", "while", "for", "in", "if", "else", ":", "x", "break",
               "NEWLINE", "INDENT", "DEDENT"}

(* A rule as the first statement, and an assignment in the block after it. *)
InRule(i) == out[6].text = "rule" /\ i \in 5 .. 14

InColonLine(i) == out[6].text = "dict" /\ i \in 6 .. 11

ShortOrBlocks ==
  /\ StartsWithDo
  /\ Len(out) > 11 =>
       /\ \A i \in 1 .. Len(out) : out[i].text \in BlockTexts \/ InColonLine(i) \/ InRule(i)
       /\ \/ \A i \in 1 .. Len(line) : line[i] \in BlockTexts
          \/ line = <<"<-", "x">> /\ InRule(13) /\ Len(out) <= 14
          \/ line = ColonLine /\ InColonLine(6) /\ Len(out) < 14
       /\ \A i \in 2 .. Len(out) :
            At(i, "NEWLINE") => ~out[i - 1].layout

=============================================================================
