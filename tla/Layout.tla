------------------------------- MODULE Layout -------------------------------
(***************************************************************************)
(* The layout pass of src/lexer.cpp (lex_layout_for_test): it reads the    *)
(* text of a do block line by line, keeps the columns of the open blocks   *)
(* in indents and gives the tokens of the lines with NEWLINE, INDENT and   *)
(* DEDENT between them.                                                    *)
(*                                                                         *)
(* A line is what is left of it once comments are blanks and its end is    *)
(* trimmed: the number of its leading spaces and its tokens, which are     *)
(* read one at a time, because the pass counts brackets as it goes.  A     *)
(* line of blanks alone changes nothing (a stuttering step).               *)
(***************************************************************************)
EXTENDS Naturals, Sequences, FiniteSets

CONSTANTS
  Lines,       \* the lines a text may hold, each the tokens its Lexer gives
  MaxIndent,   \* bound: leading spaces of a line
  MaxTokens    \* bound: tokens given before the last line starts

ASSUME LayoutAssumption ==
  /\ Lines \subseteq Seq(STRING)
  /\ {MaxIndent, MaxTokens} \subseteq Nat

VARIABLES
  pc,        \* where the pass is
  indents,   \* indents: columns of the open blocks, the outermost is 0
  pending,   \* pending_block: the last logical line ended in ":"
  depth,     \* bracket_depth
  indent,    \* indent of the line being read
  line,      \* its text
  column,    \* how far in the line its Lexer is; tokens are one wide
  final,     \* last: last token of that line, "none" before the first
  out        \* out: the tokens given so far

vars == <<pc, indents, pending, depth, indent, line, column, final, out>>

Openers == {"(", "[", "{"}
Closers == {")", "]", "}"}

Back(s) == s[Len(s)]
Pop(s) == SubSeq(s, 1, Len(s) - 1)

(* A LayoutTok.  Two ghosts: whether push_layout was given it as layout,   *)
(* and how many blocks are open at it.                                     *)
Tok(text, col, layout, level) ==
  [text |-> text, col |-> col, layout |-> layout, level |-> level]

Words == UNION {{words[k] : k \in DOMAIN words} : words \in Lines}
Marks == {"NEWLINE", "INDENT", "DEDENT"}

Toks ==
  [text : Words \cup Marks, col : Nat, layout : BOOLEAN, level : Nat]

-----------------------------------------------------------------------------

Init ==
  /\ pc = "mask"
  /\ indents = <<0>>
  /\ pending = FALSE
  /\ depth = 0
  /\ indent = 0
  /\ line = << >>
  /\ column = 0
  /\ final = "none"
  /\ out = << >>

(* The variables of a line: set when it starts, gone when it ends. *)
EnterLine(n, text) ==
  /\ indent' = n
  /\ line' = text
  /\ column' = 0
  /\ final' = "none"

LeaveLine == EnterLine(0, << >>)

(* An Error is thrown: the tokens and the rest of the state are lost. *)
Throw ==
  /\ pc' = "error"
  /\ indents' = <<0>>
  /\ pending' = FALSE
  /\ depth' = 0
  /\ LeaveLine
  /\ out' = << >>

(* mask_comments_for_layout reads the whole text before any line is: a     *)
(* block comment that is never closed is thrown for.                       *)
Mask ==
  /\ pc = "mask"
  /\ \/ Throw
     \/ /\ pc' = "line"
        /\ UNCHANGED <<indents, pending, depth, indent, line, column, final, out>>

(* A tab after the leading spaces of a line that is not blank. *)
TabbedLine ==
  /\ pc = "line"
  /\ Throw

(* A line with n leading spaces that continues the brackets of an earlier  *)
(* one: its indentation means nothing.                                     *)
ContinuationLine(n, text) ==
  /\ pc = "line"
  /\ depth > 0
  /\ pc' = "tokens"
  /\ EnterLine(n, text)
  /\ UNCHANGED <<indents, pending, depth, out>>

(* A mutant of DeeperLine: after ":" any indentation opens a block. *)
AnyLineOpens(n, text) ==
  /\ pc = "line"
  /\ depth = 0
  /\ pending
  /\ pc' = "tokens"
  /\ indents' = Append(indents, n)
  /\ out' = Append(out, Tok("INDENT", n, TRUE, Len(indents)))
  /\ pending' = FALSE
  /\ EnterLine(n, text)
  /\ UNCHANGED depth

(* A deeper line opens the block that the line before it announced. *)
DeeperLine(n, text) ==
  /\ pc = "line"
  /\ depth = 0
  /\ n > Back(indents)
  /\ IF ~pending
     THEN Throw
     ELSE /\ pc' = "tokens"
          /\ indents' = Append(indents, n)
          /\ out' = Append(out, Tok("INDENT", n, TRUE, Len(indents)))
          /\ pending' = FALSE
          /\ EnterLine(n, text)
          /\ UNCHANGED depth

(* A mutant of ShallowerLine: brackets do not suspend the layout. *)
ShallowerInBrackets(n, text) ==
  /\ pc = "line"
  /\ n <= Back(indents)
  /\ ~pending
  /\ pc' = "dedent"
  /\ EnterLine(n, text)
  /\ UNCHANGED <<indents, pending, depth, out>>

(* Any other line starts by closing the blocks deeper than it. *)
ShallowerLine(n, text) ==
  /\ pc = "line"
  /\ depth = 0
  /\ n <= Back(indents)
  /\ IF pending
     THEN Throw
     ELSE /\ pc' = "dedent"
          /\ EnterLine(n, text)
          /\ UNCHANGED <<indents, pending, depth, out>>

(* indents.pop_back() and its token, at column n. *)
CloseBlock(n) ==
  /\ indents' = Pop(indents)
  /\ out' = Append(out, Tok("DEDENT", n, TRUE, Len(indents) - 2))

(* A mutant of Dedent: the column a line falls back to is not compared. *)
DedentAnywhere ==
  /\ pc = "dedent"
  /\ \/ /\ indent < Back(indents)
        /\ CloseBlock(indent)
        /\ UNCHANGED <<pc, pending, depth, indent, line, column, final>>
     \/ /\ indent >= Back(indents)
        /\ pc' = "tokens"
        /\ UNCHANGED <<indents, pending, depth, indent, line, column, final, out>>

(* One turn of the loop that closes blocks, or its end: the line must then *)
(* be at the column of a block that is open.                               *)
Dedent ==
  /\ pc = "dedent"
  /\ \/ /\ indent < Back(indents)
        /\ CloseBlock(indent)
        /\ UNCHANGED <<pc, pending, depth, indent, line, column, final>>
     \/ /\ indent >= Back(indents)
        /\ IF indent # Back(indents)
           THEN Throw
           ELSE /\ pc' = "tokens"
                /\ UNCHANGED <<indents, pending, depth, indent, line, column, final, out>>

(* One token of the line.  Brackets are counted, not matched. *)
Token ==
  LET t == line[column + 1] IN
  /\ pc = "tokens"
  /\ column < Len(line)
  /\ column' = column + 1
  /\ final' = t
  /\ out' = Append(out, Tok(t, indent + column, FALSE, Len(indents) - 1))
  /\ depth' = CASE t \in Openers -> depth + 1
                [] t \in Closers /\ depth > 0 -> depth - 1
                [] OTHER -> depth
  /\ UNCHANGED <<pc, indents, pending, indent, line>>

(* The Lexer throws on a string that its line does not close. *)
UnreadableToken ==
  /\ pc = "tokens"
  /\ Throw

(* A mutant of EndOfLine: it is the end of a logical line in brackets too. *)
EveryEndOfLine ==
  /\ pc = "tokens"
  /\ column = Len(line)
  /\ pc' = "line"
  /\ out' = Append(out, Tok("NEWLINE", indent + column, TRUE,
                           Len(indents) - 1))
  /\ pending' = (final = ":")
  /\ LeaveLine
  /\ UNCHANGED <<indents, depth>>

(* The end of a line, of a logical line unless a bracket is open.  A line  *)
(* of form feeds is not trimmed and yet has no token.                      *)
EndOfLine ==
  /\ pc = "tokens"
  /\ column = Len(line)
  /\ pc' = "line"
  /\ IF depth = 0
     THEN /\ out' = Append(out, Tok("NEWLINE", indent + column, TRUE,
                                   Len(indents) - 1))
          /\ pending' = (final = ":")
     ELSE UNCHANGED <<out, pending>>
  /\ LeaveLine
  /\ UNCHANGED <<indents, depth>>

(* The end of the text, brackets open or not. *)
EndOfInput ==
  /\ pc = "line"
  /\ IF pending
     THEN Throw
     ELSE /\ pc' = "close"
          /\ UNCHANGED <<indents, pending, depth, indent, line, column, final, out>>

(* The tokens are returned. *)
Finish ==
  /\ pc' = "done"
  /\ UNCHANGED <<indents, pending, depth, indent, line, column, final, out>>

(* Mutants of Close: the open blocks are left open in brackets; the        *)
(* outermost block is closed too.                                          *)
CloseUnlessBracketed ==
  /\ pc = "close"
  /\ \/ /\ Len(indents) > 1 /\ depth = 0
        /\ CloseBlock(0)
        /\ UNCHANGED <<pc, pending, depth, indent, line, column, final>>
     \/ (Len(indents) <= 1 \/ depth > 0) /\ Finish

CloseAll ==
  /\ pc = "close"
  /\ \/ /\ Len(indents) > 0
        /\ CloseBlock(0)
        /\ UNCHANGED <<pc, pending, depth, indent, line, column, final>>
     \/ Len(indents) = 0 /\ Finish

(* The blocks still open are closed. *)
Close ==
  /\ pc = "close"
  /\ \/ /\ Len(indents) > 1
        /\ CloseBlock(0)
        /\ UNCHANGED <<pc, pending, depth, indent, line, column, final>>
     \/ Len(indents) <= 1 /\ Finish

(* The next line of a text short enough for the bound. *)
Line ==
  /\ Len(out) < MaxTokens
  /\ \E n \in 0 .. MaxIndent, text \in Lines :
       \/ ContinuationLine(n, text)
       \/ DeeperLine(n, text)
       \/ ShallowerLine(n, text)

Next ==
  \/ Mask
  \/ TabbedLine
  \/ Line
  \/ Dedent
  \/ Token
  \/ UnreadableToken
  \/ EndOfLine
  \/ EndOfInput
  \/ Close

Spec == Init /\ [][Next]_vars

-----------------------------------------------------------------------------

TypeOK ==
  /\ pc \in {"mask", "line", "dedent", "tokens", "close", "done", "error"}
  /\ indents \in Seq(Nat) /\ Len(indents) > 0
  /\ pending \in BOOLEAN
  /\ depth \in Nat
  /\ indent \in Nat
  /\ line \in Lines \cup {<< >>} /\ column \in 0 .. Len(line)
  /\ final \in Words \cup {"none"}
  /\ out \in Seq(Toks)

Layouts(text, k) ==
  {i \in 1 .. k : out[i].layout /\ out[i].text = text}

(* The stack the reader of the tokens rebuilds is the one the pass keeps:  *)
(* at no token have more blocks been closed than opened, the blocks open   *)
(* after a token are the INDENTs not yet matched, and a stream that is     *)
(* returned has closed every block, whether or not a bracket is open.      *)
BlocksBalance ==
  /\ \A k \in 1 .. Len(out) :
       Cardinality(Layouts("INDENT", k))
         = Cardinality(Layouts("DEDENT", k)) + out[k].level
  /\ pc = "done" =>
       Cardinality(Layouts("INDENT", Len(out)))
         = Cardinality(Layouts("DEDENT", Len(out)))

(* The columns of the open blocks grow inwards from 0, so a line can match *)
(* at most one of them.                                                    *)
ColumnsGrow ==
  /\ indents[1] = 0
  /\ \A i, j \in 1 .. Len(indents) : i < j => indents[i] < indents[j]

(* A block is opened after a ":" that ends a logical line, and only there: *)
(* no announced block is left without its INDENT in a stream returned.     *)
IsLayout(i, text) == out[i].layout /\ out[i].text = text
Announced(i) == i > 2 /\ IsLayout(i - 1, "NEWLINE") /\ out[i - 2].text = ":"

BlocksAreAnnounced ==
  \A i \in 1 .. Len(out) + 1 :
    IF i \in 1 .. Len(out)
    THEN IsLayout(i, "INDENT") <=> Announced(i)
    ELSE pc = "done" => ~Announced(i)

(* Indentation is the block structure: between two logical lines with no   *)
(* shallower line in between, same block means same column and a deeper    *)
(* block a greater column.                                                 *)
StartsLine(i) == ~out[i].layout /\ (i > 1 => out[i - 1].layout)

ColumnsAreBlocks ==
  \A i, j \in 1 .. Len(out) :
    /\ StartsLine(i)
    /\ StartsLine(j)
    /\ i < j
    /\ \A k \in i .. j : out[k].level >= out[i].level
    => /\ out[j].level = out[i].level => out[j].col = out[i].col
       /\ out[j].level > out[i].level => out[j].col > out[i].col

(* The stream is grouped as the text was: a block is closed only at the    *)
(* end of a logical line or of another block, except where the text ends   *)
(* inside brackets and the line is never finished.                         *)
LinesAreWhole ==
  \A i \in 1 .. Len(out) :
    IsLayout(i, "DEDENT") =>
      \/ i > 1 /\ out[i - 1].layout /\ out[i - 1].text # "INDENT"
      \/ depth > 0 /\ pc \in {"close", "done"}

=============================================================================
