------------------------------- MODULE Scanner -------------------------------
(***************************************************************************)
(* The readers of characters: Lexer (src/lexer.cpp), the scan for comments *)
(* of semantic_tokens (src/facet.cpp) and the mask of comments before the  *)
(* layout pass, which each find the comments of a text for themselves, and *)
(* the editor's view of the result (src/facet_cli.cpp): tokens as the      *)
(* differences of their positions, and the call around the cursor.         *)
(*                                                                         *)
(* A text is the sequence of its characters.  Places count from one and    *)
(* the end of a span is the place after it, 0 where there is none.         *)
(***************************************************************************)
EXTENDS Integers, SequencesExt, FiniteSetsExt

CONSTANTS Texts    \* the texts of documents

ASSUME TextsAssumption == Texts \subseteq Seq(STRING)

VARIABLES
  input,    \* input_
  pos,      \* pos_
  at,       \* line_ and column_
  toks,     \* the tokens so far: text, place, end (a ghost), line and column
  data,     \* the data of textDocument/semanticTokens/full
  help,     \* the answer to textDocument/signatureHelp
  pc        \* "lex", "done", "error", "encoded" and "helped"

vars == <<input, pos, at, toks, data, help, pc>>

(* What is read where the text ends. *)
NoChar == ""

Size == Len(input)
CharAt(k) == IF k \in 1 .. Size THEN input[k] ELSE NoChar
Starts(k, mark) == k + Len(mark) - 1 <= Size /\ SubSeq(input, k, k + Len(mark) - 1) = mark

IsBlank(c) == c \in {" ", "\n"}
Digits == {"1", "2"}
IsDigit(c) == c \in Digits
WordStarts == {"f", "x", "?", "\\"}
IsWordStart(c) == c \in WordStarts

-----------------------------------------------------------------------------

(* skip_line_comment *)
LineEnd(k) == Min({j \in k .. Size + 1 : j = Size + 1 \/ input[j] = "\n"})

Open == <<"#", "|">>
Close == <<"|", "#">>

(* skip_block_comment: the end of the comment around place k, at a depth. *)
BlockEnd[k \in Nat] ==
  [depth \in Nat |->
     CASE depth = 0 -> k
       [] depth > 0 /\ k > Size -> 0
       [] depth > 0 /\ k <= Size /\ Starts(k, Open) -> BlockEnd[k + 2][depth + 1]
       [] depth > 0 /\ k <= Size /\ Starts(k, Close) -> BlockEnd[k + 2][depth - 1]
       [] OTHER -> BlockEnd[k + 1][depth]]

(* The end of the comment that starts at a "#". *)
CommentEnd(k) == IF Starts(k, Open) THEN BlockEnd[k + 2][1] ELSE LineEnd(k)

(* skip_whitespace_and_comments *)
Skipped[k \in Nat] ==
  CASE k = 0 -> 0
    [] IsBlank(CharAt(k)) -> Skipped[k + 1]
    [] CharAt(k) = "#" -> Skipped[CommentEnd(k)]
    [] OTHER -> k

(* The first place from k on whose character is none of these. *)
While(k, chars) == Min({j \in k .. Size + 1 : j = Size + 1 \/ input[j] \notin chars})

WordEnd(k) ==
  LET end == While(k, WordStarts \cup Digits)
  IN CASE ~Starts(end, <<".", ".", ".">>) -> end
       [] Starts(end, <<".", ".", ".">>) /\ CharAt(end + 3) = "?" -> end + 4
       [] OTHER -> end + 3

NumberEnd(k) ==
  LET end == While(k + 1, Digits)
  IN IF CharAt(end) = "." /\ CharAt(end + 1) \notin {NoChar, "."}
     THEN While(end + 1, Digits) ELSE end

StringEnd[k \in Nat] ==
  CASE k > Size -> 0
    [] CharAt(k) = "\"" -> k + 1
    [] CharAt(k) = "\\" /\ k < Size -> StringEnd[k + 2]
    [] OTHER -> StringEnd[k + 1]

(* Those of ops over the characters of the texts, in its order. *)
LongOperators ==
  <<<<".", ".", ".", "?">>, <<".", ".", ".">>, <<"|", ">">>, <<"-", ">">>, <<".", ".">>,
    <<".", "(">>>>

OperatorEnd(k) ==
  LET found == {n \in DOMAIN LongOperators : Starts(k, LongOperators[n])}
  IN IF found = {} THEN k + 1 ELSE k + Len(LongOperators[Min(found)])

TokenEnd(k) ==
  CASE IsWordStart(CharAt(k)) -> WordEnd(k)
    [] IsDigit(CharAt(k)) \/ (CharAt(k) = "-" /\ IsDigit(CharAt(k + 1))) -> NumberEnd(k)
    [] CharAt(k) = "\"" -> StringEnd[k + 1]
    [] OTHER -> OperatorEnd(k)

(* tok_.text: a string without the backslashes that escape. *)
TokenText(from, end) ==
  LET Bare[k \in Nat] ==
        CASE k >= end -> << >>
          [] k < end /\ CharAt(k) = "\\" -> <<CharAt(k + 1)>> \o Bare[k + 2]
          [] OTHER -> <<CharAt(k)>> \o Bare[k + 1]
  IN IF CharAt(from) = "\"" THEN Bare[from] ELSE SubSeq(input, from, end - 1)

(* advance, from a place to another *)
Advanced(from, end) ==
  LET To[k \in from .. end] ==
        CASE k = from -> at
          [] k > from /\ input[k - 1] = "\n" -> [line |-> To[k - 1].line + 1, column |-> 1]
          [] OTHER -> [To[k - 1] EXCEPT !.column = @ + 1]
  IN To[end]

(* Lexer::next and the loop of lex_surface_tokens around it *)
NextToken ==
  /\ pc = "lex"
  /\ LET start == Skipped[pos]
         end == TokenEnd(start)
         here == Advanced(pos, start)
     IN \/ /\ start > Size
           /\ pc' = "done"
           /\ UNCHANGED <<pos, at, toks>>
        \/ /\ IF start = 0 THEN TRUE ELSE start <= Size /\ end = 0
           /\ pc' = "error"
           /\ UNCHANGED <<pos, at, toks>>
        \/ /\ start \in 1 .. Size
           /\ end # 0
           /\ toks' = Append(toks, [text |-> TokenText(start, end), place |-> start,
                                    end |-> end, line |-> here.line,
                                    column |-> here.column])
           /\ pos' = end
           /\ at' = Advanced(pos, end)
           /\ pc' = pc
  /\ UNCHANGED <<input, data, help>>

-----------------------------------------------------------------------------

Span(from, end) == [place |-> from, end |-> end]

(* What has no end goes on to the end of the text. *)
EndOrAll(end) == IF end = 0 THEN Size + 1 ELSE end

(* A mutant of Comments: strings are not passed over. *)
CommentsInStrings ==
  LET From[k \in Nat] ==
        CASE k > Size -> << >>
          [] CharAt(k) = "#" ->
               LET end == EndOrAll(CommentEnd(k))
               IN <<Span(k, end)>> \o From[end]
          [] OTHER -> From[k + 1]
  IN From[1]

(* collect_comment_tokens: the comments from place k on. *)
CommentsFrom[k \in Nat] ==
  CASE k > Size -> << >>
    [] CharAt(k) = "\"" -> CommentsFrom[EndOrAll(StringEnd[k + 1])]
    [] CharAt(k) = "#" ->
         <<Span(k, EndOrAll(CommentEnd(k)))>> \o CommentsFrom[EndOrAll(CommentEnd(k))]
    [] OTHER -> CommentsFrom[k + 1]

Comments == CommentsFrom[1]

(* semantic_tokens before it sorts them: a token is as long as its text. *)
Unsorted ==
  LET comments == [k \in DOMAIN Comments |->
                     [place |-> Comments[k].place,
                      length |-> Comments[k].end - Comments[k].place]]
      tokens == [k \in DOMAIN toks |->
                   [place |-> toks[k].place, length |-> Len(toks[k].text)]]
  IN comments \o tokens

(* semantic_tokens, by their places: the nth is the one with n - 1 before  *)
(* it.                                                                     *)
SemanticTokens ==
  [n \in DOMAIN Unsorted |->
     CHOOSE t \in Range(Unsorted) :
       Cardinality({s \in Range(Unsorted) : s.place < t.place}) = n - 1]

(* The line and the column of a place, counted from zero. *)
Position(k) ==
  LET breaks == {j \in 1 .. k - 1 : input[j] = "\n"}
  IN [line |-> Cardinality(breaks), column |-> k - 1 - Max({0} \cup breaks)]

(* A mutant of Delta: from the last token, be it on another line. *)
DeltaAcrossLines(before, here) ==
  [line |-> here.line - before.line, start |-> here.column - before.column]

(* semantic_token_data, for one token *)
Delta(before, here) ==
  [line |-> here.line - before.line,
   start |-> IF here.line = before.line THEN here.column - before.column
             ELSE here.column]

(* semantic_token_data.  When an Error is thrown there are no tokens. *)
Encode ==
  /\ pc \in {"done", "error"}
  /\ LET tokens == SemanticTokens
         Before(k) == IF k = 1 THEN [line |-> 0, column |-> 0]
                      ELSE Position(tokens[k - 1].place)
     IN data' = IF pc = "error" THEN << >>
                ELSE [k \in DOMAIN tokens |->
                        [delta |-> Delta(Before(k), Position(tokens[k].place)),
                         length |-> tokens[k].length]]
  /\ pc' = "encoded"
  /\ UNCHANGED <<input, pos, at, toks, help>>

-----------------------------------------------------------------------------

(* A mutant of Enclosing: a bracket that was closed counts as any other. *)
EnclosingAny(cursor) ==
  Max({0} \cup {k \in 1 .. cursor : CharAt(k) \in {"(", "["}})

(* signature_help: the bracket that is open before place k + 1, looking    *)
(* back past as many open ones as were closed.  The two kinds are counted  *)
(* apart.                                                                  *)
Back[k \in 0 .. Size] ==
  [round \in Nat |-> [square \in Nat |->
     CASE k = 0 -> 0
       [] CharAt(k) = ")" -> Back[k - 1][round + 1][square]
       [] CharAt(k) = "]" -> Back[k - 1][round][square + 1]
       [] CharAt(k) = "(" -> IF round = 0 THEN k ELSE Back[k - 1][round - 1][square]
       [] CharAt(k) = "[" -> IF square = 0 THEN k ELSE Back[k - 1][round][square - 1]
       [] OTHER -> Back[k - 1][round][square]]]

(* signature_help: the bracket around the cursor. *)
Enclosing(cursor) == Back[cursor][0][0]

Count(c, from, to) == Cardinality({k \in from .. to : CharAt(k) = c})

(* signature_help, asked with cursor characters before it.  The commas of  *)
(* calls inside the call are counted too.                                  *)
Signature(cursor) ==
  /\ pc = "lex"
  /\ pos = 1
  /\ help' = [cursor |-> cursor, open |-> Enclosing(cursor),
              active |-> IF Enclosing(cursor) = 0 THEN 0
                         ELSE Count(",", Enclosing(cursor), cursor)]
  /\ pc' = "helped"
  /\ UNCHANGED <<input, pos, at, toks, data>>

Init ==
  /\ input \in Texts
  /\ pos = 1
  /\ at = [line |-> 1, column |-> 1]
  /\ toks = << >>
  /\ data = << >>
  /\ help = [cursor |-> 0, open |-> 0, active |-> 0]
  /\ pc = "lex"

Next == NextToken \/ Encode \/ \E cursor \in 0 .. Size : Signature(cursor)

Spec == Init /\ [][Next]_vars

-----------------------------------------------------------------------------

(* mask_comments_for_layout: the places it makes blank from k on.  Of a    *)
(* comment that does not end it makes no text but an Error.                *)
Masked[k \in Nat] ==
  CASE k > Size -> {}
    [] CharAt(k) = "#" ->
         {j \in k .. EndOrAll(CommentEnd(k)) - 1 : input[j] # "\n"}
           \cup Masked[EndOrAll(CommentEnd(k))]
    [] OTHER -> Masked[k + 1]

Mask == [k \in 1 .. Size |-> IF k \in Masked[1] THEN " " ELSE input[k]]

Covers(span, k) == span.place <= k /\ k < span.end

(* No string holds the mark of a comment: the mask takes it for one. *)
NoMarkInStrings ==
  \A k \in DOMAIN toks :
    input[toks[k].place] = "\"" =>
      \A j \in toks[k].place .. toks[k].end - 1 : input[j] # "#"

(* In a text that is lexed, each character that is not blank is in one     *)
(* token or in one comment and never in two, and what the layout pass does *)
(* not see is the comments (Lexer::next, collect_comment_tokens and        *)
(* mask_comments_for_layout).                                              *)
ScannersAgree ==
  pc = "done" =>
    LET spans == Range(Comments) \cup {Span(toks[k].place, toks[k].end) : k \in DOMAIN toks}
        hidden(k) == \E c \in Range(Comments) : Covers(c, k)
    IN /\ \A k \in 1 .. Size :
            LET over == {s \in spans : Covers(s, k)}
            IN Cardinality(over) <= 1 /\ (over = {} => IsBlank(input[k]))
       /\ NoMarkInStrings =>
            Mask = [k \in 1 .. Size |->
                      IF hidden(k) /\ input[k] # "\n" THEN " " ELSE input[k]]

(* Decoding, as a client of the protocol does it. *)
Decoded ==
  LET add(so, delta) ==
        [line |-> so.line + delta.line,
         column |-> IF delta.line = 0 THEN so.column + delta.start ELSE delta.start]
      To[k \in 0 .. Len(data)] ==
        IF k = 0 THEN [line |-> 0, column |-> 0] ELSE add(To[k - 1], data[k].delta)
  IN [k \in DOMAIN data |-> To[k]]

(* offset_for_position *)
OffsetFor(p) ==
  LET breaks == {j \in 1 .. Size : input[j] = "\n"}
      lineStart == IF p.line = 0 THEN 0
                   ELSE CHOOSE j \in breaks :
                          Cardinality({i \in breaks : i <= j}) = p.line
  IN Min({Size, lineStart + p.column})

(* The client finds each token of the lexer where the lexer saw it, from   *)
(* the differences it is sent (semantic_token_data against the line_ and   *)
(* column_ of Lexer), as long as it is in the text unless it is a string   *)
(* with an escape, and the position it sends back is the same place        *)
(* (offset_for_position).                                                  *)
ClientFindsTheTokens ==
  data # << >> =>
    \A n \in DOMAIN toks :
      \E k \in DOMAIN data :
        /\ Decoded[k].line = toks[n].line - 1
        /\ Decoded[k].column = toks[n].column - 1
        /\ OffsetFor(Decoded[k]) = toks[n].place - 1
        /\ data[k].length = toks[n].end - toks[n].place
             \/ \E j \in toks[n].place .. toks[n].end : CharAt(j) = "\\"

(* The brackets that are open after n characters, innermost last, with     *)
(* the commas directly inside each; the commas inside those that were      *)
(* closed, and the closers that match nothing.                             *)
Nesting[n \in 0 .. Size] ==
  LET so == Nesting[n - 1]
      top == so.open[Len(so.open)]
      matches == so.open # << >>
                   /\ CharAt(top.place) = (IF CharAt(n) = ")" THEN "(" ELSE "[")
  IN CASE n = 0 -> [open |-> << >>, inner |-> 0, stray |-> 0]
       [] CharAt(n) \in {"(", "["} ->
            [so EXCEPT !.open = Append(@, [place |-> n, commas |-> 0])]
       [] CharAt(n) \in {")", "]"} /\ matches ->
            [so EXCEPT !.open = Front(@), !.inner = @ + top.commas]
       [] CharAt(n) \in {")", "]"} /\ ~matches -> [so EXCEPT !.stray = @ + 1]
       [] CharAt(n) = "," /\ so.open # << >> ->
            [so EXCEPT !.open[Len(so.open)].commas = @ + 1]
       [] OTHER -> so

(* Where brackets are nested, the call that is shown is the innermost one  *)
(* around the cursor, and its active parameter is the one the cursor is    *)
(* in, if no call inside it has commas (signature_help).                   *)
SignatureIsOfTheCall ==
  pc = "helped" =>
    LET nesting == Nesting[help.cursor]
        open == nesting.open
    IN nesting.stray = 0 =>
         /\ help.open = (IF open = << >> THEN 0 ELSE open[Len(open)].place)
         /\ open # << >> /\ nesting.inner = 0 => help.active = open[Len(open)].commas

=============================================================================
