------------------------ MODULE StatementParserProofs ------------------------
(***************************************************************************)
(* Proofs about the layout pass and the reader of do blocks.               *)
(*                                                                         *)
(* The layout pass: for every set of lines and every bound.  The tokens of *)
(* a line are arbitrary, so brackets need not match and a ":" may end a    *)
(* line, a continued line or nothing.                                      *)
(*                                                                         *)
(* The reader: for every set of lines and of expressions.  What is assumed *)
(* is that no word of a line is spelled like a layout token (PlainWords):  *)
(* the reader compares texts, and would take it for one.                   *)
(***************************************************************************)
EXTENDS StatementParser, LeastProofs, SequenceTheorems, FiniteSetTheorems, TLAPS

-----------------------------------------------------------------------------
(* What Append gives the tokens already out and the new one.               *)
Grown(s, e, r) ==
  /\ Len(r) = Len(s) + 1
  /\ \A k \in 1 .. Len(s) : r[k] = s[k]
  /\ r[Len(s) + 1] = e

LEMMA AppendGrows ==
  ASSUME NEW S, NEW s \in Seq(S), NEW e \in S
  PROVE  /\ Append(s, e) \in Seq(S)
         /\ Len(s) \in Nat
         /\ Grown(s, e, Append(s, e))
BY AppendProperties, LenProperties DEF Grown

(* What Pop leaves of a stack.                                             *)
Shrunk(s, r) ==
  /\ Len(r) = Len(s) - 1
  /\ \A k \in 1 .. Len(s) - 1 : r[k] = s[k]

LEMMA PopShrinks ==
  ASSUME NEW S, NEW s \in Seq(S), Len(s) > 0
  PROVE  Pop(s) \in Seq(S) /\ Shrunk(s, Pop(s))
<1>1. Len(s) \in Nat /\ \A k \in 1 .. Len(s) - 1 : s[k] \in S
  BY LenProperties, ElementOfSeq
<1>2. Len(s) - 1 \in Int /\ 1 \in Int
  BY <1>1
<1>3. SubSeq(s, 1, Len(s) - 1) \in Seq(S)
  BY <1>1, <1>2, SubSeqProperties
<1>4. Len(SubSeq(s, 1, Len(s) - 1))
        = IF 1 <= Len(s) - 1 THEN Len(s) - 1 - 1 + 1 ELSE 0
  BY <1>1, <1>2, SubSeqProperties
<1>5. \A k \in 1 .. Len(s) - 1 - 1 + 1 :
        SubSeq(s, 1, Len(s) - 1)[k] = s[1 + k - 1]
  BY <1>1, <1>2, SubSeqProperties
<1>6. Shrunk(s, Pop(s))
  <2>1. Len(s) - 1 - 1 + 1 = Len(s) - 1  BY <1>1
  <2>2. Len(SubSeq(s, 1, Len(s) - 1)) = Len(s) - 1
    <3> DEFINE n == Len(s)
               m == Len(SubSeq(s, 1, n - 1))
    <3>1. n \in Nat /\ n > 0 /\ m = IF 1 <= n - 1 THEN n - 1 - 1 + 1 ELSE 0
      BY <1>1, <1>4
    <3> HIDE DEF n, m
    <3>2. m = n - 1  BY <3>1
    <3> QED BY <3>2 DEF m, n
  <2>3. ASSUME NEW k \in 1 .. Len(s) - 1
        PROVE  SubSeq(s, 1, Len(s) - 1)[k] = s[k]
    <3>1. 1 + k - 1 = k  BY <1>1
    <3>2. SubSeq(s, 1, Len(s) - 1)[k] = s[1 + k - 1]  BY <1>5, <2>1
    <3> QED BY <3>1, <3>2
  <2> QED BY <2>2, <2>3 DEF Pop, Shrunk
<1> QED BY <1>3, <1>6 DEF Pop

-----------------------------------------------------------------------------
(* First the types, with the columns and the control they depend on: a     *)
(* block is only closed while one is open, because the outermost is at     *)
(* column 0.                                                               *)

(* Where the pass may be with a ":" not yet answered by a block.           *)
Control ==
  /\ pending => depth = 0 /\ pc = "line"
  /\ pc = "dedent" => depth = 0
  /\ pc = "done" => Len(indents) = 1
  /\ pc \in {"mask", "error"} => out = << >> /\ depth = 0

ShapeInv == TypeOK /\ ColumnsGrow /\ Control

(* What is put out is a token; the set of truth values is a parameter of   *)
(* RecordTyped, so that no prover meets it among numbers.                  *)
LEMMA RecordTyped ==
  ASSUME NEW B, NEW T, NEW text \in T, NEW col \in Nat, NEW layout \in B,
         NEW level \in Nat
  PROVE  [text |-> text, col |-> col, layout |-> layout, level |-> level]
           \in [text : T, col : Nat, layout : B, level : Nat]
OBVIOUS

LEMMA TokTyped ==
  ASSUME NEW text \in Words \cup Marks, NEW col \in Nat, NEW layout \in BOOLEAN,
         NEW level \in Nat
  PROVE  Tok(text, col, layout, level) \in Toks
BY RecordTyped, Zenon DEF Tok, Toks

LEMMA OutGrows ==
  ASSUME TypeOK, NEW e \in Toks, out' = Append(out, e)
  PROVE  /\ out' \in Seq(Toks)
         /\ Len(out) \in Nat
         /\ Grown(out, e, out')
BY AppendGrows DEF TypeOK

LEMMA OpenTyped ==
  ASSUME TypeOK, ColumnsGrow, NEW n \in Nat, n > Back(indents),
         indents' = Append(indents, n)
  PROVE  /\ indents' \in Seq(Nat) /\ Len(indents') > 0
         /\ ColumnsGrow'
         /\ Len(indents) \in Nat
         /\ Grown(indents, n, indents')
<1>1. /\ indents' \in Seq(Nat) /\ Len(indents) \in Nat \ {0}
      /\ Grown(indents, n, indents')
  BY AppendGrows, LenProperties DEF TypeOK
<1>2. \A i \in 1 .. Len(indents) : indents[i] \in Nat
  BY ElementOfSeq DEF TypeOK
<1>3. \A i \in 1 .. Len(indents) : indents[i] < n
  BY <1>1, <1>2 DEF ColumnsGrow, Back
<1>4. ColumnsGrow'
  <2>1. indents'[1] = 0
    BY <1>1 DEF ColumnsGrow, Grown
  <2>2. ASSUME NEW i \in 1 .. Len(indents'), NEW j \in 1 .. Len(indents'), i < j
        PROVE  indents'[i] < indents'[j]
    <3>1. CASE j \in 1 .. Len(indents)
      <4>1. i \in 1 .. Len(indents)  BY <1>1, <2>2, <3>1
      <4> QED BY <1>1, <2>2, <3>1, <4>1 DEF ColumnsGrow, Grown
    <3>2. CASE j = Len(indents) + 1
      <4>1. i \in 1 .. Len(indents)  BY <1>1, <2>2, <3>2
      <4> QED BY <1>1, <1>3, <3>2, <4>1 DEF Grown
    <3> QED BY <1>1, <3>1, <3>2 DEF Grown
  <2> QED BY <2>1, <2>2 DEF ColumnsGrow
<1> QED BY <1>1, <1>4 DEF Grown

LEMMA CloseTyped ==
  ASSUME TypeOK, ColumnsGrow, Len(indents) > 1, NEW n \in Nat, CloseBlock(n)
  PROVE  /\ indents' \in Seq(Nat) /\ Len(indents') > 0
         /\ ColumnsGrow'
         /\ Len(indents) \in Nat
         /\ Shrunk(indents, indents')
         /\ out' \in Seq(Toks)
         /\ Len(out) \in Nat
         /\ Grown(out, Tok("DEDENT", n, TRUE, Len(indents) - 2), out')
<1>1. /\ indents' \in Seq(Nat) /\ Len(indents) \in Nat
      /\ Shrunk(indents, indents')
  BY PopShrinks, LenProperties DEF TypeOK, CloseBlock
<1>2. ColumnsGrow'
  BY <1>1 DEF ColumnsGrow, Shrunk
<1>3. Tok("DEDENT", n, TRUE, Len(indents) - 2) \in Toks
  <2>1. Len(indents) - 2 \in Nat  BY <1>1
  <2>2. "DEDENT" \in Words \cup Marks  BY DEF Marks
  <2>3. TRUE \in BOOLEAN  OBVIOUS
  <2> QED BY <2>1, <2>2, <2>3, TokTyped, Zenon
<1>4. /\ out' \in Seq(Toks)
      /\ Len(out) \in Nat
      /\ Grown(out, Tok("DEDENT", n, TRUE, Len(indents) - 2), out')
  <2> DEFINE e == Tok("DEDENT", n, TRUE, Len(indents) - 2)
  <2>1. e \in Toks /\ out' = Append(out, e)  BY <1>3 DEF CloseBlock
  <2> HIDE DEF e
  <2>2. /\ out' \in Seq(Toks)
        /\ Len(out) \in Nat
        /\ Grown(out, e, out')
    BY <2>1, OutGrows
  <2> QED BY <2>2 DEF e
<1>5. Len(indents') > 0
  BY <1>1 DEF Shrunk
<1> QED BY <1>1, <1>2, <1>4, <1>5, Zenon

LEMMA ThrowKeepsShape == ASSUME Throw PROVE ShapeInv'
<1>1. Len(<< >>) = 0 /\ << >> \in Seq(Toks)
  BY EmptySeq
<1>2. <<0>> \in Seq(Nat) /\ Len(<<0>>) = 1 /\ <<0>>[1] = 0
  OBVIOUS
<1>3. /\ pc' = "error" /\ indents' = <<0>> /\ depth' = 0 /\ indent' = 0
      /\ line' = << >> /\ column' = 0 /\ final' = "none" /\ out' = << >>
  BY DEF Throw, LeaveLine, EnterLine
<1>4. pending' = FALSE
  BY DEF Throw
<1>5. TypeOK'
  <2>1. pending' \in BOOLEAN
    BY <1>4, Zenon
  <2>2. column' \in 0 .. Len(line')
    BY <1>3, <1>1
  <2> QED BY <1>1, <1>2, <1>3, <2>1, <2>2 DEF TypeOK
<1>6. ColumnsGrow'
  BY <1>2, <1>3 DEF ColumnsGrow
<1>7. Control'
  BY <1>3, <1>4 DEF Control
<1> QED BY <1>5, <1>6, <1>7 DEF ShapeInv

(* A block is closed for a line only while more than the outermost is      *)
(* open.                                                                   *)
LEMMA DedentHasBlock ==
  ASSUME TypeOK, ColumnsGrow, indent < Back(indents)
  PROVE  Len(indents) > 1
<1>1. Len(indents) \in Nat \ {0} /\ indent \in Nat
  BY LenProperties DEF TypeOK
<1> QED BY <1>1 DEF ColumnsGrow, Back

LEMMA LineTyped ==
  ASSUME NEW n \in 0 .. MaxIndent, NEW text \in Lines, EnterLine(n, text),
         LayoutAssumption
  PROVE  /\ n \in Nat /\ indent' \in Nat
         /\ line' \in Lines \cup {<< >>} /\ column' \in 0 .. Len(line')
         /\ final' \in Words \cup {"none"}
<1>1. n \in Nat
  BY DEF LayoutAssumption
<1>2. Len(text) \in Nat
  BY LenProperties DEF LayoutAssumption
<1> QED BY <1>1, <1>2 DEF EnterLine

LEMMA NoLineTyped ==
  ASSUME LeaveLine
  PROVE  /\ indent' \in Nat
         /\ line' \in Lines \cup {<< >>} /\ column' \in 0 .. Len(line')
         /\ final' \in Words \cup {"none"}
<1>1. Len(<< >>) = 0
  BY EmptySeq
<1> QED BY <1>1 DEF LeaveLine, EnterLine

LEMMA SameShape ==
  ASSUME ShapeInv, UNCHANGED <<indents, pending, depth, indent, line, column,
                               final, out>>,
         pc' \in {"line", "dedent", "tokens", "close", "done"},
         pending => pc' = "line",
         pc' = "dedent" => depth = 0,
         pc' = "done" => Len(indents) = 1
  PROVE  ShapeInv'
<1>1. TypeOK'
  BY DEF ShapeInv, TypeOK
<1>2. ColumnsGrow'
  BY DEF ShapeInv, ColumnsGrow
<1>3. Control'
  BY DEF ShapeInv, Control
<1> QED BY <1>1, <1>2, <1>3 DEF ShapeInv

LEMMA ShapeStep ==
  ASSUME ShapeInv, Next, LayoutAssumption
  PROVE  ShapeInv'
<1> USE DEF ShapeInv
<1>1. CASE Mask
  <2>1. CASE Throw
    BY <2>1, ThrowKeepsShape
  <2>2. CASE pc = "mask" /\ pc' = "line"
             /\ UNCHANGED <<indents, pending, depth, indent, line, column,
                            final, out>>
    BY <2>2, SameShape DEF Control
  <2> QED BY <1>1, <2>1, <2>2 DEF Mask
<1>2. CASE TabbedLine
  BY <1>2, ThrowKeepsShape DEF TabbedLine
<1>3. CASE Line
  <2>1. PICK n \in 0 .. MaxIndent, text \in Lines :
          \/ ContinuationLine(n, text)
          \/ DeeperLine(n, text)
          \/ ShallowerLine(n, text)
    BY <1>3 DEF Line
  <2>2. ASSUME EnterLine(n, text),
               UNCHANGED <<indents, pending, depth, out>>,
               pc = "line", ~pending, pc' \in {"tokens", "dedent"},
               pc' = "dedent" => depth = 0
        PROVE  ShapeInv'
    <3>1. TypeOK'
      BY <2>2, LineTyped DEF TypeOK
    <3>2. ColumnsGrow'
      BY <2>2 DEF ColumnsGrow
    <3>3. Control'
      BY <2>2 DEF Control
    <3> QED BY <3>1, <3>2, <3>3
  <2>3. CASE ContinuationLine(n, text)
    <3>1. ~pending
      BY <2>3 DEF ContinuationLine, Control, TypeOK
    <3> QED BY <2>2, <2>3, <3>1 DEF ContinuationLine
  <2>4. CASE DeeperLine(n, text)
    <3>1. CASE Throw
      BY <3>1, ThrowKeepsShape
    <3>2. CASE ~Throw
      <4>1. /\ n > Back(indents) /\ depth = 0 /\ depth' = depth
            /\ pc' = "tokens" /\ indents' = Append(indents, n)
            /\ EnterLine(n, text)
        BY <2>4, <3>2 DEF DeeperLine
      <4>2. out' = Append(out, Tok("INDENT", n, TRUE, Len(indents)))
        BY <2>4, <3>2 DEF DeeperLine
      <4>3. pending' = FALSE
        BY <2>4, <3>2 DEF DeeperLine
      <4>4. n \in Nat
        BY <4>1, LineTyped
      <4>5. /\ indents' \in Seq(Nat) /\ Len(indents') > 0
            /\ ColumnsGrow' /\ Len(indents) \in Nat
        BY <4>1, <4>4, OpenTyped
      <4>6. out' \in Seq(Toks)
        <5>1. "INDENT" \in Words \cup Marks  BY DEF Marks
        <5>2. TRUE \in BOOLEAN  OBVIOUS
        <5>3. Tok("INDENT", n, TRUE, Len(indents)) \in Toks
          BY <4>4, <4>5, <5>1, <5>2, TokTyped, Zenon
        <5> QED BY <4>2, <5>3, OutGrows
      <4>7. TypeOK'
        <5>1. pending' \in BOOLEAN  BY <4>3, Zenon
        <5> QED BY <4>1, <4>5, <4>6, <5>1, LineTyped DEF TypeOK
      <4>8. Control'
        BY <4>1, <4>3 DEF Control
      <4> QED BY <4>5, <4>7, <4>8
    <3> QED BY <3>1, <3>2
  <2>5. CASE ShallowerLine(n, text)
    <3>1. CASE Throw
      BY <3>1, ThrowKeepsShape
    <3>2. CASE ~Throw
      BY <2>2, <2>5, <3>2 DEF ShallowerLine
    <3> QED BY <3>1, <3>2
  <2> QED BY <2>1, <2>3, <2>4, <2>5
<1>4. ASSUME NEW n \in Nat, CloseBlock(n), Len(indents) > 1,
             pc \in {"dedent", "close"},
             UNCHANGED <<pc, pending, depth, indent, line, column, final>>
      PROVE  ShapeInv'
  <2>1. /\ indents' \in Seq(Nat) /\ Len(indents') > 0 /\ ColumnsGrow'
        /\ out' \in Seq(Toks)
    BY <1>4, CloseTyped
  <2>2. TypeOK'
    BY <1>4, <2>1 DEF TypeOK
  <2>3. Control'
    BY <1>4 DEF Control
  <2> QED BY <2>1, <2>2, <2>3
<1>5. CASE Dedent
  <2>1. CASE /\ indent < Back(indents) /\ CloseBlock(indent)
             /\ UNCHANGED <<pc, pending, depth, indent, line, column, final>>
    <3>1. indent \in Nat
      BY DEF TypeOK
    <3>2. Len(indents) > 1
      BY <2>1, DedentHasBlock
    <3> QED BY <1>4, <1>5, <2>1, <3>1, <3>2 DEF Dedent
  <2>2. CASE Throw
    BY <2>2, ThrowKeepsShape
  <2>3. CASE /\ pc' = "tokens"
             /\ UNCHANGED <<indents, pending, depth, indent, line, column,
                            final, out>>
    BY <1>5, <2>3, SameShape DEF Dedent, Control
  <2> QED BY <1>5, <2>1, <2>2, <2>3 DEF Dedent
<1>6. CASE Token
  <2> DEFINE t == line[column + 1]
             e == Tok(t, indent + column, FALSE, Len(indents) - 1)
  <2>1. /\ pc' = "tokens" /\ pc = "tokens" /\ column < Len(line)
        /\ indents' = indents /\ indent' = indent /\ line' = line
        /\ column' = column + 1 /\ final' = t /\ pending' = pending
        /\ out' = Append(out, e)
        /\ depth' = CASE t \in Openers -> depth + 1
                      [] t \in Closers /\ depth > 0 -> depth - 1
                      [] OTHER -> depth
    BY <1>6 DEF Token
  <2>2. line \in Seq(STRING) /\ line \in Lines /\ Len(line) \in Nat
    <3>1. Len(<< >>) = 0  BY EmptySeq
    <3>2. line # << >>  BY <2>1, <3>1 DEF TypeOK
    <3>3. line \in Lines /\ line \in Seq(STRING)
      BY <3>2 DEF TypeOK, LayoutAssumption
    <3> QED BY <3>3, LenProperties
  <2>3. t \in Words /\ column' \in 0 .. Len(line')
    <3>1. column \in Nat /\ column + 1 \in 1 .. Len(line)
      BY <2>1, <2>2 DEF TypeOK
    <3>2. column + 1 \in DOMAIN line
      BY <2>2, <3>1, LenProperties
    <3> QED BY <2>1, <2>2, <3>1, <3>2 DEF Words
  <2>4. e \in Toks
    <3>1. indent + column \in Nat /\ Len(indents) - 1 \in Nat
      BY <2>2, LenProperties DEF TypeOK
    <3>2. FALSE \in BOOLEAN  OBVIOUS
    <3>3. t \in Words \cup Marks  BY <2>3
    <3> HIDE DEF t
    <3> QED BY <3>1, <3>2, <3>3, TokTyped, Zenon
  <2>5. depth' \in Nat
    <3> HIDE DEF t, e
    <3> QED BY <2>1 DEF TypeOK
  <2>6. out' \in Seq(Toks)
    <3> HIDE DEF e
    <3> QED BY <2>1, <2>4, OutGrows
  <2> HIDE DEF t, e
  <2>7. TypeOK'
    BY <2>1, <2>3, <2>5, <2>6 DEF TypeOK
  <2>8. ColumnsGrow'
    BY <2>1 DEF ColumnsGrow
  <2>9. Control'
    BY <2>1 DEF Control
  <2> QED BY <2>7, <2>8, <2>9
<1>7. CASE UnreadableToken
  BY <1>7, ThrowKeepsShape DEF UnreadableToken
<1>8. CASE EndOfLine
  <2>1. /\ pc' = "line" /\ indents' = indents /\ depth' = depth /\ LeaveLine
        /\ pc = "tokens"
    BY <1>8 DEF EndOfLine
  <2>2. ColumnsGrow'
    BY <2>1 DEF ColumnsGrow
  <2>3. CASE depth = 0
    <3> DEFINE e == Tok("NEWLINE", indent + column, TRUE, Len(indents) - 1)
    <3>1. out' = Append(out, e)
      BY <1>8, <2>3 DEF EndOfLine
    <3>2. pending' = (final = ":")
      BY <1>8, <2>3 DEF EndOfLine
    <3>3. e \in Toks
      <4>1. Len(line) \in Nat /\ Len(indents) - 1 \in Nat
        BY <1>8, LenProperties, EmptySeq DEF TypeOK, LayoutAssumption
      <4>2. indent + column \in Nat
        BY <4>1 DEF TypeOK
      <4>3. "NEWLINE" \in Words \cup Marks  BY DEF Marks
      <4>4. TRUE \in BOOLEAN  OBVIOUS
      <4> QED BY <4>1, <4>2, <4>3, <4>4, TokTyped, Zenon
    <3>4. out' \in Seq(Toks)
      <4> HIDE DEF e
      <4> QED BY <3>1, <3>3, OutGrows
    <3>5. pending' \in BOOLEAN
      BY <3>2, Zenon
    <3>6. TypeOK'
      BY <2>1, <3>4, <3>5, NoLineTyped DEF TypeOK
    <3>7. Control'
      BY <2>1, <2>3 DEF Control
    <3> QED BY <2>2, <3>6, <3>7
  <2>4. CASE depth # 0
    <3>1. out' = out /\ pending' = pending
      BY <1>8, <2>4 DEF EndOfLine
    <3>2. TypeOK'
      BY <2>1, <3>1, NoLineTyped DEF TypeOK
    <3>3. Control'
      BY <2>1, <3>1 DEF Control
    <3> QED BY <2>2, <3>2, <3>3
  <2> QED BY <2>3, <2>4
<1>9. CASE EndOfInput
  <2>1. CASE Throw
    BY <2>1, ThrowKeepsShape
  <2>2. CASE ~Throw
    BY <1>9, <2>2, SameShape DEF EndOfInput
  <2> QED BY <2>1, <2>2
<1>10. CASE Close
  <2>1. CASE Len(indents) > 1
    BY <1>4, <1>10, <2>1 DEF Close
  <2>2. CASE ~(Len(indents) > 1)
    <3>1. Len(indents) = 1
      <4>1. indents \in Seq(Nat) /\ Len(indents) > 0
        BY DEF TypeOK
      <4>2. Len(indents) \in Nat
        BY <4>1, LenProperties
      <4>3. \A k \in Nat : k > 0 /\ ~(k > 1) => k = 1
        OBVIOUS
      <4> QED BY <2>2, <4>1, <4>2, <4>3
    <3> QED BY <1>10, <2>2, <3>1, SameShape DEF Close, Finish, Control
  <2> QED BY <2>1, <2>2
<1> QED BY <1>1, <1>2, <1>3, <1>5, <1>6, <1>7, <1>8, <1>9, <1>10 DEF Next

(* In every state of the layout pass the types hold, the columns of the    *)
(* stack grow from 0, and a ":" waits only where a block may begin         *)
(* (lex_layout_for_test).                                                  *)
THEOREM LayoutShape == Spec => []ShapeInv
<1>1. Init => ShapeInv
  <2> SUFFICES ASSUME Init PROVE ShapeInv
    OBVIOUS
  <2>1. Len(<< >>) = 0 /\ << >> \in Seq(Toks)
    BY EmptySeq
  <2>2. <<0>> \in Seq(Nat) /\ Len(<<0>>) = 1 /\ <<0>>[1] = 0
    OBVIOUS
  <2>3. /\ pc = "mask" /\ indents = <<0>> /\ depth = 0 /\ indent = 0
        /\ line = << >> /\ column = 0 /\ final = "none" /\ out = << >>
    BY DEF Init
  <2>4. pending = FALSE
    BY DEF Init
  <2>5. pending \in BOOLEAN
    BY <2>4, Zenon
  <2>6. column \in 0 .. Len(line)
    BY <2>1, <2>3
  <2>7. TypeOK
    BY <2>1, <2>2, <2>3, <2>5, <2>6 DEF TypeOK
  <2>8. ColumnsGrow
    BY <2>2, <2>3 DEF ColumnsGrow
  <2>9. Control
    BY <2>3, <2>4 DEF Control
  <2> QED BY <2>7, <2>8, <2>9 DEF ShapeInv
<1>2. ShapeInv /\ [Next]_vars => ShapeInv'
  <2>1. CASE Next
    BY <2>1, ShapeStep, LayoutAssumption
  <2>2. CASE UNCHANGED vars
    BY <2>2 DEF vars, ShapeInv, TypeOK, ColumnsGrow, Control
  <2> QED BY <2>1, <2>2
<1> QED BY <1>1, <1>2, PTL DEF Spec

(* Every column, token and counter is of its type, whatever the lines: the *)
(* stack of columns is never empty, so no access to its last is undefined. *)
THEOREM LayoutTypeOK == Spec => []TypeOK
<1>1. ShapeInv => TypeOK
  BY DEF ShapeInv
<1> QED BY <1>1, LayoutShape, PTL

(* The open blocks are at columns that grow inwards from 0, so that a      *)
(* line matches at most one of them.                                       *)
THEOREM LayoutColumnsGrow == Spec => []ColumnsGrow
<1>1. ShapeInv => ColumnsGrow
  BY DEF ShapeInv
<1> QED BY <1>1, LayoutShape, PTL

-----------------------------------------------------------------------------
(* Next where a line starts.  The steps of the pass differ much, what they *)
(* do to the tokens and the stack differs little: the five forms below and *)
(* no other.  They are what the rest of the module argues about.           *)

After(text) ==
  Len(out) = 0 \/ (out[Len(out)].layout /\ out[Len(out)].text # text)

WithinLine == Len(out) > 0 /\ ~out[Len(out)].layout

(* Between logical lines the last token is layout, and not the start of a  *)
(* block; within one it is a token of the line.  A line that has given no  *)
(* token and continues no other is at the column of the innermost block.   *)
LineInv ==
  /\ Len(out) = 0 => Len(indents) = 1
  /\ Len(out) > 0 => out[Len(out)].level = Len(indents) - 1
  /\ \A i \in 1 .. Len(out) : out[i].layout => out[i].text \in Marks
  /\ pc = "dedent" => column = 0 /\ final = "none"
  /\ pc \in {"line", "dedent", "close"} /\ depth = 0 => After("INDENT")
  /\ pc \in {"line", "tokens"} /\ depth > 0 => WithinLine
  /\ pc = "tokens" /\ column = 0 /\ depth = 0
       => After(":") /\ indent = Back(indents)
  /\ pc = "tokens" /\ column = 0 => final = "none"
  /\ pc = "tokens" /\ column > 0 => WithinLine /\ out[Len(out)].text = final

Grew(text, col, level) ==
  /\ Len(out') = Len(out) + 1
  /\ \A k \in 1 .. Len(out) : out'[k] = out[k]
  /\ out'[Len(out) + 1].text = text
  /\ out'[Len(out) + 1].col = col
  /\ out'[Len(out) + 1].level = level

Lost == Len(out') = 0 /\ Len(indents') = 1 /\ ~pending'

Stood == out' = out /\ indents' = indents /\ (pending' <=> pending)

Opened ==
  \E n \in Nat :
    /\ pending /\ ~pending'
    /\ Grown(indents, n, indents')
    /\ Grew("INDENT", n, Len(indents)) /\ out'[Len(out) + 1].layout

Closed ==
  \E n \in Nat :
    /\ pc \in {"dedent", "close"}
    /\ ~pending /\ ~pending'
    /\ Len(indents) > 1 /\ Shrunk(indents, indents')
    /\ Grew("DEDENT", n, Len(indents) - 2) /\ out'[Len(out) + 1].layout

Ended ==
  \E n \in Nat :
    /\ ~pending
    /\ pending' <=> Len(out) > 0 /\ out[Len(out)].text = ":"
    /\ indents' = indents
    /\ Grew("NEWLINE", n, Len(indents) - 1) /\ out'[Len(out) + 1].layout

Spoke ==
  \E n \in Nat, text \in Words :
    /\ ~pending /\ ~pending'
    /\ indents' = indents
    /\ Grew(text, n, Len(indents) - 1) /\ ~out'[Len(out) + 1].layout
    /\ Len(out) = 0 \/ out[Len(out)].layout => n = indents[Len(indents)]

LEMMA GrewLayout ==
  ASSUME TypeOK, NEW text \in Words \cup Marks, NEW n \in Nat,
         NEW level \in Nat,
         out' = Append(out, Tok(text, n, TRUE, level))
  PROVE  Grew(text, n, level) /\ out'[Len(out) + 1].layout
<1> DEFINE e == Tok(text, n, TRUE, level)
<1>1. e \in Toks
  <2>1. TRUE \in BOOLEAN  OBVIOUS
  <2> QED BY <2>1, TokTyped, Zenon
<1>2. e.text = text /\ e.col = n /\ e.level = level
  BY DEF Tok
<1>3. e.layout
  BY DEF Tok
<1> HIDE DEF e
<1>4. out' = Append(out, e)
  BY DEF e
<1>5. Grown(out, e, out')
  BY <1>1, <1>4, OutGrows
<1> QED BY <1>2, <1>3, <1>5 DEF Grown, Grew

LEMMA GrewWord ==
  ASSUME TypeOK, NEW text \in Words \cup Marks, NEW n \in Nat,
         NEW level \in Nat,
         out' = Append(out, Tok(text, n, FALSE, level))
  PROVE  Grew(text, n, level) /\ ~out'[Len(out) + 1].layout
<1> DEFINE e == Tok(text, n, FALSE, level)
<1>1. e \in Toks
  <2>1. FALSE \in BOOLEAN  OBVIOUS
  <2> QED BY <2>1, TokTyped, Zenon
<1>2. e.text = text /\ e.col = n /\ e.level = level
  BY DEF Tok
<1>3. ~e.layout
  BY DEF Tok
<1> HIDE DEF e
<1>4. out' = Append(out, e)
  BY DEF e
<1>5. Grown(out, e, out')
  BY <1>1, <1>4, OutGrows
<1> QED BY <1>2, <1>3, <1>5 DEF Grown, Grew

LEMMA LostByThrow == ASSUME Throw PROVE Lost
<1>1. Len(<< >>) = 0 /\ Len(<<0>>) = 1
  BY EmptySeq
<1> QED BY <1>1 DEF Throw, Lost

LEMMA CloseForm ==
  ASSUME ShapeInv, NEW n \in Nat, CloseBlock(n), Len(indents) > 1,
         ~pending, ~pending', pc \in {"dedent", "close"}
  PROVE  Closed
<1>1. Len(indents) \in Nat /\ Shrunk(indents, indents')
  BY CloseTyped DEF ShapeInv
<1>2. Len(indents) - 2 \in Nat
  BY <1>1
<1>3. "DEDENT" \in Words \cup Marks
  BY DEF Marks
<1>4. Grew("DEDENT", n, Len(indents) - 2) /\ out'[Len(out) + 1].layout
  BY <1>2, <1>3, GrewLayout DEF ShapeInv, CloseBlock
<1> QED BY <1>1, <1>4 DEF Closed

(* What a step does, form by form, with what LineInv says afterwards of    *)
(* the line being read.                                                    *)
LEMMA OutStep ==
  ASSUME ShapeInv, LineInv, Next, LayoutAssumption
  PROVE  Lost \/ Stood \/ Opened \/ Closed \/ Ended \/ Spoke
<1>1. CASE Throw
  BY <1>1, LostByThrow
<1>2. CASE Mask \/ TabbedLine \/ UnreadableToken
  BY <1>1, <1>2 DEF Mask, TabbedLine, UnreadableToken, Stood
<1>3. CASE Line
  <2>1. PICK n \in 0 .. MaxIndent, text \in Lines :
          \/ ContinuationLine(n, text)
          \/ DeeperLine(n, text)
          \/ ShallowerLine(n, text)
    BY <1>3 DEF Line
  <2>2. CASE ContinuationLine(n, text) \/ ShallowerLine(n, text)
    BY <1>1, <2>2 DEF ContinuationLine, ShallowerLine, Stood
  <2>3. CASE DeeperLine(n, text) /\ ~Throw
    <3>1. n \in Nat
      BY DEF LayoutAssumption
    <3>2. pending /\ ~pending'
      BY <2>3 DEF DeeperLine
    <3>3. /\ n > Back(indents)
          /\ indents' = Append(indents, n)
          /\ out' = Append(out, Tok("INDENT", n, TRUE, Len(indents)))
      BY <2>3 DEF DeeperLine
    <3>4. Len(indents) \in Nat /\ Grown(indents, n, indents')
      BY <3>1, <3>3, OpenTyped DEF ShapeInv
    <3>5. "INDENT" \in Words \cup Marks
      BY DEF Marks
    <3>6. Grew("INDENT", n, Len(indents)) /\ out'[Len(out) + 1].layout
      BY <3>1, <3>3, <3>4, <3>5, GrewLayout DEF ShapeInv
    <3> QED BY <3>1, <3>2, <3>4, <3>6 DEF Opened
  <2> QED BY <1>1, <2>1, <2>2, <2>3
<1>4. CASE Dedent
  <2>1. CASE /\ indent < Back(indents) /\ CloseBlock(indent)
             /\ UNCHANGED <<pc, pending, depth, indent, line, column, final>>
    <3>1. indent \in Nat
      BY DEF ShapeInv, TypeOK
    <3>2. Len(indents) > 1
      BY <2>1, DedentHasBlock DEF ShapeInv
    <3>3. ~pending /\ ~pending'
      BY <1>4, <2>1 DEF Dedent, ShapeInv, Control
    <3>4. pc = "dedent"
      BY <1>4 DEF Dedent
    <3> QED BY <2>1, <3>1, <3>2, <3>3, <3>4, CloseForm
  <2>2. CASE UNCHANGED <<indents, pending, depth, indent, line, column,
                         final, out>>
    BY <2>2 DEF Stood
  <2> QED BY <1>1, <1>4, <2>1, <2>2 DEF Dedent
<1>5. CASE Token
  <2> DEFINE t == line[column + 1]
             n == indent + column
  <2>1. ~pending /\ ~pending'
    BY <1>5 DEF Token, ShapeInv, Control
  <2>2. out' = Append(out, Tok(t, n, FALSE, Len(indents) - 1))
    BY <1>5 DEF Token
  <2>3. /\ pc = "tokens" /\ column < Len(line)
        /\ indents' = indents
    BY <1>5 DEF Token
  <2>4. line \in Seq(STRING) /\ line \in Lines /\ Len(line) \in Nat
    <3>1. Len(<< >>) = 0  BY EmptySeq
    <3>2. line # << >>  BY <2>3, <3>1 DEF ShapeInv, TypeOK
    <3>3. line \in Lines /\ line \in Seq(STRING)
      BY <3>2 DEF ShapeInv, TypeOK, LayoutAssumption
    <3> QED BY <3>3, LenProperties
  <2>5. column \in Nat /\ n \in Nat
    BY <2>4 DEF ShapeInv, TypeOK
  <2>6. t \in Words
    <3>1. column + 1 \in 1 .. Len(line)
      BY <2>3, <2>4, <2>5
    <3>2. column + 1 \in DOMAIN line
      BY <2>4, <3>1, LenProperties
    <3> QED BY <2>4, <3>2 DEF Words
  <2>7. indents \in Seq(Nat) /\ Len(indents) > 0
    BY DEF ShapeInv, TypeOK
  <2>8. Len(indents) - 1 \in Nat
    <3>1. Len(indents) \in Nat  BY <2>7, LenProperties
    <3> QED BY <2>7, <3>1
  <2>9. ASSUME Len(out) = 0 \/ out[Len(out)].layout
        PROVE  n = indents[Len(indents)]
    <3>1. ~WithinLine
      BY <2>9 DEF WithinLine
    <3>2. column = 0
      BY <2>3, <2>5, <3>1 DEF LineInv
    <3>3. depth = 0
      BY <2>3, <3>1 DEF LineInv, ShapeInv, TypeOK
    <3>4. indent = indents[Len(indents)]
      BY <2>3, <3>2, <3>3 DEF LineInv, Back
    <3>5. indent \in Nat
      BY DEF ShapeInv, TypeOK
    <3> QED BY <3>2, <3>4, <3>5
  <2> HIDE DEF t, n
  <2>10. /\ Grew(t, n, Len(indents) - 1)
         /\ ~out'[Len(out) + 1].layout
    BY <2>2, <2>5, <2>6, <2>8, GrewWord DEF ShapeInv
  <2> QED BY <2>1, <2>3, <2>5, <2>6, <2>9, <2>10 DEF Spoke
<1>6. CASE EndOfLine
  <2>1. CASE depth # 0
    BY <1>6, <2>1 DEF EndOfLine, Stood
  <2>2. CASE depth = 0
    <3> DEFINE n == indent + column
    <3>1. ~pending
      BY <1>6 DEF EndOfLine, ShapeInv, Control
    <3>2. pending' <=> final = ":"
      BY <1>6, <2>2 DEF EndOfLine
    <3>3. /\ pc = "tokens" /\ column = Len(line) /\ indents' = indents
          /\ out' = Append(out, Tok("NEWLINE", n, TRUE, Len(indents) - 1))
      BY <1>6, <2>2 DEF EndOfLine
    <3>4. column \in Nat /\ indent \in Nat /\ Len(indents) - 1 \in Nat
      <4>1. indents \in Seq(Nat) /\ Len(indents) > 0 /\ indent \in Nat
        BY DEF ShapeInv, TypeOK
      <4>2. Len(indents) \in Nat  BY <4>1, LenProperties
      <4>3. Len(line) \in Nat
        BY LenProperties, EmptySeq DEF ShapeInv, TypeOK, LayoutAssumption
      <4> QED BY <3>3, <4>1, <4>2, <4>3
    <3>5. "NEWLINE" \in Words \cup Marks
      BY DEF Marks
    <3>6. n \in Nat
      BY <3>4
    <3>7. final = ":" <=> Len(out) > 0 /\ out[Len(out)].text = ":"
      <4>1. CASE column > 0
        BY <3>3, <4>1 DEF LineInv, WithinLine
      <4>2. CASE column = 0
        <5>1. final # ":"
          BY <3>3, <4>2 DEF LineInv
        <5>2. After(":")
          BY <2>2, <3>3, <4>2 DEF LineInv
        <5>3. Len(out) \in Nat
          BY LenProperties DEF ShapeInv, TypeOK
        <5> QED BY <5>1, <5>2, <5>3 DEF After
      <4> QED BY <3>4, <4>1, <4>2
    <3> HIDE DEF n
    <3>8. Grew("NEWLINE", n, Len(indents) - 1) /\ out'[Len(out) + 1].layout
      BY <3>3, <3>4, <3>5, <3>6, GrewLayout DEF ShapeInv
    <3> QED BY <3>1, <3>2, <3>3, <3>6, <3>7, <3>8 DEF Ended
  <2> QED BY <2>1, <2>2
<1>7. CASE EndOfInput
  BY <1>1, <1>7 DEF EndOfInput, Stood
<1>8. CASE Close
  <2>1. CASE Len(indents) > 1
    <3>1. CloseBlock(0)
      BY <1>8, <2>1 DEF Close, Finish
    <3>2. ~pending /\ ~pending'
      BY <1>8, <2>1 DEF Close, Finish, ShapeInv, Control
    <3>3. pc = "close"
      BY <1>8 DEF Close
    <3> QED BY <2>1, <3>1, <3>2, <3>3, CloseForm
  <2>2. CASE ~(Len(indents) > 1)
    BY <1>8, <2>2 DEF Close, Finish, Stood
  <2> QED BY <2>1, <2>2
<1> QED BY <1>2, <1>3, <1>4, <1>5, <1>6, <1>7, <1>8 DEF Next

(* The part of LineInv that depends on the form of the step alone.         *)
StackInv ==
  /\ Len(out) = 0 => Len(indents) = 1
  /\ Len(out) > 0 => out[Len(out)].level = Len(indents) - 1
  /\ \A i \in 1 .. Len(out) : out[i].layout => out[i].text \in Marks

LEMMA Lengths ==
  ASSUME TypeOK
  PROVE  Len(out) \in Nat /\ Len(indents) \in Nat \ {0}
<1>1. indents \in Seq(Nat) /\ Len(indents) > 0 /\ out \in Seq(Toks)
  BY DEF TypeOK
<1>2. Len(indents) \in Nat /\ Len(out) \in Nat
  BY <1>1, LenProperties
<1> QED BY <1>1, <1>2

LEMMA StackStep ==
  ASSUME TypeOK, StackInv,
         Lost \/ Stood \/ Opened \/ Closed \/ Ended \/ Spoke
  PROVE  StackInv'
<1>1. Len(out) \in Nat /\ Len(indents) \in Nat \ {0}
  BY Lengths
<1>2. CASE Lost
  BY <1>2 DEF Lost, StackInv
<1>3. CASE Stood
  BY <1>3 DEF Stood, StackInv
<1>4. ASSUME NEW text \in Words \cup Marks, NEW n \in Nat, NEW level,
             level = Len(indents') - 1, Grew(text, n, level),
             out'[Len(out) + 1].layout => text \in Marks
      PROVE  StackInv'
  <2>1. Len(out') = Len(out) + 1 /\ Len(out') > 0
    BY <1>1, <1>4 DEF Grew
  <2>2. out'[Len(out')].level = Len(indents') - 1
    BY <2>1, <1>4 DEF Grew
  <2>3. ASSUME NEW i \in 1 .. Len(out'), out'[i].layout
        PROVE  out'[i].text \in Marks
    <3>1. CASE i \in 1 .. Len(out)
      <4>1. out'[i] = out[i]  BY <1>4, <3>1 DEF Grew
      <4> QED BY <2>3, <3>1, <4>1 DEF StackInv
    <3>2. CASE i = Len(out) + 1
      BY <1>4, <2>3, <3>2 DEF Grew
    <3> QED BY <1>1, <2>1, <3>1, <3>2
  <2> QED BY <2>1, <2>2, <2>3 DEF StackInv
<1>5. CASE Opened
  <2>1. PICK n \in Nat : /\ Grown(indents, n, indents')
                         /\ Grew("INDENT", n, Len(indents))
    BY <1>5 DEF Opened
  <2>2. Len(indents) = Len(indents') - 1
    BY <2>1, <1>1 DEF Grown
  <2>3. "INDENT" \in Marks  BY DEF Marks
  <2> QED BY <1>4, <2>1, <2>2, <2>3
<1>6. CASE Closed
  <2>1. PICK n \in Nat : /\ Shrunk(indents, indents')
                         /\ Grew("DEDENT", n, Len(indents) - 2)
    BY <1>6 DEF Closed
  <2>2. Len(indents) - 2 = Len(indents') - 1
    BY <2>1, <1>1 DEF Shrunk
  <2>3. "DEDENT" \in Marks  BY DEF Marks
  <2> QED BY <1>4, <2>1, <2>2, <2>3
<1>7. CASE Ended
  <2>1. PICK n \in Nat : /\ indents' = indents
                         /\ Grew("NEWLINE", n, Len(indents) - 1)
    BY <1>7 DEF Ended
  <2>2. "NEWLINE" \in Marks  BY DEF Marks
  <2> QED BY <1>4, <2>1, <2>2
<1>8. CASE Spoke
  <2>1. PICK n \in Nat, text \in Words :
          /\ indents' = indents
          /\ Grew(text, n, Len(indents) - 1) /\ ~out'[Len(out) + 1].layout
    BY <1>8 DEF Spoke
  <2> QED BY <1>4, <2>1
<1> QED BY <1>2, <1>3, <1>5, <1>6, <1>7, <1>8

(* Where the line being read is after a step, action by action.            *)
LEMMA LineStep ==
  ASSUME ShapeInv, ShapeInv', LineInv, Next, LayoutAssumption
  PROVE  LineInv'
<1> DEFINE
      Q0 == pc = "dedent" => column = 0 /\ final = "none"
      Q1 == pc \in {"line", "dedent", "close"} /\ depth = 0 => After("INDENT")
      Q2 == pc \in {"line", "tokens"} /\ depth > 0 => WithinLine
      Q3 == pc = "tokens" /\ column = 0 /\ depth = 0
              => After(":") /\ indent = Back(indents)
      Q4 == pc = "tokens" /\ column = 0 => final = "none"
      Q5 == pc = "tokens" /\ column > 0
              => WithinLine /\ out[Len(out)].text = final
<1>1. Len(out) \in Nat /\ Len(indents) \in Nat \ {0} /\ depth \in Nat
  BY Lengths DEF ShapeInv, TypeOK
<1>2. StackInv'
  BY OutStep, StackStep DEF LineInv, StackInv, ShapeInv
<1>3. (Q0 /\ Q1 /\ Q2 /\ Q3 /\ Q4 /\ Q5)' => LineInv'
  BY <1>2 DEF LineInv, StackInv
<1>4. CASE Throw
  <2>1. pc' = "error"
    BY <1>4 DEF Throw
  <2> QED BY <1>3, <2>1
<1>5. CASE Mask \/ TabbedLine \/ UnreadableToken
  <2>1. CASE ~Throw
    <3>1. /\ pc = "mask" /\ pc' = "line" /\ out' = out /\ depth' = depth
          /\ indents' = indents
      BY <1>5, <2>1 DEF Mask, TabbedLine, UnreadableToken
    <3>2. Len(out) = 0
      BY <3>1, EmptySeq DEF ShapeInv, Control
    <3>3. depth = 0
      BY <3>1 DEF ShapeInv, Control
    <3> QED BY <1>3, <3>1, <3>2, <3>3 DEF After
  <2> QED BY <1>4, <2>1
<1>6. CASE Line /\ ~Throw
  <2>1. PICK n \in 0 .. MaxIndent, text \in Lines :
          \/ ContinuationLine(n, text)
          \/ DeeperLine(n, text)
          \/ ShallowerLine(n, text)
    BY <1>6 DEF Line
  <2>2. CASE ContinuationLine(n, text)
    <3>1. /\ pc = "line" /\ pc' = "tokens" /\ depth > 0 /\ depth' = depth
          /\ out' = out /\ column' = 0 /\ final' = "none"
      BY <2>2 DEF ContinuationLine, EnterLine
    <3>2. WithinLine
      BY <3>1 DEF LineInv
    <3> QED BY <1>1, <1>3, <3>1, <3>2 DEF WithinLine
  <2>3. CASE DeeperLine(n, text)
    <3>1. /\ pc' = "tokens" /\ depth' = 0 /\ indent' = n
          /\ column' = 0 /\ final' = "none"
      BY <1>6, <2>3 DEF DeeperLine, EnterLine
    <3>2. n \in Nat
      BY DEF LayoutAssumption
    <3>3. indents' = Append(indents, n) /\ n > Back(indents)
      BY <1>6, <2>3 DEF DeeperLine
    <3>4. indent' = Back(indents')
      BY <3>1, <3>2, <3>3, OpenTyped DEF ShapeInv, Grown, Back
    <3>5. out' = Append(out, Tok("INDENT", n, TRUE, Len(indents)))
      BY <1>6, <2>3 DEF DeeperLine
    <3>6. "INDENT" \in Words \cup Marks
      BY DEF Marks
    <3>7. Grew("INDENT", n, Len(indents)) /\ out'[Len(out) + 1].layout
      BY <1>1, <3>2, <3>5, <3>6, GrewLayout DEF ShapeInv
    <3>8. After(":")'
      BY <3>7 DEF Grew, After
    <3>9. (Q0 /\ Q1 /\ Q2 /\ Q3 /\ Q4 /\ Q5)'
      BY <3>1, <3>4, <3>8
    <3> HIDE DEF Q0, Q1, Q2, Q3, Q4, Q5
    <3> QED BY <1>3, <3>9
  <2>4. CASE ShallowerLine(n, text)
    <3>1. /\ pc = "line" /\ pc' = "dedent" /\ depth = 0 /\ depth' = depth
          /\ out' = out /\ column' = 0 /\ final' = "none"
      BY <1>6, <2>4 DEF ShallowerLine, EnterLine
    <3>2. After("INDENT")
      BY <3>1 DEF LineInv
    <3> QED BY <1>1, <1>3, <3>1, <3>2 DEF After
  <2> QED BY <2>1, <2>2, <2>3, <2>4
<1>7. ASSUME NEW n \in Nat, CloseBlock(n), Len(indents) > 1,
             pc \in {"dedent", "close"}, pc' = pc,
             column' = column, final' = final
      PROVE  LineInv'
  <2>1. /\ Len(out') = Len(out) + 1
        /\ out'[Len(out) + 1] = Tok("DEDENT", n, TRUE, Len(indents) - 2)
    BY <1>7, CloseTyped DEF ShapeInv, Grown
  <2>2. After("INDENT")'
    <3>1. out'[Len(out) + 1].text = "DEDENT"
      BY <2>1 DEF Tok
    <3>2. out'[Len(out) + 1].layout
      BY <2>1 DEF Tok
    <3> QED BY <2>1, <3>1, <3>2 DEF After
  <2>3. Q0'
    BY <1>7 DEF LineInv
  <2> QED BY <1>3, <1>7, <2>2, <2>3
<1>8. CASE Dedent /\ ~Throw
  <2>1. CASE indent < Back(indents)
    <3>1. /\ indent \in Nat /\ CloseBlock(indent)
          /\ pc = "dedent" /\ pc' = pc
          /\ column' = column /\ final' = final
      BY <1>8, <2>1 DEF Dedent, ShapeInv, TypeOK
    <3>2. Len(indents) > 1
      BY <2>1, DedentHasBlock DEF ShapeInv
    <3> QED BY <1>7, <3>1, <3>2
  <2>2. CASE ~(indent < Back(indents))
    <3>1. /\ pc = "dedent" /\ pc' = "tokens" /\ indent = Back(indents)
          /\ UNCHANGED <<indents, depth, indent, line, column, final, out>>
      BY <1>8, <2>2 DEF Dedent
    <3>2. depth = 0
      BY <3>1 DEF ShapeInv, Control
    <3>3. column = 0 /\ final = "none" /\ After("INDENT")
      BY <3>1, <3>2 DEF LineInv
    <3>4. After(":")
      BY <1>1, <3>3 DEF LineInv, After, Marks
    <3> QED BY <1>3, <3>1, <3>2, <3>3, <3>4 DEF After, Back
  <2> QED BY <2>1, <2>2
<1>9. CASE Token
  <2> DEFINE t == line[column + 1]
  <2>1. pc' = "tokens" /\ column' = column + 1 /\ final' = t
    BY <1>9 DEF Token
  <2>2. column' > 0
    <3>1. Len(line) \in Nat
      BY LenProperties, EmptySeq DEF ShapeInv, TypeOK, LayoutAssumption
    <3>2. column \in Nat
      BY <3>1 DEF ShapeInv, TypeOK
    <3> QED BY <2>1, <3>2
  <2>3. out' = Append(out, Tok(t, indent + column, FALSE, Len(indents) - 1))
    BY <1>9 DEF Token
  <2>4. /\ Len(out') = Len(out) + 1
        /\ out'[Len(out) + 1]
             = Tok(t, indent + column, FALSE, Len(indents) - 1)
    <3> DEFINE e == Tok(t, indent + column, FALSE, Len(indents) - 1)
    <3>1. out \in Seq(Toks) /\ out' = Append(out, e)
      BY <2>3 DEF ShapeInv, TypeOK
    <3> HIDE DEF e
    <3>2. Len(out') = Len(out) + 1 /\ out'[Len(out) + 1] = e
      BY <1>1, <3>1
    <3> QED BY <3>2 DEF e
  <2>5. ~out'[Len(out) + 1].layout /\ out'[Len(out) + 1].text = t
    <3>1. ~out'[Len(out) + 1].layout
      BY <2>4 DEF Tok
    <3>2. out'[Len(out) + 1].text = t
      BY <2>4 DEF Tok
    <3> QED BY <3>1, <3>2
  <2>6. WithinLine' /\ out'[Len(out')].text = final'
    <3> HIDE DEF t
    <3>1. Len(out') > 0  BY <1>1, <2>4
    <3> QED BY <2>1, <2>4, <2>5, <3>1 DEF WithinLine
  <2> QED BY <1>3, <2>1, <2>2, <2>6
<1>10. CASE EndOfLine
  <2>1. /\ pc = "tokens" /\ pc' = "line" /\ depth' = depth
    BY <1>10 DEF EndOfLine
  <2>2. CASE depth # 0
    <3>1. WithinLine /\ out' = out
      BY <1>1, <1>10, <2>1, <2>2 DEF EndOfLine, LineInv
    <3> QED BY <1>3, <2>1, <2>2, <3>1 DEF WithinLine
  <2>3. CASE depth = 0
    <3> DEFINE e == Tok("NEWLINE", indent + column, TRUE, Len(indents) - 1)
    <3>1. out' = Append(out, e)
      BY <1>10, <2>3 DEF EndOfLine
    <3>2. Len(out') = Len(out) + 1 /\ out'[Len(out) + 1] = e
      <4>1. out \in Seq(Toks)
        BY DEF ShapeInv, TypeOK
      <4> HIDE DEF e
      <4> QED BY <1>1, <3>1, <4>1
    <3>3. out'[Len(out) + 1].layout
      BY <3>2 DEF Tok
    <3>4. out'[Len(out) + 1].text = "NEWLINE"
      BY <3>2 DEF Tok
    <3> HIDE DEF e
    <3>5. After("INDENT")'
      BY <3>2, <3>3, <3>4 DEF After
    <3> QED BY <1>3, <2>1, <2>3, <3>5
  <2> QED BY <2>2, <2>3
<1>11. CASE EndOfInput /\ ~Throw
  <2>1. /\ pc = "line" /\ pc' = "close" /\ depth' = depth /\ out' = out
    BY <1>11 DEF EndOfInput
  <2> QED BY <1>3, <2>1 DEF LineInv, After
<1>12. CASE Close
  <2>1. CASE Len(indents) > 1
    <3>1. /\ CloseBlock(0) /\ pc = "close" /\ pc' = pc
          /\ column' = column /\ final' = final
      BY <1>12, <2>1 DEF Close, Finish
    <3> QED BY <1>7, <2>1, <3>1
  <2>2. CASE ~(Len(indents) > 1)
    <3>1. pc' = "done"
      BY <1>12, <2>2 DEF Close, Finish
    <3> QED BY <1>3, <3>1
  <2> QED BY <2>1, <2>2
<1> QED BY <1>4, <1>5, <1>6, <1>8, <1>9, <1>10, <1>11, <1>12 DEF Next

PassInv == ShapeInv /\ LineInv

Forms == Lost \/ Stood \/ Opened \/ Closed \/ Ended \/ Spoke

(* The invariant of the pass, and what it lets be said of every step.      *)
THEOREM LayoutPass ==
  Spec => []PassInv /\ [][Forms]_vars
<1>1. Init => LineInv
  <2> SUFFICES ASSUME Init PROVE LineInv
    OBVIOUS
  <2>1. Len(<< >>) = 0 /\ Len(<<0>>) = 1
    BY EmptySeq
  <2>2. pc = "mask" /\ out = << >> /\ indents = <<0>> /\ depth = 0
    BY DEF Init
  <2> QED BY <2>1, <2>2 DEF LineInv
<1>2. ShapeInv /\ ShapeInv' /\ LineInv /\ [Next]_vars => LineInv'
  <2>1. ASSUME ShapeInv, ShapeInv', LineInv, Next PROVE LineInv'
    BY <2>1, LineStep, LayoutAssumption
  <2>2. LineInv /\ UNCHANGED vars => LineInv'
    BY DEF vars, LineInv, After, WithinLine, Back
  <2> QED BY <2>1, <2>2
<1>3. ShapeInv /\ LineInv /\ [Next]_vars => [Forms]_vars
  BY OutStep, LayoutAssumption DEF Forms
<1> QED BY <1>1, <1>2, <1>3, LayoutShape, PTL DEF Spec, PassInv

-----------------------------------------------------------------------------
(* Blocks and their announcements.                                         *)

(* What the properties say of out, said of any sequence of tokens: a prime *)
(* on an operator of out would be a prime on its arguments too.            *)
LayoutAt(s, i, text) == s[i].layout /\ s[i].text = text

AnnouncedIn(s, i) ==
  i > 2 /\ LayoutAt(s, i - 1, "NEWLINE") /\ s[i - 2].text = ":"

AnnouncedInv ==
  /\ pending <=> AnnouncedIn(out, Len(out) + 1)
  /\ \A i \in 1 .. Len(out) : LayoutAt(out, i, "INDENT") <=> AnnouncedIn(out, i)

LEMMA AnnouncedStep ==
  ASSUME TypeOK, AnnouncedInv, Forms
  PROVE  AnnouncedInv'
<1>1. Len(out) \in Nat
  BY Lengths
<1>2. CASE Lost
  BY <1>2 DEF Lost, AnnouncedInv, AnnouncedIn
<1>3. CASE Stood
  BY <1>3 DEF Stood, AnnouncedInv
<1>4. ASSUME Len(out') = Len(out) + 1,
             \A k \in 1 .. Len(out) : out'[k] = out[k],
             NEW text, out'[Len(out) + 1].text = text,
             out'[Len(out) + 1].layout /\ text = "INDENT" <=> pending,
             pending' <=> /\ out'[Len(out) + 1].layout /\ text = "NEWLINE"
                          /\ Len(out) > 0 /\ out[Len(out)].text = ":"
      PROVE  AnnouncedInv'
  <2>1. ASSUME NEW i \in 1 .. Len(out)
        PROVE  LayoutAt(out', i, "INDENT") <=> LayoutAt(out, i, "INDENT")
    <3>1. out'[i] = out[i]
      BY <1>4
    <3> QED BY <3>1 DEF LayoutAt
  <2>2. ASSUME NEW i \in 1 .. Len(out) + 1
        PROVE  AnnouncedIn(out', i) <=> AnnouncedIn(out, i)
    <3>1. CASE i > 2
      <4>1. i - 1 \in 1 .. Len(out) /\ i - 2 \in 1 .. Len(out)
        BY <1>1, <3>1
      <4>2. out'[i - 1] = out[i - 1] /\ out'[i - 2] = out[i - 2]
        BY <1>4, <4>1
      <4> QED BY <4>2 DEF AnnouncedIn, LayoutAt
    <3>2. CASE ~(i > 2)
      BY <3>2 DEF AnnouncedIn
    <3> QED BY <3>1, <3>2
  <2>3. /\ AnnouncedIn(out', Len(out) + 1) <=> pending
        /\ LayoutAt(out', Len(out) + 1, "INDENT") <=> pending
    <3>1. Len(out) + 1 \in 1 .. Len(out) + 1
      BY <1>1
    <3>2. LayoutAt(out', Len(out) + 1, "INDENT") <=> pending
      BY <1>4 DEF LayoutAt
    <3> QED BY <2>2, <3>1, <3>2 DEF AnnouncedInv
  <2>4. ASSUME NEW i \in 1 .. Len(out')
        PROVE  LayoutAt(out', i, "INDENT") <=> AnnouncedIn(out', i)
    <3>1. CASE i \in 1 .. Len(out)
      <4>1. i \in 1 .. Len(out) + 1
        BY <1>1, <3>1
      <4> QED BY <2>1, <2>2, <3>1, <4>1 DEF AnnouncedInv
    <3>2. CASE i = Len(out) + 1
      BY <2>3, <3>2
    <3> QED BY <1>1, <1>4, <3>1, <3>2
  <2>5. pending' <=> AnnouncedIn(out', Len(out) + 2)
    <3>1. CASE Len(out) > 0
      <4>1. /\ Len(out) + 2 > 2
            /\ Len(out) + 2 - 1 = Len(out) + 1 /\ Len(out) + 2 - 2 = Len(out)
            /\ out'[Len(out)] = out[Len(out)]
        BY <1>1, <1>4, <3>1
      <4> QED BY <1>4, <3>1, <4>1 DEF AnnouncedIn, LayoutAt
    <3>2. CASE Len(out) = 0
      <4>1. ~(Len(out) + 2 > 2)  BY <3>2
      <4> QED BY <1>4, <3>2, <4>1 DEF AnnouncedIn
    <3> QED BY <1>1, <3>1, <3>2
  <2>6. Len(out') + 1 = Len(out) + 2
    BY <1>1, <1>4
  <2>7. pending' <=> AnnouncedIn(out', Len(out') + 1)
    BY <2>5, <2>6
  <2> QED BY <2>4, <2>7 DEF AnnouncedInv
<1>5. CASE Opened
  BY <1>4, <1>5 DEF Opened, Grew
<1>6. CASE Closed
  BY <1>4, <1>6 DEF Closed, Grew
<1>7. CASE Ended
  BY <1>4, <1>7 DEF Ended, Grew
<1>8. CASE Spoke
  BY <1>4, <1>8 DEF Spoke, Grew
<1> QED BY <1>2, <1>3, <1>5, <1>6, <1>7, <1>8 DEF Forms

(* No block is opened that no ":" announced, and no ":" at the end of a    *)
(* logical line is left without its block in a stream that is returned.    *)
THEOREM LayoutBlocksAreAnnounced == Spec => []BlocksAreAnnounced
<1>1. Init => AnnouncedInv
  <2> SUFFICES ASSUME Init PROVE AnnouncedInv
    OBVIOUS
  <2>1. Len(out) = 0 /\ ~pending
    BY EmptySeq DEF Init
  <2> QED BY <2>1 DEF AnnouncedInv, AnnouncedIn
<1>2. PassInv /\ AnnouncedInv /\ [Forms]_vars => AnnouncedInv'
  <2>1. PassInv => TypeOK
    BY DEF PassInv, ShapeInv
  <2>2. AnnouncedInv /\ UNCHANGED vars => AnnouncedInv'
    BY DEF vars, AnnouncedInv
  <2> QED BY <2>1, <2>2, AnnouncedStep
<1>3. PassInv /\ AnnouncedInv => BlocksAreAnnounced
  <2> SUFFICES ASSUME PassInv, AnnouncedInv PROVE BlocksAreAnnounced
    OBVIOUS
  <2>1. Len(out) \in Nat
    BY Lengths DEF PassInv, ShapeInv
  <2>2. pc = "done" => ~Announced(Len(out) + 1)
    BY DEF PassInv, ShapeInv, Control, AnnouncedInv, Announced, IsLayout,
           AnnouncedIn, LayoutAt
  <2>3. ASSUME NEW i \in 1 .. Len(out) + 1
        PROVE  i \in 1 .. Len(out) \/ i = Len(out) + 1
    BY <2>1
  <2>4. ASSUME NEW i \in 1 .. Len(out)
        PROVE  IsLayout(i, "INDENT") <=> Announced(i)
    BY DEF AnnouncedInv, Announced, IsLayout, AnnouncedIn, LayoutAt
  <2> QED BY <2>2, <2>3, <2>4 DEF BlocksAreAnnounced
<1>4. Spec => []AnnouncedInv
  BY <1>1, <1>2, LayoutPass, PTL DEF Spec
<1> QED BY <1>3, <1>4, LayoutPass, PTL

-----------------------------------------------------------------------------
(* Columns and blocks.                                                     *)

StartsAt(s, i) == ~s[i].layout /\ (i > 1 => s[i - 1].layout)

InScope(s, i, j) == \A k \in i .. j : s[k].level >= s[i].level

Aligned(s, i, j) ==
  /\ s[j].level = s[i].level => s[j].col = s[i].col
  /\ s[j].level > s[i].level => s[j].col > s[i].col

(* The first token of a line whose block is still open is at the column    *)
(* the stack has for that block.                                           *)
ScopeInv ==
  \A i \in 1 .. Len(out) :
    StartsAt(out, i) /\ InScope(out, i, Len(out)) =>
      /\ out[i].level < Len(indents)
      /\ out[i].col = indents[out[i].level + 1]

AlignedInv ==
  \A i, j \in 1 .. Len(out) :
    i < j /\ StartsAt(out, i) /\ StartsAt(out, j) /\ InScope(out, i, j)
      => Aligned(out, i, j)

LEMMA TokenFields ==
  ASSUME NEW s \in Seq(Toks), NEW i \in 1 .. Len(s)
  PROVE  s[i].level \in Nat /\ s[i].col \in Nat
<1>1. s[i] \in Toks
  BY ElementOfSeq
<1> QED BY <1>1 DEF Toks

LEMMA AlignedStep ==
  ASSUME TypeOK, TypeOK', ColumnsGrow', ScopeInv, AlignedInv, Forms
  PROVE  ScopeInv' /\ AlignedInv'
<1> DEFINE new == Len(out) + 1
<1>1. /\ Len(out) \in Nat /\ Len(indents) \in Nat \ {0}
      /\ Len(out') \in Nat /\ Len(indents') \in Nat \ {0}
  <2>1. /\ indents' \in Seq(Nat) /\ Len(indents') > 0 /\ out' \in Seq(Toks)
    BY DEF TypeOK
  <2>2. Len(indents') \in Nat /\ Len(out') \in Nat
    BY <2>1, LenProperties
  <2> QED BY <2>1, <2>2, Lengths
<1>2. /\ \A i \in 1 .. Len(out) : out[i].level \in Nat /\ out[i].col \in Nat
      /\ \A i \in 1 .. Len(out') : out'[i].level \in Nat
  <2>1. out \in Seq(Toks) /\ out' \in Seq(Toks)
    BY DEF TypeOK
  <2> QED BY <2>1, TokenFields
<1>3. CASE Lost
  BY <1>3 DEF Lost, ScopeInv, AlignedInv
<1>4. CASE Stood
  BY <1>4 DEF Stood, ScopeInv, AlignedInv
<1>5. ASSUME Len(out') = new,
             \A k \in 1 .. Len(out) : out'[k] = out[k],
             out'[new].level = Len(indents') - 1,
             \A m \in 1 .. Len(indents) :
               m <= Len(indents') => indents'[m] = indents[m],
             StartsAt(out', new)
               => out'[new].col = indents'[Len(indents')]
      PROVE  ScopeInv' /\ AlignedInv'
  <2>1. ASSUME NEW i \in 1 .. Len(out)
        PROVE  StartsAt(out', i) <=> StartsAt(out, i)
    <3>1. out'[i] = out[i] /\ (i > 1 => out'[i - 1] = out[i - 1])
      BY <1>1, <1>5
    <3> QED BY <3>1 DEF StartsAt
  <2>2. ASSUME NEW i \in 1 .. Len(out), NEW j \in 1 .. Len(out)
        PROVE  InScope(out', i, j) <=> InScope(out, i, j)
    <3>1. \A k \in i .. j : k \in 1 .. Len(out)
      BY <1>1
    <3>2. \A k \in i .. j : out'[k] = out[k]
      BY <1>5, <3>1
    <3>3. out'[i] = out[i]
      BY <1>5
    <3> QED BY <3>2, <3>3 DEF InScope
  <2>3. ASSUME NEW i \in 1 .. Len(out), InScope(out', i, new)
        PROVE  InScope(out, i, Len(out)) /\ out[i].level < Len(indents')
    <3>1. \A k \in i .. Len(out) : k \in i .. new
      BY <1>1
    <3>2. InScope(out', i, Len(out))
      BY <2>3, <3>1 DEF InScope
    <3>3. Len(out) \in 1 .. Len(out)
      BY <1>1
    <3>4. InScope(out, i, Len(out))
      BY <2>2, <3>2, <3>3
    <3>5. new \in i .. new
      BY <1>1
    <3>6. out'[new].level >= out[i].level
      BY <1>5, <2>3, <3>5 DEF InScope
    <3>7. out[i].level \in Nat
      BY <1>2
    <3> QED BY <1>1, <1>5, <3>4, <3>6, <3>7
  <2>4. ASSUME NEW i \in 1 .. new,
               StartsAt(out', i), InScope(out', i, new)
        PROVE  /\ out'[i].level < Len(indents')
               /\ out'[i].col = indents'[out'[i].level + 1]
    <3>1. CASE i \in 1 .. Len(out)
      <4>1. InScope(out, i, Len(out)) /\ out[i].level < Len(indents')
        BY <2>3, <2>4, <3>1
      <4>2. StartsAt(out, i) /\ out'[i] = out[i]
        BY <1>5, <2>1, <2>4, <3>1
      <4>3. /\ out[i].level < Len(indents)
            /\ out[i].col = indents[out[i].level + 1]
        BY <3>1, <4>1, <4>2 DEF ScopeInv
      <4>4. /\ out[i].level + 1 \in 1 .. Len(indents)
            /\ out[i].level + 1 <= Len(indents')
        BY <1>1, <1>2, <3>1, <4>1, <4>3
      <4>5. indents'[out[i].level + 1] = indents[out[i].level + 1]
        BY <1>5, <4>4
      <4> QED BY <4>1, <4>2, <4>3, <4>5
    <3>2. CASE i = new
      <4>1. out'[i].level + 1 = Len(indents')
        BY <1>1, <1>5, <3>2
      <4>2. out'[i].level < Len(indents')
        BY <1>1, <1>5, <3>2
      <4> QED BY <1>5, <2>4, <3>2, <4>1, <4>2
    <3> QED BY <1>1, <3>1, <3>2
  <2>5. ScopeInv'
    BY <1>5, <2>4 DEF ScopeInv
  <2>6. ASSUME NEW i \in 1 .. new, NEW j \in 1 .. new, i < j,
               StartsAt(out', i), StartsAt(out', j), InScope(out', i, j)
        PROVE  Aligned(out', i, j)
    <3>1. i \in 1 .. Len(out)
      BY <1>1, <2>6
    <3>2. CASE j \in 1 .. Len(out)
      <4>1. Aligned(out, i, j)
        BY <2>1, <2>2, <2>6, <3>1, <3>2 DEF AlignedInv
      <4>2. out'[i] = out[i] /\ out'[j] = out[j]
        BY <1>5, <3>1, <3>2
      <4> QED BY <4>1, <4>2 DEF Aligned
    <3>3. CASE j = new
      <4> DEFINE a == out'[i].level + 1
                 b == Len(indents')
      <4>1. out'[i].col = indents'[a] /\ out'[i].level < b
        BY <2>4, <2>6, <3>3
      <4>2. out'[j].col = indents'[b] /\ out'[j].level = b - 1
        BY <1>5, <2>6, <3>3
      <4>3. out'[i].level \in Nat /\ b \in Nat \ {0}
        BY <1>1, <1>2, <1>5
      <4>4. a \in 1 .. b /\ b \in 1 .. b
        BY <4>1, <4>3
      <4>5. a < b => indents'[a] < indents'[b]
        BY <4>4 DEF ColumnsGrow
      <4>6. CASE out'[j].level = out'[i].level
        <5>1. a = b
          BY <4>2, <4>3, <4>6
        <5>2. ~(out'[j].level > out'[i].level)
          BY <4>3, <4>6
        <5> QED BY <4>1, <4>2, <5>1, <5>2 DEF Aligned
      <4>7. CASE out'[j].level > out'[i].level
        <5>1. a < b
          BY <4>2, <4>3, <4>7
        <5>2. ~(out'[j].level = out'[i].level)
          BY <4>2, <4>3, <4>7
        <5>3. out'[j].col > out'[i].col
          <6>1. indents'[a] < indents'[b]  BY <4>5, <5>1
          <6>2. out'[i].col < out'[j].col  BY <4>1, <4>2, <6>1
          <6> QED BY <6>2
        <5> QED BY <5>2, <5>3 DEF Aligned
      <4> QED BY <4>6, <4>7 DEF Aligned
    <3> QED BY <1>1, <3>2, <3>3
  <2>7. AlignedInv'
    BY <1>5, <2>6 DEF AlignedInv
  <2> QED BY <2>5, <2>7
<1>6. CASE Opened
  <2>1. PICK n \in Nat :
          /\ Grown(indents, n, indents')
          /\ Grew("INDENT", n, Len(indents)) /\ out'[Len(out) + 1].layout
    BY <1>6 DEF Opened
  <2>2. Len(indents) = Len(indents') - 1
    BY <1>1, <2>1 DEF Grown
  <2>3. ~StartsAt(out', new)
    BY <2>1 DEF StartsAt
  <2> QED BY <1>5, <2>1, <2>2, <2>3 DEF Grew, Grown
<1>7. CASE Closed
  <2>1. PICK n \in Nat :
          /\ Shrunk(indents, indents')
          /\ Grew("DEDENT", n, Len(indents) - 2) /\ out'[Len(out) + 1].layout
    BY <1>7 DEF Closed
  <2>2. Len(indents) - 2 = Len(indents') - 1
    BY <1>1, <2>1 DEF Shrunk
  <2>3. ~StartsAt(out', new)
    BY <2>1 DEF StartsAt
  <2>4. \A m \in 1 .. Len(indents) :
          m <= Len(indents') => indents'[m] = indents[m]
    BY <1>1, <2>1 DEF Shrunk
  <2> QED BY <1>5, <2>1, <2>2, <2>3, <2>4 DEF Grew
<1>8. CASE Ended
  <2>1. PICK n \in Nat :
          /\ indents' = indents
          /\ Grew("NEWLINE", n, Len(indents) - 1) /\ out'[Len(out) + 1].layout
    BY <1>8 DEF Ended
  <2>2. ~StartsAt(out', new)
    BY <2>1 DEF StartsAt
  <2> QED BY <1>5, <2>1, <2>2 DEF Grew
<1>9. CASE Spoke
  <2>1. PICK n \in Nat, text \in Words :
          /\ indents' = indents
          /\ Grew(text, n, Len(indents) - 1)
          /\ Len(out) = 0 \/ out[Len(out)].layout => n = indents[Len(indents)]
    BY <1>9 DEF Spoke
  <2>2. ASSUME StartsAt(out', new)
        PROVE  out'[new].col = indents'[Len(indents')]
    <3>1. Len(out) = 0 \/ out[Len(out)].layout
      <4>1. CASE Len(out) > 0
        <5>1. new > 1 /\ new - 1 = Len(out) /\ out'[Len(out)] = out[Len(out)]
          BY <1>1, <2>1, <4>1 DEF Grew
        <5> QED BY <2>2, <5>1 DEF StartsAt
      <4>2. CASE Len(out) = 0
        BY <4>2
      <4> QED BY <1>1, <4>1, <4>2
    <3> QED BY <2>1, <3>1 DEF Grew
  <2> QED BY <1>5, <2>1, <2>2 DEF Grew
<1> QED BY <1>3, <1>4, <1>6, <1>7, <1>8, <1>9 DEF Forms

(* Indentation is the block structure: in every text, between two logical  *)
(* lines with no shallower line in between, the same block means the same  *)
(* column and a deeper block a greater column.                             *)
THEOREM LayoutColumnsAreBlocks == Spec => []ColumnsAreBlocks
<1> DEFINE Inv == ScopeInv /\ AlignedInv
<1>1. Init => Inv
  <2> SUFFICES ASSUME Init PROVE Inv
    OBVIOUS
  <2>1. Len(out) = 0
    BY EmptySeq DEF Init
  <2> QED BY <2>1 DEF ScopeInv, AlignedInv
<1>2. PassInv /\ PassInv' /\ Inv /\ [Forms]_vars => Inv'
  <2>1. PassInv /\ PassInv' => TypeOK /\ TypeOK' /\ ColumnsGrow'
    BY DEF PassInv, ShapeInv
  <2>2. Inv /\ UNCHANGED vars => Inv'
    BY DEF vars, ScopeInv, AlignedInv
  <2> QED BY <2>1, <2>2, AlignedStep
<1>3. Inv => ColumnsAreBlocks
  BY DEF AlignedInv, ColumnsAreBlocks, Aligned, StartsAt, StartsLine, InScope
<1>4. Spec => []Inv
  <2> HIDE DEF Inv
  <2> QED BY <1>1, <1>2, LayoutPass, PTL DEF Spec
<1> QED BY <1>3, <1>4, PTL

-----------------------------------------------------------------------------
(* Opened and closed.                                                      *)

MarksIn(s, text, k) == {i \in 1 .. k : LayoutAt(s, i, text)}

Count(s, text, k) == Cardinality(MarksIn(s, text, k))

LEMMA CountStep ==
  ASSUME NEW s, NEW r, NEW text, NEW n \in Nat,
         \A k \in 1 .. n : r[k] = s[k]
  PROVE  /\ \A k \in 0 .. n : Count(r, text, k) = Count(s, text, k)
         /\ Count(s, text, n) \in Nat
         /\ LayoutAt(r, n + 1, text)
              => Count(r, text, n + 1) = Count(s, text, n) + 1
         /\ ~LayoutAt(r, n + 1, text)
              => Count(r, text, n + 1) = Count(s, text, n)
<1>1. ASSUME NEW k \in 0 .. n
      PROVE  MarksIn(r, text, k) = MarksIn(s, text, k)
  <2>1. ASSUME NEW i \in 1 .. k
        PROVE  LayoutAt(r, i, text) <=> LayoutAt(s, i, text)
    <3>1. i \in 1 .. n
      OBVIOUS
    <3>2. r[i] = s[i]
      BY <3>1
    <3> QED BY <3>2 DEF LayoutAt
  <2> QED BY <2>1 DEF MarksIn
<1>2. IsFiniteSet(MarksIn(s, text, n)) /\ n + 1 \notin MarksIn(s, text, n)
  <2>1. IsFiniteSet(1 .. n)
    <3>1. 1 \in Int /\ n \in Int  OBVIOUS
    <3> QED BY <3>1, FS_Interval, Zenon
  <2>2. MarksIn(s, text, n) \in SUBSET (1 .. n)
    BY DEF MarksIn
  <2> QED BY <2>1, <2>2, FS_Subset
<1>3. MarksIn(r, text, n) = MarksIn(s, text, n)
  BY <1>1
<1>4. \A i : i \in 1 .. n + 1 <=> i \in 1 .. n \/ i = n + 1
  OBVIOUS
<1>5. CASE LayoutAt(r, n + 1, text)
  <2>1. MarksIn(r, text, n + 1) = MarksIn(s, text, n) \cup {n + 1}
    BY <1>3, <1>4, <1>5 DEF MarksIn
  <2> QED BY <1>1, <1>2, <1>5, <2>1, FS_AddElement, FS_CardinalityType DEF Count
<1>6. CASE ~LayoutAt(r, n + 1, text)
  <2>1. MarksIn(r, text, n + 1) = MarksIn(s, text, n)
    BY <1>3, <1>4, <1>6 DEF MarksIn
  <2> QED BY <1>1, <1>2, <1>6, <2>1, FS_CardinalityType DEF Count
<1> QED BY <1>5, <1>6

(* After the last token the blocks not yet closed are those of the stack,  *)
(* the outermost not counted.                                              *)
BalanceInv ==
  /\ \A k \in 1 .. Len(out) :
       Count(out, "INDENT", k) = Count(out, "DEDENT", k) + out[k].level
  /\ Count(out, "INDENT", Len(out))
       = Count(out, "DEDENT", Len(out)) + Len(indents) - 1

LEMMA NothingCounted ==
  ASSUME NEW s, NEW text
  PROVE  Count(s, text, 0) = 0
<1>1. MarksIn(s, text, 0) = {}
  BY DEF MarksIn
<1> QED BY <1>1, FS_EmptySet DEF Count

LEMMA BalanceStep ==
  ASSUME TypeOK, BalanceInv, Forms
  PROVE  BalanceInv'
<1> DEFINE n == Len(out)
<1>1. n \in Nat /\ Len(indents) \in Nat \ {0}
  BY Lengths
<1>2. CASE Lost
  <2>1. Len(out') = 0 /\ Len(indents') = 1
    BY <1>2 DEF Lost
  <2> QED BY <2>1, NothingCounted DEF BalanceInv
<1>3. CASE Stood
  BY <1>3 DEF Stood, BalanceInv
<1> DEFINE up == Count(out, "INDENT", n)
           down == Count(out, "DEDENT", n)
           newUp == Count(out', "INDENT", n + 1)
           newDown == Count(out', "DEDENT", n + 1)
<1>4. up = down + Len(indents) - 1
  BY DEF BalanceInv
<1>5. ASSUME Len(out') = n + 1, \A k \in 1 .. n : out'[k] = out[k]
      PROVE  /\ up \in Nat /\ down \in Nat
             /\ \A k \in 1 .. n :
                  /\ Count(out', "INDENT", k) = Count(out, "INDENT", k)
                  /\ Count(out', "DEDENT", k) = Count(out, "DEDENT", k)
             /\ LayoutAt(out', n + 1, "INDENT") => newUp = up + 1
             /\ ~LayoutAt(out', n + 1, "INDENT") => newUp = up
             /\ LayoutAt(out', n + 1, "DEDENT") => newDown = down + 1
             /\ ~LayoutAt(out', n + 1, "DEDENT") => newDown = down
  <2>1. \A k \in 1 .. n : k \in 0 .. n
    BY <1>1
  <2> HIDE DEF n
  <2> QED BY <1>1, <1>5, <2>1, CountStep
<1> HIDE DEF up, down, newUp, newDown
<1>6. ASSUME Len(out') = n + 1, \A k \in 1 .. n : out'[k] = out[k],
             out'[n + 1].level = Len(indents') - 1,
             newUp = newDown + Len(indents') - 1,
             newDown \in Nat, Len(indents') \in Nat
      PROVE  BalanceInv'
  <2>1. ASSUME NEW k \in 1 .. Len(out')
        PROVE  Count(out', "INDENT", k) = Count(out', "DEDENT", k) + out'[k].level
    <3>1. CASE k \in 1 .. n
      <4>1. /\ Count(out', "INDENT", k) = Count(out, "INDENT", k)
            /\ Count(out', "DEDENT", k) = Count(out, "DEDENT", k)
        BY <1>5, <1>6, <3>1
      <4>2. out'[k] = out[k]
        BY <1>6, <3>1
      <4> QED BY <3>1, <4>1, <4>2 DEF BalanceInv
    <3>2. CASE k = n + 1
      <4>1. newUp = newDown + (Len(indents') - 1)
        BY <1>6
      <4> QED BY <1>6, <3>2, <4>1 DEF newUp, newDown
    <3> QED BY <1>1, <1>6, <3>1, <3>2
  <2>2. Count(out', "INDENT", Len(out'))
          = Count(out', "DEDENT", Len(out')) + Len(indents') - 1
    BY <1>6 DEF newUp, newDown
  <2> QED BY <2>1, <2>2 DEF BalanceInv
<1>7. CASE Opened
  <2>1. PICK c \in Nat :
          /\ Grown(indents, c, indents')
          /\ Grew("INDENT", c, Len(indents)) /\ out'[Len(out) + 1].layout
    BY <1>7 DEF Opened
  <2>2. LayoutAt(out', n + 1, "INDENT") /\ ~LayoutAt(out', n + 1, "DEDENT")
    BY <2>1 DEF LayoutAt, Grew
  <2>3. /\ Len(out') = n + 1 /\ \A k \in 1 .. n : out'[k] = out[k]
        /\ out'[n + 1].level = Len(indents)
        /\ Len(indents') = Len(indents) + 1
    BY <2>1 DEF Grew, Grown
  <2>4. newUp = up + 1 /\ newDown = down /\ up \in Nat /\ down \in Nat
    BY <1>5, <2>2, <2>3
  <2>5. /\ newUp = newDown + Len(indents') - 1
        /\ Len(indents) = Len(indents') - 1
        /\ newDown \in Nat /\ Len(indents') \in Nat
    BY <1>1, <1>4, <2>3, <2>4
  <2> QED BY <1>6, <2>3, <2>5
<1>8. CASE Closed
  <2>1. PICK c \in Nat :
          /\ Len(indents) > 1 /\ Shrunk(indents, indents')
          /\ Grew("DEDENT", c, Len(indents) - 2) /\ out'[Len(out) + 1].layout
    BY <1>8 DEF Closed
  <2>2. ~LayoutAt(out', n + 1, "INDENT") /\ LayoutAt(out', n + 1, "DEDENT")
    BY <2>1 DEF LayoutAt, Grew
  <2>3. /\ Len(out') = n + 1 /\ \A k \in 1 .. n : out'[k] = out[k]
        /\ out'[n + 1].level = Len(indents) - 2
        /\ Len(indents') = Len(indents) - 1
    BY <2>1 DEF Grew, Shrunk
  <2>4. newUp = up /\ newDown = down + 1 /\ up \in Nat /\ down \in Nat
    BY <1>5, <2>2, <2>3
  <2>5. /\ newUp = newDown + Len(indents') - 1
        /\ Len(indents) - 2 = Len(indents') - 1
        /\ newDown \in Nat /\ Len(indents') \in Nat
    BY <1>1, <1>4, <2>1, <2>3, <2>4
  <2> QED BY <1>6, <2>3, <2>5
<1>9. ASSUME indents' = indents, NEW c, NEW text, Grew(text, c, Len(indents) - 1),
             ~LayoutAt(out', n + 1, "INDENT"), ~LayoutAt(out', n + 1, "DEDENT")
      PROVE  BalanceInv'
  <2>1. /\ Len(out') = n + 1 /\ \A k \in 1 .. n : out'[k] = out[k]
        /\ out'[n + 1].level = Len(indents) - 1
    BY <1>9 DEF Grew
  <2>2. newUp = up /\ newDown = down /\ down \in Nat
    BY <1>5, <1>9, <2>1
  <2>3. newUp = newDown + Len(indents') - 1 /\ Len(indents') \in Nat
    BY <1>1, <1>4, <1>9, <2>2
  <2> QED BY <1>6, <1>9, <2>1, <2>2, <2>3
<1>10. CASE Ended
  <2>1. PICK c \in Nat : /\ indents' = indents
                         /\ Grew("NEWLINE", c, Len(indents) - 1)
    BY <1>10 DEF Ended
  <2>2. ~LayoutAt(out', n + 1, "INDENT") /\ ~LayoutAt(out', n + 1, "DEDENT")
    BY <2>1 DEF LayoutAt, Grew
  <2> QED BY <1>9, <2>1, <2>2
<1>11. CASE Spoke
  <2>1. PICK c \in Nat, text \in Words :
          /\ indents' = indents
          /\ Grew(text, c, Len(indents) - 1) /\ ~out'[Len(out) + 1].layout
    BY <1>11 DEF Spoke
  <2>2. ~LayoutAt(out', n + 1, "INDENT") /\ ~LayoutAt(out', n + 1, "DEDENT")
    BY <2>1 DEF LayoutAt
  <2> QED BY <1>9, <2>1, <2>2
<1> QED BY <1>2, <1>3, <1>7, <1>8, <1>10, <1>11 DEF Forms

(* At no token have more blocks been closed than opened, the blocks open   *)
(* after it are the INDENTs not yet matched, and a stream that is returned *)
(* has closed every block, whatever its brackets.                          *)
THEOREM LayoutBlocksBalance == Spec => []BlocksBalance
<1>1. Init => BalanceInv
  <2> SUFFICES ASSUME Init PROVE BalanceInv
    OBVIOUS
  <2>1. Len(out) = 0 /\ Len(indents) = 1
    BY EmptySeq DEF Init
  <2> QED BY <2>1, NothingCounted DEF BalanceInv
<1>2. PassInv /\ BalanceInv /\ [Forms]_vars => BalanceInv'
  <2>1. PassInv => TypeOK
    BY DEF PassInv, ShapeInv
  <2>2. BalanceInv /\ UNCHANGED vars => BalanceInv'
    BY DEF vars, BalanceInv
  <2> QED BY <2>1, <2>2, BalanceStep
<1>3. PassInv /\ BalanceInv => BlocksBalance
  <2> SUFFICES ASSUME PassInv, BalanceInv PROVE BlocksBalance
    OBVIOUS
  <2>1. \A text, k : Layouts(text, k) = MarksIn(out, text, k)
    BY DEF Layouts, MarksIn, LayoutAt
  <2>2. pc = "done" => Len(indents) = 1
    BY DEF PassInv, ShapeInv, Control
  <2>3. Len(out) \in Nat
    BY Lengths DEF PassInv, ShapeInv
  <2>4. Count(out, "DEDENT", Len(out)) \in Nat
    BY <2>3, CountStep
  <2>5. ASSUME pc = "done"
        PROVE  Count(out, "INDENT", Len(out)) = Count(out, "DEDENT", Len(out))
    <3> DEFINE down == Count(out, "DEDENT", Len(out))
    <3>1. Count(out, "INDENT", Len(out)) = down + 1 - 1
      BY <2>2, <2>5 DEF BalanceInv
    <3>2. down \in Nat  BY <2>4
    <3> HIDE DEF down
    <3>3. down + 1 - 1 = down  BY <3>2
    <3> QED BY <3>1, <3>3 DEF down
  <2> QED BY <2>1, <2>5 DEF BalanceInv, BlocksBalance, Count
<1>4. Spec => []BalanceInv
  BY <1>1, <1>2, LayoutPass, PTL DEF Spec
<1> QED BY <1>3, <1>4, LayoutPass, PTL

-----------------------------------------------------------------------------
(* Where blocks are closed.                                                *)

WholeAt(s, i) ==
  i > 1 /\ s[i - 1].layout /\ s[i - 1].text # "INDENT"

Unfinished == depth > 0 /\ pc \in {"close", "done"}

WholeInv ==
  \A i \in 1 .. Len(out) :
    LayoutAt(out, i, "DEDENT") => WholeAt(out, i) \/ Unfinished

LEMMA WholeStep ==
  ASSUME PassInv, WholeInv, Next, Forms
  PROVE  WholeInv'
<1> DEFINE new == Len(out) + 1
<1>1. Len(out) \in Nat
  BY Lengths DEF PassInv, ShapeInv
<1>2. CASE Unfinished
  <2>1. Unfinished'
    <3>1. Close
      BY <1>2 DEF Unfinished, Next, Mask, TabbedLine, Line, ContinuationLine,
                  DeeperLine, ShallowerLine, Dedent, Token, UnreadableToken,
                  EndOfLine, EndOfInput, Close
    <3>2. depth' = depth /\ pc' \in {"close", "done"}
      BY <1>2, <3>1 DEF Unfinished, Close, Finish
    <3> QED BY <1>2, <3>2 DEF Unfinished
  <2> QED BY <2>1 DEF WholeInv
<1>3. ASSUME ~Unfinished, Len(out') = new,
             \A k \in 1 .. Len(out) : out'[k] = out[k],
             LayoutAt(out', new, "DEDENT") => WholeAt(out', new)
      PROVE  WholeInv'
  <2>1. ASSUME NEW i \in 1 .. new, LayoutAt(out', i, "DEDENT")
        PROVE  WholeAt(out', i)
    <3>1. CASE i \in 1 .. Len(out)
      <4>1. out'[i] = out[i]
        BY <1>3, <3>1
      <4>2. WholeAt(out, i)
        BY <1>3, <2>1, <3>1, <4>1 DEF WholeInv, LayoutAt
      <4>3. i - 1 \in 1 .. Len(out)
        BY <1>1, <3>1, <4>2 DEF WholeAt
      <4>4. out'[i - 1] = out[i - 1]
        BY <1>3, <4>3
      <4> QED BY <4>2, <4>4 DEF WholeAt
    <3>2. CASE i = new
      BY <1>3, <2>1, <3>2
    <3> QED BY <1>1, <3>1, <3>2
  <2> QED BY <1>3, <2>1 DEF WholeInv
<1>4. CASE ~Unfinished /\ Lost
  BY <1>4 DEF Lost, WholeInv
<1>5. CASE ~Unfinished /\ Stood
  BY <1>5 DEF Stood, WholeInv
<1>6. CASE ~Unfinished /\ Closed
  <2>1. PICK n \in Nat :
          /\ pc \in {"dedent", "close"} /\ Len(indents) > 1
          /\ Grew("DEDENT", n, Len(indents) - 2)
    BY <1>6 DEF Closed
  <2>2. depth = 0
    BY <1>6, <2>1 DEF PassInv, ShapeInv, Control, TypeOK, Unfinished
  <2>3. Len(out) > 0 /\ After("INDENT")
    <3>1. /\ Len(out) = 0 => Len(indents) = 1
          /\ pc \in {"line", "dedent", "close"} /\ depth = 0 => After("INDENT")
      BY Zenon DEF PassInv, LineInv
    <3>2. After("INDENT")
      BY <2>1, <2>2, <3>1
    <3>3. Len(out) # 0
      <4> DEFINE blocks == Len(indents)
      <4>1. blocks > 1 /\ blocks \in Nat
        BY <2>1, Lengths DEF PassInv, ShapeInv
      <4>2. Len(out) = 0 => blocks = 1
        BY <3>1
      <4> HIDE DEF blocks
      <4> QED BY <4>1, <4>2
    <3> QED BY <1>1, <3>2, <3>3
  <2>4. out[Len(out)].layout /\ out[Len(out)].text # "INDENT"
    BY <2>3 DEF After
  <2>5. new > 1 /\ new - 1 = Len(out) /\ out'[Len(out)] = out[Len(out)]
    BY <1>1, <2>1, <2>3 DEF Grew
  <2>6. WholeAt(out', new)
    BY <2>4, <2>5 DEF WholeAt
  <2> QED BY <1>3, <1>6, <2>1, <2>6 DEF Grew
<1>7. CASE ~Unfinished /\ Opened
  <2>1. PICK n \in Nat : Grew("INDENT", n, Len(indents))
    BY <1>7 DEF Opened
  <2>2. ~LayoutAt(out', new, "DEDENT")
    BY <2>1 DEF Grew, LayoutAt
  <2> QED BY <1>3, <1>7, <2>1, <2>2 DEF Grew
<1>8. CASE ~Unfinished /\ Ended
  <2>1. PICK n \in Nat : Grew("NEWLINE", n, Len(indents) - 1)
    BY <1>8 DEF Ended
  <2>2. ~LayoutAt(out', new, "DEDENT")
    BY <2>1 DEF Grew, LayoutAt
  <2> QED BY <1>3, <1>8, <2>1, <2>2 DEF Grew
<1>9. CASE ~Unfinished /\ Spoke
  <2>1. PICK n \in Nat, text \in Words :
          Grew(text, n, Len(indents) - 1) /\ ~out'[Len(out) + 1].layout
    BY <1>9 DEF Spoke
  <2>2. ~LayoutAt(out', new, "DEDENT")
    BY <2>1 DEF LayoutAt
  <2> QED BY <1>3, <1>9, <2>1, <2>2 DEF Grew
<1> QED BY <1>2, <1>4, <1>5, <1>6, <1>7, <1>8, <1>9 DEF Forms

(* A block is closed only at the end of a logical line or of another       *)
(* block, except where the text ends inside brackets.                      *)
THEOREM LayoutLinesAreWhole == Spec => []LinesAreWhole
<1>1. Init => WholeInv
  <2> SUFFICES ASSUME Init PROVE WholeInv
    OBVIOUS
  <2>1. Len(out) = 0
    BY EmptySeq DEF Init
  <2> QED BY <2>1 DEF WholeInv
<1>2. PassInv /\ WholeInv /\ [Next]_vars /\ [Forms]_vars => WholeInv'
  <2>1. WholeInv /\ UNCHANGED vars => WholeInv'
    BY DEF vars, WholeInv, Unfinished
  <2> QED BY <2>1, WholeStep
<1>3. WholeInv => LinesAreWhole
  BY DEF WholeInv, LinesAreWhole, LayoutAt, IsLayout, WholeAt, Unfinished
<1>4. Spec => []WholeInv
  BY <1>1, <1>2, LayoutPass, PTL DEF Spec
<1> QED BY <1>3, <1>4, PTL

-----------------------------------------------------------------------------
(* The reader of do blocks.                                                *)

PlainWords == Words \cap Marks = {}

-----------------------------------------------------------------------------
(* What the reader needs to know of the tokens.                            *)

(* A token of a line is one of its words, and a level changes at an INDENT *)
(* and at a DEDENT only, by one.                                           *)
Turns(s, i) == LayoutAt(s, i, "INDENT") \/ LayoutAt(s, i, "DEDENT")

Before(s, i) == IF i = 1 THEN 0 ELSE s[i - 1].level

LevelAt(s, i) ==
  /\ LayoutAt(s, i, "INDENT") => s[i].level = Before(s, i) + 1
  /\ LayoutAt(s, i, "DEDENT") => s[i].level = Before(s, i) - 1
  /\ ~Turns(s, i) => s[i].level = Before(s, i)

LevelsInv ==
  \A i \in 1 .. Len(out) :
    (out[i].layout \/ out[i].text \in Words) /\ LevelAt(out, i)

LEMMA LevelsStep ==
  ASSUME PassInv, LevelsInv, Forms
  PROVE  LevelsInv'
<1> DEFINE new == Len(out) + 1
<1>1. Len(out) \in Nat /\ Len(indents) \in Nat \ {0}
  BY Lengths DEF PassInv, ShapeInv
<1>2. CASE Lost
  BY <1>2 DEF Lost, LevelsInv
<1>3. CASE Stood
  BY <1>3 DEF Stood, LevelsInv
<1>4. IF Len(out) = 0 THEN Len(indents) = 1
                      ELSE out[Len(out)].level = Len(indents) - 1
  BY <1>1 DEF PassInv, LineInv
<1>5. ASSUME Len(out') = new, \A k \in 1 .. Len(out) : out'[k] = out[k],
             out'[new].layout \/ out'[new].text \in Words, LevelAt(out', new)
      PROVE  LevelsInv'
  <2>1. ASSUME NEW i \in 1 .. Len(out)
        PROVE  (out'[i].layout \/ out'[i].text \in Words) /\ LevelAt(out', i)
    <3>1. out'[i] = out[i] /\ (i # 1 => out'[i - 1] = out[i - 1])
      BY <1>1, <1>5
    <3>2. Before(out', i) = Before(out, i)
      BY <3>1 DEF Before
    <3> QED BY <3>1, <3>2 DEF LevelsInv, LevelAt, LayoutAt, Turns
  <2>2. \A i \in 1 .. new : i \in 1 .. Len(out) \/ i = new
    BY <1>1
  <2> QED BY <1>5, <2>1, <2>2 DEF LevelsInv
<1>6. ASSUME NEW text, NEW n, NEW level, Grew(text, n, level)
      PROVE  /\ Len(out') = new /\ \A k \in 1 .. Len(out) : out'[k] = out[k]
             /\ out'[new].text = text /\ out'[new].level = level
             /\ Before(out', new) = Len(indents) - 1
  <2>1. CASE Len(out) = 0
    BY <1>1, <1>4, <1>6, <2>1 DEF Grew, Before
  <2>2. CASE Len(out) # 0
    <3>1. new # 1 /\ new - 1 = Len(out) /\ out'[Len(out)] = out[Len(out)]
      BY <1>1, <1>6, <2>2 DEF Grew
    <3> QED BY <1>4, <1>6, <2>2, <3>1 DEF Grew, Before
  <2> QED BY <2>1, <2>2
<1>7. CASE Opened
  <2>1. PICK n \in Nat :
          Grew("INDENT", n, Len(indents)) /\ out'[Len(out) + 1].layout
    BY <1>7 DEF Opened
  <2>2. Before(out', new) + 1 = Len(indents)
    BY <1>1, <1>6, <2>1
  <2> QED BY <1>5, <1>6, <2>1, <2>2 DEF LevelAt, LayoutAt, Turns
<1>8. CASE Closed
  <2>1. PICK n \in Nat :
          Grew("DEDENT", n, Len(indents) - 2) /\ out'[Len(out) + 1].layout
    BY <1>8 DEF Closed
  <2>2. Before(out', new) - 1 = Len(indents) - 2
    BY <1>1, <1>6, <2>1
  <2> QED BY <1>5, <1>6, <2>1, <2>2 DEF LevelAt, LayoutAt, Turns
<1>9. CASE Ended
  <2>1. PICK n \in Nat :
          Grew("NEWLINE", n, Len(indents) - 1) /\ out'[Len(out) + 1].layout
    BY <1>9 DEF Ended
  <2> QED BY <1>5, <1>6, <2>1 DEF LevelAt, LayoutAt, Turns
<1>10. CASE Spoke
  <2>1. PICK n \in Nat, text \in Words :
          Grew(text, n, Len(indents) - 1) /\ ~out'[Len(out) + 1].layout
    BY <1>10 DEF Spoke
  <2> QED BY <1>5, <1>6, <2>1 DEF LevelAt, LayoutAt, Turns
<1> QED BY <1>2, <1>3, <1>7, <1>8, <1>9, <1>10 DEF Forms

(* Where a text ends inside brackets, its last tokens are a word and the   *)
(* DEDENTs of its blocks, and nothing comes after those.                   *)
LastWord(s, i) ==
  ~s[i].layout /\ \A j \in i + 1 .. Len(s) : LayoutAt(s, j, "DEDENT")

TailInv ==
  /\ \A i \in 1 .. Len(out) :
       LayoutAt(out, i, "DEDENT") /\ ~WholeAt(out, i) =>
         \A j \in i .. Len(out) : LayoutAt(out, j, "DEDENT")
  /\ depth > 0 => \E i \in 1 .. Len(out) : LastWord(out, i)

LEMMA UnfinishedStep ==
  ASSUME PassInv, Unfinished, Next
  PROVE  /\ depth' = depth /\ pc = "close" /\ pc' \in {"close", "done"}
         /\ Stood \/ Closed
<1>1. Close
  BY DEF Unfinished, Next, Mask, TabbedLine, Line, ContinuationLine,
         DeeperLine, ShallowerLine, Dedent, Token, UnreadableToken,
         EndOfLine, EndOfInput, Close
<1>2. CASE Len(indents) > 1
  <2>1. CloseBlock(0)
    BY <1>1, <1>2 DEF Close, Finish
  <2>2. ~pending /\ ~pending'
    BY <1>1, <1>2 DEF Close, Finish, PassInv, ShapeInv, Control
  <2>3. pc = "close"
    BY <1>1 DEF Close
  <2>4. Closed
    BY <1>2, <2>1, <2>2, <2>3, CloseForm DEF PassInv
  <2> QED BY <1>1, <1>2, <2>4 DEF Close, Finish
<1>3. CASE ~(Len(indents) > 1)
  BY <1>1, <1>3 DEF Close, Finish, Stood
<1> QED BY <1>2, <1>3

LEMMA TailStep ==
  ASSUME PassInv, PassInv', WholeInv, TailInv, Next, Forms
  PROVE  TailInv'
<1> DEFINE new == Len(out) + 1
<1>1. Len(out) \in Nat
  BY Lengths DEF PassInv, ShapeInv
<1>2. CASE Unfinished
  <2>1. depth' = depth /\ (Stood \/ Closed)
    BY <1>2, UnfinishedStep
  <2>2. CASE Stood
    BY <2>1, <2>2 DEF Stood, TailInv
  <2>3. CASE Closed
    <3>1. PICK n \in Nat :
            Grew("DEDENT", n, Len(indents) - 2) /\ out'[Len(out) + 1].layout
      BY <2>3 DEF Closed
    <3>2. /\ Len(out') = new /\ \A k \in 1 .. Len(out) : out'[k] = out[k]
          /\ LayoutAt(out', new, "DEDENT")
      BY <3>1 DEF Grew, LayoutAt
    <3>3. ASSUME NEW i \in 1 .. Len(out), LastWord(out, i)
          PROVE  i \in 1 .. new /\ LastWord(out', i)
      <4>1. \A j \in i + 1 .. new : j \in 1 .. Len(out) \/ j = new
        BY <1>1
      <4> QED BY <1>1, <3>2, <3>3, <4>1 DEF LastWord, LayoutAt
    <3>4. ASSUME NEW i \in 1 .. new,
                 LayoutAt(out', i, "DEDENT"), ~WholeAt(out', i)
          PROVE  \A j \in i .. new : LayoutAt(out', j, "DEDENT")
      <4>1. CASE i = new
        BY <3>2, <4>1
      <4>2. CASE i \in 1 .. Len(out)
        <5>1. out'[i] = out[i] /\ (i > 1 => out'[i - 1] = out[i - 1])
          BY <1>1, <3>2, <4>2
        <5>2. LayoutAt(out, i, "DEDENT") /\ ~WholeAt(out, i)
          BY <3>4, <5>1 DEF LayoutAt, WholeAt
        <5>3. \A j \in i .. Len(out) : LayoutAt(out, j, "DEDENT")
          BY <4>2, <5>2 DEF TailInv
        <5>4. \A j \in i .. new : (j \in i .. Len(out) /\ j \in 1 .. Len(out)) \/ j = new
          BY <1>1, <4>2
        <5> QED BY <3>2, <5>3, <5>4 DEF LayoutAt
      <4> QED BY <1>1, <4>1, <4>2
    <3>5. depth > 0 => \E i \in 1 .. Len(out) : LastWord(out, i)
      BY DEF TailInv
    <3> QED BY <2>1, <3>2, <3>3, <3>4, <3>5 DEF TailInv
  <2> QED BY <2>1, <2>2, <2>3
<1>3. CASE ~Unfinished
  <2>1. WholeInv'
    BY WholeStep
  <2>2. \A i \in 1 .. Len(out) : LayoutAt(out, i, "DEDENT") => WholeAt(out, i)
    BY <1>3 DEF WholeInv
  <2>3. ASSUME NEW i \in 1 .. Len(out'),
               LayoutAt(out', i, "DEDENT"), ~WholeAt(out', i)
        PROVE  FALSE
    <3>1. Unfinished'
      BY <2>1, <2>3 DEF WholeInv
    <3>2. EndOfInput
      BY <1>3, <3>1 DEF Unfinished, Next, Mask, TabbedLine, Line, Throw, EnterLine,
         LeaveLine, ContinuationLine, DeeperLine, ShallowerLine, Dedent, Token,
         UnreadableToken, EndOfLine, EndOfInput, Close, Finish
    <3>3. out' = out
      BY <3>1, <3>2 DEF EndOfInput, Throw, Unfinished
    <3> QED BY <2>2, <2>3, <3>3
  <2>4. ASSUME depth' > 0
        PROVE  \E i \in 1 .. Len(out') : LastWord(out', i)
    <3>1. CASE pc' \in {"line", "tokens"}
      <4>1. Len(out') > 0 /\ ~out'[Len(out')].layout
        BY <2>4, <3>1 DEF PassInv, LineInv, WithinLine
      <4>2. Len(out') \in Nat
        <5>1. TypeOK'
          BY DEF PassInv, ShapeInv
        <5>2. out' \in Seq(Toks)
          BY <5>1 DEF TypeOK
        <5> QED BY <5>2, LenProperties
      <4>3. LastWord(out', Len(out'))
        BY <4>1, <4>2 DEF LastWord
      <4> QED BY <4>1, <4>2, <4>3
    <3>2. CASE pc' \notin {"line", "tokens"}
      <4>1. Unfinished'
        <5>1. ShapeInv'
          BY DEF PassInv
        <5>2. pc' \in {"close", "done"}
          BY <2>4, <3>2, <5>1 DEF ShapeInv, Control, TypeOK
        <5> QED BY <2>4, <5>2 DEF Unfinished
      <4>2. EndOfInput
        BY <1>3, <4>1 DEF Unfinished, Next, Mask, TabbedLine, Line, Throw, EnterLine,
           LeaveLine, ContinuationLine, DeeperLine, ShallowerLine, Dedent, Token,
           UnreadableToken, EndOfLine, EndOfInput, Close, Finish
      <4>3. out' = out /\ depth' = depth
        BY <4>1, <4>2 DEF EndOfInput, Throw, Unfinished
      <4> QED BY <2>4, <4>3 DEF TailInv
    <3> QED BY <3>1, <3>2
  <2> QED BY <2>3, <2>4 DEF TailInv
<1> QED BY <1>2, <1>3

(* Whatever the reader does, the pass runs as it would alone.              *)
StreamInv == PassInv /\ LevelsInv /\ WholeInv /\ TailInv /\ BlocksAreAnnounced

LEMMA LayoutStream == Spec => []StreamInv
<1>1. Init => LevelsInv /\ WholeInv /\ TailInv
  <2> SUFFICES ASSUME Init PROVE LevelsInv /\ WholeInv /\ TailInv
    OBVIOUS
  <2>1. Len(out) = 0 /\ depth = 0
    BY EmptySeq DEF Init
  <2> QED BY <2>1 DEF LevelsInv, WholeInv, TailInv
<1>2. /\ PassInv /\ PassInv' /\ [Forms]_vars /\ [Next]_vars
      /\ LevelsInv /\ WholeInv /\ TailInv
      => (LevelsInv /\ WholeInv /\ TailInv)'
  <2>1. LevelsInv /\ WholeInv /\ TailInv /\ UNCHANGED vars
          => (LevelsInv /\ WholeInv /\ TailInv)'
    BY DEF vars, LevelsInv, WholeInv, TailInv, Unfinished
  <2> QED BY <2>1, LevelsStep, WholeStep, TailStep
<1>3. Spec => [](LevelsInv /\ WholeInv /\ TailInv)
  BY <1>1, <1>2, LayoutPass, PTL DEF Spec
<1> QED BY <1>3, LayoutPass, LayoutBlocksAreAnnounced, PTL DEF StreamInv

LEMMA ParserStream == ParserSpec => []StreamInv
<1>1. ParserInit => Init
  BY DEF ParserInit
<1>2. [ParserNext]_<<vars, parserVars>> => [Next]_vars
  BY DEF ParserNext, Lex, Begin, Header, Simple, EndBlock, Refuse
<1> QED BY <1>1, <1>2, LayoutStream, PTL DEF ParserSpec, Spec

-----------------------------------------------------------------------------
(* The tokens as the reader finds them.                                    *)

LEMMA StreamTypes ==
  ASSUME StreamInv
  PROVE  /\ Len(out) \in Nat
         /\ \A i \in 1 .. Len(out) : out[i].level \in Nat
<1>1. out \in Seq(Toks)
  BY DEF StreamInv, PassInv, ShapeInv, TypeOK
<1> QED BY <1>1, LenProperties, TokenFields

(* A layout token is known by its text, if no word is spelled like it.     *)
LEMMA MarkIsLayout ==
  ASSUME StreamInv, PlainWords, NEW i, NEW text \in Marks, At(i, text)
  PROVE  LayoutAt(out, i, text)
BY DEF StreamInv, LevelsInv, PlainWords, At, LayoutAt

LEMMA LayoutIsMark ==
  ASSUME StreamInv, NEW i \in 1 .. Len(out), out[i].layout
  PROVE  out[i].text \in Marks
BY DEF StreamInv, PassInv, LineInv

(* After a word comes no INDENT, and a DEDENT only if nothing but DEDENTs  *)
(* follows.                                                                *)
LEMMA TurnAfterWord ==
  ASSUME StreamInv, NEW i \in 1 .. Len(out), i > 1, ~out[i - 1].layout,
         Turns(out, i)
  PROVE  \A j \in i .. Len(out) : LayoutAt(out, j, "DEDENT")
<1>1. CASE LayoutAt(out, i, "INDENT")
  <2>1. i \in 1 .. Len(out) + 1
    BY StreamTypes
  <2>2. Announced(i)
    BY <1>1, <2>1 DEF StreamInv, BlocksAreAnnounced, IsLayout, LayoutAt
  <2> QED BY <2>2 DEF Announced, IsLayout
<1>2. CASE LayoutAt(out, i, "DEDENT")
  <2>1. ~WholeAt(out, i)
    BY DEF WholeAt
  <2> QED BY <1>2, <2>1 DEF StreamInv, TailInv
<1> QED BY <1>1, <1>2 DEF Turns

(* So there is none between a word and a text that is not that of a layout *)
(* token.                                                                  *)
LEMMA NameIsNoTurn ==
  ASSUME StreamInv, NEW i \in Nat \ {0}, NEW text, text \notin Marks,
         i <= Len(out), ~out[i].layout, At(i + 2, text)
  PROVE  ~Turns(out, i + 1)
<1> SUFFICES ASSUME Turns(out, i + 1) PROVE FALSE
  OBVIOUS
<1>1. /\ i + 1 \in 1 .. Len(out) /\ i + 1 > 1 /\ i + 1 - 1 = i
      /\ i + 2 \in i + 1 .. Len(out)
  BY StreamTypes DEF At
<1>2. LayoutAt(out, i + 2, "DEDENT")
  <2> DEFINE j == i + 1
  <2>1. j \in 1 .. Len(out) /\ j > 1 /\ ~out[j - 1].layout /\ Turns(out, j)
    BY <1>1
  <2>2. i + 2 \in j .. Len(out)
    BY <1>1
  <2> HIDE DEF j
  <2> QED BY <2>1, <2>2, TurnAfterWord
<1>3. "DEDENT" \in Marks
  BY DEF Marks
<1> QED BY <1>2, <1>3 DEF LayoutAt, At

(* A logical line holds no layout token before its NEWLINE.                *)
LEMMA LineHoldsWords ==
  ASSUME StreamInv, NEW i \in Nat \ {0}, NEW e \in Nat, i < e, e <= Len(out),
         ~out[i].layout, LayoutAt(out, e, "NEWLINE"),
         \A k \in i .. e - 1 : ~LayoutAt(out, k, "NEWLINE")
  PROVE  \A k \in i .. e - 1 : ~out[k].layout
<1> DEFINE T == {k \in i .. e - 1 : out[k].layout}
<1> SUFFICES ASSUME T # {} PROVE FALSE
  OBVIOUS
<1>1. PICK k \in T : \A m \in T : k <= m
  <2>1. T \in SUBSET Nat
    OBVIOUS
  <2> HIDE DEF T
  <2> QED BY <2>1, LeastElement
<1>2. k \in i .. e - 1 /\ out[k].layout /\ k # i
  OBVIOUS
<1>3. k - 1 \in i .. e - 1 /\ k - 1 \notin T
  <2>1. k - 1 \in i .. e - 1
    BY <1>2
  <2>2. ~(k <= k - 1)
    BY <1>2
  <2> HIDE DEF T
  <2> QED BY <1>1, <2>1, <2>2
<1>4. ~out[k - 1].layout /\ k > 1 /\ k \in 1 .. Len(out) /\ e \in k .. Len(out)
  BY <1>2, <1>3, StreamTypes
<1>5. Turns(out, k)
  <2>1. out[k].text \in Marks
    BY <1>2, <1>4, LayoutIsMark
  <2> QED BY <1>2, <2>1 DEF Marks, Turns, LayoutAt
<1>6. LayoutAt(out, e, "DEDENT")
  <2> HIDE DEF T
  <2> QED BY <1>4, <1>5, TurnAfterWord
<1> QED BY <1>6 DEF LayoutAt

(* The level stands where no block is opened or closed.                    *)
LEMMA LevelStands ==
  ASSUME StreamInv, NEW i \in Nat \ {0}, NEW j \in Nat, i <= j, j <= Len(out),
         \A k \in i + 1 .. j : ~Turns(out, k)
  PROVE  out[j].level = out[i].level
<1> DEFINE T == {k \in i .. j : out[k].level # out[i].level}
<1> SUFFICES ASSUME T # {} PROVE FALSE
  OBVIOUS
<1>1. PICK k \in T : \A m \in T : k <= m
  <2>1. T \in SUBSET Nat
    OBVIOUS
  <2> HIDE DEF T
  <2> QED BY <2>1, LeastElement
<1>2. k \in i + 1 .. j /\ out[k].level # out[i].level
  OBVIOUS
<1>3. k - 1 \in i .. j /\ k - 1 \notin T
  <2>1. k - 1 \in i .. j
    BY <1>2
  <2>2. ~(k <= k - 1)
    BY <1>2
  <2> HIDE DEF T
  <2> QED BY <1>1, <2>1, <2>2
<1>4. out[k - 1].level = out[i].level
  BY <1>3
<1>5. k \in 1 .. Len(out) /\ k # 1
  BY <1>2, StreamTypes
<1>6. out[k].level = Before(out, k)
  BY <1>2, <1>5 DEF StreamInv, LevelsInv, LevelAt
<1> QED BY <1>2, <1>4, <1>5, <1>6 DEF Before

-----------------------------------------------------------------------------
(* The statements that start at a token.                                   *)

Read(i) ==
  UNION {Conditions(i), Loops(i), Bindings(i), Results(i), Jumps(i),
         Assignments(i)}

LEMMA ExpressionTokens ==
  ASSUME NEW delimiter, NEW i, NEW j \in ExpressionUntil(delimiter, i)
  PROVE  /\ j \in i + 1 .. Len(out) /\ At(j, delimiter)
         /\ \A k \in i .. j - 1 : out[k].text \notin {delimiter, "INDENT", "DEDENT"}
         /\ Parts(i, j) \in Expressions
BY DEF ExpressionUntil

(* The six forms, and the tokens of each.                                  *)
HeaderForm(i, s) ==
  /\ s.head \in Headers
  /\ s.last - 2 > i /\ s.last \in 1 .. Len(out)
  /\ At(s.last - 2, ":")
  /\ LayoutAt(out, s.last - 1, "NEWLINE") /\ LayoutAt(out, s.last, "INDENT")

LineForm(i, s) ==
  /\ s.head \in (Keywords \cup {"assign"}) \ Headers
  /\ s.last > i /\ s.last \in 1 .. Len(out)
  /\ LayoutAt(out, s.last, "NEWLINE")
  /\ \A k \in i + 2 .. s.last - 1 : ~out[k].layout

(* No block is opened or closed within a statement.                        *)
Formed(i, s) ==
  /\ HeaderForm(i, s) \/ LineForm(i, s)
  /\ i \in 1 .. Len(out)
  /\ \A k \in i + 1 .. s.last - 1 : ~Turns(out, k)
  /\ s.head \in Headers => ~out[i].layout

LEMMA WordIsNoLayout ==
  ASSUME StreamInv, NEW i, NEW text, text \notin Marks, At(i, text)
  PROVE  ~out[i].layout
BY LayoutIsMark DEF At

LEMMA OpensBlockForm ==
  ASSUME StreamInv, PlainWords, NEW j \in Nat, OpensBlock(j)
  PROVE  /\ j \in 1 .. Len(out) /\ At(j, ":") /\ j + 2 \in 1 .. Len(out)
         /\ LayoutAt(out, j + 1, "NEWLINE") /\ LayoutAt(out, j + 2, "INDENT")
<1>1. {"NEWLINE", "INDENT"} \subseteq Marks
  BY DEF Marks
<1>2. LayoutAt(out, j + 1, "NEWLINE") /\ LayoutAt(out, j + 2, "INDENT")
  BY <1>1, MarkIsLayout DEF OpensBlock
<1> QED BY <1>2 DEF OpensBlock, At

(* The tokens of a value hold neither its delimiter nor a turn.            *)
LEMMA ValueForm ==
  ASSUME StreamInv, PlainWords, NEW i \in Nat,
         NEW j \in ExpressionUntil("NEWLINE", i)
  PROVE  /\ j \in i + 1 .. Len(out) /\ LayoutAt(out, j, "NEWLINE")
         /\ \A k \in i .. j - 1 : k \in 1 .. Len(out) => ~out[k].layout
<1>1. "NEWLINE" \in Marks
  BY DEF Marks
<1>2. /\ j \in i + 1 .. Len(out) /\ At(j, "NEWLINE")
      /\ \A k \in i .. j - 1 : out[k].text \notin Marks
  BY ExpressionTokens DEF Marks
<1> QED BY <1>1, <1>2, MarkIsLayout, LayoutIsMark

LEMMA ConditionForm ==
  ASSUME StreamInv, PlainWords, NEW i \in Nat \ {0}, NEW s \in Conditions(i)
  PROVE  Formed(i, s) /\ s.head = out[i].text
<1>1. PICK j \in ExpressionUntil(":", i + 1) :
        /\ OpensBlock(j)
        /\ At(i, "while") \/ At(i, "if")
        /\ s = [head |-> out[i].text, last |-> j + 2]
  BY DEF Conditions
<1>2. /\ j \in i + 2 .. Len(out)
      /\ \A k \in i + 1 .. j - 1 : out[k].text \notin {":", "INDENT", "DEDENT"}
  BY ExpressionTokens
<1>3. s.head \in Headers /\ s.last = j + 2 /\ i \in 1 .. Len(out)
  BY <1>1 DEF Headers, At
<1>4. /\ At(j, ":") /\ j + 2 \in 1 .. Len(out)
      /\ LayoutAt(out, j + 1, "NEWLINE") /\ LayoutAt(out, j + 2, "INDENT")
  BY <1>1, <1>2, OpensBlockForm
<1>5. HeaderForm(i, s)
  BY <1>2, <1>3, <1>4 DEF HeaderForm
<1>6. ~out[i].layout
  <2>1. "while" \notin Marks /\ "if" \notin Marks
    BY DEF Marks
  <2> QED BY <1>1, <2>1, WordIsNoLayout
<1>7. ASSUME NEW k \in i + 1 .. s.last - 1
      PROVE  ~Turns(out, k)
  <2>1. k \in i + 1 .. j - 1 \/ k = j \/ k = j + 1
    BY <1>2, <1>3
  <2> QED BY <1>2, <1>4, <2>1 DEF Turns, LayoutAt, At
<1> QED BY <1>1, <1>3, <1>5, <1>6, <1>7 DEF Formed

LEMMA LoopForm ==
  ASSUME StreamInv, PlainWords, NEW i \in Nat \ {0}, NEW s \in Loops(i)
  PROVE  Formed(i, s) /\ s.head = "for" /\ At(i, "for") /\ At(i + 2, "in")
<1>1. PICK j \in ExpressionUntil(":", i + 3) :
        /\ OpensBlock(j)
        /\ At(i, "for") /\ At(i + 2, "in")
        /\ s = [head |-> "for", last |-> j + 2]
  BY DEF Loops
<1>2. /\ j \in i + 4 .. Len(out)
      /\ \A k \in i + 3 .. j - 1 : out[k].text \notin {":", "INDENT", "DEDENT"}
  BY ExpressionTokens
<1>3. s.head \in Headers /\ s.last = j + 2 /\ i \in 1 .. Len(out)
  BY <1>1 DEF Headers, At
<1>4. /\ At(j, ":") /\ j + 2 \in 1 .. Len(out)
      /\ LayoutAt(out, j + 1, "NEWLINE") /\ LayoutAt(out, j + 2, "INDENT")
  BY <1>1, <1>2, OpensBlockForm
<1>5. HeaderForm(i, s)
  BY <1>2, <1>3, <1>4 DEF HeaderForm
<1>6. "for" \notin Marks /\ "in" \notin Marks
  BY DEF Marks
<1>7. ~out[i].layout
  BY <1>1, <1>6, WordIsNoLayout
<1>8. ~Turns(out, i + 1)
  BY <1>1, <1>3, <1>6, <1>7, NameIsNoTurn
<1>9. ASSUME NEW k \in i + 1 .. s.last - 1
      PROVE  ~Turns(out, k)
  <2>1. k = i + 1 \/ k = i + 2 \/ k \in i + 3 .. j - 1 \/ k = j \/ k = j + 1
    BY <1>2, <1>3
  <2> QED BY <1>1, <1>2, <1>4, <1>8, <2>1 DEF Turns, LayoutAt, At
<1> QED BY <1>1, <1>3, <1>5, <1>7, <1>9 DEF Formed

(* A statement of one line: its value is the rest of the line.             *)
LEMMA ValueLine ==
  ASSUME StreamInv, PlainWords, NEW i \in Nat \ {0}, NEW m \in {i + 1, i + 2, i + 3},
         NEW j \in ExpressionUntil("NEWLINE", m), NEW s, s.last = j,
         s.head \in (Keywords \cup {"assign"}) \ Headers,
         m = i + 1 \/ ~Turns(out, i + 1),
         m = i + 3 => ~out[i + 2].layout
  PROVE  Formed(i, s)
<1>1. /\ j \in m + 1 .. Len(out) /\ LayoutAt(out, j, "NEWLINE")
      /\ \A k \in m .. j - 1 : k \in 1 .. Len(out) => ~out[k].layout
  BY ValueForm
<1>2. i \in 1 .. Len(out) /\ j > i /\ j \in 1 .. Len(out)
  BY <1>1, StreamTypes
<1>3. ASSUME NEW k \in i + 2 .. j - 1
      PROVE  ~out[k].layout
  <2>1. (k = i + 2 /\ m = i + 3) \/ (k \in m .. j - 1 /\ k \in 1 .. Len(out))
    BY <1>1, <1>2
  <2> QED BY <1>1, <2>1
<1>4. ASSUME NEW k \in i + 1 .. j - 1
      PROVE  ~Turns(out, k)
  <2>1. (k = i + 1 /\ m # i + 1) \/ k \in i + 2 .. j - 1
        \/ (k \in m .. j - 1 /\ k \in 1 .. Len(out))
    BY <1>1, <1>2
  <2> QED BY <1>1, <1>3, <2>1 DEF Turns, LayoutAt
<1>5. s.head \notin Headers
  OBVIOUS
<1>6. LineForm(i, s)
  BY <1>1, <1>2, <1>3 DEF LineForm
<1> QED BY <1>2, <1>4, <1>5, <1>6 DEF Formed

LEMMA BindingForm ==
  ASSUME StreamInv, PlainWords, NEW i \in Nat \ {0}, NEW s \in Bindings(i)
  PROVE  Formed(i, s) /\ s.head = out[i].text
<1>1. PICK j \in ExpressionUntil("NEWLINE", i + 3) :
        /\ At(i, "let") \/ At(i, "mut")
        /\ At(i + 2, "=")
        /\ s = [head |-> out[i].text, last |-> j]
  BY DEF Bindings
<1>2. "let" \notin Marks /\ "mut" \notin Marks /\ "=" \notin Marks
  BY DEF Marks
<1>3. ~out[i].layout /\ ~out[i + 2].layout
  BY <1>1, <1>2, WordIsNoLayout
<1>4. i <= Len(out)
  BY <1>1, StreamTypes DEF At
<1>5. ~Turns(out, i + 1)
  BY <1>1, <1>2, <1>3, <1>4, NameIsNoTurn
<1>6. s.head \in (Keywords \cup {"assign"}) \ Headers
  BY <1>1 DEF Keywords, Headers, At
<1> QED BY <1>1, <1>3, <1>5, <1>6, ValueLine

LEMMA ResultForm ==
  ASSUME StreamInv, PlainWords, NEW i \in Nat \ {0}, NEW s \in Results(i)
  PROVE  Formed(i, s) /\ s.head = out[i].text
<1>1. PICK j \in ExpressionUntil("NEWLINE", i + 1) :
        /\ At(i, "return") \/ At(i, "yield")
        /\ s = [head |-> out[i].text, last |-> j]
  BY DEF Results
<1>2. s.head \in (Keywords \cup {"assign"}) \ Headers
  BY <1>1 DEF Keywords, Headers, At
<1> QED BY <1>1, <1>2, ValueLine

LEMMA JumpForm ==
  ASSUME StreamInv, PlainWords, NEW i \in Nat \ {0}, NEW s \in Jumps(i)
  PROVE  Formed(i, s) /\ s.head = out[i].text /\ s.last = i + 1
<1>1. /\ At(i, "break") \/ At(i, "continue")
      /\ At(i + 1, "NEWLINE")
      /\ s = [head |-> out[i].text, last |-> i + 1]
  BY DEF Jumps
<1>2. s.head \in (Keywords \cup {"assign"}) \ Headers
  BY <1>1 DEF Keywords, Headers, At
<1>3. "NEWLINE" \in Marks
  BY DEF Marks
<1>4. LayoutAt(out, i + 1, "NEWLINE") /\ i \in 1 .. Len(out) /\ i + 1 \in 1 .. Len(out)
  BY <1>1, <1>3, MarkIsLayout DEF At
<1>5. LineForm(i, s)
  BY <1>1, <1>2, <1>4 DEF LineForm
<1> QED BY <1>1, <1>2, <1>4, <1>5 DEF Formed

LEMMA AssignmentForm ==
  ASSUME StreamInv, PlainWords, NEW i \in Nat \ {0}, NEW s \in Assignments(i)
  PROVE  /\ Formed(i, s) /\ s.head = "assign"
         /\ out[i].text \notin Keywords /\ At(i + 1, "<-")
<1>1. PICK j \in ExpressionUntil("NEWLINE", i + 2) :
        /\ out[i].text \notin Keywords /\ At(i + 1, "<-")
        /\ s = [head |-> "assign", last |-> j]
  BY DEF Assignments
<1>2. s.head \in (Keywords \cup {"assign"}) \ Headers
  BY <1>1 DEF Keywords, Headers
<1>3. ~Turns(out, i + 1)
  BY <1>1 DEF Turns, LayoutAt, At
<1> QED BY <1>1, <1>2, <1>3, ValueLine

LEMMA StatementForm ==
  ASSUME StreamInv, PlainWords, NEW i \in Nat \ {0}, NEW s \in Read(i)
  PROVE  Formed(i, s)
BY ConditionForm, LoopForm, BindingForm, ResultForm, JumpForm, AssignmentForm
   DEF Read

(* A statement no token of whose line is layout is a whole line.           *)
LEMMA StatementIsLine ==
  ASSUME StreamInv, PlainWords, NEW i \in Nat \ {0}, NEW s \in Read(i), NEW e,
         e = IF s.head \in Headers THEN s.last - 1 ELSE s.last
  PROVE  Whole(i, e)
<1>1. ASSUME s \in Conditions(i)
      PROVE  Whole(i, e)
  <2>1. PICK j \in ExpressionUntil(":", i + 1) :
          /\ OpensBlock(j)
          /\ At(i, "while") \/ At(i, "if")
          /\ s = [head |-> out[i].text, last |-> j + 2]
    BY <1>1 DEF Conditions
  <2>2. /\ j \in Nat /\ j <= Len(out)
        /\ Parts(i + 1, j) \in Expressions /\ s.head \in Headers
    BY <2>1, ExpressionTokens DEF Headers, At
  <2>3. e = j + 1 /\ e - 1 = j /\ e < Len(out)
    BY <2>1, <2>2, OpensBlockForm, StreamTypes
  <2>4. Opener(i, e)
    BY <2>1, <2>2, <2>3, OpensBlockForm DEF Opener, IsLayout, LayoutAt
  <2> QED BY <2>1, <2>2, <2>3, <2>4 DEF Whole, At
<1>2. ASSUME s \in Loops(i)
      PROVE  Whole(i, e)
  <2>1. PICK j \in ExpressionUntil(":", i + 3) :
          /\ OpensBlock(j)
          /\ At(i, "for") /\ At(i + 2, "in")
          /\ s = [head |-> "for", last |-> j + 2]
    BY <1>2 DEF Loops
  <2>2. /\ j \in Nat /\ j <= Len(out)
        /\ Parts(i + 3, j) \in Expressions /\ s.head \in Headers
    BY <2>1, ExpressionTokens DEF Headers, At
  <2>3. e = j + 1 /\ e - 1 = j /\ e < Len(out)
    BY <2>1, <2>2, OpensBlockForm, StreamTypes
  <2>4. Opener(i, e)
    BY <2>1, <2>2, <2>3, OpensBlockForm DEF Opener, IsLayout, LayoutAt
  <2> QED BY <2>1, <2>2, <2>3, <2>4 DEF Whole, At
<1>3. ASSUME s \in Bindings(i)
      PROVE  Whole(i, e)
  <2>1. PICK j \in ExpressionUntil("NEWLINE", i + 3) :
          /\ At(i, "let") \/ At(i, "mut")
          /\ At(i + 2, "=")
          /\ s = [head |-> out[i].text, last |-> j]
    BY <1>3 DEF Bindings
  <2>2. Parts(i + 3, j) \in Expressions /\ s.head \notin Headers
    BY <2>1, ExpressionTokens DEF Headers, At
  <2> QED BY <2>1, <2>2 DEF Whole, At
<1>4. ASSUME s \in Results(i)
      PROVE  Whole(i, e)
  <2>1. PICK j \in ExpressionUntil("NEWLINE", i + 1) :
          /\ At(i, "return") \/ At(i, "yield")
          /\ s = [head |-> out[i].text, last |-> j]
    BY <1>4 DEF Results
  <2>2. Parts(i + 1, j) \in Expressions /\ s.head \notin Headers
    BY <2>1, ExpressionTokens DEF Headers, At
  <2> QED BY <2>1, <2>2 DEF Whole, At
<1>5. ASSUME s \in Jumps(i)
      PROVE  Whole(i, e)
  <2>1. /\ At(i, "break") \/ At(i, "continue")
        /\ s = [head |-> out[i].text, last |-> i + 1]
    BY <1>5 DEF Jumps
  <2>2. s.head \notin Headers
    BY <2>1 DEF Headers, At
  <2> QED BY <2>1, <2>2 DEF Whole, At
<1>6. ASSUME s \in Assignments(i)
      PROVE  Whole(i, e)
  <2>1. PICK j \in ExpressionUntil("NEWLINE", i + 2) :
          /\ out[i].text \notin Keywords /\ At(i + 1, "<-")
          /\ s = [head |-> "assign", last |-> j]
    BY <1>6 DEF Assignments
  <2>2. Parts(i + 2, j) \in Expressions /\ s.head \notin Headers
    BY <2>1, ExpressionTokens DEF Headers
  <2> QED BY <2>1, <2>2 DEF Whole
<1> QED BY <1>1, <1>2, <1>3, <1>4, <1>5, <1>6 DEF Read

-----------------------------------------------------------------------------
(* What the steps of the reader do, and where they leave it.               *)

Reading == phase \in {"read", "finished"}

Blocks == {"do", "while", "if", "for", "else"}

Records ==
  [head : Keywords \cup {"assign"}, first : Nat, last : Nat, level : Nat]

Kept(s) == [head |-> s.head, first |-> pos, last |-> s.last, level |-> Len(open)]

(* A statement is read, which opens a block if it is a header.             *)
Took(s) ==
  /\ phase = "read" /\ phase' = "read"
  /\ ~At(pos, "DEDENT")
  /\ s \in Read(pos)
  /\ made' = Append(made, Kept(s))
  /\ pos' = s.last + 1
  /\ open' = IF s.head \in Headers THEN Append(open, s.head) ELSE open

(* A token from which a statement is read is there, and so is its last.    *)
LEMMA ReadBounds ==
  ASSUME Len(out) \in Nat, NEW i \in Nat \ {0}, NEW s \in Read(i)
  PROVE  /\ i \in 1 .. Len(out) /\ s.last \in i + 1 .. Len(out)
         /\ s.head \in Keywords \cup {"assign"}
         /\ s \in Conditions(i) \cup Loops(i) => s.head \in Headers
         /\ s \in Bindings(i) \cup Results(i) \cup Jumps(i) \cup Assignments(i)
              => s.head \notin Headers
<1>1. ASSUME s \in Conditions(i) \cup Loops(i)
      PROVE  /\ i \in 1 .. Len(out) /\ s.last \in i + 1 .. Len(out)
             /\ s.head \in Keywords /\ s.head \in Headers
  <2>1. PICK j \in ExpressionUntil(":", i + 1) \cup ExpressionUntil(":", i + 3) :
          /\ OpensBlock(j) /\ s.last = j + 2
          /\ i \in 1 .. Len(out) /\ s.head \in Headers
    BY <1>1 DEF Conditions, Loops, Headers, At
  <2>2. j \in i + 2 .. Len(out) /\ j + 2 \in 1 .. Len(out)
    BY <2>1, ExpressionTokens DEF OpensBlock, At
  <2> QED BY <2>1, <2>2 DEF Headers, Keywords
<1>2. ASSUME s \in Bindings(i) \cup Results(i) \cup Jumps(i) \cup Assignments(i)
      PROVE  /\ i \in 1 .. Len(out) /\ s.last \in i + 1 .. Len(out)
             /\ s.head \in Keywords \cup {"assign"} /\ s.head \notin Headers
  <2>1. /\ s.last \in Nat /\ s.last > i /\ s.last <= Len(out)
        /\ s.head \in (Keywords \cup {"assign"}) \ Headers
    <3>1. CASE s \in Jumps(i)
      BY <3>1 DEF Jumps, Headers, Keywords, At
    <3>2. CASE s \in Bindings(i)
      BY <3>2, ExpressionTokens DEF Bindings, Headers, Keywords, At
    <3>3. CASE s \in Results(i)
      BY <3>3, ExpressionTokens DEF Results, Headers, Keywords, At
    <3>4. CASE s \in Assignments(i)
      BY <3>4, ExpressionTokens DEF Assignments, Headers, Keywords
    <3> QED BY <1>2, <3>1, <3>2, <3>3, <3>4
  <2> QED BY <2>1
<1> QED BY <1>1, <1>2 DEF Read

LEMMA TookForm ==
  ASSUME Len(out) \in Nat, pos \in Nat \ {0}, Header \/ Simple
  PROVE  (\E s : Took(s)) /\ UNCHANGED vars
<1>1. CASE Header
  <2>1. PICK s \in Conditions(pos) \cup Loops(pos) :
          Made(s) /\ open' = Append(open, s.head) /\ pos' = s.last + 1
    BY <1>1 DEF Header
  <2>2. s \in Read(pos)
    BY <2>1 DEF Read
  <2>3. s.head \in Headers
    BY <2>1, <2>2, ReadBounds
  <2>4. Took(s)
    BY <1>1, <2>1, <2>2, <2>3 DEF Header, Took, Made, Kept
  <2> QED BY <1>1, <2>4 DEF Header
<1>2. CASE Simple
  <2>1. PICK s \in Bindings(pos) \cup Results(pos) \cup Jumps(pos)
                     \cup Assignments(pos) :
          Made(s) /\ pos' = s.last + 1
    BY <1>2 DEF Simple
  <2>2. s \in Read(pos)
    BY <2>1 DEF Read
  <2>3. s.head \notin Headers
    BY <2>1, <2>2, ReadBounds
  <2>4. Took(s)
    BY <1>2, <2>1, <2>2, <2>3 DEF Simple, Took, Made, Kept
  <2> QED BY <1>2, <2>4 DEF Simple
<1> QED BY <1>1, <1>2

(* Where the reader is.                                                    *)
Standing ==
  /\ phase \in {"lex", "read", "finished", "refused"}
  /\ pos \in 1 .. Len(out) + 1
  /\ open \in Seq(Blocks)
  /\ made \in Seq(Records)
  /\ \A k \in 1 .. Len(made) :
       made[k].first < made[k].last /\ made[k].last < pos
  /\ phase = "lex" => Len(made) = 0 /\ pos = 1
  /\ Reading => pc = "done" /\ pos >= 5
  /\ phase = "read" => Len(open) > 0
  /\ phase = "finished" => Len(open) = 0 /\ pos > Len(out)
  /\ phase = "refused" /\ pos >= 5
       => Statements(pos) = {} \/ At(pos, "DEDENT")

LEMMA Entries ==
  ASSUME made \in Seq(Records), NEW k \in 1 .. Len(made)
  PROVE  /\ made[k] \in Records /\ made[k].first \in Nat /\ made[k].last \in Nat
         /\ made[k].head \in Keywords \cup {"assign"}
<1>1. made[k] \in Records
  BY ElementOfSeq
<1> QED BY <1>1 DEF Records

LEMMA StandingTook ==
  ASSUME Len(out) \in Nat, Standing, NEW s, Took(s), UNCHANGED vars
  PROVE  Standing'
<1>1. pos \in Nat \ {0} /\ s \in Read(pos)
  BY DEF Standing, Took
<1>2. /\ pos \in 1 .. Len(out) /\ s.last \in pos + 1 .. Len(out)
      /\ s.head \in Keywords \cup {"assign"}
  BY <1>1, ReadBounds
<1>3. open \in Seq(Blocks) /\ Len(open) \in Nat
  BY LenProperties DEF Standing
<1> DEFINE r == Kept(s)
<1>4. /\ r \in Records /\ r.first = pos /\ r.last = s.last
  BY <1>1, <1>2, <1>3 DEF Kept, Records
<1>5. made' = Append(made, r)
  BY DEF Took
<1> HIDE DEF r
<1>6. made' \in Seq(Records) /\ Len(made) \in Nat /\ Grown(made, r, made')
  BY <1>4, <1>5, AppendGrows DEF Standing
<1>7. open' \in Seq(Blocks) /\ Len(open') > 0
  <2>1. CASE s.head \in Headers
    <3>1. s.head \in Blocks
      BY <2>1 DEF Headers, Blocks
    <3>2. open' = Append(open, s.head)
      BY <2>1 DEF Took
    <3> QED BY <1>3, <3>1, <3>2, AppendProperties
  <2>2. CASE s.head \notin Headers
    BY <1>3, <2>2 DEF Took, Standing
  <2> QED BY <2>1, <2>2
<1>8. out' = out /\ pc' = pc
  BY DEF vars
<1>9. phase' = "read" /\ phase = "read" /\ pos' = s.last + 1
  BY DEF Took
<1>10. ASSUME NEW k \in 1 .. Len(made')
       PROVE  made'[k].first < made'[k].last /\ made'[k].last < pos'
  <2>1. CASE k \in 1 .. Len(made)
    <3>1. made'[k] = made[k] /\ made[k].first < made[k].last /\ made[k].last < pos
      BY <1>6, <2>1 DEF Grown, Standing
    <3>2. made[k].last \in Nat
      BY <2>1, Entries DEF Standing
    <3> QED BY <1>2, <1>9, <3>1, <3>2
  <2>2. CASE k = Len(made) + 1
    BY <1>2, <1>4, <1>6, <1>9, <2>2 DEF Grown
  <2> QED BY <1>6, <2>1, <2>2 DEF Grown
<1>11. pos' \in 1 .. Len(out') + 1 /\ pos' >= 5 /\ pc' = "done"
  BY <1>2, <1>8, <1>9 DEF Standing, Reading
<1> QED BY <1>6, <1>7, <1>9, <1>10, <1>11 DEF Standing, Reading

(* What starts at a token depends on the tokens alone.                     *)
LEMMA StatementsStand ==
  ASSUME UNCHANGED <<out, pos>>
  PROVE  /\ Statements(pos)' = Statements(pos)
         /\ At(pos, "DEDENT")' <=> At(pos, "DEDENT")
<1>1. \A text, i : At(i, text)' <=> At(i, text)
  BY DEF At
<1>2. \A i, j : Parts(i, j)' = Parts(i, j)
  BY DEF Parts
<1>3. \A text, i : ExpressionUntil(text, i)' = ExpressionUntil(text, i)
  BY <1>1, <1>2 DEF ExpressionUntil
<1>4. \A i : OpensBlock(i)' <=> OpensBlock(i)
  BY <1>1 DEF OpensBlock
<1>5. /\ Conditions(pos)' = Conditions(pos)
      /\ Loops(pos)' = Loops(pos)
  BY <1>1, <1>3, <1>4 DEF Conditions, Loops
<1>6. /\ Bindings(pos)' = Bindings(pos)
      /\ Results(pos)' = Results(pos)
  BY <1>1, <1>3 DEF Bindings, Results
<1>7. /\ Jumps(pos)' = Jumps(pos)
      /\ Assignments(pos)' = Assignments(pos)
  BY <1>1, <1>3 DEF Jumps, Assignments
<1>8. At(pos, "DEDENT")' <=> At(pos, "DEDENT")
  BY DEF At
<1> QED BY <1>5, <1>6, <1>7, <1>8 DEF Statements

LEMMA StandingStep ==
  ASSUME TypeOK, TypeOK', Standing, ParserNext
  PROVE  Standing'
<1>1. Len(out) \in Nat /\ Len(out') \in Nat
  <2>1. out \in Seq(Toks) /\ out' \in Seq(Toks)
    BY DEF TypeOK
  <2> QED BY <2>1, LenProperties
<1>2. pos \in Nat \ {0}
  <2>1. pos \in 1 .. Len(out) + 1
    BY DEF Standing
  <2> QED BY <1>1, <2>1
<1>3. CASE Lex
  <2>1. phase' = phase /\ pos' = pos /\ open' = open /\ made' = made
        /\ phase = "lex"
    BY <1>3 DEF Lex, parserVars
  <2>2. pos' \in 1 .. Len(out') + 1
    BY <1>1, <2>1 DEF Standing
  <2> QED BY <1>1, <2>1, <2>2 DEF Standing, Reading
<1>4. CASE Begin
  <2>1. made' = made /\ out' = out /\ pc' = pc /\ phase = "lex"
    BY <1>4 DEF Begin, vars
  <2>2. CASE pc = "done" /\ At(1, "do") /\ OpensBlock(2)
    <3>1. phase' = "read" /\ pos' = 5 /\ open' = <<"do">>
      BY <1>4, <2>2 DEF Begin
    <3>2. 4 \in 1 .. Len(out)
      BY <2>2 DEF OpensBlock, At
    <3>3. open' \in Seq(Blocks) /\ Len(open') > 0
      <4>1. "do" \in Blocks
        BY DEF Blocks
      <4> QED BY <3>1, <4>1
    <3> QED BY <1>1, <2>1, <2>2, <3>1, <3>2, <3>3 DEF Standing, Reading
  <2>3. CASE ~(pc = "done" /\ At(1, "do") /\ OpensBlock(2))
    <3>1. phase' = "refused" /\ pos' = pos /\ open' = open
      BY <1>4, <2>3 DEF Begin
    <3> QED BY <2>1, <3>1 DEF Standing, Reading
  <2> QED BY <2>2, <2>3
<1>5. CASE Header \/ Simple
  BY <1>1, <1>2, <1>5, TookForm, StandingTook
<1>6. CASE EndBlock
  <2>1. /\ made' = made /\ out' = out /\ pc' = pc /\ phase = "read"
        /\ pos \in 1 .. Len(out)
    BY <1>6 DEF EndBlock, vars, At
  <2>2. Pop(open) \in Seq(Blocks) /\ Shrunk(open, Pop(open)) /\ Len(open) \in Nat
    BY <2>1, PopShrinks, LenProperties DEF Standing
  <2>3. \A k \in 1 .. Len(made) : made[k].last \in Nat
    BY Entries DEF Standing
  <2>4. ASSUME pos' > pos, pos' \in Nat
        PROVE  \A k \in 1 .. Len(made') :
                 made'[k].first < made'[k].last /\ made'[k].last < pos'
    BY <2>1, <2>3, <2>4, <1>2 DEF Standing
  <2>5. CASE HasElse
    <3>1. /\ OpensBlock(pos + 2) /\ open' = Append(Pop(open), "else")
          /\ pos' = pos + 5 /\ phase' = phase
      BY <1>6, <2>5 DEF EndBlock
    <3>2. pos + 4 \in 1 .. Len(out)
      BY <1>2, <3>1 DEF OpensBlock, At
    <3>3. open' \in Seq(Blocks) /\ Len(open') > 0
      <4>1. "else" \in Blocks
        BY DEF Blocks
      <4>2. Append(Pop(open), "else") \in Seq(Blocks)
            /\ Len(Append(Pop(open), "else")) = Len(Pop(open)) + 1
            /\ Len(Pop(open)) \in Nat
        BY <2>2, <4>1, AppendProperties, LenProperties
      <4> QED BY <3>1, <4>2
    <3> QED BY <1>1, <1>2, <2>1, <2>4, <3>1, <3>2, <3>3 DEF Standing, Reading
  <2>6. CASE ~HasElse
    <3>1. open' = Pop(open) /\ pos' = pos + 1
      BY <1>6, <2>6 DEF EndBlock
    <3>2. Len(open) > 0 /\ Len(open') = Len(open) - 1
      BY <2>1, <2>2, <3>1 DEF Standing, Shrunk
    <3>3. CASE Len(open) > 1
      <4>1. phase' = phase
        BY <1>6, <2>6, <3>3 DEF EndBlock
      <4>2. Len(open') > 0
        BY <2>2, <3>2, <3>3
      <4> QED BY <1>1, <1>2, <2>1, <2>2, <2>4, <3>1, <4>1, <4>2
              DEF Standing, Reading
    <3>4. CASE Len(open) = 1
      <4>1. phase' = "finished" /\ pos = Len(out)
        <5>1. ~(Len(open) > 1)
          BY <3>4
        <5> QED BY <1>6, <2>6, <5>1, Zenon DEF EndBlock
      <4>2. Len(open') = 0
        BY <3>2, <3>4
      <4>3. pos' > Len(out')
        BY <1>1, <1>2, <2>1, <3>1, <4>1
      <4>4. pos' > pos /\ pos' \in 1 .. Len(out') + 1 /\ pos' >= 5 /\ pc' = "done"
        BY <1>1, <1>2, <2>1, <3>1, <4>3 DEF Standing, Reading
      <4>5. phase' = "finished"
        BY <4>1
      <4>6. made' \in Seq(Records)
        BY <2>1 DEF Standing
      <4>7. \A k \in 1 .. Len(made') :
              made'[k].first < made'[k].last /\ made'[k].last < pos'
        BY <1>1, <1>2, <2>4, <3>1, <4>4
      <4> QED BY <2>2, <3>1, <4>2, <4>3, <4>4, <4>5, <4>6, <4>7 DEF Standing, Reading
    <3> QED BY <2>2, <3>2, <3>3, <3>4
  <2> QED BY <2>5, <2>6
<1>7. CASE Refuse
  <2>1. /\ made' = made /\ out' = out /\ pc' = pc /\ pos' = pos /\ open' = open
        /\ phase = "read" /\ phase' = "refused"
    BY <1>7 DEF Refuse, vars
  <2>2. Statements(pos) = {} \/ At(pos, "DEDENT")
    BY <1>7 DEF Refuse
  <2>3. (Statements(pos) = {} \/ At(pos, "DEDENT"))'
    BY <2>1, <2>2, StatementsStand
  <2> QED BY <2>1, <2>3 DEF Standing, Reading
<1> QED BY <1>3, <1>4, <1>5, <1>6, <1>7 DEF ParserNext

LEMMA ReaderStands == ParserSpec => []Standing
<1>1. ParserInit => Standing
  <2> SUFFICES ASSUME ParserInit PROVE Standing
    OBVIOUS
  <2>1. /\ << >> \in Seq(Blocks) /\ << >> \in Seq(Records) /\ Len(<< >>) = 0
    BY EmptySeq
  <2>2. /\ phase = "lex" /\ pos = 1 /\ open = << >> /\ made = << >> /\ out = << >>
    BY DEF ParserInit, Init
  <2>3. open \in Seq(Blocks) /\ made \in Seq(Records) /\ Len(made) = 0 /\ Len(out) = 0
    BY <2>1, <2>2
  <2> QED BY <2>2, <2>3 DEF Standing, Reading
<1>2. StreamInv => TypeOK
  BY DEF StreamInv, PassInv, ShapeInv
<1>3. TypeOK /\ TypeOK' /\ Standing /\ [ParserNext]_<<vars, parserVars>> => Standing'
  <2>1. Standing /\ UNCHANGED <<vars, parserVars>> => Standing'
    <3> SUFFICES ASSUME Standing, UNCHANGED <<vars, parserVars>> PROVE Standing'
      OBVIOUS
    <3>1. /\ phase' = phase /\ pos' = pos /\ open' = open /\ made' = made
          /\ out' = out /\ pc' = pc
      BY DEF vars, parserVars
    <3>2. phase = "refused" /\ pos >= 5
            => (Statements(pos) = {} \/ At(pos, "DEDENT"))'
      BY <3>1, StatementsStand DEF Standing
    <3> QED BY <3>1, <3>2 DEF Standing, Reading
  <2> QED BY <2>1, StandingStep
<1> QED BY <1>1, <1>2, <1>3, ParserStream, PTL DEF ParserSpec

(* The reader's place is within the tokens or just after them, its blocks  *)
(* are of the five kinds, and a statement ends before the next token.      *)
THEOREM ReaderTypeOK == ParserSpec => []ParserTypeOK
<1>1. StreamInv /\ Standing => ParserTypeOK
  <2> SUFFICES ASSUME StreamInv, Standing PROVE ParserTypeOK
    OBVIOUS
  <2>1. TypeOK
    BY DEF StreamInv, PassInv, ShapeInv
  <2>2. \A k \in 1 .. Len(made) : made[k].head \in Keywords \cup {"assign"}
    BY Entries DEF Standing
  <2> QED BY <2>1, <2>2 DEF Standing, ParserTypeOK, Blocks
<1> QED BY <1>1, ParserStream, ReaderStands, PTL

-----------------------------------------------------------------------------
(* What a text is refused for.                                             *)

(* A value is never empty.                                                 *)
LEMMA ValueNotEmpty ==
  ASSUME NEW i \in Nat, NEW j \in Nat, Parts(i, j) \in Expressions
  PROVE  i < j
<1> SUFFICES ASSUME j <= i PROVE FALSE
  OBVIOUS
<1>1. 1 .. j - i = {}
  OBVIOUS
<1>2. Parts(i, j) = << >>
  <2>1. Parts(i, j) \in Seq(STRING)
    BY StatementAssumption
  <2>2. DOMAIN Parts(i, j) = {}
    BY <1>1 DEF Parts
  <2>3. Len(Parts(i, j)) = 0
    BY <2>1, <2>2, LenProperties
  <2> QED BY <2>1, <2>3, EmptySeq
<1> QED BY <1>2, StatementAssumption

(* Words from a token to a delimiter are a value, if they read as one and  *)
(* the delimiter is not among them.                                        *)
LEMMA ValueIsFound ==
  ASSUME StreamInv, PlainWords, NEW delimiter, NEW m \in Nat \ {0}, NEW j \in Nat,
         j <= Len(out), At(j, delimiter), Parts(m, j) \in Expressions,
         \A k \in m .. j - 1 : ~out[k].layout /\ out[k].text # delimiter
  PROVE  j \in ExpressionUntil(delimiter, m)
<1>1. m < j
  BY ValueNotEmpty
<1>2. j \in m + 1 .. Len(out)
  BY <1>1, StreamTypes
<1>3. ASSUME NEW k \in m .. j - 1
      PROVE  out[k].text \notin {delimiter, "INDENT", "DEDENT"}
  <2>1. k \in 1 .. Len(out)
    BY <1>2, StreamTypes
  <2>2. out[k].text \in Words
    BY <2>1, <1>3 DEF StreamInv, LevelsInv
  <2> QED BY <1>3, <2>2 DEF PlainWords, Marks
<1> QED BY <1>2, <1>3 DEF ExpressionUntil

LEMMA LineEndIsFirst ==
  ASSUME StreamInv, NEW i \in 1 .. Len(out), Ends(i) # {}
  PROVE  /\ LineEnd(i) \in i .. Len(out) /\ LayoutAt(out, LineEnd(i), "NEWLINE")
         /\ \A k \in i .. LineEnd(i) - 1 : ~LayoutAt(out, k, "NEWLINE")
<1>1. Ends(i) \in SUBSET Nat /\ Len(out) \in Nat
  BY StreamTypes DEF Ends
<1>2. PICK e \in Ends(i) : \A k \in Ends(i) : e <= k
  BY <1>1, LeastElement
<1>3. LineEnd(i) \in Ends(i) /\ \A k \in Ends(i) : LineEnd(i) <= k
  BY <1>2 DEF LineEnd
<1>4. LineEnd(i) \in i .. Len(out) /\ LayoutAt(out, LineEnd(i), "NEWLINE")
  BY <1>3 DEF Ends, IsLayout, LayoutAt
<1> HIDE DEF LineEnd
<1>5. ASSUME NEW k \in i .. LineEnd(i) - 1, LayoutAt(out, k, "NEWLINE")
      PROVE  FALSE
  <2>1. k \in Ends(i)
    BY <1>1, <1>4, <1>5 DEF Ends, IsLayout, LayoutAt
  <2>2. LineEnd(i) <= k /\ LineEnd(i) \in Nat
    BY <1>1, <1>3, <2>1
  <2> QED BY <2>2
<1> QED BY <1>4, <1>5

LEMMA WholeIsRead ==
  ASSUME StreamInv, PlainWords, NEW i \in 1 .. Len(out), WholeStatement(i),
         ~EndsEarly(i)
  PROVE  Read(i) # {}
<1> DEFINE e == LineEnd(i)
<1>1. ~out[i].layout /\ Ends(i) # {} /\ Whole(i, e)
  BY DEF WholeStatement, StartsLine
<1>2. /\ e \in i .. Len(out) /\ LayoutAt(out, e, "NEWLINE")
      /\ \A k \in i .. e - 1 : ~LayoutAt(out, k, "NEWLINE")
  BY <1>1, LineEndIsFirst
<1>3. ASSUME out[i].text \in Headers, NEW k \in i .. e - 2
      PROVE  ~At(k, ":")
  BY <1>3 DEF EndsEarly, Headers
<1> HIDE DEF e
<1>4. i \in Nat \ {0} /\ e \in Nat /\ Len(out) \in Nat /\ e <= Len(out) /\ i < e
  BY <1>1, <1>2, StreamTypes DEF LayoutAt
<1>5. \A k \in i .. e - 1 : ~out[k].layout
  BY <1>1, <1>2, <1>4, LineHoldsWords
<1>6. At(e, "NEWLINE")
  BY <1>2, <1>4 DEF At, LayoutAt
<1>7. ASSUME NEW k \in i .. e - 1
      PROVE  out[k].text # "NEWLINE" /\ k \in 1 .. Len(out)
  <2>1. k \in 1 .. Len(out) /\ ~out[k].layout
    BY <1>4, <1>5
  <2>2. out[k].text \in Words
    BY <2>1 DEF StreamInv, LevelsInv
  <2> QED BY <2>1, <2>2 DEF PlainWords, Marks
<1>8. ASSUME NEW m \in Nat, m > i, Parts(m, e) \in Expressions
      PROVE  e \in ExpressionUntil("NEWLINE", m)
  <2>1. \A k \in m .. e - 1 : ~out[k].layout /\ out[k].text # "NEWLINE"
    BY <1>4, <1>5, <1>7, <1>8
  <2> QED BY <1>4, <1>6, <1>8, <2>1, ValueIsFound
<1>9. ASSUME NEW m \in Nat, m > i, Parts(m, e - 1) \in Expressions, Opener(i, e),
             out[i].text \in Headers
      PROVE  e - 1 \in ExpressionUntil(":", m) /\ OpensBlock(e - 1)
  <2> DEFINE j == e - 1
  <2>1. /\ j \in Nat /\ j <= Len(out) /\ e + 1 \in 1 .. Len(out)
        /\ j + 1 = e /\ j + 2 = e + 1
    BY <1>4, <1>9 DEF Opener
  <2>2. At(j, ":") /\ At(e + 1, "INDENT") /\ Parts(m, j) \in Expressions
    BY <1>9, <2>1 DEF Opener, IsLayout, At
  <2>3. ASSUME NEW k \in m .. j - 1
        PROVE  ~out[k].layout /\ out[k].text # ":"
    <3>1. k \in i .. e - 2 /\ k \in i .. e - 1
      BY <1>4, <1>9
    <3> QED BY <1>3, <1>5, <1>7, <1>9, <3>1 DEF At
  <2>4. OpensBlock(j)
    BY <1>6, <2>1, <2>2 DEF OpensBlock
  <2> HIDE DEF j
  <2>5. j \in ExpressionUntil(":", m)
    BY <1>4, <1>9, <2>1, <2>2, <2>3, ValueIsFound
  <2> QED BY <2>4, <2>5 DEF j
<1>10. CASE /\ out[i].text \in {"while", "if"}
            /\ Opener(i, e) /\ Parts(i + 1, e - 1) \in Expressions
  <2>1. e - 1 \in ExpressionUntil(":", i + 1) /\ OpensBlock(e - 1)
    BY <1>4, <1>9, <1>10 DEF Headers
  <2>2. At(i, "while") \/ At(i, "if")
    BY <1>10 DEF At
  <2>3. [head |-> out[i].text, last |-> e - 1 + 2] \in Conditions(i)
    BY <2>1, <2>2 DEF Conditions
  <2> QED BY <2>3 DEF Read
<1>11. CASE /\ out[i].text = "for" /\ At(i + 2, "in")
            /\ Opener(i, e) /\ Parts(i + 3, e - 1) \in Expressions
  <2>1. e - 1 \in ExpressionUntil(":", i + 3) /\ OpensBlock(e - 1)
    BY <1>4, <1>9, <1>11 DEF Headers
  <2>2. At(i, "for") /\ At(i + 2, "in")
    BY <1>11 DEF At
  <2>3. [head |-> "for", last |-> e - 1 + 2] \in Loops(i)
    BY <2>1, <2>2 DEF Loops
  <2> QED BY <2>3 DEF Read
<1>12. CASE /\ out[i].text \in {"let", "mut"} /\ At(i + 2, "=")
            /\ Parts(i + 3, e) \in Expressions
  <2>1. e \in ExpressionUntil("NEWLINE", i + 3)
    BY <1>4, <1>8, <1>12
  <2>2. (At(i, "let") \/ At(i, "mut")) /\ At(i + 2, "=")
    BY <1>12 DEF At
  <2>3. [head |-> out[i].text, last |-> e] \in Bindings(i)
    BY <2>1, <2>2 DEF Bindings
  <2> QED BY <2>3 DEF Read
<1>13. CASE /\ out[i].text \in {"return", "yield"}
            /\ Parts(i + 1, e) \in Expressions
  <2>1. e \in ExpressionUntil("NEWLINE", i + 1)
    BY <1>4, <1>8, <1>13
  <2>2. At(i, "return") \/ At(i, "yield")
    BY <1>13 DEF At
  <2>3. [head |-> out[i].text, last |-> e] \in Results(i)
    BY <2>1, <2>2 DEF Results
  <2> QED BY <2>3 DEF Read
<1>14. CASE out[i].text \in {"break", "continue"} /\ e = i + 1
  <2>1. (At(i, "break") \/ At(i, "continue")) /\ At(i + 1, "NEWLINE")
    BY <1>6, <1>14 DEF At
  <2>2. [head |-> out[i].text, last |-> i + 1] \in Jumps(i)
    BY <2>1 DEF Jumps
  <2> QED BY <2>2 DEF Read
<1>15. CASE /\ out[i].text \notin Keywords /\ At(i + 1, "<-")
            /\ Parts(i + 2, e) \in Expressions
  <2>1. e \in ExpressionUntil("NEWLINE", i + 2)
    BY <1>4, <1>8, <1>15
  <2>2. [head |-> "assign", last |-> e] \in Assignments(i)
    BY <1>15, <2>1 DEF Assignments
  <2> QED BY <2>2 DEF Read
<1> QED BY <1>1, <1>10, <1>11, <1>12, <1>13, <1>14, <1>15 DEF Whole

(* No statement is lost: a text is never refused at a line in the form of  *)
(* a statement, unless its condition has a colon within it.                *)
THEOREM ReaderWholeLines ==
  ASSUME PlainWords
  PROVE  ParserSpec => []WholeLinesAreRead
<1>1. StreamInv /\ Standing => WholeLinesAreRead
  <2> SUFFICES ASSUME StreamInv, Standing, phase = "refused", pos \in 5 .. Len(out),
                      WholeStatement(pos), ~EndsEarly(pos)
               PROVE  FALSE
    BY DEF WholeLinesAreRead
  <2>1. pos \in 1 .. Len(out) /\ pos >= 5
    BY StreamTypes
  <2>2. Statements(pos) # {}
    BY <2>1, WholeIsRead DEF Statements, Read
  <2>3. At(pos, "DEDENT")
    BY <2>1, <2>2 DEF Standing
  <2>4. "DEDENT" \in Marks
    BY DEF Marks
  <2>5. out[pos].layout
    BY <2>3, <2>4, MarkIsLayout DEF LayoutAt
  <2> QED BY <2>5 DEF WholeStatement, StartsLine
<1> QED BY <1>1, ParserStream, ReaderStands, PTL

-----------------------------------------------------------------------------
(* What has been read.  A statement runs on when a layout token is within  *)
(* it: in a condition, or in the place of a name.                          *)

Runs(r) ==
  \E i \in r.first .. (IF r.head \in Headers THEN r.last - 1 ELSE r.last) - 1 :
    /\ out[i].layout
    /\ r.head \in Headers \/ i <= r.first + 1

LEMMA RunsAre == \A k : RunsOn(k) <=> Runs(made[k])
BY DEF RunsOn, EndOf, Runs

(* A statement and its record.                                             *)
ReadAs(r) ==
  /\ r.first \in Nat \ {0} /\ r.first >= 5
  /\ out[r.first - 1].layout
  /\ \E s \in Read(r.first) : r.head = s.head /\ r.last = s.last

LEMMA StatementIsWhole ==
  ASSUME StreamInv, PlainWords, NEW r, ReadAs(r), ~Runs(r)
  PROVE  WholeStatement(r.first)
<1> DEFINE i == r.first
           e == IF r.head \in Headers THEN r.last - 1 ELSE r.last
<1>1. PICK s \in Read(i) : r.head = s.head /\ r.last = s.last
  BY DEF ReadAs
<1>2. i \in Nat \ {0} /\ i >= 5 /\ out[i - 1].layout
  BY DEF ReadAs
<1>3. Formed(i, s)
  BY <1>1, <1>2, StatementForm
<1>4. Whole(i, e)
  BY <1>1, <1>2, StatementIsLine
<1>5. \A k \in i .. e - 1 : out[k].layout => ~(r.head \in Headers \/ k <= i + 1)
  BY DEF Runs
<1>6. /\ e \in Nat /\ i < e /\ e <= Len(out) /\ LayoutAt(out, e, "NEWLINE")
      /\ r.head \notin Headers => \A k \in i + 2 .. e - 1 : ~out[k].layout
  BY <1>1, <1>2, <1>3, StreamTypes DEF Formed, HeaderForm, LineForm
<1> HIDE DEF i, e
<1>7. \A k \in i .. e - 1 : ~out[k].layout
  <2>1. \A k \in i .. e - 1 : k <= i + 1 \/ k \in i + 2 .. e - 1
    BY <1>2, <1>6
  <2> QED BY <1>5, <1>6, <2>1
<1>8. StartsLine(i)
  BY <1>2, <1>6, <1>7 DEF StartsLine
<1>9. e \in Ends(i) /\ \A k \in Ends(i) : e <= k
  <2>1. e \in Ends(i)
    BY <1>2, <1>6, StreamTypes DEF Ends, IsLayout, LayoutAt
  <2>2. ASSUME NEW k \in Ends(i)
        PROVE  e <= k
    <3>1. k \in Nat /\ k >= i /\ out[k].layout
      BY <1>2, StreamTypes DEF Ends, IsLayout
    <3> QED BY <1>6, <1>7, <3>1
  <2> QED BY <2>1, <2>2
<1>10. LineEnd(i) = e
  <2>1. Ends(i) \in SUBSET Nat
    BY <1>2, StreamTypes DEF Ends
  <2>2. LineEnd(i) \in Ends(i) /\ \A k \in Ends(i) : LineEnd(i) <= k
    BY <1>9 DEF LineEnd
  <2>3. LineEnd(i) <= e /\ e <= LineEnd(i) /\ LineEnd(i) \in Nat
    BY <1>9, <2>1, <2>2
  <2> HIDE DEF LineEnd
  <2> QED BY <1>6, <2>3
<1>11. WholeStatement(i)
  BY <1>4, <1>8, <1>9, <1>10 DEF WholeStatement
<1> QED BY <1>11 DEF i

(* The token before the reader is the end of a line, the start of a block  *)
(* or the last of the DEDENTs after one of those.                          *)
Anchor(p) ==
  \E b \in 1 .. p - 1 :
    /\ out[b].layout /\ ~LayoutAt(out, b, "DEDENT")
    /\ \A j \in b + 1 .. p - 1 : LayoutAt(out, j, "DEDENT")

Straight == \A k \in 1 .. Len(made) : ~NamesAnIndent(k)

Accounted(i) ==
  \/ \E k \in 1 .. Len(made) : made[k].first = i
  \/ out[i].text = "else" /\ IsLayout(i - 1, "DEDENT")
  \/ \E k \in 1 .. Len(made) :
       Runs(made[k]) /\ i \in made[k].first + 1 .. made[k].last

(* Every line before the reader is accounted for, what was read was read   *)
(* from a statement, and the blocks are those of the layout until an       *)
(* INDENT is taken for a name; from then on the layout has more of them.   *)
ReaderInv ==
  /\ Reading =>
       /\ Anchor(pos)
       /\ Straight => out[pos - 1].level = Len(open)
       /\ ~Straight => out[pos - 1].level > Len(open)
       /\ \A i \in 5 .. pos - 1 : StartsLine(i) => Accounted(i)
  /\ \A k \in 1 .. Len(made) : ReadAs(made[k])
  /\ Straight => \A k \in 1 .. Len(made) : made[k].level = out[made[k].first].level

LEMMA AnchorIsLayout ==
  ASSUME NEW p \in Nat, Anchor(p)
  PROVE  p > 1 /\ out[p - 1].layout
<1>1. PICK b \in 1 .. p - 1 :
        /\ out[b].layout
        /\ \A j \in b + 1 .. p - 1 : LayoutAt(out, j, "DEDENT")
  BY DEF Anchor
<1>2. p - 1 = b \/ p - 1 \in b + 1 .. p - 1
  BY <1>1
<1> QED BY <1>1, <1>2 DEF LayoutAt

(* What a step of the reader adds to what was read.                        *)
LEMMA TookGrows ==
  ASSUME Len(out) \in Nat, Standing, NEW s, Took(s)
  PROVE  /\ Len(made) \in Nat /\ Len(made') = Len(made) + 1
         /\ \A k \in 1 .. Len(made) : made'[k] = made[k]
         /\ made'[Len(made) + 1] = Kept(s)
         /\ pos \in 1 .. Len(out) /\ s.last \in pos + 1 .. Len(out)
         /\ s \in Read(pos)
         /\ Len(open) \in Nat
         /\ Len(open') = IF s.head \in Headers THEN Len(open) + 1 ELSE Len(open)
<1>1. pos \in Nat \ {0} /\ s \in Read(pos)
  BY DEF Standing, Took
<1>2. /\ pos \in 1 .. Len(out) /\ s.last \in pos + 1 .. Len(out)
      /\ s.head \in Keywords \cup {"assign"}
  BY <1>1, ReadBounds
<1>3. open \in Seq(Blocks) /\ Len(open) \in Nat
  BY LenProperties DEF Standing
<1> DEFINE r == Kept(s)
<1>4. r \in Records
  BY <1>1, <1>2, <1>3 DEF Kept, Records
<1>5. made' = Append(made, r)
  BY DEF Took
<1> HIDE DEF r
<1>6. Len(made) \in Nat /\ Grown(made, r, made')
  BY <1>4, <1>5, AppendGrows DEF Standing
<1>7. Len(open') = IF s.head \in Headers THEN Len(open) + 1 ELSE Len(open)
  <2>1. CASE s.head \in Headers
    <3>1. s.head \in Blocks /\ open' = Append(open, s.head)
      BY <2>1 DEF Headers, Blocks, Took
    <3> QED BY <1>3, <2>1, <3>1, AppendProperties
  <2>2. CASE s.head \notin Headers
    BY <2>2 DEF Took
  <2> QED BY <2>1, <2>2
<1> QED BY <1>1, <1>2, <1>3, <1>6, <1>7 DEF Grown, r

(* What these say depends on the tokens alone.                             *)
LEMMA TokensStand ==
  ASSUME out' = out
  PROVE  /\ \A r : ReadAs(r)' <=> ReadAs(r)
         /\ \A r : Runs(r)' <=> Runs(r)
         /\ \A i : StartsLine(i)' <=> StartsLine(i)
         /\ \A p : Anchor(p)' <=> Anchor(p)
<1>1. \A text, i : At(i, text)' <=> At(i, text)
  BY DEF At
<1>2. \A i, j : Parts(i, j)' = Parts(i, j)
  BY DEF Parts
<1>3. \A text, i : ExpressionUntil(text, i)' = ExpressionUntil(text, i)
  BY <1>1, <1>2 DEF ExpressionUntil
<1>4. \A i : OpensBlock(i)' <=> OpensBlock(i)
  BY <1>1 DEF OpensBlock
<1>5. \A i : Conditions(i)' = Conditions(i) /\ Loops(i)' = Loops(i)
  BY <1>1, <1>3, <1>4 DEF Conditions, Loops
<1>6. \A i : Bindings(i)' = Bindings(i) /\ Results(i)' = Results(i)
  BY <1>1, <1>3 DEF Bindings, Results
<1>7. \A i : Jumps(i)' = Jumps(i) /\ Assignments(i)' = Assignments(i)
  BY <1>1, <1>3 DEF Jumps, Assignments
<1>8. \A i : Read(i)' = Read(i)
  BY <1>5, <1>6, <1>7 DEF Read
<1>9. \A r : ReadAs(r)' <=> ReadAs(r)
  BY <1>8 DEF ReadAs
<1>10. \A r : Runs(r)' <=> Runs(r)
  BY DEF Runs
<1>11. \A i : StartsLine(i)' <=> StartsLine(i)
  BY DEF StartsLine
<1>12. \A p : Anchor(p)' <=> Anchor(p)
  BY DEF Anchor, LayoutAt
<1> QED BY <1>9, <1>10, <1>11, <1>12

(* The level at the end of a statement.                                    *)
LEMMA StatementLevel ==
  ASSUME StreamInv, NEW i \in Nat, i > 1, NEW s, Formed(i, s),
         ~LayoutAt(out, i, "DEDENT")
  PROVE  /\ s.head \in Headers =>
              /\ ~LayoutAt(out, i, "INDENT")
              /\ out[s.last].level = out[i - 1].level + 1
         /\ s.head \notin Headers /\ ~LayoutAt(out, i, "INDENT") =>
              out[s.last].level = out[i - 1].level
         /\ s.head \notin Headers /\ LayoutAt(out, i, "INDENT") =>
              out[s.last].level = out[i - 1].level + 1
         /\ ~LayoutAt(out, i, "INDENT") => out[i].level = out[i - 1].level
<1> DEFINE e == s.last
<1>1. /\ e \in Nat /\ i < e /\ e <= Len(out) /\ i <= Len(out) /\ Len(out) \in Nat
      /\ \A k \in i + 1 .. e - 1 : ~Turns(out, k)
  <2>1. Len(out) \in Nat /\ i \in 1 .. Len(out) /\ e \in 1 .. Len(out) /\ i < e
    BY StreamTypes DEF Formed, HeaderForm, LineForm
  <2>2. \A k \in i + 1 .. e - 1 : ~Turns(out, k)
    BY DEF Formed
  <2> QED BY <2>1, <2>2
<1>2. /\ s.head \in Headers => ~out[i].layout /\ LayoutAt(out, e, "INDENT")
      /\ s.head \notin Headers => LayoutAt(out, e, "NEWLINE")
  BY DEF Formed, HeaderForm, LineForm
<1> HIDE DEF e
<1>3. i \in 1 .. Len(out) /\ e \in 1 .. Len(out) /\ e - 1 \in 1 .. Len(out)
  BY <1>1
<1>4. out[e - 1].level = out[i].level
  <2>1. i \in Nat \ {0} /\ e - 1 \in Nat /\ i <= e - 1 /\ e - 1 <= Len(out)
    BY <1>1
  <2> QED BY <1>1, <2>1, LevelStands
<1>5. /\ LevelAt(out, i) /\ LevelAt(out, e)
      /\ Before(out, i) = out[i - 1].level /\ Before(out, e) = out[e - 1].level
  BY <1>1, <1>3 DEF StreamInv, LevelsInv, Before
<1>6. ~LayoutAt(out, i, "INDENT") => out[i].level = out[i - 1].level
  BY <1>5 DEF LevelAt, Turns
<1>7. LayoutAt(out, i, "INDENT") => out[i].level = out[i - 1].level + 1
  BY <1>5 DEF LevelAt
<1>8. s.head \in Headers => out[e].level = out[i].level + 1
  BY <1>2, <1>4, <1>5 DEF LevelAt
<1>9. s.head \notin Headers => out[e].level = out[i].level
  BY <1>2, <1>4, <1>5 DEF LevelAt, Turns, LayoutAt
<1>10. s.head \in Headers => ~LayoutAt(out, i, "INDENT")
  BY <1>2 DEF LayoutAt
<1> QED BY <1>6, <1>7, <1>8, <1>9, <1>10 DEF e

(* A line that starts within a statement is one it runs on to.             *)
LEMMA LineWithin ==
  ASSUME StreamInv, NEW r, NEW i \in Nat, Formed(i, r), r.first = i,
         NEW k \in i + 1 .. r.last, StartsLine(k)
  PROVE  Runs(r)
<1> DEFINE e == r.last
<1>1. e \in Nat /\ i < e /\ i >= 1 /\ k > 1
  BY StreamTypes DEF Formed, HeaderForm, LineForm
<1>2. ~out[k].layout /\ out[k - 1].layout
  BY <1>1 DEF StartsLine
<1>3. CASE r.head \in Headers
  <2>1. out[e].layout /\ out[e - 1].layout
    BY <1>3 DEF Formed, HeaderForm, LineForm, LayoutAt
  <2>2. k # e /\ k # e - 1
    BY <1>2, <2>1
  <2> HIDE DEF e
  <2>3. k - 1 \in i .. (e - 1) - 1
    BY <1>1, <2>2 DEF e
  <2> QED BY <1>2, <1>3, <2>3 DEF Runs, e
<1>4. CASE r.head \notin Headers
  <2>1. out[e].layout /\ \A m \in i + 2 .. e - 1 : ~out[m].layout
    BY <1>4 DEF Formed, HeaderForm, LineForm, LayoutAt
  <2>2. k # e
    BY <1>2, <2>1
  <2> HIDE DEF e
  <2>3. k - 1 \in i .. e - 1
    BY <1>1, <2>2 DEF e
  <2>4. k - 1 <= i + 1
    BY <1>1, <1>2, <2>1, <2>3
  <2> QED BY <1>2, <1>4, <2>3, <2>4 DEF Runs, e
<1> QED BY <1>3, <1>4

LEMMA ReaderTook ==
  ASSUME StreamInv, PlainWords, Standing, ReaderInv,
         NEW s, Took(s), out' = out
  PROVE  ReaderInv'
<1> DEFINE n == Len(made) + 1
           r == Kept(s)
<1>1. /\ Len(made) \in Nat /\ Len(made') = n /\ made'[n] = r
      /\ \A k \in 1 .. Len(made) : made'[k] = made[k]
      /\ pos \in 1 .. Len(out) /\ s.last \in pos + 1 .. Len(out)
      /\ s \in Read(pos) /\ Len(open) \in Nat
      /\ Len(open') = IF s.head \in Headers THEN Len(open) + 1 ELSE Len(open)
  BY TookGrows, StreamTypes
<1>2. /\ r.first = pos /\ r.last = s.last /\ r.head = s.head /\ r.level = Len(open)
  BY DEF Kept
<1> HIDE DEF r
<1>3. Reading /\ Reading' /\ pos >= 5 /\ pos' = s.last + 1 /\ pos' - 1 = s.last
  BY <1>1, StreamTypes DEF Took, Reading, Standing
<1>4. pos \in Nat /\ pos > 1 /\ pos \in Nat \ {0} /\ Len(out) \in Nat /\ s.last \in Nat
      /\ pos' \in Nat
  BY <1>1, <1>3, StreamTypes
<1>5. Anchor(pos) /\ out[pos - 1].layout
  BY <1>3, <1>4, AnchorIsLayout DEF ReaderInv
<1>6. Formed(pos, s)
  BY <1>1, <1>4, StatementForm
<1>7. ~LayoutAt(out, pos, "DEDENT")
  BY <1>1 DEF Took, At, LayoutAt
<1>8. ReadAs(r)
  BY <1>1, <1>2, <1>3, <1>4, <1>5 DEF ReadAs
<1>9. ASSUME NEW k \in 1 .. n
      PROVE  \/ made'[k] = r /\ k = n
             \/ k \in 1 .. Len(made) /\ made'[k] = made[k]
  <2>1. k = n \/ k \in 1 .. Len(made)
    BY <1>1
  <2> QED BY <1>1, <2>1
<1>10. \A k \in 1 .. Len(made') : ReadAs(made[k])'
  <2>1. \A k \in 1 .. Len(made') : ReadAs(made'[k])
    BY <1>1, <1>8, <1>9 DEF ReaderInv
  <2> QED BY <2>1, TokensStand
<1>11. Straight' <=> Straight /\ ~LayoutAt(out, pos, "INDENT")
  <2>1. \A k \in 1 .. n : NamesAnIndent(k)' <=> LayoutAt(out, made'[k].first, "INDENT")
    BY DEF NamesAnIndent, IsLayout, LayoutAt
  <2>2. Straight' <=> \A k \in 1 .. n : ~LayoutAt(out, made'[k].first, "INDENT")
    BY <1>1, <2>1 DEF Straight
  <2>3. Straight <=> \A k \in 1 .. Len(made) : ~LayoutAt(out, made[k].first, "INDENT")
    BY DEF Straight, NamesAnIndent, IsLayout, LayoutAt
  <2>4. n \in 1 .. n /\ 1 .. Len(made) \subseteq 1 .. n
    BY <1>1
  <2> QED BY <1>1, <1>2, <1>9, <2>2, <2>3, <2>4
<1>12. /\ Straight => out[pos - 1].level = Len(open)
       /\ ~Straight => out[pos - 1].level > Len(open)
       /\ out[pos - 1].level \in Nat /\ out[s.last].level \in Nat
  <2>1. pos - 1 \in 1 .. Len(out) /\ s.last \in 1 .. Len(out)
    BY <1>1, <1>4
  <2>2. out[pos - 1].level \in Nat /\ out[s.last].level \in Nat
    BY <2>1, StreamTypes
  <2> QED BY <1>3, <2>2 DEF ReaderInv
<1>13. /\ Straight' => out[s.last].level = Len(open')
       /\ ~Straight' => out[s.last].level > Len(open')
  <2>1. CASE s.head \in Headers
    <3>1. ~LayoutAt(out, pos, "INDENT") /\ out[s.last].level = out[pos - 1].level + 1
      BY <1>4, <1>6, <1>7, <2>1, StatementLevel
    <3>2. Len(open') = Len(open) + 1 /\ (Straight' <=> Straight)
      BY <1>1, <1>11, <2>1, <3>1
    <3>3. CASE Straight
      <4>1. out[pos - 1].level = Len(open)
        BY <1>12, <3>3
      <4> QED BY <3>1, <3>2, <3>3, <4>1
    <3>4. CASE ~Straight
      <4>1. out[pos - 1].level > Len(open)
        BY <1>12, <3>4
      <4> QED BY <1>1, <1>12, <3>1, <3>2, <3>4, <4>1
    <3> QED BY <3>3, <3>4
  <2>2. CASE s.head \notin Headers /\ ~LayoutAt(out, pos, "INDENT")
    <3>1. out[s.last].level = out[pos - 1].level
      BY <1>4, <1>6, <1>7, <2>2, StatementLevel
    <3> QED BY <1>1, <1>11, <1>12, <2>2, <3>1
  <2>3. CASE s.head \notin Headers /\ LayoutAt(out, pos, "INDENT")
    <3>1. out[s.last].level = out[pos - 1].level + 1
      BY <1>4, <1>6, <1>7, <2>3, StatementLevel
    <3> QED BY <1>1, <1>11, <1>12, <2>3, <3>1
  <2> QED BY <2>1, <2>2, <2>3
<1>14. Straight' => \A k \in 1 .. Len(made') : made'[k].level = out[made'[k].first].level
  <2> SUFFICES ASSUME Straight', NEW k \in 1 .. Len(made')
               PROVE  made'[k].level = out[made'[k].first].level
    OBVIOUS
  <2>1. Straight /\ ~LayoutAt(out, pos, "INDENT")
    BY <1>11
  <2>2. CASE made'[k] = r
    <3>1. out[pos].level = out[pos - 1].level
      BY <1>4, <1>6, <1>7, <2>1, StatementLevel
    <3> QED BY <1>2, <1>12, <2>1, <2>2, <3>1
  <2>3. CASE k \in 1 .. Len(made) /\ made'[k] = made[k]
    BY <2>1, <2>3 DEF ReaderInv
  <2> QED BY <1>1, <1>9, <2>2, <2>3
<1>15. Anchor(pos')
  <2>1. s.last \in 1 .. pos' - 1 /\ s.last + 1 .. pos' - 1 = {}
    BY <1>1, <1>3, <1>4
  <2>2. out[s.last].layout /\ ~LayoutAt(out, s.last, "DEDENT")
    BY <1>6 DEF Formed, HeaderForm, LineForm, LayoutAt
  <2> QED BY <2>1, <2>2 DEF Anchor
<1>16. ASSUME NEW i \in 5 .. pos' - 1, StartsLine(i)
       PROVE  Accounted(i)'
  <2>1. CASE i \in 5 .. pos - 1
    <3>1. Accounted(i)
      BY <1>3, <1>16, <2>1 DEF ReaderInv
    <3>2. CASE \E k \in 1 .. Len(made) : made[k].first = i
      <4>1. PICK k \in 1 .. Len(made) : made[k].first = i
        BY <3>2
      <4>2. k \in 1 .. Len(made') /\ made'[k].first = i
        BY <1>1, <4>1
      <4> QED BY <4>2 DEF Accounted
    <3>3. CASE out[i].text = "else" /\ IsLayout(i - 1, "DEDENT")
      BY <3>3 DEF Accounted, IsLayout
    <3>4. CASE \E k \in 1 .. Len(made) :
                 Runs(made[k]) /\ i \in made[k].first + 1 .. made[k].last
      <4>1. PICK k \in 1 .. Len(made) :
              Runs(made[k]) /\ i \in made[k].first + 1 .. made[k].last
        BY <3>4
      <4>2. k \in 1 .. Len(made') /\ made'[k] = made[k]
        BY <1>1, <4>1
      <4>3. Runs(made[k])'
        BY <4>1, <4>2, TokensStand
      <4> QED BY <4>1, <4>2, <4>3 DEF Accounted
    <3> QED BY <3>1, <3>2, <3>3, <3>4 DEF Accounted
  <2>2. CASE i = pos
    <3>1. \E k \in 1 .. Len(made') : made'[k].first = i
      BY <1>1, <1>2, <2>2
    <3> QED BY <3>1 DEF Accounted
  <2>3. CASE i \in pos + 1 .. s.last
    <3>1. Formed(pos, r)
      BY <1>2, <1>6 DEF Formed, HeaderForm, LineForm
    <3>2. Runs(r)
      BY <1>2, <1>4, <1>16, <2>3, <3>1, LineWithin
    <3>3. PICK k \in 1 .. Len(made') : made'[k] = r
      BY <1>1
    <3>4. Runs(made[k])'
      BY <3>2, <3>3, TokensStand
    <3>5. i \in made'[k].first + 1 .. made'[k].last
      BY <1>2, <2>3, <3>3
    <3> QED BY <3>3, <3>4, <3>5 DEF Accounted
  <2> QED BY <1>3, <1>4, <2>1, <2>2, <2>3
<1>17. /\ Anchor(pos)'
       /\ \A i \in 5 .. pos' - 1 : StartsLine(i)' => Accounted(i)'
  BY <1>15, <1>16, TokensStand
<1> QED BY <1>3, <1>10, <1>13, <1>14, <1>17 DEF ReaderInv

(* Where no statement is added, what was read is still what it was.        *)
LEMMA ReaderRests ==
  ASSUME ReaderInv, UNCHANGED <<out, made>>
  PROVE  /\ \A k \in 1 .. Len(made') : ReadAs(made[k])'
         /\ Straight' <=> Straight
         /\ Straight' => \A k \in 1 .. Len(made') :
                           made'[k].level = out'[made'[k].first].level
         /\ \A i : Accounted(i)' <=> Accounted(i)
<1>1. \A k \in 1 .. Len(made') : ReadAs(made[k])'
  BY TokensStand DEF ReaderInv
<1>2. Straight' <=> Straight
  BY DEF Straight, NamesAnIndent, IsLayout
<1>3. Straight' => \A k \in 1 .. Len(made') :
                    made'[k].level = out'[made'[k].first].level
  BY <1>2 DEF ReaderInv
<1>4. ASSUME NEW i
      PROVE  Accounted(i)' <=> Accounted(i)
  <2>1. \A k : Runs(made[k])' <=> Runs(made[k])
    BY DEF Runs
  <2> QED BY <2>1 DEF Accounted, IsLayout
<1> QED BY <1>1, <1>2, <1>3, <1>4

LEMMA ReaderBegin ==
  ASSUME StreamInv, PlainWords, Standing, ReaderInv, Begin
  PROVE  ReaderInv'
<1>1. made' = made /\ out' = out /\ phase = "lex"
  BY DEF Begin, vars
<1>2. CASE pc = "done" /\ At(1, "do") /\ OpensBlock(2)
  <2>1. phase' = "read" /\ pos' = 5 /\ open' = <<"do">> /\ Len(made) = 0
    BY <1>1, <1>2 DEF Begin, Standing
  <2>2. /\ LayoutAt(out, 3, "NEWLINE") /\ LayoutAt(out, 4, "INDENT")
        /\ At(2, ":") /\ At(1, "do") /\ 4 \in 1 .. Len(out) /\ Len(out) \in Nat
    <3>1. 2 \in Nat /\ 2 + 1 = 3 /\ 2 + 2 = 4
      OBVIOUS
    <3> QED BY <1>2, <3>1, OpensBlockForm, StreamTypes
  <2>3. out[4].level = 1
    <3>1. /\ \A k \in 1 .. 4 : LevelAt(out, k)
      BY <2>2 DEF StreamInv, LevelsInv
    <3>2. out[1].level = 0
      <4>1. ~Turns(out, 1) /\ LevelAt(out, 1)
        BY <2>2, <3>1 DEF Turns, LayoutAt, At
      <4> QED BY <4>1 DEF LevelAt, Before
    <3>3. out[2].level = 0
      <4>1. ~Turns(out, 2) /\ LevelAt(out, 2)
        BY <2>2, <3>1 DEF Turns, LayoutAt, At
      <4> QED BY <3>2, <4>1 DEF LevelAt, Before
    <3>4. out[3].level = 0
      <4>1. ~Turns(out, 3) /\ LevelAt(out, 3)
        BY <2>2, <3>1 DEF Turns, LayoutAt
      <4> QED BY <3>3, <4>1 DEF LevelAt, Before
    <3>5. LevelAt(out, 4)
      BY <3>1
    <3> QED BY <2>2, <3>4, <3>5 DEF LevelAt, Before
  <2>4. Straight'
    BY <1>1, <2>1 DEF Straight
  <2>5. Len(open') = 1
    BY <2>1
  <2>6. Anchor(5)
    <3>1. 4 \in 1 .. 5 - 1 /\ 4 + 1 .. 5 - 1 = {}
      OBVIOUS
    <3>2. out[4].layout /\ ~LayoutAt(out, 4, "DEDENT")
      BY <2>2 DEF LayoutAt
    <3> QED BY <3>1, <3>2 DEF Anchor
  <2>7. Anchor(pos)'
    BY <1>1, <2>1, <2>6, TokensStand
  <2>8. 5 .. pos' - 1 = {} /\ pos' - 1 = 4
    BY <2>1
  <2>9. out'[pos' - 1].level = Len(open')
    BY <1>1, <2>3, <2>5, <2>8
  <2> QED BY <1>1, <2>1, <2>4, <2>7, <2>8, <2>9 DEF ReaderInv
<1>3. CASE ~(pc = "done" /\ At(1, "do") /\ OpensBlock(2))
  <2>1. ~Reading'
    BY <1>3 DEF Begin, Reading
  <2> QED BY <1>1, <2>1, ReaderRests DEF ReaderInv
<1> QED BY <1>2, <1>3

LEMMA ReaderEnd ==
  ASSUME StreamInv, PlainWords, Standing, ReaderInv, EndBlock
  PROVE  ReaderInv'
<1>1. made' = made /\ out' = out /\ phase = "read" /\ At(pos, "DEDENT")
  BY DEF EndBlock, vars
<1>2. /\ Reading /\ pos >= 5 /\ pos \in Nat /\ pos \in 1 .. Len(out)
      /\ Len(out) \in Nat /\ pos - 1 \in 1 .. Len(out)
  BY <1>1, StreamTypes DEF Reading, Standing, At
<1>3. LayoutAt(out, pos, "DEDENT")
  <2>1. "DEDENT" \in Marks
    BY DEF Marks
  <2> QED BY <1>1, <2>1, MarkIsLayout
<1>4. /\ out[pos - 1].level \in Nat /\ out[pos].level \in Nat
      /\ out[pos].level = out[pos - 1].level - 1
  <2>1. LevelAt(out, pos)
    BY <1>2 DEF StreamInv, LevelsInv
  <2> QED BY <1>2, <1>3, <2>1, StreamTypes DEF LevelAt, Before
<1>5. /\ Straight => out[pos - 1].level = Len(open)
      /\ ~Straight => out[pos - 1].level > Len(open)
      /\ Anchor(pos) /\ \A i \in 5 .. pos - 1 : StartsLine(i) => Accounted(i)
  BY <1>2 DEF ReaderInv
<1>6. Len(open) \in Nat /\ Len(open) > 0 /\ Len(Pop(open)) = Len(open) - 1
      /\ Pop(open) \in Seq(Blocks)
  BY <1>1, PopShrinks, LenProperties DEF Standing, Shrunk
<1>7. ASSUME NEW p \in Nat, pos' = p, Anchor(p), p - 1 \in Nat,
             Straight => out[p - 1].level = Len(open'),
             ~Straight => out[p - 1].level > Len(open'),
             \A i \in pos .. p - 1 : StartsLine(i) => Accounted(i)
      PROVE  ReaderInv'
  <2>1. Anchor(pos)'
    BY <1>1, <1>7, TokensStand
  <2>2. \A i \in 5 .. p - 1 : i \in 5 .. pos - 1 \/ i \in pos .. p - 1
    BY <1>2
  <2>3. \A i \in 5 .. p - 1 : StartsLine(i)' => Accounted(i)'
    BY <1>1, <1>5, <1>7, <2>2, TokensStand, ReaderRests
  <2> QED BY <1>1, <1>7, <2>1, <2>3, ReaderRests DEF ReaderInv
<1>8. CASE HasElse
  <2>1. /\ OpensBlock(pos + 2) /\ open' = Append(Pop(open), "else") /\ pos' = pos + 5
        /\ At(pos + 1, "else")
    BY <1>8 DEF EndBlock, HasElse
  <2>2. /\ LayoutAt(out, pos + 3, "NEWLINE") /\ LayoutAt(out, pos + 4, "INDENT")
        /\ At(pos + 2, ":") /\ pos + 4 \in 1 .. Len(out)
    <3> DEFINE j == pos + 2
    <3>1. j \in Nat /\ j + 1 = pos + 3 /\ j + 2 = pos + 4 /\ OpensBlock(j)
      BY <1>2, <2>1
    <3> HIDE DEF j
    <3>2. /\ At(j, ":") /\ j + 2 \in 1 .. Len(out)
          /\ LayoutAt(out, j + 1, "NEWLINE") /\ LayoutAt(out, j + 2, "INDENT")
      BY <3>1, OpensBlockForm
    <3> QED BY <3>1, <3>2 DEF j
  <2>3. Len(open') = Len(open)
    <3>1. "else" \in Blocks
      BY DEF Blocks
    <3> QED BY <1>6, <2>1, <3>1, AppendProperties
  <2>4. out[pos + 4].level = out[pos - 1].level
    <3>1. /\ pos + 1 \in 1 .. Len(out) /\ pos + 2 \in 1 .. Len(out)
          /\ pos + 3 \in 1 .. Len(out)
      BY <1>2, <2>2
    <3>2. /\ LevelAt(out, pos + 1) /\ LevelAt(out, pos + 2)
          /\ LevelAt(out, pos + 3) /\ LevelAt(out, pos + 4)
      BY <2>2, <3>1 DEF StreamInv, LevelsInv
    <3>3. /\ ~Turns(out, pos + 1) /\ ~Turns(out, pos + 2) /\ ~Turns(out, pos + 3)
      BY <2>1, <2>2 DEF Turns, LayoutAt, At
    <3>4. /\ Before(out, pos + 1) = out[pos].level
          /\ Before(out, pos + 2) = out[pos + 1].level
          /\ Before(out, pos + 3) = out[pos + 2].level
          /\ Before(out, pos + 4) = out[pos + 3].level
      BY <1>2 DEF Before
    <3>5. out[pos + 3].level = out[pos].level
      BY <3>2, <3>3, <3>4 DEF LevelAt
    <3>6. out[pos + 4].level = out[pos].level + 1
      BY <2>2, <3>2, <3>4, <3>5 DEF LevelAt
    <3> QED BY <1>4, <3>6
  <2>5. Anchor(pos + 5)
    <3>1. pos + 4 \in 1 .. (pos + 5) - 1 /\ (pos + 4) + 1 .. (pos + 5) - 1 = {}
      BY <1>2
    <3>2. out[pos + 4].layout /\ ~LayoutAt(out, pos + 4, "DEDENT")
      BY <2>2 DEF LayoutAt
    <3> QED BY <3>1, <3>2 DEF Anchor
  <2>6. ASSUME NEW i \in pos .. pos + 4, StartsLine(i)
        PROVE  Accounted(i)
    <3>1. i = pos \/ i = pos + 1 \/ i = pos + 2 \/ i = pos + 3 \/ i = pos + 4
      BY <1>2
    <3>2. ~out[i].layout /\ out[i - 1].layout
      BY <1>2, <2>6 DEF StartsLine
    <3>3. i = pos + 1 \/ i = pos + 2
      BY <1>3, <2>2, <3>1, <3>2 DEF LayoutAt
    <3>4. i # pos + 2
      <4>1. "else" \notin Marks
        BY DEF Marks
      <4>2. ~out[pos + 1].layout
        BY <2>1, <4>1, WordIsNoLayout
      <4>3. i = pos + 2 => i - 1 = pos + 1
        BY <1>2
      <4> QED BY <3>2, <4>2, <4>3
    <3>5. i = pos + 1 /\ i - 1 = pos
      BY <1>2, <3>3, <3>4
    <3>6. out[i].text = "else" /\ IsLayout(i - 1, "DEDENT")
      BY <1>3, <2>1, <3>5 DEF At, IsLayout, LayoutAt
    <3> QED BY <3>6 DEF Accounted
  <2>7. pos + 5 \in Nat /\ pos + 5 - 1 = pos + 4 /\ pos + 4 \in Nat
    BY <1>2
  <2> DEFINE p == pos + 5
  <2>8. /\ p \in Nat /\ pos' = p
        /\ p - 1 = pos + 4 /\ p - 1 \in Nat
        /\ Anchor(p)
    <3>1. Anchor(p)
      BY <2>5
    <3> QED BY <1>2, <2>1, <3>1
  <2> HIDE DEF p
  <2>9. /\ Straight => out[p - 1].level = Len(open')
        /\ ~Straight => out[p - 1].level > Len(open')
    BY <1>5, <2>3, <2>4, <2>8
  <2>10. \A i \in pos .. p - 1 : StartsLine(i) => Accounted(i)
    BY <2>6, <2>8
  <2> QED BY <1>7, <2>8, <2>9, <2>10
<1>9. CASE ~HasElse
  <2>1. open' = Pop(open) /\ pos' = pos + 1
    BY <1>9 DEF EndBlock
  <2>2. Anchor(pos + 1)
    <3>1. PICK b \in 1 .. pos - 1 :
            /\ out[b].layout /\ ~LayoutAt(out, b, "DEDENT")
            /\ \A j \in b + 1 .. pos - 1 : LayoutAt(out, j, "DEDENT")
      BY <1>5 DEF Anchor
    <3>2. b \in 1 .. (pos + 1) - 1
          /\ \A j \in b + 1 .. (pos + 1) - 1 : j \in b + 1 .. pos - 1 \/ j = pos
      BY <1>2
    <3> QED BY <1>3, <3>1, <3>2 DEF Anchor
  <2>3. \A i \in pos .. (pos + 1) - 1 : ~StartsLine(i)
    <3>1. \A i \in pos .. (pos + 1) - 1 : i = pos
      BY <1>2
    <3> QED BY <1>3, <3>1 DEF StartsLine, LayoutAt
  <2>4. pos + 1 \in Nat /\ (pos + 1) - 1 = pos /\ pos \in Nat
    BY <1>2
  <2>5. Straight => out[pos].level = Len(open')
    BY <1>4, <1>5, <1>6, <2>1
  <2>6. ~Straight => out[pos].level > Len(open')
    BY <1>4, <1>5, <1>6, <2>1
  <2> QED BY <1>7, <2>1, <2>2, <2>3, <2>4, <2>5, <2>6
<1> QED BY <1>8, <1>9

LEMMA ReaderStep ==
  ASSUME StreamInv, PlainWords, Standing, Standing', ReaderInv, ParserNext
  PROVE  ReaderInv'
<1>1. CASE Lex
  <2>1. made' = made /\ phase' = phase /\ phase = "lex"
    BY <1>1 DEF Lex, parserVars
  <2>2. Len(made') = 0 /\ ~Reading'
    BY <2>1 DEF Standing, Reading
  <2> QED BY <2>2 DEF ReaderInv
<1>2. CASE Begin
  BY <1>2, ReaderBegin
<1>3. CASE Header \/ Simple
  <2>1. Len(out) \in Nat /\ pos \in 1 .. Len(out) + 1
    BY StreamTypes DEF Standing
  <2>2. pos \in Nat \ {0}
    BY <2>1
  <2>3. (\E s : Took(s)) /\ UNCHANGED vars
    BY <1>3, <2>1, <2>2, TookForm
  <2>4. out' = out
    BY <2>3 DEF vars
  <2> QED BY <2>3, <2>4, ReaderTook
<1>4. CASE EndBlock
  BY <1>4, ReaderEnd
<1>5. CASE Refuse
  <2>1. made' = made /\ out' = out /\ phase' = "refused"
    BY <1>5 DEF Refuse, vars
  <2>2. ~Reading'
    BY <2>1 DEF Reading
  <2> QED BY <2>1, <2>2, ReaderRests DEF ReaderInv
<1> QED BY <1>1, <1>2, <1>3, <1>4, <1>5 DEF ParserNext

LEMMA ReaderReads == ASSUME PlainWords PROVE ParserSpec => []ReaderInv
<1>1. ParserInit => ReaderInv
  <2> SUFFICES ASSUME ParserInit PROVE ReaderInv
    OBVIOUS
  <2>1. Len(made) = 0 /\ ~Reading
    BY EmptySeq DEF ParserInit, Reading
  <2> QED BY <2>1 DEF ReaderInv
<1>2. /\ StreamInv /\ Standing /\ Standing' /\ ReaderInv
      /\ [ParserNext]_<<vars, parserVars>>
      => ReaderInv'
  <2>1. ReaderInv /\ UNCHANGED <<vars, parserVars>> => ReaderInv'
    <3> SUFFICES ASSUME ReaderInv, UNCHANGED <<vars, parserVars>> PROVE ReaderInv'
      OBVIOUS
    <3>1. /\ phase' = phase /\ pos' = pos /\ open' = open /\ made' = made
          /\ out' = out
      BY DEF vars, parserVars
    <3>2. Reading' <=> Reading
      BY <3>1 DEF Reading
    <3>3. Reading => Anchor(pos)'
      BY <3>1, TokensStand DEF ReaderInv
    <3>4. Reading => \A i \in 5 .. pos - 1 : StartsLine(i)' => Accounted(i)'
      BY <3>1, TokensStand, ReaderRests DEF ReaderInv
    <3> QED BY <3>1, <3>2, <3>3, <3>4, ReaderRests DEF ReaderInv
  <2> QED BY <2>1, ReaderStep
<1> QED BY <1>1, <1>2, ParserStream, ReaderStands, PTL DEF ParserSpec

(* When all is read, no INDENT was taken for a name: the blocks of the     *)
(* layout are closed.                                                      *)
LEMMA ReadToTheEnd ==
  ASSUME StreamInv, Standing, ReaderInv, phase = "finished"
  PROVE  /\ Straight /\ open = << >> /\ pos - 1 = Len(out) /\ Reading
         /\ depth = 0
<1>1. /\ Len(open) = 0 /\ open \in Seq(Blocks) /\ pos > Len(out)
      /\ pos \in 1 .. Len(out) + 1 /\ pc = "done" /\ pos >= 5 /\ Reading
  BY DEF Standing, Reading
<1>2. Len(out) \in Nat /\ Len(out) > 0 /\ pos - 1 = Len(out)
  BY <1>1, StreamTypes
<1>3. out[pos - 1].level = 0
  <2>1. Len(indents) = 1
    BY <1>1 DEF StreamInv, PassInv, ShapeInv, Control
  <2> QED BY <1>2, <2>1 DEF StreamInv, PassInv, LineInv
<1>4. Straight /\ Anchor(pos)
  BY <1>1, <1>3 DEF ReaderInv
<1>5. depth = 0
  <2> SUFFICES ASSUME depth # 0 PROVE FALSE
    OBVIOUS
  <2>1. depth > 0
    <3>1. depth \in Nat
      BY DEF StreamInv, PassInv, ShapeInv, TypeOK
    <3> QED BY <3>1
  <2>2. PICK i \in 1 .. Len(out) : LastWord(out, i)
    BY <2>1 DEF StreamInv, TailInv
  <2>3. PICK b \in 1 .. Len(out) :
          /\ out[b].layout /\ ~LayoutAt(out, b, "DEDENT")
          /\ \A j \in b + 1 .. Len(out) : LayoutAt(out, j, "DEDENT")
    BY <1>2, <1>4 DEF Anchor
  <2>4. i = b \/ i \in b + 1 .. Len(out) \/ b \in i + 1 .. Len(out)
    BY <1>2
  <2> QED BY <2>2, <2>3, <2>4 DEF LastWord, LayoutAt
<1>6. open = << >>
  BY <1>1, EmptySeq
<1> QED BY <1>1, <1>4, <1>5, <1>6

(* The blocks being read are those open in the layout, and each statement  *)
(* is in the block its column put it in, unless an INDENT was taken for a  *)
(* name; and then the text is refused.                                     *)
THEOREM ReaderNesting ==
  ASSUME PlainWords
  PROVE  ParserSpec => []NestingIsIndentation
<1>1. StreamInv /\ Standing /\ ReaderInv => NestingIsIndentation
  <2> SUFFICES ASSUME StreamInv, Standing, ReaderInv,
                      phase = "finished" \/ Straight
               PROVE  /\ phase \in {"read", "finished"}
                           => Len(open) = out[pos - 1].level
                      /\ \A k \in 1 .. Len(made) :
                           made[k].level = out[made[k].first].level
    BY DEF NestingIsIndentation, Straight
  <2>1. Straight
    BY ReadToTheEnd
  <2> QED BY <2>1 DEF ReaderInv, Reading
<1> QED BY <1>1, ParserStream, ReaderStands, ReaderReads, PTL

(* What is read as a statement is a logical line of that form, unless it   *)
(* runs on over the end of its line.                                       *)
THEOREM ReaderStatements ==
  ASSUME PlainWords
  PROVE  ParserSpec => []StatementsAreLinesOrRunOn
<1>1. StreamInv /\ ReaderInv => StatementsAreLinesOrRunOn
  <2> SUFFICES ASSUME StreamInv, ReaderInv, NEW k \in 1 .. Len(made), ~RunsOn(k)
               PROVE  WholeStatement(made[k].first)
    BY DEF StatementsAreLinesOrRunOn
  <2>1. ReadAs(made[k]) /\ ~Runs(made[k])
    BY RunsAre DEF ReaderInv
  <2> QED BY <2>1, StatementIsWhole
<1> QED BY <1>1, ParserStream, ReaderReads, PTL

(* A do block that is read has lost no line, and no bracket is open at its *)
(* end.                                                                    *)
THEOREM ReaderEveryLine ==
  ASSUME PlainWords
  PROVE  ParserSpec => []ReadsEveryLine
<1>1. StreamInv /\ Standing /\ ReaderInv => ReadsEveryLine
  <2> SUFFICES ASSUME StreamInv, Standing, ReaderInv, phase = "finished"
               PROVE  /\ depth = 0
                      /\ open = << >>
                      /\ \A i \in 5 .. Len(out) : StartsLine(i) => Accounted(i)
    BY RunsAre DEF ReadsEveryLine, Accounted
  <2>1. pos - 1 = Len(out) /\ Reading
    BY ReadToTheEnd
  <2> QED BY <2>1, ReadToTheEnd DEF ReaderInv
<1> QED BY <1>1, ParserStream, ReaderStands, ReaderReads, PTL

=============================================================================
