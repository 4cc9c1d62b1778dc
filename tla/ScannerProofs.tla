---------------------------- MODULE ScannerProofs ----------------------------
(***************************************************************************)
(* Scanner proved for every text of any characters: the lexer, the scan    *)
(* for comments of the semantic tokens and the mask before the layout pass *)
(* find the same comments, a client finds the tokens where the lexer saw   *)
(* them, and signature help is about the call around the cursor.           *)
(*                                                                         *)
(* The scans are recursive functions.  Each is first shown to satisfy its  *)
(* own equation (the lemmas that end in Unfolds, by Recursion of           *)
(* LeastProofs: a step only looks at places of a lower rank) and then what *)
(* it returns is proved by induction on that rank.                         *)
(*                                                                         *)
(* The first part shows that the gaps and the tokens of the lexer are laid *)
(* side by side from the first place on, each comment in a gap being what  *)
(* the other scans find there (LexInvariant).  The second part compares    *)
(* looking back over a text, counting brackets, with reading it forwards,  *)
(* nesting them: each call that is closed leaves both as they were before  *)
(* it (Closing).  The third shows that the line and the column the lexer   *)
(* counts are those of its place (FitInvariant), that sorting by place     *)
(* loses no token (SortedHasAll), and that adding up the differences and   *)
(* looking for the offset undo the encoding (DecodedIs, OffsetBack).       *)
(***************************************************************************)
EXTENDS Scanner, LeastProofs, SequenceTheorems, FiniteSetTheorems, TLAPS

(* The character that starts and ends a string. *)
Quote == "\""

(* Characters are strings. *)
IsText == input \in Seq(STRING)

(* Places that are further on rank lower. *)
UpRank == [k \in Nat |-> IF k > Size THEN 0 ELSE Size + 1 - k]

(* A text has a length. *)
LEMMA SizeIsNat == ASSUME IsText PROVE Size \in Nat /\ \A k \in 1 .. Size : input[k] \in STRING
BY DEF IsText, Size

(* Ranks are numbers up to the length, and fall along the text. *)
LEMMA UpRankFacts ==
  ASSUME IsText
  PROVE  /\ UpRank \in [Nat -> Nat]
         /\ UpRank \in [Nat -> 0 .. Size + 1]
         /\ \A j, k \in Nat : k <= Size /\ j > k => UpRank[j] < UpRank[k]
<1>1. Size \in Nat  BY SizeIsNat
<1> HIDE DEF Size
<1> QED BY <1>1 DEF UpRank

(* One step of skip_block_comment. *)
BlockBody(f, k) ==
  [depth \in Nat |->
     CASE depth = 0 -> k
       [] depth > 0 /\ k > Size -> 0
       [] depth > 0 /\ k <= Size /\ Starts(k, Open) -> f[k + 2][depth + 1]
       [] depth > 0 /\ k <= Size /\ Starts(k, Close) -> f[k + 2][depth - 1]
       [] OTHER -> f[k + 1][depth]]

(* The step looks only at places further on. *)
LEMMA BlockBodyIsLocal ==
  ASSUME IsText, NEW k \in Nat, NEW f \in [Nat -> [Nat -> Nat]], NEW g \in [Nat -> [Nat -> Nat]],
         \A j \in Nat : UpRank[j] < UpRank[k] => f[j] = g[j]
  PROVE  BlockBody(f, k) = BlockBody(g, k) /\ BlockBody(f, k) \in [Nat -> Nat]
<1>1. Size \in Nat  BY SizeIsNat
<1>2. k <= Size => f[k + 1] = g[k + 1] /\ f[k + 2] = g[k + 2]
  <2> SUFFICES ASSUME k <= Size PROVE f[k + 1] = g[k + 1] /\ f[k + 2] = g[k + 2]
    OBVIOUS
  <2>1. k + 1 \in Nat /\ k + 1 > k /\ k + 2 \in Nat /\ k + 2 > k  OBVIOUS
  <2>2. UpRank[k + 1] < UpRank[k] /\ UpRank[k + 2] < UpRank[k]  BY <2>1, UpRankFacts
  <2> QED BY <2>1, <2>2
<1>3. f[k + 1] \in [Nat -> Nat] /\ f[k + 2] \in [Nat -> Nat]
  <2>1. k + 1 \in Nat /\ k + 2 \in Nat  OBVIOUS
  <2> QED BY <2>1
<1>4. ASSUME NEW d \in Nat PROVE BlockBody(f, k)[d] = BlockBody(g, k)[d] /\ BlockBody(f, k)[d] \in Nat
  <2>1. d + 1 \in Nat /\ (d > 0 => d - 1 \in Nat)  OBVIOUS
  <2>2. f[k + 2][d + 1] \in Nat /\ (d > 0 => f[k + 2][d - 1] \in Nat) /\ f[k + 1][d] \in Nat
    BY <1>3, <2>1
  <2>3. CASE d = 0
    BY <2>3 DEF BlockBody
  <2>4. CASE d > 0 /\ k > Size
    <3>1. ~(d = 0) /\ ~(k <= Size)  BY <2>4, <1>1
    <3> QED BY <2>4, <3>1, Zenon DEF BlockBody
  <2>5. CASE d > 0 /\ k <= Size
    <3>1. f[k + 1] = g[k + 1] /\ f[k + 2] = g[k + 2]  BY <2>5, <1>2
    <3> QED BY <1>1, <2>5, <2>2, <3>1 DEF BlockBody
  <2> QED BY <1>1, <2>3, <2>4, <2>5
<1> QED BY <1>4 DEF BlockBody

(* BlockEnd satisfies its equation. *)
LEMMA BlockEndUnfolds ==
  ASSUME IsText
  PROVE  \A k \in Nat : BlockEnd[k] = BlockBody(BlockEnd, k)
<1> DEFINE S == [Nat -> Nat]
           step == [k \in Nat |-> [f \in [Nat -> S] |-> BlockBody(f, k)]]
<1>1. \A k \in Nat : \A f, g \in [Nat -> S] :
        (\A j \in Nat : UpRank[j] < UpRank[k] => f[j] = g[j])
          => BlockBody(f, k) = BlockBody(g, k) /\ BlockBody(f, k) \in S
  BY BlockBodyIsLocal
<1>2. [d \in Nat |-> 0] \in S /\ Size + 1 \in Nat
  BY SizeIsNat
<1>3. step \in [Nat -> [[Nat -> S] -> S]]
  <2> HIDE DEF S
  <2> QED BY <1>1
<1>4. LooksDown(Nat, S, Size + 1, UpRank, step)
  <2>1. S # {}  BY <1>2
  <2> HIDE DEF S
  <2> QED BY <1>1, <1>2, <1>3, <2>1, UpRankFacts DEF LooksDown
<1>5. PICK f \in [Nat -> S] : \A k \in Nat : f[k] = step[k][f]
  <2> HIDE DEF S, step
  <2> QED BY <1>4, Recursion
<1>6. f = [k \in Nat |-> BlockBody(f, k)]
  <2> HIDE DEF S
  <2> QED BY <1>5
<1>7. \E h : h = [k \in Nat |-> BlockBody(h, k)]
  BY <1>6
<1>8. BlockEnd = [k \in Nat |-> BlockBody(BlockEnd, k)]
  BY <1>7 DEF BlockEnd, BlockBody
<1> QED BY <1>8

(* The cases of BlockEnd, each with its condition. *)
LEMMA BlockEndCases ==
  ASSUME IsText, NEW k \in Nat, NEW d \in Nat
  PROVE  /\ d = 0 => BlockEnd[k][d] = k
         /\ d > 0 /\ k > Size => BlockEnd[k][d] = 0
         /\ d > 0 /\ k <= Size /\ Starts(k, Open) => BlockEnd[k][d] = BlockEnd[k + 2][d + 1]
         /\ d > 0 /\ k <= Size /\ ~Starts(k, Open) /\ Starts(k, Close)
              => BlockEnd[k][d] = BlockEnd[k + 2][d - 1]
         /\ d > 0 /\ k <= Size /\ ~Starts(k, Open) /\ ~Starts(k, Close)
              => BlockEnd[k][d] = BlockEnd[k + 1][d]
<1>1. Size \in Nat  BY SizeIsNat
<1>2. (d > 0 <=> ~(d = 0)) /\ (k > Size => ~(k <= Size)) /\ (k <= Size => ~(k > Size))
  BY <1>1
<1>3. BlockEnd[k][d] =
        CASE d = 0 -> k
          [] d > 0 /\ k > Size -> 0
          [] d > 0 /\ k <= Size /\ Starts(k, Open) -> BlockEnd[k + 2][d + 1]
          [] d > 0 /\ k <= Size /\ Starts(k, Close) -> BlockEnd[k + 2][d - 1]
          [] OTHER -> BlockEnd[k + 1][d]
  <2>1. BlockEnd[k] = BlockBody(BlockEnd, k)  BY BlockEndUnfolds
  <2> QED BY <2>1, Zenon DEF BlockBody
<1>a. ~(Starts(k, Open) /\ Starts(k, Close))
  <2>1. Open[1] # Close[1]  BY SMT DEF Open, Close
  <2>2. Len(Open) = Len(Close)  BY SMT DEF Open, Close
  <2> QED BY <2>1, <2>2, Zenon DEF Starts
<1>4. ASSUME d = 0 PROVE BlockEnd[k][d] = k
  BY <1>2, <1>3, <1>4, Zenon
<1>5. ASSUME d > 0, k > Size PROVE BlockEnd[k][d] = 0
  BY <1>2, <1>3, <1>5, Zenon
<1>6. ASSUME d > 0, k <= Size, Starts(k, Open) PROVE BlockEnd[k][d] = BlockEnd[k + 2][d + 1]
  BY <1>2, <1>3, <1>6, <1>a, Zenon
<1>7. ASSUME d > 0, k <= Size, ~Starts(k, Open), Starts(k, Close)
      PROVE  BlockEnd[k][d] = BlockEnd[k + 2][d - 1]
  BY <1>2, <1>3, <1>7, Zenon
<1>8. ASSUME d > 0, k <= Size, ~Starts(k, Open), ~Starts(k, Close)
      PROVE  BlockEnd[k][d] = BlockEnd[k + 1][d]
  BY <1>2, <1>3, <1>8, Zenon
<1> QED BY <1>4, <1>5, <1>6, <1>7, <1>8

(* A block comment ends behind the place where it is looked for, and in    *)
(* the text.                                                               *)
LEMMA BlockEnds ==
  ASSUME IsText
  PROVE  \A k \in Nat, d \in Nat :
           /\ BlockEnd[k][d] \in Nat
           /\ d > 0 /\ BlockEnd[k][d] # 0 => BlockEnd[k][d] > k /\ BlockEnd[k][d] <= Size + 1
<1> DEFINE P(k) == \A d \in Nat :
             /\ BlockEnd[k][d] \in Nat
             /\ d > 0 /\ BlockEnd[k][d] # 0 => BlockEnd[k][d] > k /\ BlockEnd[k][d] <= Size + 1
           Good == {k \in Nat : P(k)}
<1>1. Size \in Nat  BY SizeIsNat
<1>2. ASSUME NEW k \in Nat, \A j \in Nat : UpRank[j] < UpRank[k] => j \in Good
      PROVE  k \in Good
  <2> SUFFICES ASSUME NEW d \in Nat
               PROVE  /\ BlockEnd[k][d] \in Nat
                      /\ d > 0 /\ BlockEnd[k][d] # 0
                           => BlockEnd[k][d] > k /\ BlockEnd[k][d] <= Size + 1
    OBVIOUS
  <2>1. CASE d = 0
    BY <2>1, BlockEndCases
  <2>2. CASE d > 0 /\ k > Size
    BY <2>2, BlockEndCases
  <2>3. CASE d > 0 /\ k <= Size
    <3>1. k + 1 \in Nat /\ k + 2 \in Nat /\ d + 1 \in Nat /\ d - 1 \in Nat /\ d + 1 > 0  BY <2>3
    <3>2. UpRank[k + 1] < UpRank[k] /\ UpRank[k + 2] < UpRank[k]
      <4>1. k + 1 > k /\ k + 2 > k  OBVIOUS
      <4> QED BY <2>3, <3>1, <4>1, UpRankFacts
    <3>3. P(k + 1) /\ P(k + 2)
      <4> HIDE DEF P
      <4> QED BY <1>2, <3>1, <3>2
    <3>4. (Starts(k, Open) \/ Starts(k, Close)) => k + 2 <= Size + 1
      BY <1>1 DEF Starts, Open, Close
    <3>5. CASE Starts(k, Open)
      <4>1. BlockEnd[k][d] = BlockEnd[k + 2][d + 1]  BY BlockEndCases, <2>3, <3>5
      <4> QED BY <4>1, <3>1, <3>3, <1>1
    <3>6. CASE ~Starts(k, Open) /\ Starts(k, Close)
      <4>1. BlockEnd[k][d] = BlockEnd[k + 2][d - 1]  BY BlockEndCases, <2>3, <3>6
      <4>2. CASE d - 1 > 0
        BY <4>1, <4>2, <3>1, <3>3, <1>1
      <4>3. CASE d - 1 = 0
        <5>1. BlockEnd[k + 2][0] = k + 2
          BY <3>1, BlockEndCases
        <5> QED BY <5>1, <4>1, <4>3, <3>4, <3>6, <1>1
      <4> QED BY <4>2, <4>3, <3>1
    <3>7. CASE ~Starts(k, Open) /\ ~Starts(k, Close)
      <4>1. BlockEnd[k][d] = BlockEnd[k + 1][d]  BY BlockEndCases, <2>3, <3>7
      <4> QED BY <4>1, <3>1, <3>3, <1>1
    <3> QED BY <3>5, <3>6, <3>7
  <2> QED BY <1>1, <2>1, <2>2, <2>3
<1>3. \A k \in Nat : k \in Good
  <2>1. UpRank \in [Nat -> Nat]  BY UpRankFacts
  <2> HIDE DEF Good
  <2> QED BY <1>2, <2>1, RankInduction
<1> QED BY <1>3

(* The characters that decide the scans are not one another. *)
LEMMA Characters ==
  /\ NoChar # "#" /\ NoChar # Quote /\ NoChar # "\n" /\ NoChar # "\\" /\ NoChar # "."
  /\ NoChar # "?" /\ NoChar # "-" /\ NoChar # "|"
  /\ ~IsBlank(NoChar) /\ ~IsBlank("#") /\ ~IsBlank(Quote)
  /\ ~IsWordStart(NoChar) /\ ~IsWordStart("#") /\ ~IsWordStart(Quote)
  /\ Quote # "#" /\ Quote # "\\" /\ Quote # "." /\ Quote # "?"
  /\ Quote # "|" /\ Quote # ">" /\ Quote # "-" /\ Quote # "("
  /\ ~IsDigit(NoChar) /\ ~IsDigit("#") /\ ~IsDigit(Quote)
BY SMT DEF NoChar, IsBlank, IsWordStart, WordStarts, IsDigit, Digits, Quote

(* Min takes the least element. *)
LEMMA LeastOf ==
  ASSUME NEW T \in SUBSET Nat, T # {}
  PROVE  Min(T) \in T /\ \A j \in T : Min(T) <= j
BY LeastElement, Zenon DEF Min

(* The scan for the first place whose character is none of these. *)
LEMMA WhileStops ==
  ASSUME IsText, NEW chars, NEW k \in 1 .. Size + 1
  PROVE  /\ While(k, chars) \in k .. Size + 1
         /\ \A j \in k .. While(k, chars) - 1 : CharAt(j) \in chars
         /\ While(k, chars) <= Size => CharAt(While(k, chars)) \notin chars
<1> DEFINE T == {j \in k .. Size + 1 : j = Size + 1 \/ input[j] \notin chars}
<1>1. Size \in Nat  BY SizeIsNat
<1>2. T \in SUBSET Nat /\ T # {}
  <2>1. Size + 1 \in T  BY <1>1
  <2> QED BY <1>1, <2>1
<1>3. Min(T) \in T /\ \A j \in T : Min(T) <= j
  <2> HIDE DEF T
  <2> QED BY <1>2, LeastOf
<1>4. Min(T) \in k .. Size + 1 /\ (Min(T) <= Size => input[Min(T)] \notin chars)
  BY <1>1, <1>3
<1>5. ASSUME NEW j \in k .. Min(T) - 1 PROVE CharAt(j) \in chars
  <2>1. j \in 1 .. Size /\ j \in k .. Size + 1 /\ ~(Min(T) <= j) /\ j # Size + 1  BY <1>1, <1>4
  <2>2. j \notin T
    <3> HIDE DEF T
    <3> QED BY <1>3, <2>1
  <2>3. input[j] \in chars  BY <2>1, <2>2
  <2> QED BY <2>1, <2>3 DEF CharAt
<1>6. Min(T) <= Size => Min(T) \in 1 .. Size
  BY <1>1, <1>4
<1>7. While(k, chars) = Min(T)
  BY Zenon DEF While
<1> HIDE DEF T
<1> QED BY <1>4, <1>5, <1>6, <1>7 DEF CharAt

(* A line ends at its own place or further on, and in the text. *)
LEMMA LineEnds ==
  ASSUME IsText, NEW k \in 1 .. Size
  PROVE  LineEnd(k) \in k .. Size + 1 /\ (CharAt(k) # "\n" => LineEnd(k) > k)
<1> DEFINE T == {j \in k .. Size + 1 : j = Size + 1 \/ input[j] = "\n"}
<1>1. Size \in Nat  BY SizeIsNat
<1>2. T \in SUBSET Nat /\ T # {}
  <2>1. Size + 1 \in T  BY <1>1
  <2> QED BY <1>1, <2>1
<1>3. Min(T) \in T
  <2> HIDE DEF T
  <2> QED BY <1>2, LeastOf
<1>4. Min(T) \in k .. Size + 1 /\ (Min(T) <= Size => input[Min(T)] = "\n")
  BY <1>1, <1>3
<1>5. CharAt(k) # "\n" => Min(T) # k
  <2> HIDE DEF T
  <2> QED BY <1>1, <1>4 DEF CharAt
<1>6. LineEnd(k) = Min(T)
  BY Zenon DEF LineEnd
<1> HIDE DEF T
<1> QED BY <1>1, <1>4, <1>5, <1>6

(* A comment ends behind its mark, and in the text. *)
LEMMA CommentEnds ==
  ASSUME IsText, NEW k \in 1 .. Size, CharAt(k) = "#"
  PROVE  /\ CommentEnd(k) \in Nat
         /\ CommentEnd(k) # 0 => CommentEnd(k) > k /\ CommentEnd(k) <= Size + 1
<1>1. Size \in Nat  BY SizeIsNat
<1>2. CASE Starts(k, Open)
  <2>1. k + 2 \in Nat /\ 1 \in Nat /\ 1 > 0  OBVIOUS
  <2>2. CommentEnd(k) = BlockEnd[k + 2][1]  BY <1>2 DEF CommentEnd
  <2>3. BlockEnd[k + 2][1] \in Nat /\ (BlockEnd[k + 2][1] # 0 => BlockEnd[k + 2][1] > k + 2
          /\ BlockEnd[k + 2][1] <= Size + 1)
    BY <2>1, BlockEnds
  <2> QED BY <1>1, <2>2, <2>3
<1>3. CASE ~Starts(k, Open)
  <2>1. CommentEnd(k) = LineEnd(k)  BY <1>3 DEF CommentEnd
  <2>2. CharAt(k) # "\n"  OBVIOUS
  <2> QED BY <1>1, <2>1, <2>2, LineEnds
<1> QED BY <1>2, <1>3

(* One step of the scan for the end of a string. *)
StringBody(f, k) ==
  CASE k > Size -> 0
    [] CharAt(k) = Quote -> k + 1
    [] CharAt(k) = "\\" /\ k < Size -> f[k + 2]
    [] OTHER -> f[k + 1]

(* StringEnd satisfies its equation. *)
LEMMA StringEndUnfolds ==
  ASSUME IsText
  PROVE  \A k \in Nat : StringEnd[k] = StringBody(StringEnd, k)
<1> DEFINE S == Nat
           step == [k \in Nat |-> [f \in [Nat -> S] |-> StringBody(f, k)]]
<1>1. Size \in Nat  BY SizeIsNat
<1>2. ASSUME NEW k \in Nat, NEW f \in [Nat -> Nat], NEW g \in [Nat -> Nat],
             \A j \in Nat : UpRank[j] < UpRank[k] => f[j] = g[j]
      PROVE  StringBody(f, k) = StringBody(g, k)
  <2>1. CASE k > Size
    <3>1. CharAt(k) = NoChar  BY <1>1, <2>1 DEF CharAt
    <3> QED BY <2>1, <3>1, Characters DEF StringBody
  <2>2. CASE k <= Size
    <3>1. k + 1 \in Nat /\ k + 1 > k /\ k + 2 \in Nat /\ k + 2 > k  OBVIOUS
    <3>2. UpRank[k + 1] < UpRank[k] /\ UpRank[k + 2] < UpRank[k]  BY <2>2, <3>1, UpRankFacts
    <3>3. f[k + 1] = g[k + 1] /\ f[k + 2] = g[k + 2]  BY <3>1, <3>2, <1>2
    <3> QED BY <3>3, Zenon DEF StringBody
  <2> QED BY <1>1, <2>1, <2>2
<1>3. ASSUME NEW k \in Nat, NEW f \in [Nat -> Nat] PROVE StringBody(f, k) \in Nat
  <2>1. StringBody(f, k) \in {0, k + 1, f[k + 2], f[k + 1]}  BY Zenon DEF StringBody
  <2>2. 0 \in Nat /\ k + 1 \in Nat /\ f[k + 2] \in Nat /\ f[k + 1] \in Nat
    <3>1. k + 1 \in Nat /\ k + 2 \in Nat  OBVIOUS
    <3> QED BY <3>1
  <2> QED BY <2>1, <2>2, Zenon
<1>4. LooksDown(Nat, S, Size + 1, UpRank, step)
  <2>1. step \in [Nat -> [[Nat -> S] -> S]]  BY <1>3
  <2>2. \A k \in Nat : \A f, g \in [Nat -> S] :
          (\A j \in Nat : UpRank[j] < UpRank[k] => f[j] = g[j]) => step[k][f] = step[k][g]
    <3>1. \A k \in Nat : \A f, g \in [Nat -> S] :
          (\A j \in Nat : UpRank[j] < UpRank[k] => f[j] = g[j])
            => StringBody(f, k) = StringBody(g, k)
      BY <1>2
    <3> HIDE DEF S
    <3> QED BY <3>1
  <2>3. S # {} /\ Size + 1 \in Nat  BY <1>1
  <2> HIDE DEF S, step
  <2> QED BY <2>1, <2>2, <2>3, UpRankFacts DEF LooksDown
<1>5. PICK f \in [Nat -> S] : \A k \in Nat : f[k] = step[k][f]
  <2> HIDE DEF step, S
  <2> QED BY <1>4, Recursion
<1>6. f = [k \in Nat |-> StringBody(f, k)]
  BY <1>5
<1>7. StringEnd = [k \in Nat |-> StringBody(StringEnd, k)]
  BY <1>6 DEF StringEnd, StringBody, Quote
<1> QED BY <1>7

(* The cases of StringEnd. *)
LEMMA StringEndCases ==
  ASSUME IsText, NEW k \in Nat
  PROVE  /\ k > Size => StringEnd[k] = 0
         /\ k <= Size => StringEnd[k] \in {k + 1, StringEnd[k + 2], StringEnd[k + 1]}
         /\ k <= Size /\ StringEnd[k] \notin {StringEnd[k + 2], StringEnd[k + 1]} => k + 1 <= Size + 1
<1>1. Size \in Nat  BY SizeIsNat
<1>2. (k > Size <=> ~(k <= Size)) /\ k + 1 <= Size + 1 <=> k <= Size
  BY <1>1
<1>3. k > Size => CharAt(k) = NoChar
  BY <1>1 DEF CharAt
<1>4. StringEnd[k] = StringBody(StringEnd, k)
  BY StringEndUnfolds
<1> QED BY <1>2, <1>3, <1>4, Characters DEF StringBody

(* A string ends behind the place where its end is looked for. *)
LEMMA StringEnds ==
  ASSUME IsText
  PROVE  \A k \in Nat :
           /\ StringEnd[k] \in Nat
           /\ StringEnd[k] # 0 => StringEnd[k] > k /\ StringEnd[k] <= Size + 1
<1> DEFINE P(k) == StringEnd[k] \in Nat
                     /\ (StringEnd[k] # 0 => StringEnd[k] > k /\ StringEnd[k] <= Size + 1)
           Good == {k \in Nat : P(k)}
<1>1. Size \in Nat  BY SizeIsNat
<1>2. ASSUME NEW k \in Nat, \A j \in Nat : UpRank[j] < UpRank[k] => j \in Good
      PROVE  k \in Good
  <2>1. CASE k > Size
    BY <1>1, <2>1, StringEndCases
  <2>2. CASE k <= Size
    <3>1. k + 1 \in Nat /\ k + 1 > k /\ k + 2 \in Nat /\ k + 2 > k  OBVIOUS
    <3>2. UpRank[k + 1] < UpRank[k] /\ UpRank[k + 2] < UpRank[k]  BY <2>2, <3>1, UpRankFacts
    <3>3. P(k + 1) /\ P(k + 2)
      <4> HIDE DEF P
      <4> QED BY <1>2, <3>1, <3>2
    <3> QED BY <1>1, <2>2, <3>3, StringEndCases
  <2> QED BY <1>1, <2>1, <2>2
<1>3. \A k \in Nat : k \in Good
  <2>1. UpRank \in [Nat -> Nat]  BY UpRankFacts
  <2> HIDE DEF Good
  <2> QED BY <1>2, <2>1, RankInduction
<1> QED BY <1>3

(* As UpRank, with the place of no end below all others. *)
SkipRank == [k \in Nat |-> IF k = 0 THEN 0 ELSE IF k > Size THEN 1 ELSE Size + 2 - k]

(* Skipping falls in rank, also where it ends in an error. *)
LEMMA SkipRankFacts ==
  ASSUME IsText
  PROVE  /\ SkipRank \in [Nat -> Nat]
         /\ SkipRank \in [Nat -> 0 .. Size + 2]
         /\ \A j, k \in Nat : k \in 1 .. Size /\ (j > k \/ j = 0) => SkipRank[j] < SkipRank[k]
<1>1. Size \in Nat  BY SizeIsNat
<1> QED BY <1>1 DEF SkipRank

(* One step of skip_whitespace_and_comments. *)
SkipBody(f, k) ==
  CASE k = 0 -> 0
    [] IsBlank(CharAt(k)) -> f[k + 1]
    [] CharAt(k) = "#" -> f[CommentEnd(k)]
    [] OTHER -> k

(* What is read at a place tells whether it is in the text. *)
LEMMA InText ==
  ASSUME IsText, NEW k \in Nat
  PROVE  /\ k = 0 \/ k > Size => CharAt(k) = NoChar
         /\ k # 0 /\ k <= Size => k \in 1 .. Size /\ CharAt(k) = input[k]
         /\ CharAt(k) # NoChar => k \in 1 .. Size
<1>1. Size \in Nat  BY SizeIsNat
<1> QED BY <1>1 DEF CharAt

(* Skipped satisfies its equation. *)
LEMMA SkippedUnfolds ==
  ASSUME IsText
  PROVE  \A k \in Nat : Skipped[k] = SkipBody(Skipped, k)
<1> DEFINE S == Nat
           step == [k \in Nat |-> [f \in [Nat -> S] |-> SkipBody(f, k)]]
<1>1. Size \in Nat  BY SizeIsNat
<1>2. ASSUME NEW k \in Nat, NEW f \in [Nat -> Nat], NEW g \in [Nat -> Nat],
             \A j \in Nat : SkipRank[j] < SkipRank[k] => f[j] = g[j]
      PROVE  SkipBody(f, k) = SkipBody(g, k)
  <2>1. CASE k = 0 \/ k > Size
    <3>1. CharAt(k) = NoChar  BY <2>1, InText
    <3> QED BY <3>1, Characters, Zenon DEF SkipBody
  <2>2. CASE k # 0 /\ k <= Size
    <3>1. k + 1 \in Nat /\ k + 1 > k /\ k \in 1 .. Size  BY <1>1, <2>2
    <3>2. SkipRank[k + 1] < SkipRank[k]  BY <3>1, SkipRankFacts
    <3>3. f[k + 1] = g[k + 1]  BY <3>1, <3>2, <1>2
    <3>4. ASSUME CharAt(k) = "#" PROVE f[CommentEnd(k)] = g[CommentEnd(k)]
      <4>1. CommentEnd(k) \in Nat /\ (CommentEnd(k) > k \/ CommentEnd(k) = 0)
        BY <3>1, <3>4, CommentEnds
      <4>2. SkipRank[CommentEnd(k)] < SkipRank[k]  BY <3>1, <4>1, SkipRankFacts
      <4> QED BY <4>1, <4>2, <1>2
    <3>5. CASE CharAt(k) = "#"
      BY <3>3, <3>4, <3>5, Characters, Zenon DEF SkipBody
    <3>6. CASE CharAt(k) # "#"
      <4>1. CASE IsBlank(CharAt(k))
        BY <2>2, <3>3, <3>6, <4>1, Zenon DEF SkipBody
      <4>2. CASE ~IsBlank(CharAt(k))
        BY <2>2, <3>6, <4>2, Zenon DEF SkipBody
      <4> QED BY <4>1, <4>2
    <3> QED BY <3>5, <3>6
  <2> QED BY <1>1, <2>1, <2>2
<1>3. ASSUME NEW k \in Nat, NEW f \in [Nat -> Nat] PROVE SkipBody(f, k) \in Nat
  <2>1. k + 1 \in Nat /\ f[k + 1] \in Nat  OBVIOUS
  <2>2. CASE CharAt(k) = "#"
    <3>1. k \in 1 .. Size  BY <2>2, InText, Characters
    <3>2. CommentEnd(k) \in Nat  BY <3>1, <2>2, CommentEnds
    <3>3. f[CommentEnd(k)] \in Nat  BY <3>2
    <3>4. SkipBody(f, k) \in {0, k, f[k + 1], f[CommentEnd(k)]}  BY Zenon DEF SkipBody
    <3> QED BY <2>1, <3>3, <3>4
  <2>3. CASE CharAt(k) # "#"
    <3>1. SkipBody(f, k) \in {0, k, f[k + 1]}  BY <2>3, Zenon DEF SkipBody
    <3> QED BY <2>1, <3>1
  <2> QED BY <2>2, <2>3
<1>4. LooksDown(Nat, S, Size + 2, SkipRank, step)
  <2>1. step \in [Nat -> [[Nat -> S] -> S]]  BY <1>3
  <2>2. \A k \in Nat : \A f, g \in [Nat -> S] :
          (\A j \in Nat : SkipRank[j] < SkipRank[k] => f[j] = g[j]) => step[k][f] = step[k][g]
    <3>1. \A k \in Nat : \A f, g \in [Nat -> S] :
          (\A j \in Nat : SkipRank[j] < SkipRank[k] => f[j] = g[j])
            => SkipBody(f, k) = SkipBody(g, k)
      BY <1>2
    <3> HIDE DEF S
    <3> QED BY <3>1
  <2>3. S # {} /\ Size + 2 \in Nat  BY <1>1
  <2> HIDE DEF S, step
  <2> QED BY <2>1, <2>2, <2>3, SkipRankFacts DEF LooksDown
<1>5. PICK f \in [Nat -> S] : \A k \in Nat : f[k] = step[k][f]
  <2> HIDE DEF step, S
  <2> QED BY <1>4, Recursion
<1>6. f = [k \in Nat |-> SkipBody(f, k)]
  BY <1>5
<1>7. Skipped = [k \in Nat |-> SkipBody(Skipped, k)]
  BY <1>6 DEF Skipped, SkipBody
<1> QED BY <1>7

(* The cases of Skipped. *)
LEMMA SkippedCases ==
  ASSUME IsText, NEW k \in Nat
  PROVE  /\ k = 0 => Skipped[k] = 0
         /\ IsBlank(CharAt(k)) => Skipped[k] = Skipped[k + 1]
         /\ CharAt(k) = "#" => Skipped[k] = Skipped[CommentEnd(k)]
         /\ k # 0 /\ ~IsBlank(CharAt(k)) /\ CharAt(k) # "#" => Skipped[k] = k
<1>1. k = 0 => CharAt(k) = NoChar
  BY InText
<1>2. Skipped[k] = SkipBody(Skipped, k)
  BY SkippedUnfolds
<1>3. k = 0 => ~IsBlank(CharAt(k)) /\ CharAt(k) # "#"
  BY <1>1, Characters
<1>4. ~(IsBlank(CharAt(k)) /\ CharAt(k) = "#")
  BY Characters
<1> QED BY <1>2, <1>3, <1>4, Zenon DEF SkipBody

(* A scan that goes on to the end of the text where there is no end stays  *)
(* in the text.                                                            *)
LEMMA EndsOrAll ==
  ASSUME IsText, NEW k \in 1 .. Size
  PROVE  /\ CharAt(k) = "#" => EndOrAll(CommentEnd(k)) \in k + 1 .. Size + 1
         /\ EndOrAll(StringEnd[k + 1]) \in k + 1 .. Size + 1
<1>1. Size \in Nat  BY SizeIsNat
<1>2. k + 1 \in Nat  OBVIOUS
<1> QED BY <1>1, <1>2, CommentEnds, StringEnds DEF EndOrAll

(* The spans of a text. *)
Spans == [place : Nat, end : Nat]

(* One step of collect_comment_tokens. *)
CommentBody(f, k) ==
  CASE k > Size -> << >>
    [] CharAt(k) = Quote -> f[EndOrAll(StringEnd[k + 1])]
    [] CharAt(k) = "#" ->
         <<Span(k, EndOrAll(CommentEnd(k)))>> \o f[EndOrAll(CommentEnd(k))]
    [] OTHER -> f[k + 1]

(* The step looks only at places further on. *)
LEMMA CommentBodyIsLocal ==
  ASSUME IsText, NEW k \in Nat, NEW f \in [Nat -> Seq(Spans)], NEW g \in [Nat -> Seq(Spans)],
         \A j \in Nat : UpRank[j] < UpRank[k] => f[j] = g[j]
  PROVE  CommentBody(f, k) = CommentBody(g, k) /\ CommentBody(f, k) \in Seq(Spans)
<1>1. Size \in Nat  BY SizeIsNat
<1>2. CASE k > Size
  <2>1. CharAt(k) = NoChar  BY <1>2, InText
  <2>2. ~(CharAt(k) = Quote) /\ ~(CharAt(k) = "#")  BY <2>1, Characters
  <2>3. CommentBody(f, k) = << >> /\ CommentBody(g, k) = << >>
    BY <1>2, <2>2, Zenon DEF CommentBody
  <2> QED BY <2>3
<1>3. CASE k <= Size
  <2>1. k + 1 \in Nat /\ k + 1 > k /\ ~(k > Size)  BY <1>1, <1>3
  <2>2. UpRank[k + 1] < UpRank[k]  BY <1>3, <2>1, UpRankFacts
  <2>3. f[k + 1] = g[k + 1] /\ f[k + 1] \in Seq(Spans)  BY <2>1, <2>2
  <2>4. CASE CharAt(k) = Quote
    <3>1. k \in 1 .. Size  BY <2>4, InText, Characters
    <3> DEFINE e == EndOrAll(StringEnd[k + 1])
    <3>2. e \in Nat /\ e > k  BY <1>1, <3>1, EndsOrAll
    <3> HIDE DEF e
    <3>3. UpRank[e] < UpRank[k]  BY <1>3, <3>2, UpRankFacts
    <3>4. f[e] = g[e] /\ f[e] \in Seq(Spans)  BY <3>2, <3>3
    <3>5. ~(CharAt(k) = "#")  BY <2>4, Characters
    <3>6. CommentBody(f, k) = f[e] /\ CommentBody(g, k) = g[e]
      BY <2>1, <2>4, <3>5, Zenon DEF CommentBody, e
    <3> QED BY <3>4, <3>6
  <2>5. CASE CharAt(k) = "#"
    <3>1. k \in 1 .. Size  BY <2>5, InText, Characters
    <3> DEFINE e == EndOrAll(CommentEnd(k))
    <3>2. e \in Nat /\ e > k
      <4>1. e \in k + 1 .. Size + 1  BY <2>5, <3>1, EndsOrAll
      <4> HIDE DEF e
      <4> QED BY <1>1, <4>1
    <3> HIDE DEF e
    <3>3. UpRank[e] < UpRank[k]  BY <1>3, <3>2, UpRankFacts
    <3>4. f[e] = g[e] /\ f[e] \in Seq(Spans)  BY <3>2, <3>3
    <3>5. ~(CharAt(k) = Quote)  BY <2>5, Characters
    <3>6. CommentBody(f, k) = <<Span(k, e)>> \o f[e] /\ CommentBody(g, k) = <<Span(k, e)>> \o g[e]
      BY <2>1, <2>5, <3>5, Zenon DEF CommentBody, e
    <3>7. <<Span(k, e)>> \in Seq(Spans)  BY <3>2 DEF Span, Spans
    <3>8. <<Span(k, e)>> \o f[e] \in Seq(Spans)  BY <3>4, <3>7
    <3> QED BY <3>4, <3>6, <3>8
  <2>6. CASE ~(CharAt(k) = Quote) /\ ~(CharAt(k) = "#")
    <3>1. CommentBody(f, k) = f[k + 1] /\ CommentBody(g, k) = g[k + 1]
      BY <2>1, <2>6, Zenon DEF CommentBody
    <3> QED BY <2>3, <3>1
  <2> QED BY <2>4, <2>5, <2>6
<1> QED BY <1>1, <1>2, <1>3

(* CommentsFrom satisfies its equation. *)
LEMMA CommentsFromUnfolds ==
  ASSUME IsText
  PROVE  \A k \in Nat : CommentsFrom[k] = CommentBody(CommentsFrom, k)
<1> DEFINE S == Seq(Spans)
           step == [k \in Nat |-> [f \in [Nat -> S] |-> CommentBody(f, k)]]
<1>1. \A k \in Nat : \A f, g \in [Nat -> S] :
        (\A j \in Nat : UpRank[j] < UpRank[k] => f[j] = g[j])
          => CommentBody(f, k) = CommentBody(g, k) /\ CommentBody(f, k) \in S
  BY CommentBodyIsLocal
<1>2. S # {} /\ Size + 1 \in Nat
  <2>1. << >> \in S  OBVIOUS
  <2> HIDE DEF S
  <2> QED BY <2>1, SizeIsNat
<1>3. step \in [Nat -> [[Nat -> S] -> S]]
  <2> HIDE DEF S
  <2> QED BY <1>1
<1>4. LooksDown(Nat, S, Size + 1, UpRank, step)
  <2> HIDE DEF S
  <2> QED BY <1>1, <1>2, <1>3, UpRankFacts DEF LooksDown
<1>5. PICK f \in [Nat -> S] : \A k \in Nat : f[k] = step[k][f]
  <2> HIDE DEF S, step
  <2> QED BY <1>4, Recursion
<1>6. f = [k \in Nat |-> CommentBody(f, k)]
  <2> HIDE DEF S
  <2> QED BY <1>5
<1>7. \E h : h = [k \in Nat |-> CommentBody(h, k)]
  BY <1>6
<1>8. CommentsFrom = [k \in Nat |-> CommentBody(CommentsFrom, k)]
  BY <1>7, Zenon DEF CommentsFrom, CommentBody, Quote
<1> QED BY <1>8

(* The cases of CommentsFrom. *)
LEMMA CommentsFromCases ==
  ASSUME IsText, NEW k \in Nat
  PROVE  /\ k > Size => CommentsFrom[k] = << >>
         /\ CharAt(k) = Quote => CommentsFrom[k] = CommentsFrom[EndOrAll(StringEnd[k + 1])]
         /\ CharAt(k) = "#" =>
              CommentsFrom[k] = <<Span(k, EndOrAll(CommentEnd(k)))>>
                                  \o CommentsFrom[EndOrAll(CommentEnd(k))]
         /\ k <= Size /\ CharAt(k) # Quote /\ CharAt(k) # "#" => CommentsFrom[k] = CommentsFrom[k + 1]
<1>1. CommentsFrom[k] = CommentBody(CommentsFrom, k)
  BY CommentsFromUnfolds
<1>2. k > Size => CharAt(k) # Quote /\ CharAt(k) # "#"
  BY InText, Characters
<1>3. k <= Size => ~(k > Size)
  BY SizeIsNat
<1>4. Quote # "#"
  BY Characters
<1>5. ASSUME k > Size PROVE CommentsFrom[k] = << >>
  BY <1>1, <1>2, <1>5, Zenon DEF CommentBody
<1>6. ASSUME CharAt(k) = Quote PROVE CommentsFrom[k] = CommentsFrom[EndOrAll(StringEnd[k + 1])]
  BY <1>1, <1>2, <1>4, <1>6, Zenon DEF CommentBody
<1>7. ASSUME CharAt(k) = "#"
      PROVE  CommentsFrom[k] = <<Span(k, EndOrAll(CommentEnd(k)))>>
                                  \o CommentsFrom[EndOrAll(CommentEnd(k))]
  BY <1>1, <1>2, <1>4, <1>7, Zenon DEF CommentBody
<1>8. ASSUME k <= Size, CharAt(k) # Quote, CharAt(k) # "#"
      PROVE  CommentsFrom[k] = CommentsFrom[k + 1]
  BY <1>1, <1>3, <1>8, Zenon DEF CommentBody
<1> QED BY <1>5, <1>6, <1>7, <1>8

(* The comments from any place on are a sequence of spans. *)
LEMMA CommentsAreSpans ==
  ASSUME IsText
  PROVE  \A k \in Nat : CommentsFrom[k] \in Seq(Spans)
<1> DEFINE S == Seq(Spans)
           Good == {k \in Nat : CommentsFrom[k] \in S}
<1>1. ASSUME NEW k \in Nat, \A j \in Nat : UpRank[j] < UpRank[k] => j \in Good
      PROVE  k \in Good
  <2>0. Size \in Nat  BY SizeIsNat
  <2>1. \A j \in Nat : k <= Size /\ j > k => CommentsFrom[j] \in S
    <3> HIDE DEF S
    <3> QED BY <1>1, UpRankFacts
  <2>2. CASE k > Size
    <3>1. << >> \in S  OBVIOUS
    <3> HIDE DEF S
    <3> QED BY <2>2, <3>1, CommentsFromCases
  <2>3. CASE k <= Size /\ CharAt(k) = Quote
    <3>1. k \in 1 .. Size  BY <2>3, InText, Characters
    <3>2. EndOrAll(StringEnd[k + 1]) \in Nat /\ EndOrAll(StringEnd[k + 1]) > k
      BY <2>0, <3>1, EndsOrAll
    <3> HIDE DEF S
    <3> QED BY <2>1, <2>3, <3>2, CommentsFromCases
  <2>4. CASE k <= Size /\ CharAt(k) = "#"
    <3>1. k \in 1 .. Size  BY <2>4, InText, Characters
    <3> DEFINE e == EndOrAll(CommentEnd(k))
    <3>2. e \in Nat /\ e > k
      BY <2>0, <2>4, <3>1, EndsOrAll
    <3> HIDE DEF e
    <3>3. CommentsFrom[e] \in Seq(Spans)  BY <2>1, <2>4, <3>2
    <3>4. <<Span(k, e)>> \in Seq(Spans)  BY <3>2 DEF Span, Spans
    <3>5. CommentsFrom[k] = <<Span(k, e)>> \o CommentsFrom[e]
      BY <2>4, CommentsFromCases DEF e
    <3>6. <<Span(k, e)>> \o CommentsFrom[e] \in S  BY <3>3, <3>4
    <3> HIDE DEF S
    <3> QED BY <3>5, <3>6
  <2>5. CASE k <= Size /\ CharAt(k) # Quote /\ CharAt(k) # "#"
    <3>1. k + 1 \in Nat /\ k + 1 > k  OBVIOUS
    <3> HIDE DEF S
    <3> QED BY <2>1, <2>5, <3>1, CommentsFromCases
  <2>6. k > Size \/ k <= Size  BY <2>0
  <2> HIDE DEF Good
  <2> QED BY <2>2, <2>3, <2>4, <2>5, <2>6
<1>2. \A k \in Nat : k \in Good
  <2>1. UpRank \in [Nat -> Nat]  BY UpRankFacts
  <2> HIDE DEF Good
  <2> QED BY <1>1, <2>1, RankInduction
<1> QED BY <1>2

(* The comments from a place on, as a set. *)
Ahead(k) == Range(CommentsFrom[k])

(* The cases of CommentsFrom, as sets. *)
LEMMA AheadCases ==
  ASSUME IsText, NEW k \in Nat
  PROVE  /\ k > Size => Ahead(k) = {}
         /\ CharAt(k) = Quote => Ahead(k) = Ahead(EndOrAll(StringEnd[k + 1]))
         /\ CharAt(k) = "#" =>
              Ahead(k) = {Span(k, EndOrAll(CommentEnd(k)))} \cup Ahead(EndOrAll(CommentEnd(k)))
         /\ k <= Size /\ CharAt(k) # Quote /\ CharAt(k) # "#" => Ahead(k) = Ahead(k + 1)
<1>1. ASSUME k > Size PROVE Ahead(k) = {}
  <2>1. CommentsFrom[k] = << >>  BY <1>1, CommentsFromCases
  <2>2. Range(<< >>) = {}  BY DEF Range
  <2> QED BY <2>1, <2>2 DEF Ahead
<1>2. ASSUME CharAt(k) = "#"
      PROVE  Ahead(k) = {Span(k, EndOrAll(CommentEnd(k)))} \cup Ahead(EndOrAll(CommentEnd(k)))
  <2> DEFINE e == EndOrAll(CommentEnd(k))
  <2>1. k \in 1 .. Size  BY <1>2, InText, Characters
  <2>2. e \in Nat  BY <1>2, <2>1, SizeIsNat, EndsOrAll
  <2>3. CommentsFrom[k] = <<Span(k, e)>> \o CommentsFrom[e]  BY <1>2, CommentsFromCases
  <2> HIDE DEF e
  <2>4. CommentsFrom[e] \in Seq(Spans)  BY <2>2, CommentsAreSpans
  <2>5. \A s \in Seq(Spans) : \A x : Range(<<x>> \o s) = {x} \cup Range(s)
    <3> SUFFICES ASSUME NEW s \in Seq(Spans), NEW x PROVE Range(<<x>> \o s) = {x} \cup Range(s)
      OBVIOUS
    <3>1. DOMAIN (<<x>> \o s) = 1 .. Len(s) + 1 /\ DOMAIN s = 1 .. Len(s) /\ Len(s) \in Nat
      OBVIOUS
    <3>2. (<<x>> \o s)[1] = x /\ \A i \in 1 .. Len(s) : (<<x>> \o s)[i + 1] = s[i]
      OBVIOUS
    <3>3. \A i \in 1 .. Len(s) + 1 : i = 1 \/ i - 1 \in 1 .. Len(s)
      BY <3>1
    <3>4. \A i \in 2 .. Len(s) + 1 : (<<x>> \o s)[i] = s[i - 1]
      OBVIOUS
    <3>5. ASSUME NEW y \in Range(<<x>> \o s) PROVE y \in {x} \cup Range(s)
      <4>1. PICK i \in 1 .. Len(s) + 1 : y = (<<x>> \o s)[i]
        BY <3>1, <3>5, Zenon DEF Range
      <4>2. CASE i = 1
        BY <3>2, <4>1, <4>2
      <4>3. CASE i # 1
        <5>1. i \in 2 .. Len(s) + 1 /\ i - 1 \in 1 .. Len(s)  BY <3>1, <4>1, <4>3
        <5> QED BY <3>1, <3>4, <4>1, <5>1 DEF Range
      <4> QED BY <4>2, <4>3
    <3>6. ASSUME NEW y \in {x} \cup Range(s) PROVE y \in Range(<<x>> \o s)
      <4>1. CASE y = x
        <5>1. 1 \in 1 .. Len(s) + 1  BY <3>1
        <5> QED BY <3>1, <3>2, <4>1, <5>1, Zenon DEF Range
      <4>2. CASE y \in Range(s)
        <5>1. PICK i \in 1 .. Len(s) : y = s[i]  BY <3>1, <4>2, Zenon DEF Range
        <5>2. i + 1 \in 1 .. Len(s) + 1  BY <3>1
        <5> QED BY <3>1, <3>2, <5>1, <5>2, Zenon DEF Range
      <4> QED BY <3>6, <4>1, <4>2
    <3> QED BY <3>5, <3>6
  <2> QED BY <2>3, <2>4, <2>5 DEF Ahead, e
<1> QED BY <1>1, <1>2, CommentsFromCases DEF Ahead

(* What the mask hides of the characters before a place. *)
Hidden(k, end) == {j \in k .. end - 1 : input[j] # "\n"}

(* One step of mask_comments_for_layout. *)
MaskBody(f, k) ==
  CASE k > Size -> {}
    [] CharAt(k) = "#" -> Hidden(k, EndOrAll(CommentEnd(k))) \cup f[EndOrAll(CommentEnd(k))]
    [] OTHER -> f[k + 1]

(* The step looks only at places further on. *)
LEMMA MaskBodyIsLocal ==
  ASSUME IsText, NEW k \in Nat, NEW f \in [Nat -> SUBSET Nat], NEW g \in [Nat -> SUBSET Nat],
         \A j \in Nat : UpRank[j] < UpRank[k] => f[j] = g[j]
  PROVE  MaskBody(f, k) = MaskBody(g, k) /\ MaskBody(f, k) \in SUBSET Nat
<1>1. Size \in Nat  BY SizeIsNat
<1>2. CASE k > Size
  <2>1. CharAt(k) # "#"  BY <1>2, InText, Characters
  <2>2. MaskBody(f, k) = {} /\ MaskBody(g, k) = {}
    BY <1>2, <2>1, Zenon DEF MaskBody
  <2> QED BY <2>2
<1>3. CASE k <= Size
  <2>1. k + 1 \in Nat /\ k + 1 > k /\ ~(k > Size)  BY <1>1, <1>3
  <2>2. UpRank[k + 1] < UpRank[k]  BY <1>3, <2>1, UpRankFacts
  <2>3. f[k + 1] = g[k + 1] /\ f[k + 1] \in SUBSET Nat  BY <2>1, <2>2
  <2>4. CASE CharAt(k) = "#"
    <3>1. k \in 1 .. Size  BY <2>4, InText, Characters
    <3> DEFINE e == EndOrAll(CommentEnd(k))
    <3>2. e \in Nat /\ e > k
      <4>1. e \in k + 1 .. Size + 1  BY <2>4, <3>1, EndsOrAll
      <4> HIDE DEF e
      <4> QED BY <1>1, <4>1
    <3> HIDE DEF e
    <3>3. UpRank[e] < UpRank[k]  BY <1>3, <3>2, UpRankFacts
    <3>4. f[e] = g[e] /\ f[e] \in SUBSET Nat  BY <3>2, <3>3
    <3>5. MaskBody(f, k) = Hidden(k, e) \cup f[e] /\ MaskBody(g, k) = Hidden(k, e) \cup g[e]
      BY <2>1, <2>4, Zenon DEF MaskBody, e
    <3>6. Hidden(k, e) \in SUBSET Nat  BY <3>2 DEF Hidden
    <3> QED BY <3>4, <3>5, <3>6
  <2>5. CASE CharAt(k) # "#"
    <3>1. MaskBody(f, k) = f[k + 1] /\ MaskBody(g, k) = g[k + 1]
      BY <2>1, <2>5, Zenon DEF MaskBody
    <3> QED BY <2>3, <3>1
  <2> QED BY <2>4, <2>5
<1> QED BY <1>1, <1>2, <1>3

(* Masked satisfies its equation. *)
LEMMA MaskedUnfolds ==
  ASSUME IsText
  PROVE  \A k \in Nat : Masked[k] = MaskBody(Masked, k)
<1> DEFINE S == SUBSET Nat
           step == [k \in Nat |-> [f \in [Nat -> S] |-> MaskBody(f, k)]]
<1>1. \A k \in Nat : \A f, g \in [Nat -> S] :
        (\A j \in Nat : UpRank[j] < UpRank[k] => f[j] = g[j])
          => MaskBody(f, k) = MaskBody(g, k) /\ MaskBody(f, k) \in S
  BY MaskBodyIsLocal
<1>2. S # {} /\ Size + 1 \in Nat
  <2>1. {} \in S  OBVIOUS
  <2> HIDE DEF S
  <2> QED BY <2>1, SizeIsNat
<1>3. step \in [Nat -> [[Nat -> S] -> S]]
  <2> HIDE DEF S
  <2> QED BY <1>1
<1>4. LooksDown(Nat, S, Size + 1, UpRank, step)
  <2> HIDE DEF S
  <2> QED BY <1>1, <1>2, <1>3, UpRankFacts DEF LooksDown
<1>5. PICK f \in [Nat -> S] : \A k \in Nat : f[k] = step[k][f]
  <2> HIDE DEF S, step
  <2> QED BY <1>4, Recursion
<1>6. f = [k \in Nat |-> MaskBody(f, k)]
  <2> HIDE DEF S
  <2> QED BY <1>5
<1>7. \E h : h = [k \in Nat |-> MaskBody(h, k)]
  BY <1>6
<1>8. Masked = [k \in Nat |-> MaskBody(Masked, k)]
  BY <1>7, Zenon DEF Masked, MaskBody, Hidden
<1> QED BY <1>8

(* The cases of Masked. *)
LEMMA MaskedCases ==
  ASSUME IsText, NEW k \in Nat
  PROVE  /\ k > Size => Masked[k] = {}
         /\ CharAt(k) = "#" =>
              Masked[k] = Hidden(k, EndOrAll(CommentEnd(k))) \cup Masked[EndOrAll(CommentEnd(k))]
         /\ k <= Size /\ CharAt(k) # "#" => Masked[k] = Masked[k + 1]
<1>1. Masked[k] = MaskBody(Masked, k)
  BY MaskedUnfolds
<1>2. k > Size => CharAt(k) # "#"
  BY InText, Characters
<1>3. k <= Size => ~(k > Size)
  BY SizeIsNat
<1>5. ASSUME k > Size PROVE Masked[k] = {}
  BY <1>1, <1>2, <1>5, Zenon DEF MaskBody
<1>7. ASSUME CharAt(k) = "#"
      PROVE  Masked[k] = Hidden(k, EndOrAll(CommentEnd(k))) \cup Masked[EndOrAll(CommentEnd(k))]
  BY <1>1, <1>2, <1>7, Zenon DEF MaskBody
<1>8. ASSUME k <= Size, CharAt(k) # "#" PROVE Masked[k] = Masked[k + 1]
  BY <1>1, <1>3, <1>8, Zenon DEF MaskBody
<1> QED BY <1>5, <1>7, <1>8

(* Where there is no mark of a comment (and no string) nothing is found    *)
(* and nothing hidden.                                                     *)
LEMMA PlainComments ==
  ASSUME IsText, NEW b \in 1 .. Size + 1
  PROVE  \A a \in 1 .. b :
           /\ (\A j \in a .. b - 1 : (CharAt(j) # "#" /\ CharAt(j) # Quote)) => Ahead(a) = Ahead(b)
           /\ (\A j \in a .. b - 1 : CharAt(j) # "#") => Masked[a] = Masked[b]
<1> DEFINE P(a) ==
        a \in 1 .. b =>
           /\ (\A j \in a .. b - 1 : (CharAt(j) # "#" /\ CharAt(j) # Quote)) => Ahead(a) = Ahead(b)
           /\ (\A j \in a .. b - 1 : CharAt(j) # "#") => Masked[a] = Masked[b]
           Good == {a \in Nat : P(a)}
<1>0. Size \in Nat  BY SizeIsNat
<1>1. ASSUME NEW a \in Nat, \A j \in Nat : UpRank[j] < UpRank[a] => j \in Good
      PROVE  a \in Good
  <2> SUFFICES ASSUME a \in 1 .. b PROVE P(a)  OBVIOUS
  <2>1. CASE a = b
    BY <2>1
  <2>2. CASE a # b
    <3>1. a + 1 \in 1 .. b /\ a + 1 \in Nat /\ a + 1 > a /\ a <= Size /\ a \in a .. b - 1
      BY <1>0, <2>2
    <3>2. UpRank[a + 1] < UpRank[a]  BY <3>1, UpRankFacts
    <3>3. P(a + 1)
      <4> HIDE DEF P
      <4> QED BY <1>1, <3>1, <3>2
    <3>4. \A j \in a + 1 .. b - 1 : j \in a .. b - 1  OBVIOUS
    <3>5. ASSUME \A j \in a .. b - 1 : (CharAt(j) # "#" /\ CharAt(j) # Quote) PROVE Ahead(a) = Ahead(b)
      <4>1. CharAt(a) # "#" /\ CharAt(a) # Quote  BY <3>1, <3>5
      <4>2. Ahead(a) = Ahead(a + 1)  BY <3>1, <4>1, AheadCases
      <4>3. Ahead(a + 1) = Ahead(b)  BY <3>1, <3>3, <3>4, <3>5
      <4> QED BY <4>2, <4>3
    <3>6. ASSUME \A j \in a .. b - 1 : CharAt(j) # "#" PROVE Masked[a] = Masked[b]
      <4>1. CharAt(a) # "#"  BY <3>1, <3>6
      <4>2. Masked[a] = Masked[a + 1]  BY <3>1, <4>1, MaskedCases
      <4>3. Masked[a + 1] = Masked[b]  BY <3>1, <3>3, <3>4, <3>6
      <4> QED BY <4>2, <4>3
    <3> QED BY <3>5, <3>6
  <2> QED BY <2>1, <2>2
<1>2. \A a \in Nat : a \in Good
  <2>1. UpRank \in [Nat -> Nat]  BY UpRankFacts
  <2> HIDE DEF Good
  <2> QED BY <1>1, <2>1, RankInduction
<1> HIDE DEF Good, P
<1>3. ASSUME NEW a \in 1 .. b PROVE P(a)
  <2>1. a \in Nat  BY <1>0
  <2> QED BY <1>2, <2>1 DEF Good
<1> QED BY <1>3 DEF P

(* The spans of X are between a and b, no two of them share a place, and   *)
(* what they leave out is blank.                                           *)
Tiled(X, a, b) ==
  /\ \A s \in X : s \in Spans /\ a <= s.place /\ s.end <= b
  /\ \A s, t \in X : \A k \in Nat : Covers(s, k) /\ Covers(t, k) => s = t
  /\ \A k \in Nat : a <= k /\ k < b => IsBlank(CharAt(k)) \/ \E s \in X : Covers(s, k)

(* What is laid side by side is laid side by side. *)
LEMMA TilesJoin ==
  ASSUME NEW a \in Nat, NEW b \in Nat, NEW c \in Nat, a <= b, b <= c,
         NEW X, NEW Y, Tiled(X, a, b), Tiled(Y, b, c)
  PROVE  Tiled(X \cup Y, a, c)
<1>1. \A s \in X : s.place \in Nat /\ s.end \in Nat /\ s.end <= b
  BY DEF Tiled, Spans
<1>2. \A s \in Y : s.place \in Nat /\ s.end \in Nat /\ b <= s.place
  BY DEF Tiled, Spans
<1>3. ASSUME NEW s \in X, NEW t \in Y, NEW k \in Nat, Covers(s, k), Covers(t, k) PROVE FALSE
  BY <1>1, <1>2, <1>3 DEF Covers
<1>4. ASSUME NEW s \in X \cup Y PROVE s \in Spans /\ a <= s.place /\ s.end <= c
  BY <1>1, <1>2 DEF Tiled
<1>5. ASSUME NEW s \in X \cup Y, NEW t \in X \cup Y, NEW k \in Nat, Covers(s, k), Covers(t, k)
      PROVE  s = t
  <2>1. CASE s \in X /\ t \in X  BY <1>5, <2>1 DEF Tiled
  <2>2. CASE s \in Y /\ t \in Y  BY <1>5, <2>2 DEF Tiled
  <2>3. ~(s \in X /\ t \in Y) /\ ~(s \in Y /\ t \in X)  BY <1>3, <1>5
  <2> QED BY <1>5, <2>1, <2>2, <2>3
<1>6. ASSUME NEW k \in Nat, a <= k, k < c
      PROVE  IsBlank(CharAt(k)) \/ \E s \in X \cup Y : Covers(s, k)
  <2>1. CASE k < b  BY <1>6, <2>1 DEF Tiled
  <2>2. CASE b <= k  BY <1>6, <2>2 DEF Tiled
  <2> QED BY <1>6, <2>1, <2>2
<1> QED BY <1>4, <1>5, <1>6 DEF Tiled

(* A span tiles itself. *)
LEMMA TilesOne ==
  ASSUME NEW k \in Nat, NEW e \in Nat
  PROVE  Tiled({Span(k, e)}, k, e)
<1>1. Span(k, e) \in Spans /\ Span(k, e).place = k /\ Span(k, e).end = e
  BY DEF Span, Spans
<1> QED BY <1>1 DEF Tiled, Covers

(* A blank needs no span. *)
LEMMA TilesNone ==
  ASSUME NEW k \in Nat
  PROVE  Tiled({}, k, k) /\ (IsBlank(CharAt(k)) => Tiled({}, k, k + 1))
<1>1. \A j \in Nat : (k <= j /\ j < k + 1 => j = k) /\ ~(k <= j /\ j < k)
  OBVIOUS
<1> QED BY <1>1, Zenon DEF Tiled

(* The places that spans cover, but for the ends of lines. *)
HiddenIn(G) == {j \in 1 .. Size : input[j] # "\n" /\ \E c \in G : Covers(c, j)}

(* The places hidden are those of each comment. *)
LEMMA HiddenInFacts ==
  ASSUME IsText
  PROVE  /\ HiddenIn({}) = {}
         /\ \A X, Y : HiddenIn(X \cup Y) = HiddenIn(X) \cup HiddenIn(Y)
         /\ \A k \in 1 .. Size + 1, e \in 1 .. Size + 1 : HiddenIn({Span(k, e)}) = Hidden(k, e)
<1>1. Size \in Nat  BY SizeIsNat
<1>2. HiddenIn({}) = {}  BY DEF HiddenIn
<1>3. ASSUME NEW X, NEW Y PROVE HiddenIn(X \cup Y) = HiddenIn(X) \cup HiddenIn(Y)
  BY Zenon DEF HiddenIn
<1>4. ASSUME NEW k \in 1 .. Size + 1, NEW e \in 1 .. Size + 1
      PROVE  HiddenIn({Span(k, e)}) = Hidden(k, e)
  <2>1. \A j \in Nat : Covers(Span(k, e), j) <=> k <= j /\ j < e
    BY DEF Covers, Span
  <2>2. \A j : j \in HiddenIn({Span(k, e)}) <=>
               j \in 1 .. Size /\ input[j] # "\n" /\ Covers(Span(k, e), j)
    BY Zenon DEF HiddenIn
  <2>3. \A j : j \in Hidden(k, e) <=> j \in k .. e - 1 /\ input[j] # "\n"
    BY Zenon DEF Hidden
  <2>4. \A j : j \in k .. e - 1 <=> j \in 1 .. Size /\ k <= j /\ j < e
    BY <1>1
  <2>5. \A j \in 1 .. Size : j \in Nat
    BY <1>1
  <2> QED BY <2>1, <2>2, <2>3, <2>4, <2>5, Zenon
<1> QED BY <1>2, <1>3, <1>4

(* What the lexer passes over from place k to place s: blanks and the      *)
(* comments of G, which the other two scans find there as well.            *)
GapOver(k, s, G) ==
  /\ Tiled(G, k, s)
  /\ Ahead(k) = G \cup Ahead(s)
  /\ Masked[k] = HiddenIn(G) \cup Masked[s]

(* What the lexer passes over is blanks and the comments the other scans   *)
(* find.                                                                   *)
LEMMA Gap ==
  ASSUME IsText
  PROVE  \A k \in 1 .. Size + 1 :
           Skipped[k] # 0 =>
             /\ Skipped[k] \in k .. Size + 1
             /\ Skipped[k] <= Size =>
                  ~IsBlank(CharAt(Skipped[k])) /\ CharAt(Skipped[k]) # "#"
             /\ \E G : GapOver(k, Skipped[k], G)
<1> DEFINE P(k) ==
        k \in 1 .. Size + 1 /\ Skipped[k] # 0 =>
             /\ Skipped[k] \in k .. Size + 1
             /\ Skipped[k] <= Size =>
                  ~IsBlank(CharAt(Skipped[k])) /\ CharAt(Skipped[k]) # "#"
             /\ \E G : GapOver(k, Skipped[k], G)
           Good == {k \in Nat : P(k)}
<1>0. Size \in Nat  BY SizeIsNat
<1>1. ASSUME NEW k \in Nat, \A j \in Nat : UpRank[j] < UpRank[k] => j \in Good
      PROVE  k \in Good
  <2> SUFFICES ASSUME k \in 1 .. Size + 1, Skipped[k] # 0 PROVE P(k)  OBVIOUS
  <2>0. \A j \in Nat : k <= Size /\ j > k => P(j)
    <3> HIDE DEF P
    <3> QED BY <1>1, UpRankFacts
  <2>1. CASE IsBlank(CharAt(k))
    <3>1. k <= Size /\ k + 1 \in 1 .. Size + 1 /\ k + 1 \in Nat /\ k + 1 > k
      <4>1. CharAt(k) # NoChar  BY <2>1, Characters, Zenon
      <4>2. k \in 1 .. Size  BY <4>1, InText
      <4> QED BY <1>0, <4>2
    <3>2. Skipped[k] = Skipped[k + 1]  BY <2>1, SkippedCases
    <3>3. P(k + 1)
      <4> HIDE DEF P
      <4> QED BY <2>0, <3>1
    <3>4. PICK G : GapOver(k + 1, Skipped[k], G)  BY <3>1, <3>2, <3>3
    <3>5. Skipped[k] \in k + 1 .. Size + 1  BY <3>1, <3>2, <3>3
    <3>6. Ahead(k) = Ahead(k + 1) /\ Masked[k] = Masked[k + 1]
      BY <2>1, <3>1, AheadCases, MaskedCases, Characters
    <3>7. Tiled({} \cup G, k, Skipped[k])
      <4>1. Skipped[k] \in Nat /\ k <= k + 1 /\ k + 1 <= Skipped[k]  BY <1>0, <3>5
      <4> QED BY <2>1, <3>1, <3>4, <4>1, TilesNone, TilesJoin DEF GapOver
    <3>8. {} \cup G = G  OBVIOUS
    <3>9. GapOver(k, Skipped[k], G)  BY <3>4, <3>6, <3>7, <3>8 DEF GapOver
    <3>10. Skipped[k] \in k .. Size + 1  BY <1>0, <3>5
    <3> QED BY <3>1, <3>2, <3>3, <3>9, <3>10
  <2>2. CASE CharAt(k) = "#"
    <3>1. k \in 1 .. Size  BY <2>2, InText, Characters
    <3> DEFINE e == CommentEnd(k)
    <3>2. Skipped[k] = Skipped[e]  BY <2>2, SkippedCases
    <3>3. e # 0  BY <3>2, SkippedCases
    <3>4. e \in Nat /\ e > k /\ e <= Size + 1  BY <2>2, <3>1, <3>3, CommentEnds
    <3>5. EndOrAll(e) = e  BY <3>3 DEF EndOrAll
    <3>6. Ahead(k) = {Span(k, e)} \cup Ahead(e)  BY <2>2, <3>5, AheadCases
    <3>7. Masked[k] = Hidden(k, e) \cup Masked[e]  BY <2>2, <3>5, MaskedCases
    <3> HIDE DEF e
    <3>8. e \in 1 .. Size + 1 /\ k <= Size  BY <1>0, <3>1, <3>4
    <3>9. P(e)
      <4> HIDE DEF P
      <4> QED BY <2>0, <3>4, <3>8
    <3>10. PICK G : GapOver(e, Skipped[k], G)  BY <3>2, <3>8, <3>9
    <3>11. Skipped[k] \in e .. Size + 1  BY <3>2, <3>8, <3>9
    <3> DEFINE H == {Span(k, e)} \cup G
    <3>12. Tiled(H, k, Skipped[k])
      <4>1. Skipped[k] \in Nat /\ k <= e /\ e <= Skipped[k]  BY <1>0, <3>4, <3>11
      <4> QED BY <3>4, <3>10, <4>1, TilesOne, TilesJoin DEF GapOver
    <3>13. HiddenIn(H) = Hidden(k, e) \cup HiddenIn(G)
      <4>1. k \in 1 .. Size + 1  BY <1>0, <3>1
      <4>2. HiddenIn({Span(k, e)}) = Hidden(k, e)  BY <3>8, <4>1, HiddenInFacts
      <4>3. HiddenIn(H) = HiddenIn({Span(k, e)}) \cup HiddenIn(G)  BY HiddenInFacts
      <4> QED BY <4>2, <4>3
    <3>14. Ahead(k) = H \cup Ahead(Skipped[k]) /\ Masked[k] = HiddenIn(H) \cup Masked[Skipped[k]]
      BY <3>6, <3>7, <3>10, <3>13 DEF GapOver
    <3> HIDE DEF H
    <3>15. GapOver(k, Skipped[k], H)  BY <3>12, <3>14 DEF GapOver
    <3>16. Skipped[k] \in k .. Size + 1  BY <1>0, <3>4, <3>11
    <3> QED BY <3>2, <3>8, <3>9, <3>15, <3>16
  <2>3. CASE ~IsBlank(CharAt(k)) /\ CharAt(k) # "#"
    <3>1. k # 0  BY <1>0
    <3>2. Skipped[k] = k  BY <2>3, <3>1, SkippedCases
    <3>3. GapOver(k, k, {})  BY TilesNone, HiddenInFacts DEF GapOver
    <3>4. k \in k .. Size + 1  BY <1>0
    <3> QED BY <2>3, <3>2, <3>3, <3>4
  <2> HIDE DEF P
  <2> QED BY <2>1, <2>2, <2>3
<1>2. \A k \in Nat : k \in Good
  <2>1. UpRank \in [Nat -> Nat]  BY UpRankFacts
  <2> HIDE DEF Good
  <2> QED BY <1>1, <2>1, RankInduction
<1>3. ASSUME NEW k \in 1 .. Size + 1 PROVE P(k)
  <2>1. k \in Nat  BY <1>0
  <2> HIDE DEF P
  <2> QED BY <1>2, <2>1
<1> QED BY <1>3

(* Where a mark starts, its characters are read. *)
LEMMA StartsAt ==
  ASSUME IsText, NEW k \in Nat, k > 0, NEW mark, Len(mark) \in Nat, Starts(k, mark)
  PROVE  /\ k + Len(mark) <= Size + 1
         /\ \A i \in 1 .. Len(mark) : CharAt(k + i - 1) = mark[i]
<1>0. Size \in Nat /\ Len(mark) \in Nat /\ Size = Len(input) /\ input \in Seq(STRING)
  BY SizeIsNat DEF Size, IsText
<1>1. k + Len(mark) - 1 <= Size /\ SubSeq(input, k, k + Len(mark) - 1) = mark
  BY Zenon DEF Starts
<1>2. ASSUME NEW i \in 1 .. Len(mark) PROVE CharAt(k + i - 1) = mark[i]
  <2>1. SubSeq(input, k, k + Len(mark) - 1)[i] = input[k + i - 1]
    BY <1>0, <1>1
  <2>2. k + i - 1 \in 1 .. Size
    BY <1>0, <1>1
  <2> QED BY <1>1, <2>1, <2>2 DEF CharAt
<1> QED BY <1>0, <1>1, <1>2

(* No comment and no string starts here. *)
Plain(a, b) == \A j \in a .. b - 1 : (CharAt(j) # "#" /\ CharAt(j) # Quote)

(* Two plain parts side by side are one. *)
LEMMA PlainJoin ==
  ASSUME NEW a \in Nat, NEW b \in Nat, NEW c \in Nat, Plain(a, b), Plain(b, c)
  PROVE  Plain(a, c)
<1>1. \A j \in a .. c - 1 : j \in a .. b - 1 \/ j \in b .. c - 1
  OBVIOUS
<1> QED BY <1>1, Zenon DEF Plain

(* A plain character. *)
LEMMA PlainOne ==
  ASSUME NEW k \in Nat, CharAt(k) # "#", CharAt(k) # Quote
  PROVE  Plain(k, k + 1)
<1>1. \A j \in k .. k + 1 - 1 : j = k
  OBVIOUS
<1> QED BY <1>1 DEF Plain

(* A mark of plain characters is plain. *)
LEMMA PlainMark ==
  ASSUME IsText, NEW k \in Nat, k > 0, NEW mark, Len(mark) \in Nat, Starts(k, mark),
         \A i \in 1 .. Len(mark) : mark[i] # "#" /\ mark[i] # Quote
  PROVE  Plain(k, k + Len(mark))
<1>1. \A j \in k .. k + Len(mark) - 1 : j - k + 1 \in 1 .. Len(mark) /\ k + (j - k + 1) - 1 = j
  OBVIOUS
<1>2. \A i \in 1 .. Len(mark) : CharAt(k + i - 1) = mark[i]
  BY StartsAt
<1>3. ASSUME NEW j \in k .. k + Len(mark) - 1 PROVE CharAt(j) # "#" /\ CharAt(j) # Quote
  BY <1>1, <1>2
<1> QED BY <1>3 DEF Plain

(* A run of plain characters is plain. *)
LEMMA PlainWhile ==
  ASSUME IsText, NEW k \in 1 .. Size + 1, NEW chars, "#" \notin chars, Quote \notin chars
  PROVE  While(k, chars) \in k .. Size + 1 /\ Plain(k, While(k, chars))
BY WhileStops DEF Plain

(* A word ends behind its start and is plain. *)
LEMMA PlainWord ==
  ASSUME IsText, NEW k \in 1 .. Size, IsWordStart(CharAt(k))
  PROVE  WordEnd(k) \in k + 1 .. Size + 1 /\ Plain(k, WordEnd(k))
<1> DEFINE chars == WordStarts \cup Digits
           w == While(k, chars)
           dots == <<".", ".", ".">>
<1>0. Size \in Nat  BY SizeIsNat
<1>1. "#" \notin chars /\ Quote \notin chars /\ CharAt(k) \in chars
  BY Characters DEF IsWordStart, IsDigit
<1>2. k \in 1 .. Size + 1  BY <1>0
<1> HIDE DEF chars
<1>3. w \in k + 1 .. Size + 1 /\ Plain(k, w)
  <2>1. w \in k .. Size + 1 /\ Plain(k, w)  BY <1>1, <1>2, PlainWhile
  <2>2. w # k  BY <1>0, <1>1, <1>2, WhileStops
  <2> QED BY <1>0, <2>1, <2>2
<1>4. WordEnd(k) = CASE ~Starts(w, dots) -> w
                     [] Starts(w, dots) /\ CharAt(w + 3) = "?" -> w + 4
                     [] OTHER -> w + 3
  BY Zenon DEF WordEnd, chars
<1> HIDE DEF w
<1>5. CASE ~Starts(w, dots)
  BY <1>3, <1>4, <1>5, Zenon
<1>6. CASE Starts(w, dots)
  <2>1. Len(dots) = 3 /\ \A i \in 1 .. 3 : dots[i] = "."
    OBVIOUS
  <2>2. w \in Nat /\ w > 0 /\ w + 3 \in Nat  BY <1>0, <1>3
  <2> HIDE DEF dots
  <2>3. w + 3 <= Size + 1 /\ Plain(w, w + 3)
    <3>1. "." # "#" /\ "." # Quote  BY Characters
    <3>0. Len(dots) \in Nat /\ \A i \in 1 .. Len(dots) : dots[i] # "#" /\ dots[i] # Quote
      BY <2>1, <3>1
    <3>2. w + Len(dots) <= Size + 1  BY <1>6, <3>0, <2>1, <2>2, StartsAt
    <3>3. Plain(w, w + Len(dots))  BY <1>6, <3>0, <2>1, <2>2, <3>1, PlainMark
    <3> QED BY <2>1, <3>2, <3>3
  <2>4. Plain(k, w + 3)
    <3>1. k \in Nat  BY <1>0
    <3> QED BY <1>3, <2>2, <2>3, <3>1, PlainJoin
  <2>5. CASE CharAt(w + 3) = "?"
    <3>1. WordEnd(k) = w + 4  BY <1>4, <1>6, <2>5, Zenon
    <3>2. w + 3 \in 1 .. Size  BY <2>2, <2>5, InText, Characters
    <3>3. Plain(w + 3, w + 4)
      <4>1. CharAt(w + 3) # "#" /\ CharAt(w + 3) # Quote  BY <2>5, Characters
      <4>2. w + 3 + 1 = w + 4  BY <2>2
      <4> QED BY <2>2, <4>1, <4>2, PlainOne
    <3>4. Plain(k, w + 4)
      <4>1. k \in Nat /\ w + 4 \in Nat  BY <1>0, <2>2
      <4> QED BY <2>2, <2>4, <3>3, <4>1, PlainJoin
    <3> QED BY <1>0, <1>3, <3>1, <3>2, <3>4
  <2>6. CASE CharAt(w + 3) # "?"
    <3>1. WordEnd(k) = w + 3  BY <1>4, <1>6, <2>6, Zenon
    <3> QED BY <1>0, <1>3, <2>3, <2>4, <3>1
  <2> QED BY <2>5, <2>6
<1> QED BY <1>5, <1>6

(* A number ends behind its start and is plain. *)
LEMMA PlainNumber ==
  ASSUME IsText, NEW k \in 1 .. Size, CharAt(k) # "#", CharAt(k) # Quote
  PROVE  NumberEnd(k) \in k + 1 .. Size + 1 /\ Plain(k, NumberEnd(k))
<1> DEFINE n == While(k + 1, Digits)
<1>0. Size \in Nat  BY SizeIsNat
<1>1. "#" \notin Digits /\ Quote \notin Digits
  BY Characters DEF IsDigit
<1>2. k + 1 \in 1 .. Size + 1 /\ k \in Nat /\ k + 1 \in Nat  BY <1>0
<1>3. n \in k + 1 .. Size + 1 /\ Plain(k + 1, n)
  BY <1>1, <1>2, PlainWhile
<1>4. Plain(k, k + 1)
  <2>1. \A j \in k .. k + 1 - 1 : j = k  BY <1>2
  <2> QED BY <2>1 DEF Plain
<1>5. NumberEnd(k) = IF CharAt(n) = "." /\ CharAt(n + 1) \notin {NoChar, "."}
                     THEN While(n + 1, Digits) ELSE n
  BY Zenon DEF NumberEnd
<1> HIDE DEF n
<1>6. n \in Nat /\ n + 1 \in Nat  BY <1>0, <1>3
<1>7. Plain(k, n)  BY <1>2, <1>3, <1>4, <1>6, PlainJoin
<1>8. CASE CharAt(n) = "." /\ CharAt(n + 1) \notin {NoChar, "."}
  <2>1. n + 1 \in 1 .. Size  BY <1>6, <1>8, InText
  <2>2. n + 1 \in 1 .. Size + 1  BY <1>0, <2>1
  <2>3. Plain(n, n + 1)
    <3>1. CharAt(n) # "#" /\ CharAt(n) # Quote  BY <1>8, Characters
    <3> QED BY <1>6, <3>1, PlainOne
  <2>4. While(n + 1, Digits) \in n + 1 .. Size + 1 /\ Plain(n + 1, While(n + 1, Digits))
    BY <1>1, <2>2, PlainWhile
  <2>5. While(n + 1, Digits) \in Nat  BY <1>0, <1>6, <2>4
  <2>6. Plain(k, n + 1)  BY <1>2, <1>6, <1>7, <2>3, PlainJoin
  <2>7. Plain(k, While(n + 1, Digits))  BY <1>2, <1>6, <2>4, <2>5, <2>6, PlainJoin
  <2>8. NumberEnd(k) = While(n + 1, Digits)  BY <1>5, <1>8, Zenon
  <2>9. While(n + 1, Digits) \in k + 1 .. Size + 1  BY <1>0, <1>3, <2>4
  <2> QED BY <2>7, <2>8, <2>9
<1>9. CASE ~(CharAt(n) = "." /\ CharAt(n + 1) \notin {NoChar, "."})
  <2>1. NumberEnd(k) = n  BY <1>5, <1>9, Zenon
  <2> QED BY <1>3, <1>7, <2>1
<1> QED BY <1>8, <1>9

(* A character that starts no comment and no string. *)
NoMark(c) == c # "#" /\ c # Quote

(* The lengths and characters of the operators, spelled out. *)
LEMMA Tuples ==
  /\ \A a, b : NoMark(a) /\ NoMark(b) =>
       Len(<<a, b>>) = 2 /\ \A i \in 1 .. 2 : NoMark(<<a, b>>[i])
  /\ \A a, b, c : NoMark(a) /\ NoMark(b) /\ NoMark(c) =>
       Len(<<a, b, c>>) = 3 /\ \A i \in 1 .. 3 : NoMark(<<a, b, c>>[i])
  /\ \A a, b, c, d : NoMark(a) /\ NoMark(b) /\ NoMark(c) /\ NoMark(d) =>
       Len(<<a, b, c, d>>) = 4 /\ \A i \in 1 .. 4 : NoMark(<<a, b, c, d>>[i])
OBVIOUS

(* The long operators hold no marks. *)
LEMMA LongOperatorFacts ==
  /\ DOMAIN LongOperators = 1 .. 6
  /\ \A n \in 1 .. 6 :
       /\ Len(LongOperators[n]) \in 2 .. 4
       /\ \A i \in 1 .. Len(LongOperators[n]) : NoMark(LongOperators[n][i])
<1>1. DOMAIN LongOperators = 1 .. 6
  BY DEF LongOperators
<1>2. ASSUME NEW n \in 1 .. 6
      PROVE  /\ Len(LongOperators[n]) \in 2 .. 4
             /\ \A i \in 1 .. Len(LongOperators[n]) : NoMark(LongOperators[n][i])
  <2>0. NoMark(".") /\ NoMark("?") /\ NoMark("|") /\ NoMark(">") /\ NoMark("-") /\ NoMark("(")
    BY Characters DEF NoMark
  <2>1. CASE n = 1
    <3>1. LongOperators[n] = <<".", ".", ".", "?">>  BY <2>1 DEF LongOperators
    <3>2. Len(<<".", ".", ".", "?">>) = 4 /\ \A i \in 1 .. 4 : NoMark(<<".", ".", ".", "?">>[i])
      BY <2>0, Tuples, Zenon
    <3>3. Len(LongOperators[n]) = 4 /\ \A i \in 1 .. 4 : NoMark(LongOperators[n][i])
      BY <3>1, <3>2, Zenon
    <3>4. 2 \in 2 .. 4 /\ 3 \in 2 .. 4 /\ 4 \in 2 .. 4  OBVIOUS
    <3> QED BY <3>3, <3>4, Zenon
  <2>2. CASE n = 2
    <3>1. LongOperators[n] = <<".", ".", ".">>  BY <2>2 DEF LongOperators
    <3>2. Len(<<".", ".", ".">>) = 3 /\ \A i \in 1 .. 3 : NoMark(<<".", ".", ".">>[i])
      BY <2>0, Tuples, Zenon
    <3>3. Len(LongOperators[n]) = 3 /\ \A i \in 1 .. 3 : NoMark(LongOperators[n][i])
      BY <3>1, <3>2, Zenon
    <3>4. 2 \in 2 .. 4 /\ 3 \in 2 .. 4 /\ 4 \in 2 .. 4  OBVIOUS
    <3> QED BY <3>3, <3>4, Zenon
  <2>3. CASE n = 3
    <3>1. LongOperators[n] = <<"|", ">">>  BY <2>3 DEF LongOperators
    <3>2. Len(<<"|", ">">>) = 2 /\ \A i \in 1 .. 2 : NoMark(<<"|", ">">>[i])
      BY <2>0, Tuples, Zenon
    <3>3. Len(LongOperators[n]) = 2 /\ \A i \in 1 .. 2 : NoMark(LongOperators[n][i])
      BY <3>1, <3>2, Zenon
    <3>4. 2 \in 2 .. 4 /\ 3 \in 2 .. 4 /\ 4 \in 2 .. 4  OBVIOUS
    <3> QED BY <3>3, <3>4, Zenon
  <2>4. CASE n = 4
    <3>1. LongOperators[n] = <<"-", ">">>  BY <2>4 DEF LongOperators
    <3>2. Len(<<"-", ">">>) = 2 /\ \A i \in 1 .. 2 : NoMark(<<"-", ">">>[i])
      BY <2>0, Tuples, Zenon
    <3>3. Len(LongOperators[n]) = 2 /\ \A i \in 1 .. 2 : NoMark(LongOperators[n][i])
      BY <3>1, <3>2, Zenon
    <3>4. 2 \in 2 .. 4 /\ 3 \in 2 .. 4 /\ 4 \in 2 .. 4  OBVIOUS
    <3> QED BY <3>3, <3>4, Zenon
  <2>5. CASE n = 5
    <3>1. LongOperators[n] = <<".", ".">>  BY <2>5 DEF LongOperators
    <3>2. Len(<<".", ".">>) = 2 /\ \A i \in 1 .. 2 : NoMark(<<".", ".">>[i])
      BY <2>0, Tuples, Zenon
    <3>3. Len(LongOperators[n]) = 2 /\ \A i \in 1 .. 2 : NoMark(LongOperators[n][i])
      BY <3>1, <3>2, Zenon
    <3>4. 2 \in 2 .. 4 /\ 3 \in 2 .. 4 /\ 4 \in 2 .. 4  OBVIOUS
    <3> QED BY <3>3, <3>4, Zenon
  <2>6. CASE n = 6
    <3>1. LongOperators[n] = <<".", "(">>  BY <2>6 DEF LongOperators
    <3>2. Len(<<".", "(">>) = 2 /\ \A i \in 1 .. 2 : NoMark(<<".", "(">>[i])
      BY <2>0, Tuples, Zenon
    <3>3. Len(LongOperators[n]) = 2 /\ \A i \in 1 .. 2 : NoMark(LongOperators[n][i])
      BY <3>1, <3>2, Zenon
    <3>4. 2 \in 2 .. 4 /\ 3 \in 2 .. 4 /\ 4 \in 2 .. 4  OBVIOUS
    <3> QED BY <3>3, <3>4, Zenon
  <2> QED BY <2>1, <2>2, <2>3, <2>4, <2>5, <2>6
<1> QED BY <1>1, <1>2

(* An operator ends behind its start and is plain. *)
LEMMA PlainOperator ==
  ASSUME IsText, NEW k \in 1 .. Size, CharAt(k) # "#", CharAt(k) # Quote
  PROVE  OperatorEnd(k) \in k + 1 .. Size + 1 /\ Plain(k, OperatorEnd(k))
<1> DEFINE found == {n \in DOMAIN LongOperators : Starts(k, LongOperators[n])}
<1>0. Size \in Nat  BY SizeIsNat
<1>1. OperatorEnd(k) = IF found = {} THEN k + 1 ELSE k + Len(LongOperators[Min(found)])
  BY Zenon DEF OperatorEnd
<1>2. CASE found = {}
  <2>1. \A j \in k .. k + 1 - 1 : j = k  BY <1>0
  <2>2. Plain(k, k + 1)  BY <2>1 DEF Plain
  <2>3. OperatorEnd(k) = k + 1  BY <1>1, <1>2, Zenon
  <2>4. k + 1 \in k + 1 .. Size + 1  BY <1>0
  <2> QED BY <2>2, <2>3, <2>4
<1>3. CASE found # {}
  <2>1. found \in SUBSET Nat  BY LongOperatorFacts
  <2> DEFINE n == Min(found)
  <2>2. n \in found
    <3> HIDE DEF found
    <3> QED BY <1>3, <2>1, LeastOf
  <2>3. n \in 1 .. 6 /\ Starts(k, LongOperators[n])
    <3> HIDE DEF n
    <3> QED BY <2>2, LongOperatorFacts
  <2> DEFINE mark == LongOperators[n]
  <2>4. OperatorEnd(k) = k + Len(mark)
    BY <1>1, <1>3, Zenon
  <2> HIDE DEF n, found
  <2>5. Len(mark) \in 2 .. 4 /\ Starts(k, mark)
          /\ \A i \in 1 .. Len(mark) : mark[i] # "#" /\ mark[i] # Quote
    BY <2>3, LongOperatorFacts DEF NoMark
  <2> HIDE DEF mark
  <2>6. k \in Nat /\ k > 0  BY <1>0
  <2>7. k + Len(mark) <= Size + 1  BY <2>5, <2>6, StartsAt
  <2>8. Plain(k, k + Len(mark))  BY <2>5, <2>6, PlainMark
  <2>9. \A l \in 2 .. 4 : k + l <= Size + 1 => k + l \in k + 1 .. Size + 1  BY <1>0
  <2>10. k + Len(mark) \in k + 1 .. Size + 1  BY <2>5, <2>7, <2>9, Zenon
  <2> QED BY <2>4, <2>8, <2>10, Zenon
<1> QED BY <1>2, <1>3

(* A token ends behind its start and in the text.  The scan for comments   *)
(* and, unless a string holds a mark, the mask find nothing in it.         *)
LEMMA Token ==
  ASSUME IsText, NEW k \in 1 .. Size, CharAt(k) # "#", TokenEnd(k) # 0
  PROVE  /\ TokenEnd(k) \in k + 1 .. Size + 1
         /\ Ahead(k) = Ahead(TokenEnd(k))
         /\ (CharAt(k) = Quote => \A j \in k .. TokenEnd(k) - 1 : CharAt(j) # "#")
              => Masked[k] = Masked[TokenEnd(k)]
<1>0. Size \in Nat  BY SizeIsNat
<1>1. CASE CharAt(k) = Quote
  <2>1. TokenEnd(k) = StringEnd[k + 1]
    BY <1>1, Characters DEF TokenEnd, Quote
  <2>2. k + 1 \in Nat /\ k \in Nat  BY <1>0
  <2>3. StringEnd[k + 1] \in k + 1 .. Size + 1
    BY <1>0, <2>1, <2>2, StringEnds
  <2>4. Ahead(k) = Ahead(StringEnd[k + 1])
    BY <1>1, <2>1, <2>2, AheadCases DEF EndOrAll
  <2> DEFINE e == StringEnd[k + 1]
  <2> HIDE DEF e
  <2>5. ASSUME \A j \in k .. e - 1 : CharAt(j) # "#" PROVE Masked[k] = Masked[e]
    <3>1. e \in 1 .. Size + 1 /\ k \in 1 .. e  BY <1>0, <2>3 DEF e
    <3> QED BY <2>5, <3>1, PlainComments
  <2> QED BY <1>1, <2>1, <2>3, <2>4, <2>5 DEF e
<1>2. CASE CharAt(k) # Quote
  <2>1. TokenEnd(k) \in k + 1 .. Size + 1 /\ Plain(k, TokenEnd(k))
    <3>1. CASE IsWordStart(CharAt(k))
      <4>1. TokenEnd(k) = WordEnd(k)
        <5>1. ~IsDigit(CharAt(k)) /\ CharAt(k) # "-"
          BY <3>1 DEF IsWordStart, WordStarts, IsDigit, Digits
        <5> QED BY <1>2, <3>1, <5>1, Zenon DEF TokenEnd, Quote
      <4> QED BY <3>1, <4>1, PlainWord
    <3>2. CASE ~IsWordStart(CharAt(k))
                 /\ (IsDigit(CharAt(k)) \/ (CharAt(k) = "-" /\ IsDigit(CharAt(k + 1))))
      <4>1. TokenEnd(k) = NumberEnd(k)
        BY <1>2, <3>2, Zenon DEF TokenEnd, Quote
      <4> QED BY <1>2, <4>1, PlainNumber
    <3>3. CASE ~IsWordStart(CharAt(k))
                 /\ ~(IsDigit(CharAt(k)) \/ (CharAt(k) = "-" /\ IsDigit(CharAt(k + 1))))
      <4>1. TokenEnd(k) = OperatorEnd(k)
        BY <1>2, <3>3, Zenon DEF TokenEnd, Quote
      <4> QED BY <1>2, <4>1, PlainOperator
    <3> QED BY <3>1, <3>2, <3>3
  <2> DEFINE e == TokenEnd(k)
  <2> HIDE DEF e
  <2>2. e \in 1 .. Size + 1 /\ k \in 1 .. e  BY <1>0, <2>1 DEF e
  <2>3. \A j \in k .. e - 1 : (CharAt(j) # "#" /\ CharAt(j) # Quote)  BY <2>1 DEF Plain, e
  <2>4. \A j \in k .. e - 1 : CharAt(j) # "#"  BY <2>3
  <2>5. Ahead(k) = Ahead(e) /\ Masked[k] = Masked[e]  BY <2>2, <2>3, <2>4, PlainComments
  <2> QED BY <2>1, <2>5 DEF e
<1> QED BY <1>1, <1>2

(* No string among these tokens holds the mark of a comment. *)
StringsPlain(T) ==
  \A s \in T : CharAt(s.place) = Quote => \A j \in s.place .. s.end - 1 : CharAt(j) # "#"

(* The comments G and the tokens T are what there is before place p.       *)
Covered(G, T, p) ==
  /\ Tiled(G \cup T, 1, p)
  /\ Ahead(1) = G \cup Ahead(p)
  /\ StringsPlain(T) => Masked[1] = HiddenIn(G) \cup Masked[p]

(* Passing over a gap keeps the cover. *)
LEMMA CoveredByGap ==
  ASSUME IsText, NEW p \in 1 .. Size + 1, NEW s, s = Skipped[p], s # 0, NEW G, NEW T, Covered(G, T, p)
  PROVE  s \in p .. Size + 1 /\ \E G2 : Covered(G2, T, s)
<1>0. Size \in Nat  BY SizeIsNat
<1>1. s \in p .. Size + 1  BY Gap
<1>2. PICK H : GapOver(p, s, H)  BY Gap
<1>3. Tiled((G \cup T) \cup H, 1, s)
  <2>1. 1 \in Nat /\ p \in Nat /\ s \in Nat /\ 1 <= p /\ p <= s  BY <1>0, <1>1
  <2> QED BY <1>2, <2>1, TilesJoin DEF Covered, GapOver
<1>4. (G \cup T) \cup H = (G \cup H) \cup T  OBVIOUS
<1>5. Ahead(1) = (G \cup H) \cup Ahead(s)
  BY <1>2 DEF Covered, GapOver
<1>6. ASSUME StringsPlain(T) PROVE Masked[1] = HiddenIn(G \cup H) \cup Masked[s]
  <2>1. HiddenIn(G \cup H) = HiddenIn(G) \cup HiddenIn(H)  BY HiddenInFacts
  <2>2. Masked[1] = HiddenIn(G) \cup Masked[p]  BY <1>6 DEF Covered
  <2>3. Masked[p] = HiddenIn(H) \cup Masked[s]  BY <1>2 DEF GapOver
  <2> QED BY <2>1, <2>2, <2>3
<1>7. Covered(G \cup H, T, s)
  BY <1>3, <1>4, <1>5, <1>6 DEF Covered
<1> QED BY <1>1, <1>7

(* Taking a token keeps the cover. *)
LEMMA CoveredByToken ==
  ASSUME IsText, NEW s \in 1 .. Size, CharAt(s) # "#", NEW e, e = TokenEnd(s), e # 0,
         NEW G, NEW T, Covered(G, T, s)
  PROVE  e \in 1 .. Size + 1 /\ Covered(G, T \cup {Span(s, e)}, e)
<1>0. Size \in Nat  BY SizeIsNat
<1>1. e \in s + 1 .. Size + 1 /\ Ahead(s) = Ahead(e)  BY Token
<1>2. Tiled((G \cup T) \cup {Span(s, e)}, 1, e)
  <2>1. 1 \in Nat /\ s \in Nat /\ e \in Nat /\ 1 <= s /\ s <= e  BY <1>0, <1>1
  <2>2. Tiled({Span(s, e)}, s, e)  BY <2>1, TilesOne
  <2> QED BY <2>1, <2>2, TilesJoin DEF Covered
<1>3. (G \cup T) \cup {Span(s, e)} = G \cup (T \cup {Span(s, e)})  OBVIOUS
<1>4. ASSUME StringsPlain(T \cup {Span(s, e)}) PROVE Masked[1] = HiddenIn(G) \cup Masked[e]
  <2>1. StringsPlain(T)  BY <1>4, Zenon DEF StringsPlain
  <2>2. CharAt(s) = Quote => \A j \in s .. e - 1 : CharAt(j) # "#"
    <3>1. Span(s, e).place = s /\ Span(s, e).end = e  BY DEF Span
    <3>2. Span(s, e) \in T \cup {Span(s, e)}  OBVIOUS
    <3> QED BY <1>4, <3>1, <3>2 DEF StringsPlain
  <2>3. Masked[s] = Masked[e]  BY <2>2, Token
  <2> QED BY <2>1, <2>3 DEF Covered
<1>5. e \in 1 .. Size + 1  BY <1>0, <1>1
<1> QED BY <1>1, <1>2, <1>3, <1>4, <1>5 DEF Covered

(* The spans of the tokens so far. *)
TokenSpans == {Span(toks[k].place, toks[k].end) : k \in DOMAIN toks}

(* A sequence of whatever it holds. *)
IsSequence(s) == s \in Seq(Range(s))

(* What a sequence is after one more element. *)
LEMMA AppendFacts ==
  ASSUME NEW s, IsSequence(s), NEW x
  PROVE  /\ IsSequence(Append(s, x))
         /\ DOMAIN Append(s, x) = DOMAIN s \cup {Len(s) + 1}
         /\ \A k \in DOMAIN s : Append(s, x)[k] = s[k]
         /\ Append(s, x)[Len(s) + 1] = x
<1> DEFINE A == Range(s) \cup {x}
<1>1. s \in Seq(A)
  <2>1. \A B : s \in Seq(Range(s)) /\ Range(s) \subseteq B => s \in Seq(B)
    OBVIOUS
  <2>2. Range(s) \subseteq A  OBVIOUS
  <2> HIDE DEF A
  <2> QED BY <2>1, <2>2 DEF IsSequence
<1>2. x \in A  OBVIOUS
<1> HIDE DEF A
<1> DEFINE t == Append(s, x)
<1>3. t \in Seq(A) /\ Len(t) = Len(s) + 1 /\ Len(s) \in Nat
  BY <1>1, <1>2
<1>4. DOMAIN s = 1 .. Len(s) /\ DOMAIN t = 1 .. Len(s) + 1
  BY <1>1, <1>3
<1>5. (\A k \in 1 .. Len(s) : t[k] = s[k]) /\ t[Len(s) + 1] = x
  BY <1>1
<1>6. DOMAIN t = DOMAIN s \cup {Len(s) + 1}
  BY <1>3, <1>4
<1>7. IsSequence(t)
  <2>1. \A k \in DOMAIN t : t[k] \in Range(t)  BY Zenon DEF Range
  <2> HIDE DEF t
  <2>a. t \in [1 .. Len(s) + 1 -> A]  BY <1>3
  <2>2. t = [k \in 1 .. Len(s) + 1 |-> t[k]]  BY <2>a
  <2>3. t \in [1 .. Len(s) + 1 -> Range(t)]  BY <1>4, <2>1, <2>2
  <2>4. Len(s) + 1 \in Nat  BY <1>3
  <2>5. t \in Seq(Range(t))  BY <2>3, <2>4
  <2> QED BY <2>5 DEF IsSequence
<1> QED BY <1>4, <1>5, <1>6, <1>7

(* While it is lexed, a text is covered up to the place of the lexer. *)
LexInvariant ==
  /\ input \in Texts
  /\ pc \in {"lex", "done"} =>
       /\ pos \in 1 .. Size + 1
       /\ IsSequence(toks)
       /\ \E G : Covered(G, TokenSpans, pos)
  /\ pc = "done" => Skipped[pos] > Size

(* The assumption on the constant. *)
LEMMA TextIsText == input \in Texts => IsText
BY TextsAssumption DEF IsText

(* A text that is covered to its end is scanned alike by all three. *)
LEMMA LexHolds == LexInvariant => ScannersAgree
<1> SUFFICES ASSUME LexInvariant, pc = "done" PROVE ScannersAgree
  BY Zenon DEF ScannersAgree
<1>0. IsText /\ Size \in Nat
  BY TextIsText, SizeIsNat DEF LexInvariant
<1>1. PICK G0 : Covered(G0, TokenSpans, pos)
  BY DEF LexInvariant
<1>2. pos \in 1 .. Size + 1 /\ Skipped[pos] > Size
  BY DEF LexInvariant
<1> DEFINE T == TokenSpans
           s == Skipped[pos]
<1>3. s = Size + 1 /\ \E G : Covered(G, T, s)
  <2>1. s # 0  BY <1>0, <1>2
  <2>2. s \in pos .. Size + 1 /\ \E G : Covered(G, T, s)
    <3> HIDE DEF T
    <3> QED BY <1>0, <1>1, <1>2, <2>1, CoveredByGap DEF T
  <2> HIDE DEF T, s
  <2>3. s > Size  BY <1>2 DEF s
  <2> QED BY <1>0, <1>2, <2>2, <2>3
<1>4. PICK G : Covered(G, T, Size + 1)
  BY <1>3
<1> DEFINE end == Size + 1
<1>5. end \in Nat /\ end > Size  BY <1>0
<1>6. Ahead(1) = G /\ (StringsPlain(T) => Masked[1] = HiddenIn(G)) /\ Tiled(G \cup T, 1, end)
  <2>1. Ahead(end) = {} /\ Masked[end] = {}
    <3> HIDE DEF end
    <3> QED BY <1>0, <1>5, AheadCases, MaskedCases
  <2> HIDE DEF T
  <2> QED BY <1>4, <2>1 DEF Covered
<1>7. Range(Comments) = G
  BY <1>6 DEF Ahead, Comments
<1> HIDE DEF T
<1>8. ASSUME NEW k \in 1 .. Size
      PROVE  LET over == {c \in G \cup T : Covers(c, k)}
             IN Cardinality(over) <= 1 /\ (over = {} => IsBlank(input[k]))
  <2> DEFINE over == {c \in G \cup T : Covers(c, k)}
  <2>1. k \in Nat /\ 1 <= k /\ k < end /\ CharAt(k) = input[k]  BY <1>0 DEF CharAt
  <2>2. over = {} => IsBlank(input[k])
    <3>1. IsBlank(CharAt(k)) \/ \E c \in G \cup T : Covers(c, k)
      <4> HIDE DEF end
      <4> QED BY <1>6, <2>1 DEF Tiled
    <3> QED BY <2>1, <3>1
  <2>3. \A c, d \in over : c = d
    <3>1. \A c, d \in G \cup T : Covers(c, k) /\ Covers(d, k) => c = d
      BY <1>6, <2>1 DEF Tiled
    <3> QED BY <3>1
  <2> HIDE DEF over
  <2>4. Cardinality(over) <= 1
    <3>1. CASE over = {}
      BY <3>1, FS_EmptySet
    <3>2. CASE over # {}
      <4>1. PICK c \in over : TRUE  BY <3>2
      <4>2. over = {c}  BY <2>3, <4>1
      <4> QED BY <4>2, FS_Singleton
    <3> QED BY <3>1, <3>2
  <2> QED BY <2>2, <2>4 DEF over
<1>9. NoMarkInStrings => StringsPlain(T)
  <2> SUFFICES ASSUME NoMarkInStrings, NEW t \in T, CharAt(t.place) = Quote,
                      NEW j \in t.place .. t.end - 1
               PROVE  CharAt(j) # "#"
    BY DEF StringsPlain
  <2>1. PICK n \in DOMAIN toks : t = Span(toks[n].place, toks[n].end)
    BY DEF T, TokenSpans
  <2>2. t.place = toks[n].place /\ t.end = toks[n].end
    BY <2>1 DEF Span
  <2>3. t.place \in Nat /\ t.end \in Nat /\ 1 <= t.place /\ t.end <= Size + 1
    BY <1>6 DEF Tiled, Spans
  <2>4. t.place \in 1 .. Size /\ j \in 1 .. Size
    BY <1>0, <2>3
  <2>5. input[t.place] = Quote /\ CharAt(j) = input[j]
    BY <2>4 DEF CharAt
  <2>6. input[toks[n].place] = "\"" => \A i \in toks[n].place .. toks[n].end - 1 : input[i] # "#"
    BY Zenon DEF NoMarkInStrings
  <2> QED BY <2>2, <2>5, <2>6, Zenon DEF Quote
<1>10. ASSUME NoMarkInStrings
       PROVE  Mask = [k \in 1 .. Size |->
                        IF (\E c \in G : Covers(c, k)) /\ input[k] # "\n" THEN " " ELSE input[k]]
  <2>1. Masked[1] = HiddenIn(G)  BY <1>6, <1>9, <1>10
  <2>2. \A k \in 1 .. Size : k \in Masked[1] <=> (\E c \in G : Covers(c, k)) /\ input[k] # "\n"
    BY <2>1, Zenon DEF HiddenIn
  <2> QED BY <2>2, Zenon DEF Mask
<1> QED BY <1>7, <1>8, <1>9, <1>10, Zenon DEF ScannersAgree, T, TokenSpans

(* What is computed from the text alone stays while the text does.         *)
LEMMA SameText ==
  ASSUME input' = input
  PROVE  /\ Size' = Size
         /\ \A k : CharAt(k)' = CharAt(k)
         /\ Skipped' = Skipped
         /\ CommentsFrom' = CommentsFrom
         /\ Masked' = Masked
<1>1. Size' = Size
  BY DEF Size
<1>2. \A k : CharAt(k)' = CharAt(k)
  BY <1>1 DEF CharAt
<1>3. BlockEnd' = BlockEnd
  BY SMT DEF BlockEnd, Starts, Size
<1>4. \A k : LineEnd(k)' = LineEnd(k)
  BY SMT DEF LineEnd, Size
<1>5. \A k : CommentEnd(k)' = CommentEnd(k)
  BY <1>3, <1>4, SMT DEF CommentEnd, Starts, Size
<1>6. Skipped' = Skipped
  BY <1>2, <1>5, SMT DEF Skipped
<1>7. StringEnd' = StringEnd
  BY <1>1, <1>2, SMT DEF StringEnd
<1>8. CommentsFrom' = CommentsFrom
  BY <1>1, <1>2, <1>5, <1>7, SMT DEF CommentsFrom, EndOrAll
<1>9. Masked' = Masked
  BY <1>1, <1>2, <1>5, SMT DEF Masked, EndOrAll
<1> QED BY <1>1, <1>2, <1>6, <1>8, <1>9

(* A cover is of the text and not of the state. *)
LEMMA SameCovered ==
  ASSUME input' = input, NEW G, NEW T, NEW p, Covered(G, T, p)
  PROVE  Covered(G, T, p)'
<1>1. Size' = Size /\ CommentsFrom' = CommentsFrom /\ Masked' = Masked
  BY SameText
<1>2. \A k : CharAt(k)' = CharAt(k)
  BY SameText
<1>3. Tiled(G \cup T, 1, p)' <=> Tiled(G \cup T, 1, p)
  BY <1>2, Zenon DEF Tiled
<1>4. StringsPlain(T)' <=> StringsPlain(T)
  BY <1>2, Zenon DEF StringsPlain
<1>5. HiddenIn(G)' = HiddenIn(G)
  BY <1>1, Zenon DEF HiddenIn
<1>6. Ahead(1)' = Ahead(1) /\ Ahead(p)' = Ahead(p)
  BY <1>1, Zenon DEF Ahead
<1> QED BY <1>1, <1>3, <1>4, <1>5, <1>6, Zenon DEF Covered

(* At the start nothing is covered, up to the first place. *)
LEMMA LexStarts == Init => LexInvariant
<1> SUFFICES ASSUME Init PROVE LexInvariant
  OBVIOUS
<1>0. IsText /\ Size \in Nat /\ input \in Texts
  BY TextIsText, SizeIsNat DEF Init
<1>1. pos = 1 /\ toks = << >> /\ pc = "lex"
  BY DEF Init
<1>2. TokenSpans = {}
  BY <1>1 DEF TokenSpans
<1>3. Covered({}, {}, 1)
  <2>1. Tiled({} \cup {}, 1, 1)  BY TilesNone
  <2>2. HiddenIn({}) = {}  BY <1>0, HiddenInFacts
  <2> QED BY <2>1, <2>2 DEF Covered
<1>4. IsSequence(toks)
  BY <1>1 DEF IsSequence
<1>5. pos \in 1 .. Size + 1
  BY <1>0, <1>1
<1> QED BY <1>0, <1>1, <1>2, <1>3, <1>4, <1>5 DEF LexInvariant

(* Each step keeps the cover; only a token moves its end. *)
LEMMA LexKept == LexInvariant /\ [Next]_vars => LexInvariant'
<1> SUFFICES ASSUME LexInvariant, [Next]_vars PROVE LexInvariant'
  OBVIOUS
<1>0. IsText /\ Size \in Nat /\ input \in Texts
  BY TextIsText, SizeIsNat DEF LexInvariant
<1>1. CASE NextToken
  <2> DEFINE start == Skipped[pos]
             end == TokenEnd(start)
  <2>0. pc = "lex" /\ input' = input
    BY <1>1, Zenon DEF NextToken
  <2>1. pos \in 1 .. Size + 1 /\ IsSequence(toks) /\ \E G : Covered(G, TokenSpans, pos)
    BY <2>0 DEF LexInvariant
  <2>2. Size' = Size /\ Skipped' = Skipped /\ input' \in Texts
    BY <1>0, <2>0, SameText
  <2>3. ASSUME NEW G, NEW U, NEW q, Covered(G, U, q), U = TokenSpans', q = pos'
        PROVE  (\E H : Covered(H, TokenSpans, pos))'
    <3>1. Covered(G, U, q)'  BY <2>0, <2>3, SameCovered
    <3>2. Covered(G, TokenSpans, pos)'  BY <2>3, <3>1
    <3> QED BY <3>2
  <2>4. CASE pc' = "error"
    BY <2>2, <2>4 DEF LexInvariant
  <2>5. CASE start > Size /\ pc' = "done" /\ UNCHANGED <<pos, toks>>
    <3>1. PICK G : Covered(G, TokenSpans, pos)  BY <2>1
    <3>2. TokenSpans = TokenSpans' /\ pos = pos'  BY <2>5 DEF TokenSpans
    <3>3. (\E H : Covered(H, TokenSpans, pos))'  BY <2>3, <3>1, <3>2
    <3>4. IsSequence(toks)'  BY <2>1, <2>5 DEF IsSequence
    <3>5. (Skipped[pos] > Size)' /\ (pos \in 1 .. Size + 1)'  BY <2>1, <2>2, <2>5
    <3> QED BY <2>2, <2>5, <3>3, <3>4, <3>5 DEF LexInvariant
  <2>6. CASE /\ start \in 1 .. Size
             /\ end # 0
             /\ \E x : toks' = Append(toks, x) /\ x.place = start /\ x.end = end
             /\ pos' = end
             /\ pc' = pc
    <3> DEFINE T == TokenSpans
    <3>1. PICK x : toks' = Append(toks, x) /\ x.place = start /\ x.end = end  BY <2>6
    <3>2. PICK G0 : Covered(G0, T, pos)  BY <2>1
    <3> HIDE DEF T, start, end
    <3>3. start # 0  BY <2>6, <1>0
    <3>4. start = Skipped[pos]  BY DEF start
    <3>5. \E G : Covered(G, T, start)
      BY <1>0, <2>1, <3>2, <3>3, <3>4, CoveredByGap
    <3>6. PICK G : Covered(G, T, start)  BY <3>5
    <3>7. CharAt(start) # "#"
      <4>1. start <= Size  BY <1>0, <2>6
      <4> QED BY <1>0, <2>1, <3>3, <3>4, <4>1, Gap
    <3>8. end \in 1 .. Size + 1 /\ Covered(G, T \cup {Span(start, end)}, end)
      <4>1. end = TokenEnd(start)  BY DEF end
      <4> QED BY <1>0, <2>6, <3>6, <3>7, <4>1, CoveredByToken
    <3>9. T \cup {Span(start, end)} = TokenSpans'
      <4>1. DOMAIN toks' = DOMAIN toks \cup {Len(toks) + 1}
        BY <2>1, <3>1, AppendFacts
      <4>2. \A k \in DOMAIN toks : toks'[k] = toks[k]
        BY <2>1, <3>1, AppendFacts
      <4>3. toks'[Len(toks) + 1] = x
        BY <2>1, <3>1, AppendFacts
      <4>4. TokenSpans' = {Span(toks'[k].place, toks'[k].end) : k \in DOMAIN toks'}
        BY DEF TokenSpans, Span
      <4>5. T = {Span(toks[k].place, toks[k].end) : k \in DOMAIN toks}
        BY DEF T, TokenSpans
      <4> QED BY <3>1, <4>1, <4>2, <4>3, <4>4, <4>5
    <3>10. (\E H : Covered(H, TokenSpans, pos))'
      BY <2>3, <2>6, <3>8, <3>9
    <3>11. IsSequence(toks)'
      BY <2>1, <3>1, AppendFacts
    <3>12. (pos \in 1 .. Size + 1)' /\ pc' = "lex"
      BY <2>0, <2>2, <2>6, <3>8
    <3> QED BY <2>2, <3>10, <3>11, <3>12 DEF LexInvariant
  <2>7. \/ start > Size /\ pc' = "done" /\ UNCHANGED <<pos, toks>>
        \/ pc' = "error"
        \/ /\ start \in 1 .. Size
           /\ end # 0
           /\ \E x : toks' = Append(toks, x) /\ x.place = start /\ x.end = end
           /\ pos' = end
           /\ pc' = pc
    <3>1. \A t, l, c : LET x == [text |-> t, place |-> start, end |-> end, line |-> l, column |-> c]
                       IN x.place = start /\ x.end = end
      <4> HIDE DEF start, end
      <4> QED OBVIOUS
    <3> QED BY <1>1, <3>1, Zenon DEF NextToken
  <2> HIDE DEF start, end
  <2> QED BY <2>4, <2>5, <2>6, <2>7
<1>2. CASE Encode
  BY <1>0, <1>2 DEF Encode, LexInvariant
<1>3. CASE \E cursor \in 0 .. Size : Signature(cursor)
  BY <1>0, <1>3 DEF Signature, LexInvariant
<1>4. CASE UNCHANGED vars
  <2>1. input' = input /\ pos' = pos /\ toks' = toks /\ pc' = pc
    BY <1>4 DEF vars
  <2>2. Size' = Size /\ Skipped' = Skipped
    BY <2>1, SameText
  <2>3. TokenSpans' = TokenSpans /\ (IsSequence(toks)' <=> IsSequence(toks))
    BY <2>1 DEF TokenSpans, IsSequence
  <2>4. \A G, U, q : Covered(G, U, q) => Covered(G, U, q)'
    BY <2>1, SameCovered
  <2>5. (\E G : Covered(G, TokenSpans, pos)) => (\E G : Covered(G, TokenSpans, pos))'
    BY <2>1, <2>3, <2>4
  <2> QED BY <2>1, <2>2, <2>3, <2>5 DEF LexInvariant
<1> QED BY <1>1, <1>2, <1>3, <1>4 DEF Next

(* Lexer::next leaves nothing out and takes nothing twice: while a text is *)
(* lexed, the comments passed over and the tokens lie side by side up to   *)
(* the place of the lexer, and collect_comment_tokens and                  *)
(* mask_comments_for_layout find those comments and what lies ahead.       *)
THEOREM LexInvariantHolds == Spec => []LexInvariant
BY LexStarts, LexKept, PTL DEF Spec

(* In a text that is lexed each character is in one token or in one        *)
(* comment or blank, whichever of the three scans one asks.                *)
THEOREM ScannersFindTheSame == Spec => []ScannersAgree
BY LexInvariantHolds, LexHolds, PTL

-----------------------------------------------------------------------------

(* Brackets and commas are not one another. *)
LEMMA Brackets ==
  /\ "(" # ")" /\ "(" # "[" /\ "(" # "]" /\ "(" # ","
  /\ ")" # "[" /\ ")" # "]" /\ ")" # ","
  /\ "[" # "]" /\ "[" # "," /\ "]" # ","
OBVIOUS

(* One character further back. *)
BackAt(b, k, round, square) ==
   CASE k = 0 -> 0
     [] CharAt(k) = ")" -> b[round + 1][square]
     [] CharAt(k) = "]" -> b[round][square + 1]
     [] CharAt(k) = "(" -> IF round = 0 THEN k ELSE b[round - 1][square]
     [] CharAt(k) = "[" -> IF square = 0 THEN k ELSE b[round][square - 1]
     [] OTHER -> b[round][square]

(* One character further back, for all counts. *)
BackStep(b, k) == [round \in Nat |-> [square \in Nat |-> BackAt(b, k, round, square)]]

(* A function from place to place, and a first value. *)
Steps(S, next, first) ==
  /\ next \in [0 .. Size -> [S -> S]]
  /\ first \in S

(* A function on the places of a text may be defined by steps. *)
LEMMA StepByStep ==
  ASSUME IsText, NEW S, NEW next, NEW first, Steps(S, next, first)
  PROVE  \E f \in [0 .. Size -> S] :
           \A n \in 0 .. Size : f[n] = IF n = 0 THEN first ELSE next[n][f[n - 1]]
<1> DEFINE D == 0 .. Size
           step == [n \in D |-> [f \in [D -> S] |-> IF n = 0 THEN first ELSE next[n][f[n - 1]]]]
           rank == [n \in D |-> n]
<1> next \in [0 .. Size -> [S -> S]] /\ first \in S
  BY DEF Steps
<1>0. Size \in Nat  BY SizeIsNat
<1>1. \A n \in D : n # 0 => n - 1 \in D /\ n - 1 < n
  BY <1>0
<1>2. step \in [D -> [[D -> S] -> S]]
  <2> SUFFICES ASSUME NEW n \in D, NEW f \in [D -> S]
               PROVE  (IF n = 0 THEN first ELSE next[n][f[n - 1]]) \in S
    OBVIOUS
  <2>1. CASE n = 0
    BY <2>1
  <2>2. CASE n # 0
    <3>1. f[n - 1] \in S
      <4> HIDE DEF D
      <4> QED BY <1>1, <2>2
    <3>2. next[n] \in [S -> S]  OBVIOUS
    <3> HIDE DEF D
    <3> QED BY <2>2, <3>1, <3>2
  <2> QED BY <2>1, <2>2
<1>3. rank \in [D -> 0 .. Size]
  OBVIOUS
<1>4. ASSUME NEW n \in D, NEW f \in [D -> S], NEW g \in [D -> S],
             \A j \in D : rank[j] < rank[n] => f[j] = g[j]
      PROVE  step[n][f] = step[n][g]
  <2>1. n # 0 => rank[n - 1] < rank[n]
    BY <1>1
  <2>2. n # 0 => f[n - 1] = g[n - 1]
    <3> HIDE DEF rank, D
    <3> QED BY <1>1, <1>4, <2>1
  <2> HIDE DEF D
  <2> QED BY <2>2
<1>5. LooksDown(D, S, Size, rank, step)
  <2>1. S # {}  OBVIOUS
  <2> HIDE DEF D, step, rank
  <2> QED BY <1>0, <1>2, <1>3, <1>4, <2>1 DEF LooksDown
<1>6. PICK f \in [D -> S] : \A n \in D : f[n] = step[n][f]
  <2> HIDE DEF D, step, rank
  <2> QED BY <1>5, Recursion
<1>7. \A n \in D : f[n] = IF n = 0 THEN first ELSE next[n][f[n - 1]]
  <2> HIDE DEF D
  <2> QED BY <1>6
<1> QED BY <1>6, <1>7

(* The brackets found, by the counts of those that were closed. *)
Backs == [Nat -> [Nat -> Nat]]

(* A step back finds a place or none. *)
LEMMA BackStepTyped ==
  ASSUME NEW b \in Backs, NEW k \in Nat
  PROVE  BackStep(b, k) \in Backs
<1> SUFFICES ASSUME NEW round \in Nat, NEW square \in Nat
             PROVE  BackStep(b, k)[round][square] \in Nat
  BY DEF BackStep, Backs
<1>1. b[round + 1][square] \in Nat /\ b[round][square + 1] \in Nat /\ b[round][square] \in Nat
  <2>1. round + 1 \in Nat /\ square + 1 \in Nat  OBVIOUS
  <2> QED BY <2>1 DEF Backs
<1>2. round # 0 => b[round - 1][square] \in Nat
  <2>1. round # 0 => round - 1 \in Nat  OBVIOUS
  <2> QED BY <2>1 DEF Backs
<1>3. square # 0 => b[round][square - 1] \in Nat
  <2>1. square # 0 => square - 1 \in Nat  OBVIOUS
  <2> QED BY <2>1 DEF Backs
<1>4. BackStep(b, k)[round][square] = BackAt(b, k, round, square)
  BY DEF BackStep
<1>5. 0 \in Nat
  OBVIOUS
<1> QED BY <1>1, <1>2, <1>3, <1>4, <1>5, Zenon DEF BackAt

(* Back satisfies its equation. *)
LEMMA BackUnfolds ==
  ASSUME IsText
  PROVE  \A n \in 0 .. Size : Back[n] = BackStep(Back[n - 1], n)
<1>0. Size \in Nat  BY SizeIsNat
<1> DEFINE next == [n \in 0 .. Size |-> [b \in Backs |-> BackStep(b, n)]]
           none == [round \in Nat |-> [square \in Nat |-> 0]]
<1>1. next \in [0 .. Size -> [Backs -> Backs]]
  <2>1. \A n \in 0 .. Size : n \in Nat  BY <1>0
  <2> QED BY <2>1, BackStepTyped
<1>2. none \in Backs
  BY DEF Backs
<1>3. \A b : BackStep(b, 0) = none
  <2>1. CharAt(0) # "(" /\ CharAt(0) # ")" /\ CharAt(0) # "[" /\ CharAt(0) # "]"
    BY SMT DEF CharAt, NoChar
  <2> QED BY <2>1, Zenon DEF BackStep, BackAt
<1>4. PICK f \in [0 .. Size -> Backs] :
        \A n \in 0 .. Size : f[n] = IF n = 0 THEN none ELSE next[n][f[n - 1]]
  <2> HIDE DEF next, none
  <2>1. Steps(Backs, next, none)  BY <1>1, <1>2 DEF Steps
  <2> QED BY <2>1, StepByStep
<1>5. \A n \in 0 .. Size : f[n] = BackStep(f[n - 1], n)
  <2> TAKE n \in 0 .. Size
  <2>1. CASE n = 0
    BY <2>1, <1>3, <1>4, Zenon
  <2>2. CASE n # 0
    <3>1. f[n] = next[n][f[n - 1]]  BY <1>4, <2>2, Zenon
    <3>2. n - 1 \in 0 .. Size  BY <1>0, <2>2
    <3>3. f[n - 1] \in Backs  BY <3>2
    <3>4. next[n][f[n - 1]] = BackStep(f[n - 1], n)
      <4>1. \A b \in Backs : next[n][b] = BackStep(b, n)  BY Zenon
      <4> QED BY <3>3, <4>1, Zenon
    <3> QED BY <3>1, <3>4
  <2> QED BY <2>1, <2>2
<1>6. f = [n \in 0 .. Size |-> BackStep(f[n - 1], n)]
  BY <1>5
<1>7. \E h : h = [n \in 0 .. Size |-> BackStep(h[n - 1], n)]
  BY <1>6
<1>8. Back = [n \in 0 .. Size |-> BackStep(Back[n - 1], n)]
  BY <1>7, Zenon DEF Back, BackStep, BackAt
<1> QED BY <1>8

(* The cases of Back. *)
LEMMA BackCases ==
  ASSUME IsText, NEW n \in 0 .. Size, NEW r \in Nat, NEW s \in Nat
  PROVE  /\ n = 0 => Back[n][r][s] = 0
         /\ CharAt(n) = ")" => Back[n][r][s] = Back[n - 1][r + 1][s]
         /\ CharAt(n) = "]" => Back[n][r][s] = Back[n - 1][r][s + 1]
         /\ CharAt(n) = "(" => Back[n][r][s] = IF r = 0 THEN n ELSE Back[n - 1][r - 1][s]
         /\ CharAt(n) = "[" => Back[n][r][s] = IF s = 0 THEN n ELSE Back[n - 1][r][s - 1]
         /\ n # 0 /\ CharAt(n) # "(" /\ CharAt(n) # ")" /\ CharAt(n) # "[" /\ CharAt(n) # "]"
              => Back[n][r][s] = Back[n - 1][r][s]
<1>1. Back[n][r][s] = BackAt(Back[n - 1], n, r, s)
  <2>1. Back[n] = BackStep(Back[n - 1], n)  BY BackUnfolds
  <2> QED BY <2>1 DEF BackStep
<1>2. n = 0 => CharAt(n) = NoChar
  BY SizeIsNat DEF CharAt
<1>3. NoChar # "(" /\ NoChar # ")" /\ NoChar # "[" /\ NoChar # "]"
  BY SMT DEF NoChar
<1>4. n = 0 => CharAt(n) # "(" /\ CharAt(n) # ")" /\ CharAt(n) # "[" /\ CharAt(n) # "]"
  BY <1>2, <1>3
<1>5. ASSUME n = 0 PROVE Back[n][r][s] = 0
  BY <1>1, <1>4, <1>5, Zenon DEF BackAt
<1>6. ASSUME CharAt(n) = ")" PROVE Back[n][r][s] = Back[n - 1][r + 1][s]
  BY <1>1, <1>4, <1>6, Brackets, Zenon DEF BackAt
<1>7. ASSUME CharAt(n) = "]" PROVE Back[n][r][s] = Back[n - 1][r][s + 1]
  BY <1>1, <1>4, <1>7, Brackets, Zenon DEF BackAt
<1>8. ASSUME CharAt(n) = "(" PROVE Back[n][r][s] = IF r = 0 THEN n ELSE Back[n - 1][r - 1][s]
  BY <1>1, <1>4, <1>8, Brackets, Zenon DEF BackAt
<1>9. ASSUME CharAt(n) = "[" PROVE Back[n][r][s] = IF s = 0 THEN n ELSE Back[n - 1][r][s - 1]
  BY <1>1, <1>4, <1>9, Brackets, Zenon DEF BackAt
<1>10. ASSUME n # 0, CharAt(n) # "(", CharAt(n) # ")", CharAt(n) # "[", CharAt(n) # "]"
       PROVE  Back[n][r][s] = Back[n - 1][r][s]
  BY <1>1, <1>10, Zenon DEF BackAt
<1> QED BY <1>5, <1>6, <1>7, <1>8, <1>9, <1>10

(* The values of Nesting. *)
Entries == [place : Nat, commas : Nat]
Nests == [open : Seq(Entries), inner : Nat, stray : Nat]

(* The closing bracket at place n closes the last one that is open. *)
Matches(so, n) ==
  /\ so.open # << >>
  /\ CharAt(so.open[Len(so.open)].place) = (IF CharAt(n) = ")" THEN "(" ELSE "[")

(* One character further on. *)
NestStep(so, n) ==
  CASE n = 0 -> [open |-> << >>, inner |-> 0, stray |-> 0]
    [] CharAt(n) \in {"(", "["} ->
         [so EXCEPT !.open = Append(@, [place |-> n, commas |-> 0])]
    [] CharAt(n) \in {")", "]"} /\ Matches(so, n) ->
         [so EXCEPT !.open = Front(@), !.inner = @ + so.open[Len(so.open)].commas]
    [] CharAt(n) \in {")", "]"} /\ ~Matches(so, n) -> [so EXCEPT !.stray = @ + 1]
    [] CharAt(n) = "," /\ so.open # << >> ->
         [so EXCEPT !.open[Len(so.open)].commas = @ + 1]
    [] OTHER -> so

(* The character at place n opens or closes a bracket. *)
Opens(n) == CharAt(n) \in {"(", "["}
Closes(n) == CharAt(n) \in {")", "]"}

(* Before the text nothing is open. *)
LEMMA NoBrackets ==
  /\ ~Opens(0) /\ ~Closes(0)
  /\ \A b : NestStep(b, 0) = [open |-> << >>, inner |-> 0, stray |-> 0]
<1>1. CharAt(0) = NoChar
  BY DEF CharAt
<1>2. NoChar \notin {"(", "["} /\ NoChar \notin {")", "]"} /\ NoChar # ","
  BY SMT DEF NoChar
<1> QED BY <1>1, <1>2, Zenon DEF NestStep, Opens, Closes

(* The cases of a step of Nesting, each with its condition. *)
LEMMA NestStepCases ==
  ASSUME NEW so \in Nests, NEW n \in Nat, NEW N, N = NestStep(so, n)
  PROVE  /\ n = 0 => N = [open |-> << >>, inner |-> 0, stray |-> 0]
         /\ n # 0 /\ Opens(n) =>
              N = [open |-> Append(so.open, [place |-> n, commas |-> 0]),
                   inner |-> so.inner, stray |-> so.stray]
         /\ n # 0 /\ Closes(n) /\ Matches(so, n) =>
              N = [open |-> Front(so.open),
                   inner |-> so.inner + so.open[Len(so.open)].commas, stray |-> so.stray]
         /\ n # 0 /\ Closes(n) /\ ~Matches(so, n) =>
              N = [open |-> so.open,
                   inner |-> so.inner, stray |-> so.stray + 1]
         /\ n # 0 /\ CharAt(n) = "," /\ so.open # << >> =>
              N = [open |-> [so.open EXCEPT ![Len(so.open)] = [so.open[Len(so.open)] EXCEPT !.commas = @ + 1]],
                   inner |-> so.inner, stray |-> so.stray]
         /\ n # 0 /\ ~Opens(n) /\ ~Closes(n) /\ ~(CharAt(n) = "," /\ so.open # << >>) => N = so
<1>1. (Opens(n) => ~Closes(n) /\ CharAt(n) # ",") /\ (Closes(n) => CharAt(n) # ",")
  BY Brackets DEF Opens, Closes
<1>2. so = [open |-> so.open, inner |-> so.inner, stray |-> so.stray]
  BY DEF Nests
<1>3. ASSUME n = 0 PROVE N = [open |-> << >>, inner |-> 0, stray |-> 0]
  BY <1>3, NoBrackets
<1>4. ASSUME n # 0, Opens(n)
      PROVE  N = [open |-> Append(so.open, [place |-> n, commas |-> 0]),
                   inner |-> so.inner, stray |-> so.stray]
  <2>1. N = [so EXCEPT !.open = Append(@, [place |-> n, commas |-> 0])]
    BY <1>1, <1>4, Zenon DEF NestStep, Opens, Closes
  <2> QED BY <1>2, <2>1
<1>5. ASSUME n # 0, Closes(n), Matches(so, n)
      PROVE  N = [open |-> Front(so.open),
                   inner |-> so.inner + so.open[Len(so.open)].commas, stray |-> so.stray]
  <2>1. N = [so EXCEPT !.open = Front(@), !.inner = @ + so.open[Len(so.open)].commas]
    BY <1>1, <1>5, Zenon DEF NestStep, Opens, Closes
  <2> QED BY <1>2, <2>1
<1>6. ASSUME n # 0, Closes(n), ~Matches(so, n)
      PROVE  N = [open |-> so.open,
                   inner |-> so.inner, stray |-> so.stray + 1]
  <2>1. N = [so EXCEPT !.stray = @ + 1]
    BY <1>1, <1>6, Zenon DEF NestStep, Opens, Closes
  <2> QED BY <1>2, <2>1
<1>7. ASSUME n # 0, CharAt(n) = ",", so.open # << >>
      PROVE  N = [open |-> [so.open EXCEPT ![Len(so.open)] = [so.open[Len(so.open)] EXCEPT !.commas = @ + 1]],
                   inner |-> so.inner, stray |-> so.stray]
  <2>1. N = [so EXCEPT !.open[Len(so.open)].commas = @ + 1]
    BY <1>1, <1>7, Zenon DEF NestStep, Opens, Closes
  <2> QED BY <1>2, <2>1
<1>8. ASSUME n # 0, ~Opens(n), ~Closes(n), ~(CharAt(n) = "," /\ so.open # << >>)
      PROVE  N = so
  BY <1>8, Zenon DEF NestStep, Opens, Closes
<1> QED BY <1>3, <1>4, <1>5, <1>6, <1>7, <1>8

(* A bracket that closes nothing is counted. *)
LEMMA StrayStep ==
  ASSUME NEW so \in Nests, NEW n \in Nat, NEW N, N = NestStep(so, n), n # 0, Closes(n),
         ~Matches(so, n)
  PROVE  N = [open |-> so.open, inner |-> so.inner, stray |-> so.stray + 1]
BY NestStepCases

(* A step of Nesting keeps its type. *)
LEMMA NestStepTyped ==
  ASSUME NEW so \in Nests, NEW n \in Nat
  PROVE  NestStep(so, n) \in Nests
<1> DEFINE N == NestStep(so, n)
           open == so.open
           m == Len(open)
<1>0. open \in Seq(Entries) /\ m \in Nat /\ so.inner \in Nat /\ so.stray \in Nat
  BY DEF Nests
<1>a. \A x \in Seq(Entries), i \in Nat, k \in Nat : [open |-> x, inner |-> i, stray |-> k] \in Nests
  BY DEF Nests
<1> HIDE DEF open, N
<1>1. CASE n = 0
  <2>1. N = [open |-> << >>, inner |-> 0, stray |-> 0]  BY <1>1, NestStepCases DEF N
  <2>2. << >> \in Seq(Entries) /\ 0 \in Nat  OBVIOUS
  <2> QED BY <1>a, <2>1, <2>2 DEF N
<1>2. CASE n # 0 /\ Opens(n)
  <2>1. N = [open |-> Append(open, [place |-> n, commas |-> 0]),
             inner |-> so.inner, stray |-> so.stray]
    BY <1>2, NestStepCases DEF N, open
  <2>2. [place |-> n, commas |-> 0] \in Entries  BY DEF Entries
  <2>3. Append(open, [place |-> n, commas |-> 0]) \in Seq(Entries)  BY <1>0, <2>2
  <2> QED BY <1>0, <1>a, <2>1, <2>3 DEF N
<1>3. CASE n # 0 /\ Closes(n) /\ Matches(so, n)
  <2>1. N = [open |-> Front(open), inner |-> so.inner + open[m].commas, stray |-> so.stray]
    BY <1>3, NestStepCases DEF N, open
  <2>2. open # << >>  BY <1>3 DEF Matches, open
  <2>3. m > 0 /\ m \in 1 .. m  BY <1>0, <2>2
  <2>4. open[m].commas \in Nat
    <3>1. open[m] \in Entries  BY <1>0, <2>3
    <3> QED BY <3>1 DEF Entries
  <2>5. Front(open) \in Seq(Entries)  BY <1>0, <2>3 DEF Front
  <2>6. so.inner + open[m].commas \in Nat  BY <1>0, <2>4
  <2> QED BY <1>0, <1>a, <2>1, <2>5, <2>6 DEF N
<1>4. CASE n # 0 /\ Closes(n) /\ ~Matches(so, n)
  <2>1. N = [open |-> open, inner |-> so.inner, stray |-> so.stray + 1]
    BY <1>4, NestStepCases DEF N, open
  <2>2. so.stray + 1 \in Nat  BY <1>0
  <2> QED BY <1>0, <1>a, <2>1, <2>2 DEF N
<1>5. CASE n # 0 /\ CharAt(n) = "," /\ open # << >>
  <2> DEFINE more == [open EXCEPT ![m] = [open[m] EXCEPT !.commas = @ + 1]]
  <2>1. N = [open |-> more, inner |-> so.inner, stray |-> so.stray]
    BY <1>5, NestStepCases DEF N, open
  <2>2. m \in 1 .. m
    <3>1. open # << >>  BY <1>5
    <3> QED BY <1>0, <3>1
  <2>3. open[m] \in Entries  BY <1>0, <2>2
  <2>4. [open[m] EXCEPT !.commas = @ + 1] \in Entries  BY <2>3 DEF Entries
  <2>5. more \in Seq(Entries)
    <3> DEFINE e == [open[m] EXCEPT !.commas = @ + 1]
    <3> HIDE DEF e
    <3>1. [open EXCEPT ![m] = e] \in Seq(Entries)  BY <1>0, <2>2, <2>4 DEF e
    <3> QED BY <3>1 DEF e
  <2> QED BY <1>0, <1>a, <2>1, <2>5 DEF N
<1>6. CASE n # 0 /\ ~Opens(n) /\ ~Closes(n) /\ ~(CharAt(n) = "," /\ open # << >>)
  <2>1. N = so  BY <1>6, NestStepCases DEF N, open
  <2> QED BY <2>1 DEF N
<1> QED BY <1>1, <1>2, <1>3, <1>4, <1>5, <1>6

(* Nesting satisfies its equation. *)
LEMMA NestingUnfolds ==
  ASSUME IsText
  PROVE  \A n \in 0 .. Size : Nesting[n] = NestStep(Nesting[n - 1], n)
<1>0. Size \in Nat  BY SizeIsNat
<1> DEFINE next == [n \in 0 .. Size |-> [b \in Nests |-> NestStep(b, n)]]
           none == [open |-> << >>, inner |-> 0, stray |-> 0]
<1>1. next \in [0 .. Size -> [Nests -> Nests]]
  <2>1. \A n \in 0 .. Size : n \in Nat  BY <1>0
  <2> QED BY <2>1, NestStepTyped
<1>2. none \in Nests
  BY DEF Nests
<1>3. \A b : NestStep(b, 0) = none
  BY NoBrackets
<1>4. PICK f \in [0 .. Size -> Nests] :
        \A n \in 0 .. Size : f[n] = IF n = 0 THEN none ELSE next[n][f[n - 1]]
  <2> HIDE DEF next, none
  <2>1. Steps(Nests, next, none)  BY <1>1, <1>2 DEF Steps
  <2> QED BY <2>1, StepByStep
<1>5. \A n \in 0 .. Size : f[n] = NestStep(f[n - 1], n)
  <2> TAKE n \in 0 .. Size
  <2>1. CASE n = 0
    BY <2>1, <1>3, <1>4, Zenon
  <2>2. CASE n # 0
    <3>1. f[n] = next[n][f[n - 1]]  BY <1>4, <2>2, Zenon
    <3>2. n - 1 \in 0 .. Size  BY <1>0, <2>2
    <3>3. f[n - 1] \in Nests  BY <3>2
    <3>4. next[n][f[n - 1]] = NestStep(f[n - 1], n)
      <4>1. \A b \in Nests : next[n][b] = NestStep(b, n)  BY Zenon
      <4> QED BY <3>3, <4>1, Zenon
    <3> QED BY <3>1, <3>4
  <2> QED BY <2>1, <2>2
<1>6. f = [n \in 0 .. Size |-> NestStep(f[n - 1], n)]
  BY <1>5
<1>7. \E h : h = [n \in 0 .. Size |-> NestStep(h[n - 1], n)]
  BY <1>6
<1>8. Nesting = [n \in 0 .. Size |-> NestStep(Nesting[n - 1], n)]
  BY <1>7, Zenon DEF Nesting, NestStep, Matches
<1> QED BY <1>8

(* What holds at a place when it holds at all those before it, holds at    *)
(* all places.                                                             *)
LEMMA PlacesBefore ==
  ASSUME IsText, NEW Good,
         \A n \in 0 .. Size : (\A j \in 0 .. n - 1 : j \in Good) => n \in Good
  PROVE  \A n \in 0 .. Size : n \in Good
<1> DEFINE D == 0 .. Size
           rank == [n \in D |-> n]
<1>0. Size \in Nat  BY SizeIsNat
<1>1. rank \in [D -> Nat]
  BY <1>0
<1>2. ASSUME NEW n \in D, \A j \in D : rank[j] < rank[n] => j \in Good
      PROVE  n \in Good
  <2>1. ASSUME NEW j \in 0 .. n - 1 PROVE j \in Good
    <3>1. j \in D /\ rank[j] < rank[n]  BY <1>0
    <3> HIDE DEF rank
    <3> QED BY <1>2, <3>1
  <2> QED BY <2>1
<1>3. \A n \in D : n \in Good
  <2> HIDE DEF rank, D
  <2> QED BY <1>1, <1>2, RankInduction
<1> QED BY <1>3

(* What holds at place 0, and at a place when it holds at the one before,  *)
(* holds at all places.                                                    *)
LEMMA PlaceInduction ==
  ASSUME IsText, NEW Good, 0 \in Good,
         \A n \in 1 .. Size : n - 1 \in Good => n \in Good
  PROVE  \A n \in 0 .. Size : n \in Good
<1>1. ASSUME NEW n \in 0 .. Size, \A j \in 0 .. n - 1 : j \in Good
      PROVE  n \in Good
  <2>1. CASE n = 0
    BY <2>1
  <2>2. CASE n # 0
    <3>1. n \in 1 .. Size /\ n - 1 \in 0 .. n - 1  BY <2>2, SizeIsNat
    <3> QED BY <1>1, <3>1
  <2> QED BY <2>1, <2>2
<1> QED BY <1>1, PlacesBefore

(* Nesting has its type at every place. *)
LEMMA NestingTyped ==
  ASSUME IsText
  PROVE  \A n \in 0 .. Size : Nesting[n] \in Nests
<1> DEFINE Good == {n \in 0 .. Size : Nesting[n] \in Nests}
<1>0. Size \in Nat /\ 0 \in 0 .. Size  BY SizeIsNat
<1>1. 0 \in Good
  <2>1. Nesting[0] = NestStep(Nesting[0 - 1], 0)  BY <1>0, NestingUnfolds
  <2>2. \A b : NestStep(b, 0) = [open |-> << >>, inner |-> 0, stray |-> 0]
    BY NoBrackets
  <2>3. Nesting[0] = [open |-> << >>, inner |-> 0, stray |-> 0]
    BY <2>1, <2>2, Zenon
  <2>4. << >> \in Seq(Entries) /\ 0 \in Nat  OBVIOUS
  <2>5. Nesting[0] \in Nests  BY <2>3, <2>4 DEF Nests
  <2> QED BY <1>0, <2>5
<1>2. ASSUME NEW n \in 1 .. Size, n - 1 \in Good PROVE n \in Good
  <2>1. n \in 0 .. Size /\ n \in Nat  BY <1>0
  <2>2. Nesting[n] = NestStep(Nesting[n - 1], n)  BY <2>1, NestingUnfolds
  <2> QED BY <1>2, <2>1, <2>2, NestStepTyped
<1> HIDE DEF Good
<1>3. \A n \in 0 .. Size : n \in Good
  BY <1>1, <1>2, PlaceInduction
<1> QED BY <1>3 DEF Good

(* How many brackets are open after n characters, and where. *)
Depth(n) == Len(Nesting[n].open)
Place(n, i) == Nesting[n].open[i].place

(* A step of Nesting in the text. *)
LEMMA NestingSteps ==
  ASSUME IsText, NEW n \in 1 .. Size
  PROVE  /\ n - 1 \in 0 .. Size
         /\ n \in 0 .. Size
         /\ n \in Nat
         /\ n # 0
         /\ Nesting[n - 1] \in Nests
         /\ Nesting[n] \in Nests
         /\ Nesting[n] = NestStep(Nesting[n - 1], n)
<1>1. n - 1 \in 0 .. Size /\ n \in 0 .. Size /\ n \in Nat /\ n # 0
  BY SizeIsNat
<1> QED BY <1>1, NestingUnfolds, NestingTyped

(* The fields of a value of Nesting. *)
LEMMA NestFields ==
  ASSUME NEW so \in Nests
  PROVE  /\ so.open \in Seq(Entries)
         /\ Len(so.open) \in Nat
         /\ so.inner \in Nat
         /\ so.stray \in Nat
         /\ \A i \in 1 .. Len(so.open) :
              so.open[i] \in Entries /\ so.open[i].place \in Nat /\ so.open[i].commas \in Nat
<1>1. so.open \in Seq(Entries) /\ so.inner \in Nat /\ so.stray \in Nat
  BY DEF Nests
<1>2. ASSUME NEW i \in 1 .. Len(so.open)
      PROVE  so.open[i] \in Entries /\ so.open[i].place \in Nat /\ so.open[i].commas \in Nat
  <2>1. so.open[i] \in Entries  BY <1>1
  <2> QED BY <2>1 DEF Entries
<1> QED BY <1>1, <1>2

(* All but the last. *)
LEMMA FrontFacts ==
  ASSUME NEW t \in Seq(Entries), Len(t) > 0
  PROVE  /\ Len(Front(t)) = Len(t) - 1
         /\ \A j \in 1 .. Len(t) - 1 : Front(t)[j] = t[j]
<1>1. Len(t) \in Nat /\ Len(t) - 1 \in Nat /\ Front(t) = SubSeq(t, 1, Len(t) - 1)
  BY DEF Front
<1>2. Len(SubSeq(t, 1, Len(t) - 1)) = Len(t) - 1
  <2> DEFINE l == Len(t) - 1
  <2>1. l \in Nat /\ l \in Int /\ 1 \in Int /\ \A i \in 1 .. l : t[i] \in Entries  BY <1>1
  <2> HIDE DEF l
  <2>2. Len(SubSeq(t, 1, l)) = IF 1 <= l THEN l - 1 + 1 ELSE 0
    BY <2>1, SubSeqProperties
  <2>3. Len(SubSeq(t, 1, l)) = l  BY <2>1, <2>2
  <2> QED BY <2>3 DEF l
<1>3. \A j \in 1 .. Len(t) - 1 : SubSeq(t, 1, Len(t) - 1)[j] = t[1 + j - 1]
  BY <1>1, SubSeqProperties
<1> QED BY <1>1, <1>2, <1>3

(* A step changes the last bracket only, and counts never fall. *)
LEMMA Kept ==
  ASSUME NEW so \in Nests, NEW n \in Nat, n # 0, NEW N, N \in Nests, N = NestStep(so, n)
  PROVE  /\ so.inner <= N.inner
         /\ so.stray <= N.stray
         /\ \A i \in 1 .. Len(N.open) :
              /\ \A j \in 1 .. i - 1 : N.open[j] = so.open[j]
              /\ \/ i <= Len(so.open) /\ N.open[i].place = so.open[i].place
                 \/ i = Len(so.open) + 1 /\ Opens(n) /\ N.open[i].place = n
<1> DEFINE open == so.open
           m == Len(open)
<1>0. open \in Seq(Entries) /\ m \in Nat /\ so.inner \in Nat /\ so.stray \in Nat
         /\ \A i \in 1 .. m : open[i].commas \in Nat
  BY NestFields
<1> HIDE DEF open
<1>1. CASE Opens(n)
  <2> DEFINE e == [place |-> n, commas |-> 0]
  <2>1. N = [open |-> Append(open, e), inner |-> so.inner, stray |-> so.stray]
    BY <1>1, NestStepCases DEF open
  <2>2. e.place = n  OBVIOUS
  <2> HIDE DEF e
  <2>3. N.open = Append(open, e) /\ N.inner = so.inner /\ N.stray = so.stray  BY <2>1
  <2>4. Len(N.open) = m + 1 /\ N.open[m + 1] = e /\ \A j \in 1 .. m : N.open[j] = open[j]
    BY <1>0, <2>3
  <2>5. ASSUME NEW i \in 1 .. Len(N.open)
        PROVE  /\ \A j \in 1 .. i - 1 : N.open[j] = open[j]
               /\ \/ i <= m /\ N.open[i].place = open[i].place
                  \/ i = m + 1 /\ Opens(n) /\ N.open[i].place = n
    BY <1>0, <1>1, <2>2, <2>4
  <2> QED BY <1>0, <2>3, <2>5 DEF open
<1>2. CASE Closes(n) /\ Matches(so, n)
  <2>1. N = [open |-> Front(open), inner |-> so.inner + open[m].commas, stray |-> so.stray]
    BY <1>2, NestStepCases DEF open
  <2>2. open # << >>  BY <1>2 DEF Matches, open
  <2>3. m > 0 /\ m \in 1 .. m  BY <1>0, <2>2
  <2>4. N.open = Front(open) /\ N.inner = so.inner + open[m].commas /\ N.stray = so.stray
    BY <2>1
  <2>5. Len(N.open) = m - 1 /\ \A j \in 1 .. m - 1 : N.open[j] = open[j]
    <3> QED BY <1>0, <2>3, <2>4, FrontFacts
  <2>6. ASSUME NEW i \in 1 .. Len(N.open)
        PROVE  /\ \A j \in 1 .. i - 1 : N.open[j] = open[j]
               /\ i <= m /\ N.open[i].place = open[i].place
    BY <1>0, <2>5
  <2>7. open[m].commas \in Nat  BY <1>0, <2>3
  <2>8. so.inner <= N.inner  BY <1>0, <2>4, <2>7
  <2> QED BY <1>0, <2>4, <2>6, <2>8 DEF open
<1>3. CASE Closes(n) /\ ~Matches(so, n)
  <2>1. N = [open |-> open, inner |-> so.inner, stray |-> so.stray + 1]
    BY <1>3, NestStepCases DEF open
  <2>2. N.open = open /\ N.inner = so.inner /\ N.stray = so.stray + 1  BY <2>1
  <2> QED BY <1>0, <2>2 DEF open
<1>4. CASE CharAt(n) = "," /\ open # << >>
  <2> DEFINE e == [open[m] EXCEPT !.commas = @ + 1]
  <2>1. N = [open |-> [open EXCEPT ![m] = e], inner |-> so.inner, stray |-> so.stray]
    BY <1>4, NestStepCases DEF open
  <2>2. m \in 1 .. m
    <3>1. open # << >>  BY <1>4
    <3> QED BY <1>0, <3>1
  <2>3. e.place = open[m].place
    <3>1. open[m] \in Entries  BY <1>0, <2>2
    <3> QED BY <3>1 DEF Entries
  <2> HIDE DEF e
  <2>4. N.open = [open EXCEPT ![m] = e] /\ N.inner = so.inner /\ N.stray = so.stray  BY <2>1
  <2>5. Len(N.open) = m /\ N.open[m] = e /\ \A j \in 1 .. m - 1 : N.open[j] = open[j]
    BY <1>0, <2>2, <2>4
  <2>6. ASSUME NEW i \in 1 .. Len(N.open)
        PROVE  /\ \A j \in 1 .. i - 1 : N.open[j] = open[j]
               /\ i <= m /\ N.open[i].place = open[i].place
    <3>1. i \in 1 .. m /\ \A j \in 1 .. i - 1 : j \in 1 .. m - 1  BY <1>0, <2>5
    <3>2. CASE i = m  BY <2>3, <2>5, <3>1, <3>2
    <3>3. CASE i # m
      <4>1. i \in 1 .. m - 1  BY <1>0, <3>1, <3>3
      <4> QED BY <2>5, <3>1, <4>1
    <3> QED BY <3>2, <3>3
  <2> QED BY <1>0, <2>4, <2>6 DEF open
<1>5. CASE ~Opens(n) /\ ~Closes(n) /\ ~(CharAt(n) = "," /\ open # << >>)
  <2>1. N = so  BY <1>5, NestStepCases DEF open
  <2> QED BY <1>0, <2>1 DEF open
<1> QED BY <1>1, <1>2, <1>3, <1>4, <1>5

(* Before an open bracket, those around it were open, with the commas they *)
(* still have.                                                             *)
Nested(n) ==
  \A i \in 1 .. Depth(n) :
    /\ Place(n, i) \in 1 .. n
    /\ Opens(Place(n, i))
    /\ Depth(Place(n, i) - 1) = i - 1
    /\ \A j \in 1 .. i - 1 : Nesting[Place(n, i) - 1].open[j] = Nesting[n].open[j]
    /\ Nesting[Place(n, i) - 1].inner <= Nesting[n].inner
    /\ Nesting[Place(n, i) - 1].stray <= Nesting[n].stray

(* So it is at every place. *)
LEMMA NestedHolds ==
  ASSUME IsText
  PROVE  \A n \in 0 .. Size : Nested(n)
<1> DEFINE Good == {n \in 0 .. Size : Nested(n)}
<1>0. Size \in Nat /\ 0 \in 0 .. Size  BY SizeIsNat
<1>1. 0 \in Good
  <2>1. Nesting[0] = NestStep(Nesting[0 - 1], 0)  BY <1>0, NestingUnfolds
  <2>2. \A b : NestStep(b, 0) = [open |-> << >>, inner |-> 0, stray |-> 0]
    BY NoBrackets
  <2>3. Nesting[0] = [open |-> << >>, inner |-> 0, stray |-> 0]
    BY <2>1, <2>2, Zenon
  <2>4. Depth(0) = 0  BY <2>3 DEF Depth
  <2> QED BY <1>0, <2>4 DEF Nested
<1>2. ASSUME NEW n \in 1 .. Size, n - 1 \in Good PROVE n \in Good
  <2> DEFINE N == Nesting[n]
             so == Nesting[n - 1]
  <2>1. n \in 0 .. Size /\ n - 1 \in 0 .. Size /\ n \in Nat /\ n # 0 /\ N \in Nests /\ so \in Nests
    BY NestingSteps
  <2>2. Nested(n - 1)  BY <1>2
  <2>3. /\ so.inner <= N.inner
        /\ so.stray <= N.stray
        /\ \A i \in 1 .. Len(N.open) :
              /\ \A j \in 1 .. i - 1 : N.open[j] = so.open[j]
              /\ \/ i <= Len(so.open) /\ N.open[i].place = so.open[i].place
                 \/ i = Len(so.open) + 1 /\ Opens(n) /\ N.open[i].place = n
    <3>1. N = NestStep(so, n)  BY NestingSteps
    <3> HIDE DEF N, so
    <3> QED BY <2>1, <3>1, Kept
  <2>4. so.inner \in Nat /\ N.inner \in Nat /\ so.stray \in Nat /\ N.stray \in Nat
          /\ Len(so.open) \in Nat /\ Len(N.open) \in Nat
    <3> HIDE DEF N, so
    <3> QED BY <2>1, NestFields
  <2>5. ASSUME NEW i \in 1 .. Depth(n)
        PROVE  /\ Place(n, i) \in 1 .. n
               /\ Opens(Place(n, i))
               /\ Depth(Place(n, i) - 1) = i - 1
               /\ \A j \in 1 .. i - 1 : Nesting[Place(n, i) - 1].open[j] = Nesting[n].open[j]
               /\ Nesting[Place(n, i) - 1].inner <= Nesting[n].inner
               /\ Nesting[Place(n, i) - 1].stray <= Nesting[n].stray
    <3>1. i \in 1 .. Len(N.open) /\ Place(n, i) = N.open[i].place  BY DEF Depth, Place
    <3>2. CASE i <= Len(so.open) /\ N.open[i].place = so.open[i].place
      <4> DEFINE p == Place(n, i)
      <4>1. i \in 1 .. Depth(n - 1) /\ Place(n - 1, i) = p
        BY <2>4, <3>1, <3>2 DEF Depth, Place
      <4>2. /\ p \in 1 .. n - 1
            /\ Opens(p)
            /\ Depth(p - 1) = i - 1
            /\ \A j \in 1 .. i - 1 : Nesting[p - 1].open[j] = so.open[j]
            /\ Nesting[p - 1].inner <= so.inner
            /\ Nesting[p - 1].stray <= so.stray
        <5> HIDE DEF p
        <5> QED BY <2>2, <4>1 DEF Nested
      <4> HIDE DEF p
      <4>3. p - 1 \in 0 .. Size  BY <1>0, <2>1, <4>2
      <4>4. Nesting[p - 1].inner \in Nat /\ Nesting[p - 1].stray \in Nat
        BY <4>3, NestingTyped, NestFields
      <4>5. Nesting[p - 1].inner <= N.inner /\ Nesting[p - 1].stray <= N.stray
        <5>1. \A a, b, c \in Nat : a <= b /\ b <= c => a <= c  OBVIOUS
        <5>2. Nesting[p - 1].inner <= so.inner /\ Nesting[p - 1].stray <= so.stray  BY <4>2
        <5>3. so.inner <= N.inner /\ so.stray <= N.stray  BY <2>3
        <5> HIDE DEF N, so
        <5> QED BY <2>4, <4>4, <5>1, <5>2, <5>3, Zenon
      <4>6. p \in 1 .. n  BY <2>1, <4>2
      <4>7. \A j \in 1 .. i - 1 : Nesting[p - 1].open[j] = N.open[j]
        <5> HIDE DEF N, so
        <5> QED BY <2>3, <3>1, <4>2
      <4> QED BY <4>2, <4>5, <4>6, <4>7 DEF p
    <3>3. CASE i = Len(so.open) + 1 /\ Opens(n) /\ N.open[i].place = n
      <4>1. Place(n, i) = n  BY <3>1, <3>3
      <4>2. Depth(n - 1) = i - 1  BY <2>4, <3>3 DEF Depth
      <4>3. \A j \in 1 .. i - 1 : so.open[j] = N.open[j]  BY <2>3, <3>1
      <4>4. n \in 1 .. n  BY <2>1
      <4> QED BY <2>3, <3>3, <4>1, <4>2, <4>3, <4>4
    <3> QED BY <2>3, <3>1, <3>2, <3>3
  <2> QED BY <2>1, <2>5 DEF Nested
<1> HIDE DEF Good
<1>3. \A n \in 0 .. Size : n \in Good
  BY <1>1, <1>2, PlaceInduction
<1> QED BY <1>3 DEF Good

(* A count is a number. *)
LEMMA CountFacts ==
  ASSUME NEW c, NEW a \in Nat, NEW b \in Nat
  PROVE  /\ Count(c, a, b) \in Nat
         /\ IsFiniteSet({k \in a .. b : CharAt(k) = c})
<1>1. IsFiniteSet(a .. b)
  BY FS_Interval
<1>2. {k \in a .. b : CharAt(k) = c} \in SUBSET (a .. b)
  OBVIOUS
<1>3. IsFiniteSet({k \in a .. b : CharAt(k) = c})
  BY <1>1, <1>2, FS_Subset
<1> QED BY <1>3, FS_CardinalityType DEF Count

(* One place further. *)
LEMMA CountNext ==
  ASSUME NEW c, NEW a \in Nat, NEW b \in Nat, b > 0, a <= b
  PROVE  /\ CharAt(b) = c => Count(c, a, b) = Count(c, a, b - 1) + 1
         /\ CharAt(b) # c => Count(c, a, b) = Count(c, a, b - 1)
<1> DEFINE L == {k \in a .. b - 1 : CharAt(k) = c}
           R == {k \in a .. b : CharAt(k) = c}
<1>1. b - 1 \in Nat /\ b \in a .. b /\ b \notin a .. b - 1
        /\ \A k : k \in a .. b <=> k \in a .. b - 1 \/ k = b
  OBVIOUS
<1>2. IsFiniteSet(L)
  BY <1>1, CountFacts
<1>3. CharAt(b) = c => R = L \cup {b}
  BY <1>1
<1>4. CharAt(b) # c => R = L
  BY <1>1
<1>5. b \notin L
  BY <1>1
<1>6. Count(c, a, b) = Cardinality(R) /\ Count(c, a, b - 1) = Cardinality(L)
  BY DEF Count
<1> HIDE DEF L, R
<1>7. Cardinality(L \cup {b}) = Cardinality(L) + 1
  BY <1>2, <1>5, FS_AddElement
<1> QED BY <1>3, <1>4, <1>6, <1>7

(* Two ranges side by side. *)
LEMMA CountJoin ==
  ASSUME NEW c, NEW a \in Nat, NEW b \in Nat, NEW d \in Nat, b > 0, a <= b, b <= d + 1
  PROVE  Count(c, a, d) = Count(c, a, b - 1) + Count(c, b, d)
<1> DEFINE L == {k \in a .. b - 1 : CharAt(k) = c}
           R == {k \in b .. d : CharAt(k) = c}
           W == {k \in a .. d : CharAt(k) = c}
<1>1. b - 1 \in Nat
  OBVIOUS
<1>2. IsFiniteSet(L) /\ IsFiniteSet(R)
  BY <1>1, CountFacts
<1>3. W = L \cup R /\ L \cap R = {}
  <2>1. \A k : k \in a .. d <=> k \in a .. b - 1 \/ k \in b .. d  OBVIOUS
  <2>2. \A k : ~(k \in a .. b - 1 /\ k \in b .. d)  OBVIOUS
  <2> QED BY <2>1, <2>2
<1>4. Count(c, a, d) = Cardinality(W) /\ Count(c, a, b - 1) = Cardinality(L)
        /\ Count(c, b, d) = Cardinality(R)
  BY DEF Count
<1> HIDE DEF L, R, W
<1>5. Cardinality(L \cup R) = Cardinality(L) + Cardinality(R) - Cardinality(L \cap R)
  BY <1>2, FS_Union
<1>6. Cardinality(L) \in Nat /\ Cardinality(R) \in Nat /\ Cardinality({}) = 0
  BY <1>2, FS_CardinalityType, FS_EmptySet
<1>7. Cardinality(L \cap R) = 0
  BY <1>3, <1>6
<1>8. Cardinality(W) = Cardinality(L) + Cardinality(R)
  <2>1. Cardinality(W) = Cardinality(L) + Cardinality(R) - 0  BY <1>3, <1>5, <1>7, Zenon
  <2> QED BY <1>6, <2>1
<1> QED BY <1>4, <1>8

(* The steps of Nesting, in terms of its depth and its places. *)
LEMMA NestingOpens ==
  ASSUME IsText, NEW n \in 1 .. Size, Opens(n)
  PROVE  /\ Depth(n) = Depth(n - 1) + 1
         /\ Place(n, Depth(n)) = n
         /\ Nesting[n].open[Depth(n)].commas = 0
         /\ Nesting[n].inner = Nesting[n - 1].inner
         /\ Nesting[n].stray = Nesting[n - 1].stray
<1> DEFINE so == Nesting[n - 1]
           N == Nesting[n]
           e == [place |-> n, commas |-> 0]
<1>1. so \in Nests /\ N = NestStep(so, n) /\ n \in Nat /\ n # 0
  BY NestingSteps
<1>2. N = [open |-> Append(so.open, e), inner |-> so.inner, stray |-> so.stray]
  <2> HIDE DEF N, so
  <2> QED BY <1>1, NestStepCases
<1>3. so.open \in Seq(Entries)
  BY <1>1, NestFields
<1>4. N.open = Append(so.open, e) /\ N.inner = so.inner /\ N.stray = so.stray
  <2> HIDE DEF N, so, e
  <2> QED BY <1>2
<1>5. Len(N.open) = Len(so.open) + 1 /\ N.open[Len(so.open) + 1] = e
  <2> HIDE DEF N, so, e
  <2> QED BY <1>3, <1>4
<1> QED BY <1>4, <1>5 DEF Depth, Place

LEMMA NestingCloses ==
  ASSUME IsText, NEW n \in 1 .. Size, Closes(n), Nesting[n].stray = 0
  PROVE  /\ Depth(n - 1) \in Nat /\ Depth(n - 1) > 0
         /\ CharAt(Place(n - 1, Depth(n - 1))) = IF CharAt(n) = ")" THEN "(" ELSE "["
         /\ Depth(n) = Depth(n - 1) - 1
         /\ \A j \in 1 .. Depth(n - 1) - 1 : Nesting[n].open[j] = Nesting[n - 1].open[j]
         /\ Nesting[n - 1].open[Depth(n - 1)].commas \in Nat
         /\ Nesting[n].inner =
              Nesting[n - 1].inner + Nesting[n - 1].open[Depth(n - 1)].commas
         /\ Nesting[n - 1].stray = 0
         /\ Nesting[n - 1].inner \in Nat
<1> DEFINE so == Nesting[n - 1]
           N == Nesting[n]
           m == Len(so.open)
<1>1. so \in Nests /\ N = NestStep(so, n) /\ n \in Nat /\ n # 0
  BY NestingSteps
<1>2. so.open \in Seq(Entries) /\ so.inner \in Nat /\ so.stray \in Nat
        /\ \A i \in 1 .. Len(so.open) : so.open[i].commas \in Nat
  BY <1>1, NestFields
<1> HIDE DEF N, so
<1>3. Matches(so, n)
  <2> SUFFICES ASSUME ~Matches(so, n) PROVE FALSE  OBVIOUS
  <2>1. N = [open |-> so.open, inner |-> so.inner, stray |-> so.stray + 1]
    BY <1>1, StrayStep
  <2>2. N.stray = so.stray + 1  BY <2>1
  <2> QED BY <1>2, <2>2 DEF N
<1>4. N = [open |-> Front(so.open), inner |-> so.inner + so.open[m].commas, stray |-> so.stray]
  BY <1>1, <1>3, NestStepCases
<1>5. N.open = Front(so.open) /\ N.inner = so.inner + so.open[m].commas /\ N.stray = so.stray
  BY <1>4
<1>6. so.open # << >> /\ CharAt(so.open[m].place) = (IF CharAt(n) = ")" THEN "(" ELSE "[")
  BY <1>3, Zenon DEF Matches
<1>7. m \in Nat /\ m > 0 /\ m \in 1 .. m
  BY <1>2, <1>6
<1>8. Len(N.open) = m - 1 /\ \A j \in 1 .. m - 1 : N.open[j] = so.open[j]
  BY <1>2, <1>5, <1>7, FrontFacts
<1>9. so.open[m].commas \in Nat
  BY <1>2, <1>7
<1> QED BY <1>2, <1>5, <1>6, <1>7, <1>8, <1>9 DEF Depth, Place, so, N

LEMMA NestingPasses ==
  ASSUME IsText, NEW n \in 1 .. Size, ~Opens(n), ~Closes(n)
  PROVE  /\ Depth(n) = Depth(n - 1)
         /\ Nesting[n].inner = Nesting[n - 1].inner
         /\ Nesting[n].stray = Nesting[n - 1].stray
         /\ Depth(n) \in Nat
         /\ Depth(n) > 0 =>
              /\ Place(n, Depth(n)) = Place(n - 1, Depth(n))
              /\ CharAt(n) = "," => Nesting[n].open[Depth(n)].commas =
                                      Nesting[n - 1].open[Depth(n)].commas + 1
              /\ CharAt(n) # "," => Nesting[n].open[Depth(n)].commas =
                                      Nesting[n - 1].open[Depth(n)].commas
<1> DEFINE so == Nesting[n - 1]
           N == Nesting[n]
           m == Len(so.open)
<1>1. so \in Nests /\ N = NestStep(so, n) /\ n \in Nat /\ n # 0
  BY NestingSteps
<1>2. so.open \in Seq(Entries) /\ m \in Nat
        /\ \A i \in 1 .. m : so.open[i] \in Entries
  BY <1>1, NestFields
<1> HIDE DEF N, so
<1>3. CASE CharAt(n) = "," /\ so.open # << >>
  <2> DEFINE e == [so.open[m] EXCEPT !.commas = @ + 1]
  <2>1. N = [open |-> [so.open EXCEPT ![m] = e], inner |-> so.inner, stray |-> so.stray]
    BY <1>1, <1>3, NestStepCases
  <2>2. m \in 1 .. m /\ m > 0
    <3>1. so.open # << >>  BY <1>3
    <3> QED BY <1>2, <3>1
  <2>3. e.place = so.open[m].place /\ e.commas = so.open[m].commas + 1
    <3>1. so.open[m] \in Entries  BY <1>2, <2>2
    <3> QED BY <3>1 DEF Entries
  <2> HIDE DEF e
  <2>4. N.open = [so.open EXCEPT ![m] = e] /\ N.inner = so.inner /\ N.stray = so.stray  BY <2>1
  <2>5. Len(N.open) = m /\ N.open[m] = e
    BY <1>2, <2>2, <2>4
  <2>6. CharAt(n) = ","  BY <1>3
  <2>7. N.open[m].place = so.open[m].place /\ N.open[m].commas = so.open[m].commas + 1
    BY <2>3, <2>5
  <2>8. Depth(n) = m /\ Depth(n - 1) = m
    BY <2>5 DEF Depth, so, N
  <2>9. /\ Place(n, m) = Place(n - 1, m)
        /\ Nesting[n].open[m].commas = Nesting[n - 1].open[m].commas + 1
        /\ Nesting[n].inner = Nesting[n - 1].inner
        /\ Nesting[n].stray = Nesting[n - 1].stray
    BY <2>4, <2>7, Zenon DEF Place, so, N
  <2> QED BY <1>2, <2>6, <2>8, <2>9
<1>4. CASE ~(CharAt(n) = "," /\ so.open # << >>)
  <2>1. N = so  BY <1>1, <1>4, NestStepCases
  <2>2. m > 0 => CharAt(n) # ","
    <3>1. so.open = << >> => m = 0  OBVIOUS
    <3>2. 0 > 0 <=> FALSE  OBVIOUS
    <3> QED BY <1>4, <3>1, <3>2, Zenon
  <2>3. Nesting[n] = Nesting[n - 1] /\ Depth(n) = m
    BY <2>1 DEF Depth, so, N
  <2> QED BY <1>2, <2>2, <2>3 DEF Depth, Place
<1> QED BY <1>3, <1>4

(* Depth and counts are numbers. *)
LEMMA StrayNat ==
  ASSUME IsText, NEW n \in 0 .. Size
  PROVE  /\ Depth(n) \in Nat
         /\ Nesting[n].stray \in Nat
         /\ Nesting[n].inner \in Nat
         /\ Depth(n) > 0 => Depth(n) \in 1 .. Depth(n)
<1>1. Depth(n) \in Nat /\ Nesting[n].stray \in Nat /\ Nesting[n].inner \in Nat
  BY NestingTyped, NestFields DEF Depth
<1> QED BY <1>1

(* Nothing is open before the text. *)
LEMMA Nothing ==
  ASSUME IsText
  PROVE  Depth(0) = 0 /\ ~Opens(0) /\ ~Closes(0)
<1>1. 0 \in 0 .. Size  BY SizeIsNat
<1>2. Nesting[0] = [open |-> << >>, inner |-> 0, stray |-> 0]
  BY <1>1, NoBrackets, NestingUnfolds
<1>3. Depth(0) = 0
  BY <1>2 DEF Depth
<1> QED BY <1>3, NoBrackets

(* Looking back from a place where the brackets match, the scan steps over *)
(* what is closed, to the innermost bracket that is open.                  *)
LooksBack(n) ==
  Nesting[n].stray = 0 =>
    \A r \in Nat, s \in Nat :
      /\ Depth(n) = 0 => Back[n][r][s] = 0
      /\ Depth(n) > 0 => Back[n][r][s] = Back[Place(n, Depth(n))][r][s]

(* Where a bracket closes, the call it closes is as if it were not there.  *)
LEMMA Closing ==
  ASSUME IsText, NEW n \in 1 .. Size, Closes(n), Nesting[n].stray = 0,
         NEW p, p = Place(n - 1, Depth(n - 1))
  PROVE  /\ p \in 1 .. n - 1
         /\ p - 1 \in 0 .. n - 1
         /\ p - 1 \in 0 .. Size
         /\ p \in 0 .. Size
         /\ CharAt(p) = IF CharAt(n) = ")" THEN "(" ELSE "["
         /\ Depth(p - 1) = Depth(n)
         /\ Nesting[p - 1].stray = 0
         /\ Nesting[p - 1].inner <= Nesting[n].inner
         /\ \A j \in 1 .. Depth(n) : Nesting[p - 1].open[j] = Nesting[n].open[j]
<1> DEFINE m == Depth(n - 1)
<1>0. Size \in Nat /\ n - 1 \in 0 .. Size /\ n \in 0 .. Size /\ n \in Nat
  BY SizeIsNat
<1>1. /\ m \in Nat /\ m > 0
      /\ CharAt(p) = IF CharAt(n) = ")" THEN "(" ELSE "["
      /\ Depth(n) = m - 1
      /\ \A j \in 1 .. m - 1 : Nesting[n].open[j] = Nesting[n - 1].open[j]
      /\ Nesting[n].inner = Nesting[n - 1].inner + Nesting[n - 1].open[m].commas
      /\ Nesting[n - 1].open[m].commas \in Nat
      /\ Nesting[n - 1].stray = 0
  BY NestingCloses
<1> HIDE DEF m
<1>2. m \in 1 .. m
  BY <1>1
<1>3. /\ p \in 1 .. n - 1
      /\ Depth(p - 1) = m - 1
      /\ \A j \in 1 .. m - 1 : Nesting[p - 1].open[j] = Nesting[n - 1].open[j]
      /\ Nesting[p - 1].inner <= Nesting[n - 1].inner
      /\ Nesting[p - 1].stray <= Nesting[n - 1].stray
  <2>1. Nested(n - 1)  BY <1>0, NestedHolds
  <2>2. p = Place(n - 1, m) /\ m \in 1 .. Depth(n - 1)  BY <1>2 DEF m
  <2> QED BY <2>1, <2>2 DEF Nested
<1>4. p - 1 \in 0 .. n - 1 /\ p - 1 \in 0 .. Size /\ p \in 0 .. Size
  BY <1>0, <1>3
<1>5. Nesting[p - 1].stray \in Nat /\ Nesting[p - 1].inner \in Nat /\ Nesting[n - 1].inner \in Nat
  BY <1>0, <1>4, StrayNat
<1>6. Nesting[p - 1].stray = 0
  <2>1. \A a \in Nat : a <= 0 => a = 0  OBVIOUS
  <2> QED BY <1>1, <1>3, <1>5, <2>1, Zenon
<1>7. Nesting[p - 1].inner <= Nesting[n].inner
  <2>1. \A a, b, c \in Nat : a <= b => a <= b + c  OBVIOUS
  <2>2. Nesting[p - 1].inner <= Nesting[n - 1].inner  BY <1>3
  <2>3. Nesting[p - 1].inner <= Nesting[n - 1].inner + Nesting[n - 1].open[m].commas
    BY <1>1, <1>5, <2>1, <2>2, Zenon
  <2> QED BY <1>1, <2>3, Zenon
<1>8. \A j \in 1 .. m - 1 : Nesting[p - 1].open[j] = Nesting[n].open[j]
  BY <1>1, <1>3
<1> QED BY <1>1, <1>3, <1>4, <1>6, <1>7, <1>8

(* So it does at every place. *)
LEMMA LooksBackHolds ==
  ASSUME IsText
  PROVE  \A n \in 0 .. Size : LooksBack(n)
<1> DEFINE Good == {n \in 0 .. Size : LooksBack(n)}
<1>0. Size \in Nat  BY SizeIsNat
<1>1. ASSUME NEW n \in 0 .. Size, \A j \in 0 .. n - 1 : j \in Good
      PROVE  n \in Good
  <2> SUFFICES ASSUME Nesting[n].stray = 0, NEW r \in Nat, NEW s \in Nat
               PROVE  /\ Depth(n) = 0 => Back[n][r][s] = 0
                      /\ Depth(n) > 0 => Back[n][r][s] = Back[Place(n, Depth(n))][r][s]
    BY DEF LooksBack
  <2>0. Depth(n) \in Nat  BY StrayNat
  <2>1. ASSUME NEW j \in 0 .. n - 1, Nesting[j].stray = 0, NEW u \in Nat, NEW v \in Nat
        PROVE  /\ Depth(j) = 0 => Back[j][u][v] = 0
               /\ Depth(j) > 0 => Back[j][u][v] = Back[Place(j, Depth(j))][u][v]
    <3>1. LooksBack(j)  BY <1>1
    <3> QED BY <2>1, <3>1 DEF LooksBack
  <2> HIDE DEF Good
  <2>2. CASE n = 0
    <3>1. Depth(n) = 0  BY <2>2, Nothing
    <3>2. Back[n][r][s] = 0  BY <2>2, BackCases
    <3> QED BY <3>1, <3>2
  <2>3. CASE n # 0 /\ Opens(n)
    <3>1. n \in 1 .. Size  BY <1>0, <2>3
    <3>2. Depth(n) = Depth(n - 1) + 1 /\ Place(n, Depth(n)) = n  BY <2>3, <3>1, NestingOpens
    <3>3. Depth(n - 1) \in Nat
      <4>1. n - 1 \in 0 .. Size  BY <1>0, <3>1
      <4> QED BY <4>1, StrayNat
    <3>4. Depth(n) # 0  BY <3>2, <3>3
    <3> QED BY <3>2, <3>4
  <2>4. CASE n # 0 /\ Closes(n)
    <3>1. n \in 1 .. Size /\ n - 1 \in 0 .. n - 1 /\ n - 1 \in 0 .. Size  BY <1>0, <2>4
    <3> DEFINE m == Depth(n - 1)
               p == Place(n - 1, m)
    <3>2. /\ p \in 1 .. n - 1
          /\ p - 1 \in 0 .. n - 1
          /\ p - 1 \in 0 .. Size
          /\ p \in 0 .. Size
          /\ CharAt(p) = IF CharAt(n) = ")" THEN "(" ELSE "["
          /\ Depth(p - 1) = Depth(n)
          /\ Nesting[p - 1].stray = 0
          /\ \A j \in 1 .. Depth(n) : Nesting[p - 1].open[j] = Nesting[n].open[j]
      BY <2>4, <3>1, Closing
    <3>3. m > 0 /\ Nesting[n - 1].stray = 0
      BY <2>4, <3>1, NestingCloses
    <3>4. \A u, v \in Nat : Back[n - 1][u][v] = Back[p][u][v]
      BY <2>1, <3>1, <3>3
    <3> HIDE DEF p
    <3>5. Back[n][r][s] = Back[p - 1][r][s]
      <4>1. CASE CharAt(n) = ")"
        <5>1. Back[n][r][s] = Back[n - 1][r + 1][s]  BY <4>1, BackCases
        <5>2. r + 1 \in Nat /\ r + 1 # 0 /\ r + 1 - 1 = r  OBVIOUS
        <5>3. CharAt(p) = "("  BY <3>2, <4>1
        <5>4. Back[p][r + 1][s] = Back[p - 1][r][s]
          BY <3>2, <5>2, <5>3, BackCases
        <5> QED BY <3>4, <5>1, <5>2, <5>4
      <4>2. CASE CharAt(n) = "]"
        <5>1. Back[n][r][s] = Back[n - 1][r][s + 1]  BY <4>2, BackCases
        <5>2. s + 1 \in Nat /\ s + 1 # 0 /\ s + 1 - 1 = s  OBVIOUS
        <5>3. CharAt(p) = "["  BY <3>2, <4>2, Brackets
        <5>4. Back[p][r][s + 1] = Back[p - 1][r][s]
          BY <3>2, <5>2, <5>3, BackCases
        <5> QED BY <3>4, <5>1, <5>2, <5>4
      <4> QED BY <2>4, <4>1, <4>2 DEF Closes
    <3>6. Depth(n) > 0 => Place(p - 1, Depth(n)) = Place(n, Depth(n))
      <4>1. Depth(n) > 0 => Depth(n) \in 1 .. Depth(n)  BY <2>0
      <4> QED BY <3>2, <4>1 DEF Place
    <3>7. /\ Depth(p - 1) = 0 => Back[p - 1][r][s] = 0
          /\ Depth(p - 1) > 0 => Back[p - 1][r][s] = Back[Place(p - 1, Depth(p - 1))][r][s]
      BY <2>1, <3>2
    <3> QED BY <3>2, <3>5, <3>6, <3>7
  <2>5. CASE n # 0 /\ ~Opens(n) /\ ~Closes(n)
    <3>1. n \in 1 .. Size /\ n - 1 \in 0 .. n - 1  BY <1>0, <2>5
    <3>2. /\ Depth(n) = Depth(n - 1)
          /\ Nesting[n].stray = Nesting[n - 1].stray
          /\ Depth(n) > 0 => Place(n, Depth(n)) = Place(n - 1, Depth(n))
      BY <2>5, <3>1, NestingPasses
    <3>3. Back[n][r][s] = Back[n - 1][r][s]
      BY <2>5, BackCases DEF Opens, Closes
    <3> QED BY <2>1, <3>1, <3>2, <3>3
  <2> QED BY <2>2, <2>3, <2>4, <2>5
<1>2. \A n \in 0 .. Size : (\A j \in 0 .. n - 1 : j \in Good) => n \in Good
  BY <1>1
<1> HIDE DEF Good
<1>3. \A n \in 0 .. Size : n \in Good
  BY <1>2, PlacesBefore
<1> QED BY <1>3 DEF Good

(* If no call that was closed had commas, those since the bracket of the   *)
(* call are the ones of the call.                                          *)
CommasAreOfTheCall(n) ==
  Nesting[n].stray = 0 /\ Nesting[n].inner = 0 /\ Depth(n) > 0 =>
    Count(",", Place(n, Depth(n)), n) = Nesting[n].open[Depth(n)].commas

(* So it is at every place. *)
LEMMA CommasHold ==
  ASSUME IsText
  PROVE  \A n \in 0 .. Size : CommasAreOfTheCall(n)
<1> DEFINE Good == {n \in 0 .. Size : CommasAreOfTheCall(n)}
<1>0. Size \in Nat  BY SizeIsNat
<1>1. ASSUME NEW n \in 0 .. Size, \A j \in 0 .. n - 1 : j \in Good
      PROVE  n \in Good
  <2> SUFFICES ASSUME Nesting[n].stray = 0, Nesting[n].inner = 0, Depth(n) > 0
               PROVE  Count(",", Place(n, Depth(n)), n) = Nesting[n].open[Depth(n)].commas
    BY DEF CommasAreOfTheCall
  <2>0. Depth(n) \in Nat /\ Depth(n) \in 1 .. Depth(n) /\ n \in Nat  BY <1>0, StrayNat
  <2>1. ASSUME NEW j \in 0 .. n - 1, Nesting[j].stray = 0, Nesting[j].inner = 0, Depth(j) > 0
        PROVE  Count(",", Place(j, Depth(j)), j) = Nesting[j].open[Depth(j)].commas
    <3>1. CommasAreOfTheCall(j)  BY <1>1
    <3> QED BY <2>1, <3>1 DEF CommasAreOfTheCall
  <2> HIDE DEF Good
  <2>2. n \in 1 .. Size
    <3>1. n # 0
      <4>1. ~(0 > 0)  OBVIOUS
      <4> QED BY <4>1, Nothing
    <3> QED BY <1>0, <3>1
  <2>3. n - 1 \in 0 .. n - 1 /\ n - 1 \in 0 .. Size  BY <1>0, <2>2
  <2> DEFINE q == Place(n, Depth(n))
  <2>4. q \in 1 .. n /\ q \in Nat /\ q <= n
    <3>1. q \in 1 .. n  BY <2>0, NestedHolds DEF Nested
    <3> HIDE DEF q
    <3> QED BY <2>0, <3>1
  <2>5. CASE Opens(n)
    <3>1. q = n /\ Nesting[n].open[Depth(n)].commas = 0  BY <2>2, <2>5, NestingOpens
    <3> HIDE DEF q
    <3>2. CharAt(n) # ","  BY <2>5, Brackets DEF Opens
    <3>3. Count(",", n, n) = Count(",", n, n - 1)
      <4>1. n > 0 /\ n <= n  BY <2>2
      <4> QED BY <2>0, <3>2, <4>1, CountNext
    <3>4. {k \in n .. n - 1 : CharAt(k) = ","} = {}
      <4>1. \A k : k \notin n .. n - 1  BY <2>0
      <4> QED BY <4>1
    <3>5. Count(",", n, n - 1) = 0  BY <3>4, FS_EmptySet, Zenon DEF Count
    <3> QED BY <3>1, <3>3, <3>5 DEF q
  <2>6. CASE Closes(n)
    <3> DEFINE m == Depth(n - 1)
               p == Place(n - 1, m)
    <3>1. /\ p \in 1 .. n - 1
          /\ p - 1 \in 0 .. n - 1
          /\ p - 1 \in 0 .. Size
          /\ p \in 0 .. Size
          /\ Depth(p - 1) = Depth(n)
          /\ Nesting[p - 1].stray = 0
          /\ Nesting[p - 1].inner <= Nesting[n].inner
          /\ \A j \in 1 .. Depth(n) : Nesting[p - 1].open[j] = Nesting[n].open[j]
      BY <2>2, <2>6, Closing
    <3>2. /\ m > 0
          /\ Nesting[n - 1].open[m].commas \in Nat
          /\ Nesting[n].inner = Nesting[n - 1].inner + Nesting[n - 1].open[m].commas
          /\ Nesting[n - 1].stray = 0
          /\ Nesting[n - 1].inner \in Nat
      BY <2>2, <2>6, NestingCloses
    <3>3. Nesting[n - 1].inner = 0 /\ Nesting[n - 1].open[m].commas = 0
      <4>1. \A a, b \in Nat : a + b = 0 => a = 0 /\ b = 0  OBVIOUS
      <4>2. Nesting[n - 1].inner + Nesting[n - 1].open[m].commas = 0  BY <3>2
      <4> QED BY <3>2, <4>1, <4>2, Zenon
    <3>4. Count(",", p, n - 1) = 0
      BY <2>1, <2>3, <3>2, <3>3
    <3>5. Nesting[p - 1].inner = 0
      <4>1. Nesting[p - 1].inner \in Nat  BY <3>1, StrayNat
      <4>2. \A a \in Nat : a <= 0 => a = 0  OBVIOUS
      <4>3. Nesting[p - 1].inner <= 0  BY <3>1
      <4> QED BY <4>1, <4>2, <4>3
    <3>6. q = Place(p - 1, Depth(p - 1))
            /\ Nesting[p - 1].open[Depth(p - 1)] = Nesting[n].open[Depth(n)]
      BY <2>0, <3>1 DEF Place
    <3>7. q \in 1 .. p - 1
      <4>1. Nested(p - 1)  BY <3>1, NestedHolds
      <4>2. Depth(p - 1) \in 1 .. Depth(p - 1)  BY <2>0, <3>1
      <4> QED BY <3>6, <4>1, <4>2 DEF Nested
    <3> HIDE DEF p, q, m
    <3>8. Count(",", q, p - 1) = Nesting[n].open[Depth(n)].commas
      BY <2>1, <3>1, <3>5, <3>6
    <3>9. CharAt(n) # ","  BY <2>6, Brackets DEF Closes
    <3>10. Count(",", q, n) = Count(",", q, n - 1)
      <4>1. n > 0  BY <2>2
      <4> QED BY <2>0, <2>4, <3>9, <4>1, CountNext
    <3>11. Count(",", q, n - 1) = Count(",", q, p - 1) + Count(",", p, n - 1)
      <4>1. p \in Nat /\ n - 1 \in Nat /\ p > 0 /\ q <= p /\ p <= n - 1 + 1
        BY <2>0, <2>2, <2>4, <3>1, <3>7
      <4> QED BY <2>4, <4>1, CountJoin
    <3>12. Count(",", q, p - 1) \in Nat
      <4>1. p - 1 \in Nat  BY <3>1
      <4> QED BY <2>4, <4>1, CountFacts
    <3>13. Count(",", q, n) = Count(",", q, p - 1)
      <4>1. \A a \in Nat : a + 0 = a  OBVIOUS
      <4> QED BY <3>4, <3>10, <3>11, <3>12, <4>1, Zenon
    <3> QED BY <3>8, <3>13 DEF q
  <2>7. CASE ~Opens(n) /\ ~Closes(n)
    <3>1. /\ Depth(n) = Depth(n - 1)
          /\ Nesting[n].inner = Nesting[n - 1].inner
          /\ Nesting[n].stray = Nesting[n - 1].stray
          /\ Place(n, Depth(n)) = Place(n - 1, Depth(n))
          /\ CharAt(n) = "," => Nesting[n].open[Depth(n)].commas =
                                      Nesting[n - 1].open[Depth(n)].commas + 1
          /\ CharAt(n) # "," => Nesting[n].open[Depth(n)].commas =
                                      Nesting[n - 1].open[Depth(n)].commas
      BY <2>2, <2>7, NestingPasses
    <3>2. Count(",", q, n - 1) = Nesting[n - 1].open[Depth(n)].commas
      BY <2>1, <2>3, <3>1
    <3>3. n > 0  BY <2>2
    <3> HIDE DEF q
    <3>4. /\ CharAt(n) = "," => Count(",", q, n) = Count(",", q, n - 1) + 1
          /\ CharAt(n) # "," => Count(",", q, n) = Count(",", q, n - 1)
      BY <2>0, <2>4, <3>3, CountNext
    <3>5. Count(",", q, n) = Nesting[n].open[Depth(n)].commas
      BY <3>1, <3>2, <3>4
    <3> QED BY <3>5 DEF q
  <2> QED BY <2>5, <2>6, <2>7
<1>2. \A n \in 0 .. Size : (\A j \in 0 .. n - 1 : j \in Good) => n \in Good
  BY <1>1
<1> HIDE DEF Good
<1>3. \A n \in 0 .. Size : n \in Good
  BY <1>2, PlacesBefore
<1> QED BY <1>3 DEF Good

(* What is shown, of the text it was asked of. *)
Shown(cursor, open, active) ==
  /\ open = Enclosing(cursor)
  /\ active = IF Enclosing(cursor) = 0 THEN 0 ELSE Count(",", Enclosing(cursor), cursor)

(* The answer is the one for the text and the cursor it names. *)
HelpInvariant ==
  /\ input \in Texts
  /\ pc = "helped" => help.cursor \in 0 .. Size /\ Shown(help.cursor, help.open, help.active)

(* An answer is for the text and not for the state. *)
LEMMA SameShown ==
  ASSUME input' = input
  PROVE  Size' = Size /\ \A c, o, a : Shown(c, o, a)' <=> Shown(c, o, a)
<1>1. Size' = Size /\ \A k : CharAt(k)' = CharAt(k)
  BY SameText
<1>2. Back' = Back
  BY <1>1, SMT DEF Back
<1>3. \A c : Enclosing(c)' = Enclosing(c)
  BY <1>2, Zenon DEF Enclosing
<1>4. \A a, b : Count(",", a, b)' = Count(",", a, b)
  <2>1. ASSUME NEW a, NEW b
        PROVE  {k \in a .. b : CharAt(k)' = ","} = {k \in a .. b : CharAt(k) = ","}
    BY <1>1
  <2> QED BY <2>1, Zenon DEF Count
<1> QED BY <1>1, <1>3, <1>4, Zenon DEF Shown

(* At the start there is no answer. *)
LEMMA HelpStarts == Init => HelpInvariant
BY DEF Init, HelpInvariant

(* Only Signature answers, and a step keeps the answer. *)
LEMMA HelpKept == HelpInvariant /\ [Next]_vars => HelpInvariant'
<1> SUFFICES ASSUME HelpInvariant, [Next]_vars PROVE HelpInvariant'
  OBVIOUS
<1>1. CASE NextToken
  <2>1. pc' # "helped" /\ input' = input  BY <1>1, Zenon DEF NextToken
  <2> QED BY <2>1 DEF HelpInvariant
<1>2. CASE Encode
  <2>1. pc' # "helped" /\ input' = input  BY <1>2 DEF Encode
  <2> QED BY <2>1 DEF HelpInvariant
<1>3. CASE \E cursor \in 0 .. Size : Signature(cursor)
  <2>1. PICK cursor \in 0 .. Size : Signature(cursor)  BY <1>3
  <2>2. input' = input  BY <2>1 DEF Signature
  <2>3. /\ help'.cursor = cursor
        /\ help'.open = Enclosing(cursor)
        /\ help'.active = IF Enclosing(cursor) = 0 THEN 0
                          ELSE Count(",", Enclosing(cursor), cursor)
    BY <2>1 DEF Signature
  <2>4. Shown(cursor, help'.open, help'.active)  BY <2>3, Zenon DEF Shown
  <2>5. Size' = Size /\ \A c, o, a : Shown(c, o, a)' <=> Shown(c, o, a)
    BY <2>2, SameShown
  <2>6. (help.cursor \in 0 .. Size)'  BY <2>3, <2>5
  <2>7. Shown(help.cursor, help.open, help.active)'
    <3>1. ASSUME NEW c, NEW o, NEW a, c = help'.cursor, o = help'.open, a = help'.active
          PROVE  Shown(help.cursor, help.open, help.active)'
      <4>1. Shown(c, o, a)  BY <2>3, <2>4, <3>1
      <4>2. Shown(c, o, a)'  BY <2>5, <4>1
      <4> QED BY <3>1, <4>2, Zenon
    <3> QED BY <3>1
  <2> QED BY <2>2, <2>6, <2>7 DEF HelpInvariant
<1>4. CASE UNCHANGED vars
  <2>1. input' = input /\ help' = help /\ pc' = pc  BY <1>4 DEF vars
  <2>2. Size' = Size /\ \A c, o, a : Shown(c, o, a)' <=> Shown(c, o, a)
    BY <2>1, SameShown
  <2>3. ASSUME Shown(help.cursor, help.open, help.active)
        PROVE  Shown(help.cursor, help.open, help.active)'
    <3>1. ASSUME NEW c, NEW o, NEW a, c = help.cursor, o = help.open, a = help.active
          PROVE  Shown(help.cursor, help.open, help.active)'
      <4>1. Shown(c, o, a)'  BY <2>2, <2>3, <3>1
      <4>2. c = help'.cursor /\ o = help'.open /\ a = help'.active  BY <2>1, <3>1
      <4> QED BY <4>1, <4>2, Zenon
    <3> QED BY <3>1
  <2> QED BY <2>1, <2>2, <2>3 DEF HelpInvariant
<1> QED BY <1>1, <1>2, <1>3, <1>4 DEF Next

(* Forwards and back find the same call and the same argument. *)
LEMMA HelpHolds == HelpInvariant => SignatureIsOfTheCall
<1> SUFFICES ASSUME HelpInvariant, pc = "helped", Nesting[help.cursor].stray = 0
             PROVE  LET open == Nesting[help.cursor].open
                    IN /\ help.open = (IF open = << >> THEN 0 ELSE open[Len(open)].place)
                       /\ open # << >> /\ Nesting[help.cursor].inner = 0 =>
                            help.active = open[Len(open)].commas
  BY DEF SignatureIsOfTheCall
<1> DEFINE n == help.cursor
           open == Nesting[n].open
           m == Len(open)
<1>1. IsText /\ n \in 0 .. Size /\ Shown(n, help.open, help.active) /\ Nesting[n].stray = 0
  BY TextIsText DEF HelpInvariant
<1>2. open \in Seq(Entries) /\ m \in Nat
  <2>1. Nesting[n] \in Nests  BY <1>1, NestingTyped
  <2> HIDE DEF n
  <2> QED BY <2>1, NestFields
<1>3. m = Depth(n) /\ (m > 0 => Place(n, Depth(n)) = open[m].place)
  BY DEF Depth, Place
<1>4. m = 0 => Back[n][0][0] = 0
  <2> HIDE DEF n, m, open
  <2>1. 0 \in Nat /\ LooksBack(n)  BY <1>1, LooksBackHolds
  <2> QED BY <1>1, <1>3, <2>1 DEF LooksBack
<1>5. m > 0 => Back[n][0][0] = open[m].place /\ open[m].place # 0
  <2> SUFFICES ASSUME m > 0 PROVE Back[n][0][0] = open[m].place /\ open[m].place # 0
    OBVIOUS
  <2> DEFINE p == open[m].place
  <2>1. Back[n][0][0] = Back[p][0][0]
    <3> HIDE DEF n, p
    <3> QED BY <1>1, <1>3, LooksBackHolds DEF LooksBack, p
  <2>2. p \in 1 .. n /\ Opens(p)
    <3>1. m \in 1 .. m  BY <1>2
    <3> HIDE DEF n, m, p
    <3> QED BY <1>1, <1>3, <3>1, NestedHolds DEF Nested, p
  <2> HIDE DEF p, n, open, m
  <2>3. p \in 0 .. Size /\ p # 0  BY <1>1, <2>2, SizeIsNat
  <2>4. Back[p][0][0] = p
    <3>1. CASE CharAt(p) = "("
      BY <1>1, <2>3, <3>1, BackCases
    <3>2. CASE CharAt(p) = "["
      BY <1>1, <2>3, <3>2, BackCases
    <3> QED BY <2>2, <3>1, <3>2 DEF Opens
  <2> QED BY <2>1, <2>3, <2>4 DEF p
<1>6. m > 0 /\ Nesting[n].inner = 0 => Count(",", open[m].place, n) = open[m].commas
  <2>1. CommasAreOfTheCall(n)
    <3> HIDE DEF n
    <3> QED BY <1>1, CommasHold
  <2> QED BY <1>3, <2>1 DEF CommasAreOfTheCall
<1>7. (open = << >> => m = 0) /\ (open # << >> => m > 0)
  <2>1. \A t \in Seq(Entries) : (t = << >> => Len(t) = 0) /\ (t # << >> => Len(t) > 0)
    OBVIOUS
  <2> QED BY <1>2, <2>1
<1> HIDE DEF m
<1>8. help.open = (IF open = << >> THEN 0 ELSE open[m].place)
  BY <1>1, <1>4, <1>5, <1>7, Zenon DEF Shown, Enclosing
<1>9. open # << >> /\ Nesting[n].inner = 0 => help.active = open[m].commas
  BY <1>1, <1>5, <1>6, <1>7, Zenon DEF Shown, Enclosing
<1> QED BY <1>8, <1>9 DEF m

(* Where brackets are nested, signature_help shows the innermost call      *)
(* around the cursor, though it counts round and square brackets apart;    *)
(* and the argument the cursor is in, unless a call inside has commas.     *)
THEOREM SignatureShowsTheCall == Spec => []SignatureIsOfTheCall
<1>1. Spec => []HelpInvariant
  BY HelpStarts, HelpKept, PTL DEF Spec
<1> QED BY <1>1, HelpHolds, PTL

-----------------------------------------------------------------------------

(* Max takes the greatest element. *)
LEMMA MaxOf ==
  ASSUME NEW S \in SUBSET Nat, S # {}, NEW b \in Nat, \A y \in S : y <= b
  PROVE  Max(S) \in S /\ \A y \in S : y <= Max(S)
<1> DEFINE T == {u \in Nat : \A y \in S : y <= u}
<1>1. PICK m \in T : \A u \in T : m <= u
  <2>1. T \in SUBSET Nat /\ b \in T  OBVIOUS
  <2> HIDE DEF T
  <2> QED BY <2>1, LeastElement
<1>2. m \in Nat /\ \A y \in S : y <= m
  OBVIOUS
<1>3. m \in S
  <2> SUFFICES ASSUME m \notin S PROVE FALSE  OBVIOUS
  <2>1. PICK y \in S : TRUE  OBVIOUS
  <2>2. m # 0
    <3>1. \A a \in Nat : a <= 0 => a = 0  OBVIOUS
    <3> QED BY <1>2, <2>1, <3>1
  <2>3. m - 1 \in Nat /\ ~(m <= m - 1)  BY <1>2, <2>2
  <2>4. ASSUME NEW z \in S PROVE z <= m - 1
    <3>1. z \in Nat /\ z <= m /\ z # m  BY <1>2
    <3> QED BY <1>2, <3>1
  <2>5. m - 1 \in T  BY <2>3, <2>4
  <2> HIDE DEF T
  <2> QED BY <1>1, <2>3, <2>5
<1>4. \E x \in S : \A y \in S : x >= y
  <2>1. \A y \in S : m >= y  BY <1>2
  <2> QED BY <1>3, <2>1
<1>5. Max(S) \in S /\ \A y \in S : Max(S) >= y
  BY <1>4, Zenon DEF Max
<1>6. Max(S) \in Nat
  BY <1>5
<1> QED BY <1>5, <1>6

(* The ends of lines before a place, and the last of them. *)
Breaks(k) == {j \in 1 .. k - 1 : input[j] = "\n"}
LastBreak(k) == Max({0} \cup Breaks(k))

(* There are finitely many, and the last is one of them if there is any. *)
LEMMA BreakFacts ==
  ASSUME IsText, NEW k \in 1 .. Size + 1
  PROVE  /\ Breaks(k) \in SUBSET Nat
         /\ IsFiniteSet(Breaks(k))
         /\ Cardinality(Breaks(k)) \in Nat
         /\ Cardinality(Breaks(k)) = 0 <=> Breaks(k) = {}
         /\ LastBreak(k) \in {0} \cup Breaks(k)
         /\ LastBreak(k) \in 0 .. k - 1
         /\ \A j \in Breaks(k) : j <= LastBreak(k)
<1>0. Size \in Nat /\ k \in Nat /\ k - 1 \in Nat
  BY SizeIsNat
<1>1. Breaks(k) \in SUBSET (1 .. k - 1)
  BY DEF Breaks
<1>2. Breaks(k) \in SUBSET Nat /\ \A j \in Breaks(k) : j \in 1 .. k - 1
  BY <1>0, <1>1
<1>3. IsFiniteSet(Breaks(k))
  <2>1. IsFiniteSet(1 .. k - 1)  BY <1>0, FS_Interval
  <2> QED BY <1>1, <2>1, FS_Subset
<1>4. Cardinality(Breaks(k)) \in Nat /\ (Cardinality(Breaks(k)) = 0 <=> Breaks(k) = {})
  BY <1>3, FS_CardinalityType, FS_EmptySet
<1> DEFINE S == {0} \cup Breaks(k)
<1>5. S \in SUBSET Nat /\ S # {} /\ \A y \in S : y <= k - 1
  BY <1>0, <1>2
<1> HIDE DEF S
<1>6. Max(S) \in S /\ \A y \in S : y <= Max(S)
  BY <1>0, <1>5, MaxOf
<1>7. Max(S) \in 0 .. k - 1
  <2>1. \A m \in Nat : m <= k - 1 => m \in 0 .. k - 1  BY <1>0
  <2>2. Max(S) \in Nat /\ Max(S) <= k - 1  BY <1>5, <1>6
  <2> QED BY <2>1, <2>2
<1> QED BY <1>2, <1>3, <1>4, <1>6, <1>7 DEF S, LastBreak

(* A position is the number of ends of lines before it and the distance   *)
(* from the last.                                                          *)
LEMMA PositionIs ==
  ASSUME IsText, NEW k \in 1 .. Size + 1
  PROVE  /\ Position(k) = [line |-> Cardinality(Breaks(k)),
                           column |-> k - 1 - LastBreak(k)]
         /\ Position(k).line = Cardinality(Breaks(k))
         /\ Position(k).column = k - 1 - LastBreak(k)
         /\ Position(k).line \in Nat
         /\ Position(k).column \in Nat
<1>1. Position(k) = [line |-> Cardinality(Breaks(k)),
                     column |-> k - 1 - LastBreak(k)]
  BY Zenon DEF Position, Breaks, LastBreak
<1>2. Position(k).line = Cardinality(Breaks(k))
        /\ Position(k).column = k - 1 - LastBreak(k)
  BY <1>1
<1>3. k - 1 - LastBreak(k) \in Nat
  <2>1. \A n \in Nat : \A m : n > 0 /\ m \in 0 .. n - 1 => n - 1 - m \in Nat  OBVIOUS
  <2>2. k \in Nat /\ k > 0  BY SizeIsNat
  <2> QED BY <2>1, <2>2, BreakFacts
<1> QED BY <1>1, <1>2, <1>3, BreakFacts

(* A text starts at its first line and column. *)
LEMMA PositionFirst ==
  ASSUME IsText
  PROVE  Position(1).line = 0 /\ Position(1).column = 0
<1>1. 1 \in 1 .. Size + 1
  BY SizeIsNat
<1>2. Breaks(1) = {}
  BY DEF Breaks
<1>3. \A q \in 1 .. Size + 1 :
        Breaks(q) = {} => Position(q).line = 0 /\ Position(q).column = q - 1
  <2> SUFFICES ASSUME NEW q \in 1 .. Size + 1, Breaks(q) = {}
               PROVE  Position(q).line = 0 /\ Position(q).column = q - 1
    OBVIOUS
  <2>1. LastBreak(q) \in {0} \cup Breaks(q)  BY BreakFacts
  <2>2. LastBreak(q) = 0  BY <2>1
  <2>3. Position(q).line = Cardinality(Breaks(q)) /\ Position(q).column = q - 1 - LastBreak(q)
    BY PositionIs
  <2>4. q - 1 - 0 = q - 1  BY SizeIsNat
  <2> QED BY <2>2, <2>3, <2>4, FS_EmptySet
<1>4. 1 - 1 = 0
  OBVIOUS
<1> QED BY <1>1, <1>2, <1>3, <1>4, Zenon

(* From one place to the next: an end of a line starts another one. *)
LEMMA PositionNext ==
  ASSUME IsText, NEW k \in 1 .. Size, NEW q, q = k + 1
  PROVE  /\ q \in 1 .. Size + 1
         /\ input[k] = "\n" => Position(q).line = Position(k).line + 1 /\ Position(q).column = 0
         /\ input[k] # "\n" =>
              /\ Position(q).line = Position(k).line
              /\ Position(q).column = Position(k).column + 1
<1>0. Size \in Nat /\ k \in 1 .. Size + 1 /\ q \in 1 .. Size + 1 /\ k \in Nat /\ q - 1 = k
  BY SizeIsNat
<1>1. \A j : j \in 1 .. q - 1 <=> j \in 1 .. k - 1 \/ j = k
  BY <1>0
<1>2. input[k] = "\n" => Breaks(q) = Breaks(k) \cup {k}
  BY <1>1 DEF Breaks
<1>3. input[k] # "\n" => Breaks(q) = Breaks(k)
  BY <1>1 DEF Breaks
<1>4. k \notin Breaks(k)
  BY <1>0 DEF Breaks
<1>5. /\ Position(q).line = Cardinality(Breaks(q))
      /\ Position(q).column = q - 1 - LastBreak(q)
      /\ Position(k).line = Cardinality(Breaks(k))
      /\ Position(k).column = k - 1 - LastBreak(k)
  BY <1>0, PositionIs
<1>6. ASSUME input[k] = "\n"
      PROVE  Position(q).line = Position(k).line + 1 /\ Position(q).column = 0
  <2>1. Cardinality(Breaks(q)) = Cardinality(Breaks(k)) + 1
    <3>1. IsFiniteSet(Breaks(k))  BY <1>0, BreakFacts
    <3> QED BY <1>2, <1>4, <1>6, <3>1, FS_AddElement
  <2>2. LastBreak(q) = k
    <3>1. k \in Breaks(q)  BY <1>2, <1>6
    <3>2. k <= LastBreak(q) /\ LastBreak(q) \in 0 .. q - 1
      BY <1>0, <3>1, BreakFacts
    <3>3. \A m : k <= m /\ m \in 0 .. k => m = k  BY <1>0
    <3> QED BY <1>0, <3>2, <3>3
  <2>3. q - 1 - k = 0  BY <1>0
  <2> QED BY <1>5, <2>1, <2>2, <2>3
<1>7. ASSUME input[k] # "\n"
      PROVE  Position(q).line = Position(k).line /\ Position(q).column = Position(k).column + 1
  <2>1. \A m : m \in 0 .. k - 1 => k - m = k - 1 - m + 1  BY <1>0
  <2>2. LastBreak(q) = LastBreak(k)  BY <1>3, <1>7 DEF LastBreak
  <2>3. LastBreak(k) \in 0 .. k - 1  BY <1>0, BreakFacts
  <2> QED BY <1>0, <1>3, <1>5, <1>7, <2>1, <2>2, <2>3
<1> QED BY <1>0, <1>6, <1>7

(* offset_for_position takes the position of a place back to it. *)
LEMMA OffsetBack ==
  ASSUME IsText, NEW p \in 1 .. Size
  PROVE  OffsetFor(Position(p)) = p - 1
<1> DEFINE all == {j \in 1 .. Size : input[j] = "\n"}
           here == Position(p)
           Upto(j) == {i \in all : i <= j}
           m == LastBreak(p)
<1>0. Size \in Nat /\ p \in Nat /\ p - 1 \in Nat /\ p <= Size /\ p \in 1 .. Size + 1
  BY SizeIsNat
<1>1. here.line = Cardinality(Breaks(p)) /\ here.column = p - 1 - m
  BY <1>0, PositionIs
<1>2. m \in {0} \cup Breaks(p) /\ m \in 0 .. p - 1 /\ \A j \in Breaks(p) : j <= m
  BY <1>0, BreakFacts
<1>3. IsFiniteSet(all)
  <2>1. IsFiniteSet(1 .. Size) /\ all \in SUBSET (1 .. Size)  BY <1>0, FS_Interval
  <2> HIDE DEF all
  <2> QED BY <2>1, FS_Subset
<1>4. \A j \in all : j \in Nat
  BY <1>0
<1>5. Breaks(p) # {} => m \in all /\ Upto(m) = Breaks(p)
  <2> SUFFICES ASSUME Breaks(p) # {} PROVE m \in all /\ Upto(m) = Breaks(p)
    OBVIOUS
  <2>1. \A j : j \in Breaks(p) <=> j \in all /\ j < p
    <3>1. \A j : j \in 1 .. p - 1 <=> j \in 1 .. Size /\ j < p  BY <1>0
    <3> QED BY <3>1 DEF Breaks
  <2>2. m # 0
    <3>1. PICK j \in Breaks(p) : TRUE  OBVIOUS
    <3>2. j \in Nat /\ j # 0  BY <2>1
    <3> HIDE DEF m
    <3> QED BY <1>2, <3>2
  <2> HIDE DEF m, all
  <2>3. m \in Breaks(p)  BY <1>2, <2>2
  <2>4. \A j \in all : j <= m => j < p
    <3>1. m < p /\ m \in Nat  BY <1>0, <1>2
    <3> QED BY <1>0, <1>4, <3>1
  <2> QED BY <1>2, <2>1, <2>3, <2>4
<1>6. \A j, i \in all : Cardinality(Upto(j)) = Cardinality(Upto(i)) => j = i
  <2>1. ASSUME NEW j \in all, NEW i \in all, j < i PROVE Cardinality(Upto(j)) # Cardinality(Upto(i))
    <3> HIDE DEF all
    <3>1. IsFiniteSet(Upto(i)) /\ Upto(j) \in SUBSET Upto(i)
      <4>1. Upto(i) \in SUBSET all  OBVIOUS
      <4>2. \A k \in all : k <= j => k <= i  BY <1>4, <2>1
      <4> QED BY <1>3, <4>1, <4>2, FS_Subset
    <3>2. i \in Upto(i) /\ i \notin Upto(j)
      <4>1. i <= i /\ ~(i <= j)  BY <1>4, <2>1
      <4> QED BY <4>1
    <3>3. Upto(i) # Upto(j)  BY <3>2
    <3> HIDE DEF Upto
    <3> QED BY <3>1, <3>3, FS_Subset
  <2> HIDE DEF Upto
  <2>2. ASSUME NEW j \in all, NEW i \in all, j # i PROVE j < i \/ i < j
    <3> HIDE DEF all
    <3> QED BY <1>4, <2>2
  <2> HIDE DEF all
  <2> QED BY <2>1, <2>2
<1> DEFINE start == IF here.line = 0 THEN 0
                    ELSE CHOOSE j \in all : Cardinality(Upto(j)) = here.line
<1>7. start = m
  <2>1. CASE Breaks(p) = {}
    <3>1. here.line = 0  BY <1>0, <1>1, <2>1, BreakFacts
    <3>2. m = 0  BY <1>2, <2>1
    <3> QED BY <3>1, <3>2
  <2>2. CASE Breaks(p) # {}
    <3>1. here.line # 0  BY <1>0, <1>1, <2>2, BreakFacts
    <3>2. m \in all /\ Cardinality(Upto(m)) = here.line  BY <1>1, <1>5, <2>2
    <3> HIDE DEF m, all, Upto, here
    <3> QED BY <1>6, <3>1, <3>2
  <2> QED BY <2>1, <2>2
<1>8. OffsetFor(here) = Min({Size, start + here.column})
  BY Zenon DEF OffsetFor
<1> HIDE DEF start, m, here
<1>9. start + here.column = p - 1
  <2>1. \A a, b : a \in 0 .. b /\ b \in Nat => a + (b - a) = b  OBVIOUS
  <2> QED BY <1>0, <1>1, <1>2, <1>7, <2>1
<1>10. Min({Size, p - 1}) = p - 1
  <2>1. {Size, p - 1} \in SUBSET Nat /\ {Size, p - 1} # {}  BY <1>0
  <2>2. Min({Size, p - 1}) \in {Size, p - 1} /\ Min({Size, p - 1}) <= p - 1
    BY <2>1, LeastOf
  <2> QED BY <1>0, <2>2
<1> QED BY <1>8, <1>9, <1>10 DEF here

(* The line_ and column_ of a place, which count from one. *)
PlaceOf(k) == [line |-> Position(k).line + 1, column |-> Position(k).column + 1]

(* One step of advance. *)
AdvancedBody(f, from, k) ==
  CASE k = from -> at
    [] k > from /\ input[k - 1] = "\n" -> [line |-> f[k - 1].line + 1, column |-> 1]
    [] OTHER -> [f[k - 1] EXCEPT !.column = @ + 1]

(* The step leads from one place to the next. *)
LEMMA AdvancedStep ==
  ASSUME IsText, NEW from \in 1 .. Size + 1, at = PlaceOf(from),
         NEW k \in from .. Size + 1, NEW f, k > from => f[k - 1] = PlaceOf(k - 1)
  PROVE  AdvancedBody(f, from, k) = PlaceOf(k)
<1>0. Size \in Nat /\ k \in Nat /\ from \in Nat /\ k \in 1 .. Size + 1
  BY SizeIsNat
<1>1. CASE k = from
  <2>1. ~(k > from)  BY <1>0, <1>1
  <2> QED BY <1>1, <2>1, Zenon DEF AdvancedBody
<1>2. CASE k > from
  <2> DEFINE j == k - 1
  <2>1. j \in 1 .. Size /\ k = j + 1 /\ k # from  BY <1>0, <1>2
  <2>2. f[j] = PlaceOf(j)  BY <1>2
  <2> HIDE DEF j
  <2>3. f[j].line = Position(j).line + 1 /\ f[j].column = Position(j).column + 1
          /\ f[j] = [line |-> f[j].line, column |-> f[j].column]
    BY <2>2 DEF PlaceOf
  <2>4. CASE input[j] = "\n"
    <3>1. AdvancedBody(f, from, k) = [line |-> f[j].line + 1, column |-> 1]
      BY <1>2, <2>1, <2>4, Zenon DEF AdvancedBody, j
    <3>2. Position(k).line = Position(j).line + 1 /\ Position(k).column = 0
      BY <2>1, <2>4, PositionNext
    <3> QED BY <2>3, <3>1, <3>2 DEF PlaceOf
  <2>5. CASE input[j] # "\n"
    <3>1. AdvancedBody(f, from, k) = [f[j] EXCEPT !.column = @ + 1]
      BY <1>2, <2>1, <2>5, Zenon DEF AdvancedBody, j
    <3>2. Position(k).line = Position(j).line /\ Position(k).column = Position(j).column + 1
      BY <2>1, <2>5, PositionNext
    <3>3. [f[j] EXCEPT !.column = @ + 1] = [line |-> f[j].line, column |-> f[j].column + 1]
      BY <2>3
    <3> QED BY <2>3, <3>1, <3>2, <3>3 DEF PlaceOf
  <2> QED BY <2>4, <2>5
<1> QED BY <1>0, <1>1, <1>2

(* advance keeps line_ and column_ those of pos_. *)
LEMMA AdvancedTo ==
  ASSUME IsText, NEW from \in 1 .. Size + 1, NEW end \in from .. Size + 1,
         at = PlaceOf(from)
  PROVE  Advanced(from, end) = PlaceOf(end)
<1> DEFINE D == from .. end
           P == [k \in D |-> PlaceOf(k)]
           To == CHOOSE f : f = [k \in D |-> AdvancedBody(f, from, k)]
           rank == [k \in D |-> k]
           Good == {k \in D : To[k] = PlaceOf(k)}
<1>0. Size \in Nat /\ from \in Nat /\ end \in Nat /\ from > 0 /\ from <= end /\ end <= Size + 1
  BY SizeIsNat
<1>1. \A k \in D : k \in Nat /\ k \in from .. Size + 1 /\ (k > from => k - 1 \in D)
                     /\ k - 1 < k
  BY <1>0
<1>2. \A k \in D : AdvancedBody(P, from, k) = PlaceOf(k)
  <2> TAKE k \in D
  <2> HIDE DEF D
  <2>1. k > from => P[k - 1] = PlaceOf(k - 1)  BY <1>1
  <2> HIDE DEF P
  <2> QED BY <1>1, <2>1, AdvancedStep
<1>3. \E f : f = [k \in D |-> AdvancedBody(f, from, k)]
  <2> HIDE DEF D
  <2>1. P = [k \in D |-> AdvancedBody(P, from, k)]  BY <1>2
  <2> QED BY <2>1
<1>4. To = [k \in D |-> AdvancedBody(To, from, k)]
  BY <1>3, Zenon
<1>5. Advanced(from, end) = To[end]
  BY Zenon DEF Advanced, AdvancedBody
<1> HIDE DEF To
<1>6. ASSUME NEW k \in D, \A j \in D : rank[j] < rank[k] => j \in Good
      PROVE  k \in Good
  <2> HIDE DEF D
  <2>1. To[k] = AdvancedBody(To, from, k)  BY <1>4
  <2>2. k > from => To[k - 1] = PlaceOf(k - 1)
    <3> SUFFICES ASSUME k > from PROVE To[k - 1] = PlaceOf(k - 1)  OBVIOUS
    <3>1. k - 1 \in D /\ rank[k - 1] < rank[k]  BY <1>1
    <3> HIDE DEF rank
    <3> QED BY <1>6, <3>1
  <2> HIDE DEF rank
  <2> QED BY <1>1, <2>1, <2>2, AdvancedStep
<1>7. \A k \in D : k \in Good
  <2>1. rank \in [D -> Nat]  BY <1>1
  <2> HIDE DEF D, Good, rank
  <2> QED BY <1>6, <2>1, RankInduction
<1>8. end \in D
  BY <1>0
<1> QED BY <1>5, <1>7, <1>8

(* One step of the reading of a string: a character, or the one it escapes. *)
BareBody(f, end, k) ==
  CASE k >= end -> << >>
    [] k < end /\ CharAt(k) = "\\" -> <<CharAt(k + 1)>> \o f[k + 2]
    [] OTHER -> <<CharAt(k)>> \o f[k + 1]

(* A string in which nothing is escaped is as long as its text. *)
LEMMA TextLength ==
  ASSUME IsText, NEW from \in 1 .. Size, NEW end \in from .. Size + 1,
         \A j \in from .. end : CharAt(j) # "\\"
  PROVE  Len(TokenText(from, end)) = end - from
<1> DEFINE Chars == STRING \cup {NoChar}
           S == Seq(Chars)
           step == [k \in Nat |-> [f \in [Nat -> S] |-> BareBody(f, end, k)]]
           rank == [k \in Nat |-> IF k >= end THEN 0 ELSE end - k]
<1>0. Size \in Nat /\ from \in Nat /\ end \in Nat /\ from <= end
  BY SizeIsNat
<1>a. \A k \in Nat : CharAt(k) \in Chars
  <2> SUFFICES ASSUME NEW k \in Nat PROVE CharAt(k) \in Chars  OBVIOUS
  <2>1. CASE k \in 1 .. Size
    BY <2>1, SizeIsNat DEF CharAt
  <2>2. CASE k \notin 1 .. Size
    BY <2>2, Zenon DEF CharAt
  <2> QED BY <2>1, <2>2
<1> HIDE DEF Chars
<1>1. rank \in [Nat -> Nat] /\ rank \in [Nat -> 0 .. end]
        /\ \A k \in Nat : k < end => rank[k + 1] < rank[k] /\ rank[k + 2] < rank[k]
  BY <1>0
<1> HIDE DEF rank
<1>2. ASSUME NEW k \in Nat, NEW f \in [Nat -> S], NEW g \in [Nat -> S],
             \A j \in Nat : rank[j] < rank[k] => f[j] = g[j]
      PROVE  BareBody(f, end, k) = BareBody(g, end, k)
  <2>1. k < end => f[k + 1] = g[k + 1] /\ f[k + 2] = g[k + 2]
    <3>1. k + 1 \in Nat /\ k + 2 \in Nat  OBVIOUS
    <3> QED BY <1>1, <1>2, <3>1
  <2>2. k >= end \/ k < end  BY <1>0
  <2> QED BY <2>1, <2>2, Zenon DEF BareBody
<1>3. ASSUME NEW k \in Nat, NEW f \in [Nat -> S] PROVE BareBody(f, end, k) \in S
  <2>1. BareBody(f, end, k) \in {<< >>, <<CharAt(k + 1)>> \o f[k + 2], <<CharAt(k)>> \o f[k + 1]}
    BY Zenon DEF BareBody
  <2>2. k + 1 \in Nat /\ k + 2 \in Nat  OBVIOUS
  <2>3. f[k + 1] \in S /\ f[k + 2] \in S  BY <2>2
  <2>4. CharAt(k) \in Chars /\ CharAt(k + 1) \in Chars  BY <1>a, <2>2
  <2>5. \A c \in Chars, t \in Seq(Chars) : <<c>> \o t \in Seq(Chars)  OBVIOUS
  <2>6. << >> \in S  OBVIOUS
  <2> QED BY <2>1, <2>3, <2>4, <2>5, <2>6
<1>4. LooksDown(Nat, S, end, rank, step)
  <2>1. step \in [Nat -> [[Nat -> S] -> S]]  BY <1>3
  <2>2. \A k \in Nat : \A f, g \in [Nat -> S] :
          (\A j \in Nat : rank[j] < rank[k] => f[j] = g[j]) => step[k][f] = step[k][g]
    <3>1. \A k \in Nat : \A f, g \in [Nat -> S] :
          (\A j \in Nat : rank[j] < rank[k] => f[j] = g[j])
            => BareBody(f, end, k) = BareBody(g, end, k)
      BY <1>2
    <3> HIDE DEF S
    <3> QED BY <3>1
  <2>3. S # {}
    <3>1. << >> \in S  OBVIOUS
    <3> QED BY <3>1
  <2> HIDE DEF S, step
  <2> QED BY <1>0, <1>1, <2>1, <2>2, <2>3 DEF LooksDown
<1>5. PICK h \in [Nat -> S] : \A k \in Nat : h[k] = step[k][h]
  <2> HIDE DEF step, S
  <2> QED BY <1>4, Recursion
<1>6. h = [k \in Nat |-> BareBody(h, end, k)]
  <2> HIDE DEF S
  <2> QED BY <1>5
<1> DEFINE Bare == CHOOSE f : f = [k \in Nat |-> BareBody(f, end, k)]
<1>7. Bare = [k \in Nat |-> BareBody(Bare, end, k)]
  BY <1>6, Zenon
<1>8. TokenText(from, end) = IF CharAt(from) = Quote THEN Bare[from]
                             ELSE SubSeq(input, from, end - 1)
  BY Zenon DEF TokenText, BareBody, Quote
<1> HIDE DEF Bare, S, step
<1> DEFINE Good == {k \in Nat : k \in from .. end =>
                      Bare[k] \in Seq(Chars) /\ Len(Bare[k]) = end - k}
<1>9. ASSUME NEW k \in Nat, \A j \in Nat : rank[j] < rank[k] => j \in Good
      PROVE  k \in Good
  <2> SUFFICES ASSUME k \in from .. end PROVE Bare[k] \in Seq(Chars) /\ Len(Bare[k]) = end - k
    OBVIOUS
  <2>1. Bare[k] = BareBody(Bare, end, k)  BY <1>7
  <2>2. CASE k = end
    <3>1. k >= end /\ ~(k < end)  BY <1>0, <2>2
    <3>2. Bare[k] = << >>  BY <2>1, <3>1, Zenon DEF BareBody
    <3>3. end - k = 0  BY <1>0, <2>2
    <3> QED BY <3>2, <3>3
  <2>3. CASE k # end
    <3>1. k < end /\ ~(k >= end) /\ k + 1 \in Nat /\ k + 1 \in from .. end
            /\ end - k = end - (k + 1) + 1
      BY <1>0, <2>3
    <3>2. CharAt(k) # "\\"  OBVIOUS
    <3>3. Bare[k] = <<CharAt(k)>> \o Bare[k + 1]
      BY <2>1, <3>1, <3>2, Zenon DEF BareBody
    <3>4. k + 1 \in Good
      <4> HIDE DEF Good
      <4> QED BY <1>1, <1>9, <3>1
    <3>5. Bare[k + 1] \in Seq(Chars) /\ Len(Bare[k + 1]) = end - (k + 1)
      BY <3>1, <3>4
    <3>6. \A c \in Chars, t \in Seq(Chars) : <<c>> \o t \in Seq(Chars) /\ Len(<<c>> \o t) = Len(t) + 1
      OBVIOUS
    <3>7. CharAt(k) \in Chars  BY <1>a
    <3> HIDE DEF Good
    <3> QED BY <3>1, <3>3, <3>5, <3>6, <3>7
  <2> QED BY <2>2, <2>3
<1>10. \A k \in Nat : k \in Good
  <2> HIDE DEF Good
  <2> QED BY <1>1, <1>9, RankInduction
<1>11. CASE CharAt(from) = Quote
  <2>1. from \in from .. end  BY <1>0
  <2> QED BY <1>0, <1>8, <1>10, <1>11, <2>1
<1>12. CASE CharAt(from) # Quote
  <2> DEFINE l == end - 1
  <2>1. l \in Int /\ from \in Int /\ \A i \in from .. l : input[i] \in STRING
    BY <1>0, SizeIsNat
  <2>2. end - from = IF from <= l THEN l - from + 1 ELSE 0  BY <1>0
  <2> HIDE DEF l
  <2>3. Len(SubSeq(input, from, l)) = IF from <= l THEN l - from + 1 ELSE 0
    BY <2>1, SubSeqProperties
  <2> QED BY <1>8, <1>12, <2>2, <2>3 DEF l
<1> QED BY <1>11, <1>12

(* There are n numbers from one to n. *)
LEMMA UpTo ==
  ASSUME NEW n \in Nat
  PROVE  IsFiniteSet(1 .. n) /\ Cardinality(1 .. n) = n
<1>1. IsFiniteSet(1 .. n) /\ Cardinality(1 .. n) = IF 1 > n THEN 0 ELSE n - 1 + 1
  BY FS_Interval
<1> QED BY <1>1

(* A sequence of marks with different places, sorted by them: the nth is   *)
(* the one with n - 1 before it.                                           *)
Sorted(U) ==
  [n \in DOMAIN U |->
     CHOOSE t \in Range(U) : Cardinality({s \in Range(U) : s.place < t.place}) = n - 1]

(* Sorting loses none and adds none. *)
LEMMA SortedHasAll ==
  ASSUME NEW U, IsSequence(U), \A i \in DOMAIN U : U[i].place \in Nat,
         \A i, j \in DOMAIN U : U[i].place = U[j].place => i = j
  PROVE  /\ \A n \in DOMAIN U : Sorted(U)[n] \in Range(U)
         /\ \A t \in Range(U) : \E n \in DOMAIN U : Sorted(U)[n] = t
<1> DEFINE n == Len(U)
           R == Range(U)
           Before(t) == {s \in R : s.place < t.place}
           rho == [t \in R |-> Cardinality(Before(t)) + 1]
<1>0. n \in Nat /\ DOMAIN U = 1 .. n /\ U \in [1 .. n -> R]
  <2>1. \A A : U \in Seq(A) =>
          Len(U) \in Nat /\ DOMAIN U = 1 .. Len(U) /\ U \in [1 .. Len(U) -> A]
    OBVIOUS
  <2> QED BY <2>1 DEF IsSequence
<1>1. \A t \in R : t.place \in Nat
  BY DEF Range
<1>2. \A s, t \in R : s.place = t.place => s = t
  BY DEF Range
<1>3. IsFiniteSet(R) /\ Cardinality(R) = n
  <2>1. IsFiniteSet(1 .. n) /\ Cardinality(1 .. n) = n  BY <1>0, UpTo
  <2>2. U \in Surjection(1 .. n, R)
    <3>1. U \in [1 .. n -> R]  BY <1>0
    <3> QED BY <1>0, <3>1 DEF Surjection, Range
  <2>3. U \in Injection(1 .. n, R)
    <3>1. U \in [1 .. n -> R]  BY <2>2 DEF Surjection
    <3>2. \A i, j \in 1 .. n : U[i] = U[j] => i = j  BY <1>0
    <3> HIDE DEF n, R
    <3> QED BY <3>1, <3>2, Zenon DEF Injection, IsInjective
  <2> HIDE DEF n, R
  <2> QED BY <2>1, <2>2, <2>3, FS_Surjection
<1> HIDE DEF n, R
<1>4. ASSUME NEW t \in R
      PROVE  /\ IsFiniteSet(Before(t))
             /\ Cardinality(Before(t)) \in Nat
             /\ Cardinality(Before(t)) < n
  <2>1. Before(t) \in SUBSET R  OBVIOUS
  <2>2. t \notin Before(t)
    <3>1. ~(t.place < t.place)  BY <1>1
    <3> QED BY <3>1
  <2> HIDE DEF Before
  <2>3. IsFiniteSet(Before(t)) /\ Cardinality(Before(t)) <= Cardinality(R)
          /\ Cardinality(R) # Cardinality(Before(t))
    BY <1>3, <2>1, <2>2, FS_Subset
  <2>4. Cardinality(Before(t)) \in Nat  BY <2>3, FS_CardinalityType
  <2> QED BY <1>0, <1>3, <2>3, <2>4
<1>5. ASSUME NEW s \in R, NEW t \in R, s.place < t.place
      PROVE  Cardinality(Before(s)) # Cardinality(Before(t))
  <2>1. Before(s) \in SUBSET Before(t)
    <3>1. \A u \in R : u.place < s.place => u.place < t.place  BY <1>1, <1>5
    <3> QED BY <3>1
  <2>2. s \in Before(t) /\ s \notin Before(s)
    <3>1. ~(s.place < s.place)  BY <1>1
    <3> QED BY <1>5, <3>1
  <2>3. IsFiniteSet(Before(t))  BY <1>4
  <2> HIDE DEF Before
  <2> QED BY <2>1, <2>2, <2>3, FS_Subset
<1>6. \A s, t \in R : Cardinality(Before(s)) = Cardinality(Before(t)) => s = t
  <2> SUFFICES ASSUME NEW s \in R, NEW t \in R, s # t
               PROVE  Cardinality(Before(s)) # Cardinality(Before(t))
    OBVIOUS
  <2>1. s.place < t.place \/ t.place < s.place
    <3>1. s.place # t.place  BY <1>2
    <3> QED BY <1>1, <3>1
  <2> HIDE DEF Before
  <2> QED BY <1>5, <2>1
<1> HIDE DEF Before
<1>7. rho \in Injection(R, 1 .. n)
  <2>1. \A t \in R : Cardinality(Before(t)) + 1 \in 1 .. n  BY <1>0, <1>4
  <2>2. rho \in [R -> 1 .. n]  BY <2>1
  <2>3. ASSUME NEW s \in R, NEW t \in R, rho[s] = rho[t] PROVE s = t
    <3>1. Cardinality(Before(s)) + 1 = Cardinality(Before(t)) + 1  BY <2>3
    <3>2. Cardinality(Before(s)) \in Nat /\ Cardinality(Before(t)) \in Nat  BY <1>4
    <3>3. \A a, b \in Nat : a + 1 = b + 1 => a = b  OBVIOUS
    <3>4. Cardinality(Before(s)) = Cardinality(Before(t))  BY <3>1, <3>2, <3>3, Zenon
    <3> QED BY <1>6, <3>4
  <2> HIDE DEF rho
  <2> QED BY <2>2, <2>3, Zenon DEF Injection, IsInjective
<1>8. rho \in Surjection(R, 1 .. n)
  <2>1. IsFiniteSet(1 .. n) /\ Cardinality(1 .. n) = n  BY <1>0, UpTo
  <2> HIDE DEF rho
  <2> QED BY <1>3, <1>7, <2>1, FS_Injection
<1>9. \A i \in 1 .. n : \E t \in R : Cardinality(Before(t)) = i - 1
  <2> TAKE i \in 1 .. n
  <2>1. PICK t \in R : rho[t] = i
    <3> HIDE DEF rho
    <3> QED BY <1>8 DEF Surjection
  <2>2. Cardinality(Before(t)) + 1 = i /\ Cardinality(Before(t)) \in Nat  BY <1>4, <2>1
  <2>3. Cardinality(Before(t)) = i - 1  BY <2>2
  <2> QED BY <2>3
<1>10. \A i \in DOMAIN U : Sorted(U)[i] = CHOOSE t \in R : Cardinality(Before(t)) = i - 1
  BY DEF Sorted, R, Before
<1>11. \A i \in DOMAIN U : Sorted(U)[i] \in R /\ Cardinality(Before(Sorted(U)[i])) = i - 1
  BY <1>0, <1>9, <1>10, Zenon
<1>12. ASSUME NEW t \in R PROVE \E i \in DOMAIN U : Sorted(U)[i] = t
  <2> DEFINE i == Cardinality(Before(t)) + 1
  <2>1. i \in 1 .. n /\ i - 1 = Cardinality(Before(t))  BY <1>0, <1>4
  <2> HIDE DEF i
  <2>2. i \in DOMAIN U  BY <1>0, <2>1
  <2>3. Sorted(U)[i] \in R /\ Cardinality(Before(Sorted(U)[i])) = Cardinality(Before(t))
    BY <1>11, <2>1, <2>2
  <2>4. Sorted(U)[i] = t  BY <1>6, <2>3
  <2> QED BY <2>2, <2>4
<1> QED BY <1>11, <1>12 DEF R

(* Comments are found in order, each at its mark. *)
InOrder(s, k) ==
  /\ s \in Seq(Spans)
  /\ \A i \in 1 .. Len(s) : s[i].place \in k .. Size /\ CharAt(s[i].place) = "#"
  /\ \A i, j \in 1 .. Len(s) : i < j => s[i].place < s[j].place

LEMMA InOrderMore ==
  ASSUME IsText, NEW k \in Nat, NEW e \in Nat, k < e, k \in 1 .. Size, CharAt(k) = "#",
         NEW s, InOrder(s, e)
  PROVE  InOrder(<<Span(k, e)>> \o s, k)
<1> DEFINE x == Span(k, e)
           t == <<x>> \o s
<1>0. Size \in Nat  BY SizeIsNat
<1>1. x \in Spans /\ x.place = k
  BY DEF Span, Spans
<1>2. s \in Seq(Spans) /\ Len(s) \in Nat
  BY DEF InOrder
<1> HIDE DEF x
<1>3. t \in Seq(Spans) /\ Len(t) = Len(s) + 1 /\ t[1] = x
        /\ \A i \in 1 .. Len(s) : t[i + 1] = s[i]
  BY <1>1, <1>2
<1>4. \A i \in 1 .. Len(t) : i = 1 \/ (i - 1 \in 1 .. Len(s) /\ t[i] = s[i - 1])
  <2> TAKE i \in 1 .. Len(t)
  <2>1. i = 1 \/ (i - 1 \in 1 .. Len(s) /\ i - 1 + 1 = i)  BY <1>2, <1>3
  <2> QED BY <1>3, <2>1
<1> HIDE DEF t
<1>5. \A i \in 1 .. Len(s) : s[i].place \in e .. Size /\ CharAt(s[i].place) = "#"
  BY DEF InOrder
<1>6. \A i \in 1 .. Len(t) : t[i].place \in k .. Size /\ CharAt(t[i].place) = "#"
  <2> TAKE i \in 1 .. Len(t)
  <2>1. CASE i = 1
    <3>1. t[i].place = k  BY <1>1, <1>3, <2>1
    <3> QED BY <3>1
  <2>2. CASE i # 1
    <3>1. t[i].place \in e .. Size /\ CharAt(t[i].place) = "#"  BY <1>4, <1>5, <2>2
    <3> QED BY <1>0, <3>1
  <2> QED BY <2>1, <2>2
<1>7. ASSUME NEW i \in 1 .. Len(t), NEW j \in 1 .. Len(t), i < j PROVE t[i].place < t[j].place
  <2>1. i \in Nat /\ j \in Nat /\ j # 1  BY <1>7
  <2>2. j - 1 \in 1 .. Len(s) /\ t[j] = s[j - 1]  BY <1>4, <2>1
  <2>3. CASE i = 1
    <3>1. t[i].place = k /\ t[j].place \in e .. Size  BY <1>1, <1>3, <1>5, <2>2, <2>3
    <3> QED BY <1>0, <3>1
  <2>4. CASE i # 1
    <3>1. i - 1 \in 1 .. Len(s) /\ t[i] = s[i - 1] /\ i - 1 < j - 1  BY <1>4, <1>7, <2>1, <2>4
    <3>2. s[i - 1].place < s[j - 1].place  BY <2>2, <3>1 DEF InOrder
    <3> QED BY <2>2, <3>1, <3>2
  <2> QED BY <2>3, <2>4
<1>8. InOrder(t, k)
  BY <1>3, <1>6, <1>7 DEF InOrder
<1> QED BY <1>8 DEF t, x

LEMMA InOrderFrom ==
  ASSUME IsText, NEW k \in Nat, NEW e \in Nat, k <= e, NEW s, InOrder(s, e)
  PROVE  InOrder(s, k)
<1>0. Size \in Nat  BY SizeIsNat
<1>1. \A p : p \in e .. Size => p \in k .. Size
  BY <1>0
<1> QED BY <1>1 DEF InOrder

LEMMA CommentsInOrder ==
  ASSUME IsText
  PROVE  \A k \in Nat : k > 0 => InOrder(CommentsFrom[k], k)
<1> DEFINE Good == {k \in Nat : k > 0 => InOrder(CommentsFrom[k], k)}
<1>0. Size \in Nat  BY SizeIsNat
<1>1. ASSUME NEW k \in Nat, \A j \in Nat : UpRank[j] < UpRank[k] => j \in Good
      PROVE  k \in Good
  <2> SUFFICES ASSUME k > 0 PROVE InOrder(CommentsFrom[k], k)  OBVIOUS
  <2>1. CASE k > Size
    <3>1. CommentsFrom[k] = << >>  BY <2>1, CommentsFromCases
    <3>2. InOrder(<< >>, k)  BY DEF InOrder
    <3> QED BY <3>1, <3>2
  <2>2. CASE k <= Size
    <3>1. k \in 1 .. Size /\ k + 1 \in Nat /\ k + 1 > k /\ k <= k + 1  BY <1>0, <2>2
    <3>2. ASSUME NEW e \in Nat, e > k PROVE InOrder(CommentsFrom[e], e)
      <4>1. UpRank[e] < UpRank[k]  BY <2>2, <3>2, UpRankFacts
      <4>2. e \in Good
        <5> HIDE DEF Good
        <5> QED BY <1>1, <4>1
      <4> QED BY <3>2, <4>2
    <3> HIDE DEF Good
    <3>3. CASE CharAt(k) = Quote
      <4> DEFINE e == EndOrAll(StringEnd[k + 1])
      <4>1. e \in Nat /\ e > k
        BY <1>0, <2>2, <3>1, StringEnds DEF EndOrAll
      <4>2. CommentsFrom[k] = CommentsFrom[e]  BY <3>3, CommentsFromCases
      <4> HIDE DEF e
      <4>3. InOrder(CommentsFrom[e], e) /\ k <= e  BY <3>2, <4>1
      <4> QED BY <4>1, <4>2, <4>3, InOrderFrom
    <3>4. CASE CharAt(k) = "#"
      <4> DEFINE e == EndOrAll(CommentEnd(k))
      <4>1. e \in Nat /\ e > k
        BY <1>0, <2>2, <3>1, <3>4, CommentEnds DEF EndOrAll
      <4>2. CommentsFrom[k] = <<Span(k, e)>> \o CommentsFrom[e]  BY <3>4, CommentsFromCases
      <4> HIDE DEF e
      <4>3. InOrder(CommentsFrom[e], e) /\ k < e  BY <3>2, <4>1
      <4> QED BY <3>1, <3>4, <4>1, <4>2, <4>3, InOrderMore
    <3>5. CASE CharAt(k) # Quote /\ CharAt(k) # "#"
      <4>1. CommentsFrom[k] = CommentsFrom[k + 1]  BY <2>2, <3>5, CommentsFromCases
      <4>2. InOrder(CommentsFrom[k + 1], k + 1)  BY <3>1, <3>2
      <4> QED BY <3>1, <4>1, <4>2, InOrderFrom
    <3> QED BY <3>3, <3>4, <3>5
  <2> QED BY <1>0, <2>1, <2>2
<1>2. \A k \in Nat : k \in Good
  <2>1. UpRank \in [Nat -> Nat]  BY UpRankFacts
  <2> HIDE DEF Good
  <2> QED BY <1>1, <2>1, RankInduction
<1> QED BY <1>2

(* A token found before place p is where its line and column say, and as   *)
(* long as its text unless something in it is escaped.                     *)
Fit(t, p) ==
  /\ t.place \in 1 .. Size
  /\ t.place < p
  /\ t.end \in Nat
  /\ CharAt(t.place) # "#"
  /\ t.line = Position(t.place).line + 1
  /\ t.column = Position(t.place).column + 1
  /\ (\A j \in t.place .. t.end : CharAt(j) # "\\") => Len(t.text) = t.end - t.place

(* The lexer knows where it is, and its tokens fit and follow one another. *)
TokensFit ==
  /\ pos \in 1 .. Size + 1
  /\ at = PlaceOf(pos)
  /\ IsSequence(toks)
  /\ \A k \in DOMAIN toks : Fit(toks[k], pos)
  /\ \A j, k \in DOMAIN toks : j < k => toks[j].place < toks[k].place

(* What Encode sends. *)
EncodedTokens ==
  [k \in DOMAIN SemanticTokens |->
     [delta |-> Delta(IF k = 1 THEN [line |-> 0, column |-> 0]
                      ELSE Position(SemanticTokens[k - 1].place),
                      Position(SemanticTokens[k].place)),
      length |-> SemanticTokens[k].length]]

(* All tokens fit, and what is sent is made of them. *)
FitInvariant ==
  /\ input \in Texts
  /\ TokensFit
  /\ pc # "encoded" => data = << >>
  /\ data # << >> => data = EncodedTokens

(* Positions are of the text and not of the state. *)
LEMMA SamePlaces ==
  ASSUME input' = input
  PROVE  /\ \A k : Position(k)' = Position(k)
         /\ \A k : PlaceOf(k)' = PlaceOf(k)
         /\ \A t, p : Fit(t, p)' <=> Fit(t, p)
<1>1. \A k : Position(k)' = Position(k)
  BY SMT DEF Position
<1>2. \A k : PlaceOf(k)' = PlaceOf(k)
  BY <1>1, Zenon DEF PlaceOf
<1>3. Size' = Size /\ \A k : CharAt(k)' = CharAt(k)
  BY SameText
<1>4. ASSUME NEW t, NEW p PROVE Fit(t, p)' <=> Fit(t, p)
  BY <1>1, <1>3, Zenon DEF Fit
<1> QED BY <1>1, <1>2, <1>4

(* What would be sent is of the text and its tokens. *)
LEMMA SameEncoding ==
  ASSUME input' = input, toks' = toks
  PROVE  EncodedTokens' = EncodedTokens
<1>1. Comments' = Comments
  BY SameText, Zenon DEF Comments
<1>2. Unsorted' = Unsorted
  BY <1>1, Zenon DEF Unsorted
<1>3. SemanticTokens' = SemanticTokens
  BY <1>2 DEF SemanticTokens
<1>4. \A k : Position(k)' = Position(k)
  BY SamePlaces
<1> QED BY <1>3, <1>4, Zenon DEF EncodedTokens

(* Tokens fit as long as the lexer does not move. *)
LEMMA SameFit ==
  ASSUME UNCHANGED <<input, pos, at, toks>>, TokensFit
  PROVE  TokensFit'
<1>1. Size' = Size /\ PlaceOf(pos)' = PlaceOf(pos)
  <2>1. \A k : PlaceOf(k)' = PlaceOf(k)  BY SamePlaces
  <2> QED BY <2>1, SameText
<1>2. \A k \in DOMAIN toks : Fit(toks[k], pos)'
  BY SamePlaces DEF TokensFit
<1>3. IsSequence(toks)' <=> IsSequence(toks)
  BY DEF IsSequence
<1>4. (\A k \in DOMAIN toks : Fit(toks[k], pos))'
  BY <1>2
<1> QED BY <1>1, <1>3, <1>4 DEF TokensFit

(* At the start there are no tokens and nothing is sent. *)
LEMMA FitStarts == Init => FitInvariant
<1> SUFFICES ASSUME Init PROVE FitInvariant
  OBVIOUS
<1>0. IsText /\ Size \in Nat /\ input \in Texts
  BY TextIsText, SizeIsNat DEF Init
<1>1. pos = 1 /\ toks = << >> /\ data = << >> /\ at = [line |-> 1, column |-> 1]
  BY DEF Init
<1>2. PlaceOf(1) = [line |-> 1, column |-> 1]
  BY <1>0, PositionFirst DEF PlaceOf
<1>3. IsSequence(toks) /\ DOMAIN toks = {}
  BY <1>1 DEF IsSequence
<1>4. pos \in 1 .. Size + 1
  BY <1>0, <1>1
<1> QED BY <1>0, <1>1, <1>2, <1>3, <1>4 DEF FitInvariant, TokensFit

(* A token is where the lexer was, and behind the tokens before it. *)
LEMMA FitByToken ==
  ASSUME IsText, TokensFit, NEW start, start = Skipped[pos], start \in 1 .. Size,
         NEW end, end = TokenEnd(start), end # 0, NEW x,
         x = [text |-> TokenText(start, end), place |-> start, end |-> end,
              line |-> Advanced(pos, start).line, column |-> Advanced(pos, start).column]
  PROVE  /\ end \in 1 .. Size + 1
         /\ Fit(x, end)
         /\ Advanced(pos, end) = PlaceOf(end)
         /\ \A k \in DOMAIN toks : Fit(toks[k], end) /\ toks[k].place < x.place
<1>0. Size \in Nat /\ pos \in 1 .. Size + 1 /\ at = PlaceOf(pos)
  BY SizeIsNat DEF TokensFit
<1>1. start \in pos .. Size + 1 /\ CharAt(start) # "#"
  <2>1. start # 0 /\ start <= Size  BY <1>0
  <2> QED BY <1>0, <2>1, Gap
<1>2. end \in start + 1 .. Size + 1
  BY <1>1, Token
<1>3. end \in pos .. Size + 1 /\ end \in start .. Size + 1 /\ end \in 1 .. Size + 1 /\ end \in Nat
        /\ start < end /\ pos <= start /\ pos \in Nat
  BY <1>0, <1>1, <1>2
<1>4. Advanced(pos, start) = PlaceOf(start) /\ Advanced(pos, end) = PlaceOf(end)
  BY <1>0, <1>1, <1>3, AdvancedTo
<1>5. x.place = start /\ x.end = end /\ x.text = TokenText(start, end)
        /\ x.line = Position(start).line + 1 /\ x.column = Position(start).column + 1
  BY <1>4 DEF PlaceOf
<1>6. Fit(x, end)
  <2>1. (\A j \in start .. end : CharAt(j) # "\\") => Len(TokenText(start, end)) = end - start
    BY <1>3, TextLength
  <2> QED BY <1>1, <1>3, <1>5, <2>1 DEF Fit
<1>7. ASSUME NEW k \in DOMAIN toks PROVE Fit(toks[k], end) /\ toks[k].place < x.place
  <2>1. Fit(toks[k], pos)  BY DEF TokensFit
  <2>2. toks[k].place \in 1 .. Size /\ toks[k].place < pos  BY <2>1 DEF Fit
  <2>3. toks[k].place < start /\ toks[k].place < end  BY <1>0, <1>3, <2>2
  <2> QED BY <1>5, <2>1, <2>3 DEF Fit
<1> QED BY <1>3, <1>4, <1>6, <1>7

(* Only a token and the encoding change what fits. *)
LEMMA FitKept == FitInvariant /\ [Next]_vars => FitInvariant'
<1> SUFFICES ASSUME FitInvariant, [Next]_vars PROVE FitInvariant'
  OBVIOUS
<1>0. IsText /\ Size \in Nat /\ input \in Texts /\ TokensFit
  BY TextIsText, SizeIsNat DEF FitInvariant
<1>1. CASE NextToken
  <2> DEFINE start == Skipped[pos]
             end == TokenEnd(start)
             x == [text |-> TokenText(start, end), place |-> start, end |-> end,
                   line |-> Advanced(pos, start).line, column |-> Advanced(pos, start).column]
  <2>1. pc = "lex" /\ input' = input /\ data' = data
    BY <1>1, Zenon DEF NextToken
  <2>2. data' = << >>
    BY <2>1 DEF FitInvariant
  <2>3. TokensFit'
    <3>1. CASE UNCHANGED <<pos, at, toks>>
      BY <1>0, <2>1, <3>1, SameFit
    <3>2. CASE /\ start \in 1 .. Size
               /\ end # 0
               /\ toks' = Append(toks, x)
               /\ pos' = end
               /\ at' = Advanced(pos, end)
      <4> HIDE DEF x, end
      <4>1. end \in 1 .. Size + 1 /\ Fit(x, end) /\ Advanced(pos, end) = PlaceOf(end)
              /\ \A k \in DOMAIN toks : Fit(toks[k], end) /\ toks[k].place < x.place
        <5> HIDE DEF start
        <5>1. start = Skipped[pos] /\ end = TokenEnd(start)  BY DEF start, end
        <5>2. x = [text |-> TokenText(start, end), place |-> start, end |-> end,
                   line |-> Advanced(pos, start).line, column |-> Advanced(pos, start).column]
          BY DEF x
        <5> QED BY <1>0, <3>2, <5>1, <5>2, FitByToken
      <4>2. IsSequence(toks)  BY <1>0 DEF TokensFit
      <4>3. /\ IsSequence(toks)'
            /\ DOMAIN toks' = DOMAIN toks \cup {Len(toks) + 1}
            /\ \A k \in DOMAIN toks : toks'[k] = toks[k]
            /\ toks'[Len(toks) + 1] = x
        BY <3>2, <4>2, AppendFacts
      <4>4. Size' = Size /\ (\A k : PlaceOf(k)' = PlaceOf(k)) /\ \A t, p : Fit(t, p)' <=> Fit(t, p)
        BY <2>1, SameText, SamePlaces
      <4>5. (at = PlaceOf(pos))' /\ (pos \in 1 .. Size + 1)'
        <5>1. at' = PlaceOf(pos')  BY <3>2, <4>1
        <5>2. PlaceOf(pos)' = PlaceOf(pos')  BY <2>1, SMT DEF PlaceOf, Position
        <5> QED BY <3>2, <4>1, <4>4, <5>1, <5>2
      <4>6. \A k \in DOMAIN toks' : Fit(toks'[k], pos')
        BY <3>2, <4>1, <4>3
      <4>7. (\A k \in DOMAIN toks : Fit(toks[k], pos))'
        <5>1. \A k : Fit(toks[k], pos)' <=> Fit(toks'[k], pos')
          BY <2>1, <4>4, Zenon
        <5> QED BY <4>6, <5>1
      <4>8. \A j, k \in DOMAIN toks' : j < k => toks'[j].place < toks'[k].place
        <5>1. DOMAIN toks = 1 .. Len(toks) /\ Len(toks) \in Nat
          <6>1. \A A : toks \in Seq(A) => Len(toks) \in Nat /\ DOMAIN toks = 1 .. Len(toks)
            OBVIOUS
          <6> QED BY <4>2, <6>1 DEF IsSequence
        <5> TAKE j, k \in DOMAIN toks'
        <5> HAVE j < k
        <5>2. j \in DOMAIN toks  BY <4>3, <5>1
        <5>3. CASE k \in DOMAIN toks
          <6>1. toks[j].place < toks[k].place  BY <1>0, <5>2, <5>3 DEF TokensFit
          <6> QED BY <4>3, <5>2, <5>3, <6>1
        <5>4. CASE k = Len(toks) + 1
          BY <4>1, <4>3, <5>2, <5>4
        <5> QED BY <4>3, <5>3, <5>4
      <4> QED BY <4>3, <4>5, <4>7, <4>8 DEF TokensFit
    <3>3. \/ UNCHANGED <<pos, at, toks>>
          \/ /\ start \in 1 .. Size
             /\ end # 0
             /\ toks' = Append(toks, x)
             /\ pos' = end
             /\ at' = Advanced(pos, end)
      BY <1>1, Zenon DEF NextToken
    <3> HIDE DEF start, end, x
    <3> QED BY <3>1, <3>2, <3>3
  <2> HIDE DEF start, end, x
  <2> QED BY <1>0, <2>1, <2>2, <2>3 DEF FitInvariant
<1>2. CASE Encode
  <2>1. UNCHANGED <<input, pos, at, toks>> /\ pc' = "encoded"
    BY <1>2, Zenon DEF Encode
  <2>2. data' = << >> \/ data' = EncodedTokens
    BY <1>2, Zenon DEF Encode, EncodedTokens
  <2>3. EncodedTokens' = EncodedTokens
    BY <2>1, SameEncoding
  <2>4. TokensFit'
    BY <1>0, <2>1, SameFit
  <2> QED BY <1>0, <2>1, <2>2, <2>3, <2>4 DEF FitInvariant
<1>3. CASE UNCHANGED <<input, pos, at, toks, data, pc>>
  <2>1. EncodedTokens' = EncodedTokens
    BY <1>3, SameEncoding
  <2>2. TokensFit'
    BY <1>0, <1>3, SameFit
  <2>3. pc' # "encoded" => data = << >>
    BY <1>3 DEF FitInvariant
  <2> QED BY <1>0, <1>3, <2>1, <2>2, <2>3 DEF FitInvariant
<1>4. CASE \E cursor \in 0 .. Size : Signature(cursor)
  <2>1. pc = "lex" /\ pc' = "helped" /\ UNCHANGED <<input, pos, at, toks, data>>
    BY <1>4 DEF Signature
  <2>2. data = << >>  BY <2>1 DEF FitInvariant
  <2>3. TokensFit'  BY <1>0, <2>1, SameFit
  <2> QED BY <1>0, <2>1, <2>2, <2>3 DEF FitInvariant
<1>5. CASE UNCHANGED vars
  BY <1>3, <1>5 DEF vars
<1> QED BY <1>1, <1>2, <1>4, <1>5 DEF Next

(* A sequence of anything is one of what it holds. *)
LEMMA SequenceOf ==
  ASSUME NEW A, NEW s \in Seq(A)
  PROVE  IsSequence(s)
<1>1. Len(s) \in Nat /\ DOMAIN s = 1 .. Len(s) /\ s \in [1 .. Len(s) -> A]
  OBVIOUS
<1>2. \A k \in DOMAIN s : s[k] \in Range(s)
  BY Zenon DEF Range
<1>3. s = [k \in 1 .. Len(s) |-> s[k]]
  BY <1>1
<1>4. s \in [1 .. Len(s) -> Range(s)]
  BY <1>1, <1>2, <1>3
<1>5. s \in Seq(Range(s))
  BY <1>1, <1>4
<1> QED BY <1>5 DEF IsSequence

(* Its length is a number. *)
LEMMA IsSequenceFacts ==
  ASSUME NEW s, IsSequence(s)
  PROVE  Len(s) \in Nat /\ DOMAIN s = 1 .. Len(s)
<1>1. \A A : s \in Seq(A) => Len(s) \in Nat /\ DOMAIN s = 1 .. Len(s)
  OBVIOUS
<1> QED BY <1>1 DEF IsSequence

(* What the lexer and the comment scan find starts at different places. *)
LEMMA UnsortedFacts ==
  ASSUME IsText, TokensFit
  PROVE  /\ IsSequence(Unsorted)
         /\ \A i \in DOMAIN Unsorted : Unsorted[i].place \in 1 .. Size
         /\ \A i, j \in DOMAIN Unsorted : Unsorted[i].place = Unsorted[j].place => i = j
         /\ \A n \in DOMAIN toks : \E i \in DOMAIN Unsorted :
              /\ Unsorted[i].place = toks[n].place
              /\ Unsorted[i].length = Len(toks[n].text)
<1> DEFINE C == [k \in DOMAIN Comments |->
                   [place |-> Comments[k].place,
                    length |-> Comments[k].end - Comments[k].place]]
           T == [k \in DOMAIN toks |->
                   [place |-> toks[k].place, length |-> Len(toks[k].text)]]
           M == {C[k] : k \in DOMAIN Comments} \cup {T[k] : k \in DOMAIN toks}
<1>0. Size \in Nat
  BY SizeIsNat
<1>1. InOrder(Comments, 1)
  BY CommentsInOrder DEF Comments
<1>2. Len(Comments) \in Nat /\ DOMAIN Comments = 1 .. Len(Comments)
  BY <1>1 DEF InOrder
<1>3. Len(toks) \in Nat /\ DOMAIN toks = 1 .. Len(toks)
  BY IsSequenceFacts DEF TokensFit
<1>4. C \in Seq(M) /\ Len(C) = Len(Comments)
  <2>1. C \in [1 .. Len(Comments) -> M] /\ DOMAIN C = 1 .. Len(Comments)  BY <1>2
  <2> HIDE DEF C, M
  <2> QED BY <1>2, <2>1
<1>5. T \in Seq(M) /\ Len(T) = Len(toks)
  <2>1. T \in [1 .. Len(toks) -> M] /\ DOMAIN T = 1 .. Len(toks)  BY <1>3
  <2> HIDE DEF T, M
  <2> QED BY <1>3, <2>1
<1>6. Unsorted = C \o T
  BY Zenon DEF Unsorted
<1>7. \A k \in 1 .. Len(Comments) :
        C[k].place = Comments[k].place /\ C[k].place \in 1 .. Size /\ CharAt(C[k].place) = "#"
  BY <1>1, <1>2 DEF InOrder
<1>8. \A k \in 1 .. Len(toks) :
        /\ T[k].place = toks[k].place
        /\ T[k].length = Len(toks[k].text)
        /\ T[k].place \in 1 .. Size
        /\ CharAt(T[k].place) # "#"
  BY <1>3 DEF TokensFit, Fit
<1>9. \A i, j \in 1 .. Len(Comments) : C[i].place = C[j].place => i = j
  <2> SUFFICES ASSUME NEW i \in 1 .. Len(Comments), NEW j \in 1 .. Len(Comments), i < j
               PROVE  C[i].place # C[j].place
    BY <1>2
  <2>1. C[i].place < C[j].place  BY <1>1, <1>7 DEF InOrder
  <2>2. C[i].place \in 1 .. Size  BY <1>7
  <2> HIDE DEF C
  <2>3. C[i].place \in Nat  BY <1>0, <2>2
  <2> QED BY <2>1, <2>3
<1>10. \A i, j \in 1 .. Len(toks) : T[i].place = T[j].place => i = j
  <2> SUFFICES ASSUME NEW i \in 1 .. Len(toks), NEW j \in 1 .. Len(toks), i < j
               PROVE  T[i].place # T[j].place
    BY <1>3
  <2>1. T[i].place < T[j].place  BY <1>3, <1>8 DEF TokensFit
  <2>2. T[i].place \in 1 .. Size  BY <1>8
  <2> HIDE DEF T
  <2>3. T[i].place \in Nat  BY <1>0, <2>2
  <2> QED BY <2>1, <2>3
<1> HIDE DEF C, T, M
<1> DEFINE U == C \o T
           m == Len(Comments)
<1>11. /\ U \in Seq(M)
       /\ DOMAIN U = 1 .. m + Len(toks)
       /\ \A i \in 1 .. m : U[i] = C[i]
       /\ \A i \in 1 .. Len(toks) : U[m + i] = T[i]
       /\ \A i \in 1 .. m + Len(toks) :
            i \in 1 .. m \/ (i - m \in 1 .. Len(toks) /\ U[i] = T[i - m])
  <2>1. /\ C \o T \in Seq(M)
        /\ DOMAIN (C \o T) = 1 .. Len(C) + Len(T)
        /\ \A i \in 1 .. Len(C) : (C \o T)[i] = C[i]
        /\ \A i \in 1 .. Len(T) : (C \o T)[Len(C) + i] = T[i]
        /\ \A i \in 1 .. Len(C) + Len(T) :
             i \in 1 .. Len(C) \/ (i - Len(C) \in 1 .. Len(T) /\ (C \o T)[i] = T[i - Len(C)])
    <3>1. C \in Seq(M) /\ T \in Seq(M)  BY <1>4, <1>5
    <3> QED BY <3>1, SMT
  <2> QED BY <1>4, <1>5, <2>1, Zenon DEF U, m
<1> HIDE DEF U, m
<1>12. m \in Nat /\ Len(toks) \in Nat
  BY <1>2, <1>3 DEF m
<1>13. \A i \in DOMAIN U : U[i].place \in 1 .. Size
  BY <1>7, <1>8, <1>11 DEF m
<1>14. ASSUME NEW i \in DOMAIN U, NEW j \in DOMAIN U, U[i].place = U[j].place
       PROVE  i = j
  <2>1. CASE i \in 1 .. m /\ j \in 1 .. m
    BY <1>9, <1>11, <1>14, <2>1 DEF m
  <2>2. ASSUME NEW a \in DOMAIN U, NEW b \in DOMAIN U, a \in 1 .. m, b \notin 1 .. m
        PROVE  U[a].place # U[b].place
    <3>1. CharAt(U[a].place) = "#"  BY <1>7, <1>11, <2>2 DEF m
    <3>2. CharAt(U[b].place) # "#"  BY <1>8, <1>11, <2>2
    <3> QED BY <3>1, <3>2
  <2>3. i \in 1 .. m <=> j \in 1 .. m
    BY <1>14, <2>2
  <2>4. CASE i \notin 1 .. m /\ j \notin 1 .. m
    <3>1. i - m = j - m  BY <1>10, <1>11, <1>14, <2>4
    <3> QED BY <1>11, <1>12, <3>1
  <2> QED BY <2>1, <2>3, <2>4
<1>15. ASSUME NEW n \in DOMAIN toks
       PROVE  \E i \in DOMAIN U : U[i].place = toks[n].place /\ U[i].length = Len(toks[n].text)
  <2>1. m + n \in DOMAIN U /\ U[m + n] = T[n]  BY <1>3, <1>11, <1>12
  <2> QED BY <1>3, <1>8, <2>1
<1>16. IsSequence(U)
  BY <1>11, SequenceOf
<1> QED BY <1>6, <1>13, <1>14, <1>15, <1>16 DEF U

(* What a client adds up. *)
Added(so, delta) ==
  [line |-> so.line + delta.line,
   column |-> IF delta.line = 0 THEN so.column + delta.start ELSE delta.start]

(* Adding a difference gives the position it leads to. *)
LEMMA DeltaBack ==
  ASSUME NEW a, NEW b, a.line \in Int, a.column \in Int, b.line \in Int, b.column \in Int
  PROVE  Added(a, Delta(a, b)) = [line |-> b.line, column |-> b.column]
<1>1. Delta(a, b).line = b.line - a.line
        /\ Delta(a, b).start = (IF b.line = a.line THEN b.column - a.column ELSE b.column)
  BY DEF Delta
<1> DEFINE d == Delta(a, b)
<1> HIDE DEF d
<1>2. a.line + d.line = b.line
  BY <1>1 DEF d
<1>3. d.line = 0 <=> b.line = a.line
  BY <1>1 DEF d
<1>4. (IF d.line = 0 THEN a.column + d.start ELSE d.start) = b.column
  BY <1>1, <1>3 DEF d
<1> QED BY <1>2, <1>4 DEF Added, d

(* Where the client is after k tokens. *)
SentPlace(k) == IF k = 0 THEN [line |-> 0, column |-> 0]
                ELSE Position(SemanticTokens[k].place)

(* What the client decodes are the positions of the tokens sent. *)
LEMMA DecodedIs ==
  ASSUME IsText, data = EncodedTokens, NEW n \in Nat, DOMAIN SemanticTokens = 1 .. n,
         \A k \in 1 .. n : SemanticTokens[k].place \in 1 .. Size
  PROVE  \A k \in 1 .. n : k \in DOMAIN data /\ Decoded[k] = Position(SemanticTokens[k].place)
<1> DEFINE D == 0 .. Len(data)
           Body(f, k) == IF k = 0 THEN [line |-> 0, column |-> 0]
                         ELSE Added(f[k - 1], data[k].delta)
           P == [k \in D |-> SentPlace(k)]
           To == CHOOSE f : f = [k \in D |-> Body(f, k)]
           rank == [k \in D |-> k]
           Good == {k \in D : To[k] = SentPlace(k)}
<1>1. DOMAIN data = 1 .. n /\ Len(data) = n
  BY DEF EncodedTokens
<1>2. \A k \in 1 .. n : data[k].delta = Delta(SentPlace(k - 1), SentPlace(k))
  <2> TAKE k \in 1 .. n
  <2>1. k # 0 /\ (k = 1 <=> k - 1 = 0)  OBVIOUS
  <2>2. data[k].delta = Delta(IF k = 1 THEN [line |-> 0, column |-> 0]
                              ELSE Position(SemanticTokens[k - 1].place),
                              Position(SemanticTokens[k].place))
    BY DEF EncodedTokens
  <2> QED BY <2>1, <2>2, Zenon DEF SentPlace
<1>3. \A k \in 0 .. n : /\ SentPlace(k).line \in Int /\ SentPlace(k).column \in Int
                        /\ SentPlace(k) = [line |-> SentPlace(k).line, column |-> SentPlace(k).column]
  <2> TAKE k \in 0 .. n
  <2>1. CASE k = 0
    BY <2>1 DEF SentPlace
  <2>2. CASE k # 0
    <3> DEFINE p == SemanticTokens[k].place
    <3>1. p \in 1 .. Size + 1
      <4>1. k \in 1 .. n /\ \A i \in 1 .. Size : i \in 1 .. Size + 1  BY <2>2, SizeIsNat
      <4> QED BY <4>1
    <3>2. SentPlace(k) = Position(p)  BY <2>2 DEF SentPlace
    <3> HIDE DEF p
    <3>3. Position(p) = [line |-> Position(p).line, column |-> Position(p).column]
            /\ Position(p).line \in Int /\ Position(p).column \in Int
      BY <3>1, PositionIs
    <3> QED BY <3>2, <3>3
  <2> QED BY <2>1, <2>2
<1>4. ASSUME NEW k \in D, NEW f, k # 0 => f[k - 1] = SentPlace(k - 1)
      PROVE  Body(f, k) = SentPlace(k)
  <2>1. CASE k = 0
    BY <2>1 DEF SentPlace
  <2>2. CASE k # 0
    <3>1. k \in 1 .. n /\ k \in 0 .. n /\ k - 1 \in 0 .. n  BY <1>1, <2>2
    <3>2. Body(f, k) = Added(SentPlace(k - 1), Delta(SentPlace(k - 1), SentPlace(k)))
      BY <1>2, <1>4, <2>2, <3>1
    <3>3. /\ SentPlace(k - 1).line \in Int /\ SentPlace(k - 1).column \in Int
          /\ SentPlace(k).line \in Int /\ SentPlace(k).column \in Int
          /\ SentPlace(k) = [line |-> SentPlace(k).line, column |-> SentPlace(k).column]
      BY <1>3, <3>1
    <3> QED BY <3>2, <3>3, DeltaBack
  <2> QED BY <2>1, <2>2
<1>5. \A k \in D : k \in Nat /\ (k # 0 => k - 1 \in D /\ k - 1 < k)
  BY <1>1
<1>6. \E f : f = [k \in D |-> Body(f, k)]
  <2>1. \A k \in D : Body(P, k) = SentPlace(k)
    <3> TAKE k \in D
    <3> HIDE DEF Body, D
    <3>1. k # 0 => P[k - 1] = SentPlace(k - 1)  BY <1>5
    <3> HIDE DEF P
    <3> QED BY <1>4, <3>1
  <2> HIDE DEF Body, D
  <2>2. P = [k \in D |-> Body(P, k)]  BY <2>1
  <2> QED BY <2>2
<1>7. To = [k \in D |-> Body(To, k)]
  <2> HIDE DEF Body, D
  <2> QED BY <1>6, Zenon
<1>8. Decoded = [k \in DOMAIN data |-> To[k]]
  BY Zenon DEF Decoded, Added
<1> HIDE DEF To, Body
<1>9. ASSUME NEW k \in D, \A j \in D : rank[j] < rank[k] => j \in Good
      PROVE  k \in Good
  <2> HIDE DEF D
  <2>1. To[k] = Body(To, k)  BY <1>7
  <2>2. k # 0 => To[k - 1] = SentPlace(k - 1)
    <3> SUFFICES ASSUME k # 0 PROVE To[k - 1] = SentPlace(k - 1)  OBVIOUS
    <3>1. k - 1 \in D /\ rank[k - 1] < rank[k]  BY <1>5
    <3> HIDE DEF rank
    <3> QED BY <1>9, <3>1
  <2> HIDE DEF rank
  <2> QED BY <1>4, <2>1, <2>2
<1>10. \A k \in D : k \in Good
  <2>1. rank \in [D -> Nat]  BY <1>5
  <2> HIDE DEF D, Good, rank
  <2> QED BY <1>9, <2>1, RankInduction
<1> HIDE DEF Good
<1>11. ASSUME NEW k \in 1 .. n
       PROVE  k \in DOMAIN data /\ Decoded[k] = Position(SemanticTokens[k].place)
  <2>1. k \in D /\ k # 0 /\ k \in DOMAIN data  BY <1>1
  <2>2. To[k] = SentPlace(k)
    <3> HIDE DEF D
    <3> QED BY <1>10, <2>1 DEF Good
  <2>3. Decoded[k] = To[k]  BY <1>8, <2>1, Zenon
  <2> QED BY <2>1, <2>2, <2>3 DEF SentPlace
<1> QED BY <1>11

(* Among what is sent is each token, decoded to its own position. *)
LEMMA FitHolds == FitInvariant => ClientFindsTheTokens
<1> SUFFICES ASSUME FitInvariant, data # << >>, NEW n \in DOMAIN toks
             PROVE  \E k \in DOMAIN data :
                      /\ Decoded[k].line = toks[n].line - 1
                      /\ Decoded[k].column = toks[n].column - 1
                      /\ OffsetFor(Decoded[k]) = toks[n].place - 1
                      /\ \/ data[k].length = toks[n].end - toks[n].place
                         \/ \E j \in toks[n].place .. toks[n].end : CharAt(j) = "\\"
  BY Zenon DEF ClientFindsTheTokens
<1>0. IsText /\ Size \in Nat /\ TokensFit /\ data = EncodedTokens
  BY TextIsText, SizeIsNat DEF FitInvariant
<1>1. SemanticTokens = Sorted(Unsorted)
  BY Zenon DEF SemanticTokens, Sorted
<1> DEFINE U == Unsorted
           m == Len(U)
<1>2. /\ IsSequence(U)
      /\ \A i \in DOMAIN U : U[i].place \in 1 .. Size
      /\ \A i, j \in DOMAIN U : U[i].place = U[j].place => i = j
      /\ \E i \in DOMAIN U : U[i].place = toks[n].place /\ U[i].length = Len(toks[n].text)
  BY <1>0, UnsortedFacts
<1> HIDE DEF U
<1>3. m \in Nat /\ DOMAIN U = 1 .. m
  BY <1>2, IsSequenceFacts
<1>4. /\ \A k \in DOMAIN U : Sorted(U)[k] \in Range(U)
      /\ \A t \in Range(U) : \E k \in DOMAIN U : Sorted(U)[k] = t
  <2>1. \A i \in DOMAIN U : U[i].place \in Nat  BY <1>0, <1>2
  <2> QED BY <1>2, <2>1, SortedHasAll
<1>5. DOMAIN SemanticTokens = 1 .. m
  BY <1>1, <1>3 DEF Sorted, U
<1>6. \A k \in 1 .. m : SemanticTokens[k].place \in 1 .. Size
  <2>1. \A t \in Range(U) : t.place \in 1 .. Size  BY <1>2 DEF Range
  <2> QED BY <1>1, <1>3, <1>4, <2>1 DEF U
<1>7. \A k \in 1 .. m : k \in DOMAIN data /\ Decoded[k] = Position(SemanticTokens[k].place)
  <2> HIDE DEF m
  <2> QED BY <1>0, <1>3, <1>5, <1>6, DecodedIs
<1>8. PICK k \in 1 .. m : SemanticTokens[k].place = toks[n].place
                            /\ SemanticTokens[k].length = Len(toks[n].text)
  <2>1. PICK i \in DOMAIN U : U[i].place = toks[n].place /\ U[i].length = Len(toks[n].text)
    BY <1>2
  <2>2. U[i] \in Range(U)  BY Zenon DEF Range
  <2>3. PICK k \in DOMAIN U : Sorted(U)[k] = U[i]  BY <1>4, <2>2
  <2> QED BY <1>1, <1>3, <2>1, <2>3 DEF U
<1> DEFINE p == toks[n].place
<1>9. Fit(toks[n], pos)
  BY <1>0 DEF TokensFit
<1>10. k \in DOMAIN data /\ Decoded[k] = Position(p)
  BY <1>7, <1>8
<1>11. p \in 1 .. Size /\ p \in 1 .. Size + 1
  BY <1>0, <1>9 DEF Fit
<1>12. Position(p).line \in Nat /\ Position(p).column \in Nat
         /\ toks[n].line = Position(p).line + 1 /\ toks[n].column = Position(p).column + 1
  BY <1>0, <1>9, <1>11, PositionIs DEF Fit
<1>13. OffsetFor(Decoded[k]) = p - 1
  BY <1>0, <1>10, <1>11, OffsetBack
<1>14. Decoded[k].line = toks[n].line - 1 /\ Decoded[k].column = toks[n].column - 1
  BY <1>10, <1>12
<1>15. data[k].length = Len(toks[n].text)
  BY <1>0, <1>5, <1>8 DEF EncodedTokens
<1>16. \/ data[k].length = toks[n].end - toks[n].place
       \/ \E j \in toks[n].place .. toks[n].end : CharAt(j) = "\\"
  BY <1>9, <1>15 DEF Fit
<1> QED BY <1>10, <1>13, <1>14, <1>16

(* The line_ and column_ of Lexer are those of its place in every state,   *)
(* its tokens lie behind one another, and semantic_token_data is computed  *)
(* from them.                                                              *)
THEOREM FitInvariantHolds == Spec => []FitInvariant
BY FitStarts, FitKept, PTL DEF Spec

(* A client that adds up the differences of semantic_token_data finds each *)
(* token where Lexer saw it, whatever comments lie between, and            *)
(* offset_for_position takes what it sends back to the same place.         *)
THEOREM ClientFindsThem == Spec => []ClientFindsTheTokens
BY FitInvariantHolds, FitHolds, PTL

=============================================================================
