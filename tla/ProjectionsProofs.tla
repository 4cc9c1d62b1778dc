-------------------------- MODULE ProjectionsProofs --------------------------
(***************************************************************************)
(* Proofs about the projections, for every set of trees of any height, any *)
(* keys and any number of conversions.  Of the characters of strings, which*)
(* the provers do not see, PiecesAssumption says what is used.             *)
(*                                                                         *)
(* A reader is a function of rules and places that is defined through      *)
(* itself.  There is one (ReaderExists), since a rule calls others at      *)
(* later places, or one of a lower rank at its own, and gives the same for *)
(* two functions that agree there (Alike); there is no least rank at which *)
(* it fails to be defined.  Then a text of a tree, wherever it is in a     *)
(* longer text, is read as the tree up to its end, by induction on the     *)
(* height of the tree: a theorem for each projection.                      *)
(***************************************************************************)
EXTENDS Projections, LeastProofs, SequenceTheorems

-----------------------------------------------------------------------------

(* The readings of a set end after place i and within the text. *)
Ahead(readings, s, i) == \A r \in readings : r.at \in Nat /\ i < r.at /\ r.at <= Len(s) + 1

(* Two sets of readings are one, which ends after i. *)
Alike(a, b, s, i) == a = b /\ Ahead(a, s, i)

(* Two functions of rules and places agree after place i. *)
AgreeAfter(f, g, s, i) ==
  \A rule \in Rules, at \in Nat : i < at => Alike(f[<<rule, at>>], g[<<rule, at>>], s, at)

AgreeOn(f, g, s, rule, i) == Alike(f[<<rule, i>>], g[<<rule, i>>], s, i)

(* The provers know no literal for a string. *)
Tokens == STRING \cup {"(", ")", "[", "]", ":", "=", "1", "null", Comma, Open, Shut}

LEMMA StringsAreTokens ==
  /\ STRING \subseteq Tokens /\ {Comma, Open, Shut} \subseteq Tokens
  /\ \A mark \in {"(", ")", "[", "]", ":", "=", "1", "null"} : mark \in Tokens
BY Zenon DEF Tokens

LEMMA PeekWithin ==
  ASSUME NEW s \in Seq(Tokens), NEW i \in Nat, Peek(s, i) # NoPiece
  PROVE  i <= Len(s)
BY DEF Peek

LEMMA BlankIsNothing ==
  ~IsQuoted(NoPiece) /\ ~IsInteger(NoPiece) /\ ~IsNumeral(NoPiece)
<1>1. ~IsQuoted(NoPiece) /\ ~IsInteger(NoPiece)
  BY PiecesAssumption, Zenon
<1> QED BY <1>1, Zenon DEF IsInteger

(* No mark is the end of the text. *)
LEMMA MarksArePieces ==
  /\ \A mark \in {"(", ")", "[", "]", ":", "=", "1", "null", Comma, Open, Shut} : mark # NoPiece
  /\ \A mark \in {"(", ")", "[", "]", ":", "=", "1", "null", Open, Shut} : mark # Comma
  /\ \A mark \in {"(", ")", "[", "]", ":", "=", "1", "null", Shut} : mark # Open
  /\ \A mark \in {"(", ")", "[", "]", ":", "=", "1", "null"} : mark # Shut
<1>1. \A mark \in {"(", ")", "[", "]", ":", "=", "1", "null", Comma, Open, Shut} : mark # NoPiece
  BY Zenon DEF NoPiece, Comma, Open, Shut
<1>2. \A mark \in {"(", ")", "[", "]", ":", "=", "1", "null", Open, Shut} : mark # Comma
  BY Zenon DEF Comma, Open, Shut
<1>3. \A mark \in {"(", ")", "[", "]", ":", "=", "1", "null", Shut} : mark # Open
  BY Zenon DEF Open, Shut
<1>4. \A mark \in {"(", ")", "[", "]", ":", "=", "1", "null"} : mark # Shut
  BY Zenon DEF Shut
<1> QED BY <1>1, <1>2, <1>3, <1>4, Zenon

LEMMA AheadFurther ==
  ASSUME NEW s, NEW i \in Nat, NEW at \in Nat, i <= at, NEW a, Ahead(a, s, at)
  PROVE  Ahead(a, s, i)
<1> SUFFICES ASSUME NEW r \in a
             PROVE  r.at \in Nat /\ i < r.at /\ r.at <= Len(s) + 1
  BY DEF Ahead
<1>1. r.at \in Nat /\ at < r.at /\ r.at <= Len(s) + 1
  BY DEF Ahead
<1> QED BY <1>1

LEMMA AheadThen ==
  ASSUME NEW rests, NEW s, NEW i, Ahead(rests, s, i), NEW part
  PROVE  Ahead(Then(part, rests), s, i)
BY DEF Ahead, Then, Took

LEMMA AheadOne ==
  ASSUME NEW s \in Seq(Tokens), NEW i \in Nat, NEW at \in Nat, NEW value,
         i < at, at <= Len(s) + 1
  PROVE  Ahead({Took(value, at)}, s, i)
BY DEF Ahead, Took

(* After place i, what is read at a later place is alike. *)
LEMMA LaterAlike ==
  ASSUME NEW s \in Seq(Tokens), NEW i \in Nat, NEW at \in Nat, i < at,
         NEW f, NEW g, AgreeAfter(f, g, s, i), NEW rule \in Rules
  PROVE  Alike(f[<<rule, at>>], g[<<rule, at>>], s, i)
<1>1. Alike(f[<<rule, at>>], g[<<rule, at>>], s, at)
  BY DEF AgreeAfter
<1>2. Ahead(f[<<rule, at>>], s, i)
  BY <1>1, AheadFurther DEF Alike
<1> QED BY <1>1, <1>2 DEF Alike

LEMMA MoreAlike ==
  ASSUME NEW s \in Seq(Tokens), NEW i \in Nat, NEW at \in Nat, i < at,
         NEW f, NEW g, AgreeAfter(f, g, s, i), NEW next \in Rules,
         NEW close \in {")", "]", Shut}
  PROVE  Alike(More(s, at, next, close, f), More(s, at, next, close, g), s, i)
<1>0. close # NoPiece /\ close # Comma
  BY MarksArePieces
<1>1. CASE Peek(s, at) = Comma
  <2>0. at + 1 \in Nat /\ i < at + 1
    OBVIOUS
  <2>1. Alike(f[<<next, at + 1>>], g[<<next, at + 1>>], s, i)
    BY <2>0, LaterAlike, Zenon
  <2>2. More(s, at, next, close, f) = f[<<next, at + 1>>]
         /\ More(s, at, next, close, g) = g[<<next, at + 1>>]
    BY <1>0, <1>1 DEF More
  <2> QED BY <2>1, <2>2
<1>2. CASE Peek(s, at) = close
  <2>1. at <= Len(s)
    BY <1>0, <1>2, PeekWithin
  <2>2. Ahead({Took(NoParts, at + 1)}, s, i)
    <3>1. at + 1 \in Nat /\ i < at + 1 /\ at + 1 <= Len(s) + 1
      BY <2>1
    <3> QED BY <3>1, AheadOne, Zenon
  <2>3. More(s, at, next, close, f) = {Took(NoParts, at + 1)}
         /\ More(s, at, next, close, g) = {Took(NoParts, at + 1)}
    BY <1>0, <1>2 DEF More
  <2> QED BY <2>2, <2>3 DEF Alike
<1>3. CASE Peek(s, at) # Comma /\ Peek(s, at) # close
  <2>1. More(s, at, next, close, f) = {} /\ More(s, at, next, close, g) = {}
    BY <1>3 DEF More
  <2> QED BY <2>1 DEF Alike, Ahead
<1> QED BY <1>1, <1>2, <1>3

LEMMA CoreNodeAlike ==
  ASSUME NEW s \in Seq(Tokens), NEW i \in Nat, NEW f, NEW g,
         i <= Len(s) => AgreeAfter(f, g, s, i)
  PROVE  Alike(CoreNode(s, i, f), CoreNode(s, i, g), s, i)
<1>1. CASE Peek(s, i) = "("
  <2>1. i <= Len(s)
    BY <1>1, PeekWithin, MarksArePieces
  <2>2. Alike(f[<<"parts", i + 2>>], g[<<"parts", i + 2>>], s, i)
    <3>1. i + 2 \in Nat /\ i < i + 2
      OBVIOUS
    <3> QED BY <2>1, <3>1, LaterAlike, Zenon DEF Rules
  <2>3. Ahead(UNION {NodeAt(s[i + 1], r) : r \in f[<<"parts", i + 2>>]}, s, i)
    <3> DEFINE S == f[<<"parts", i + 2>>]
    <3>1. Ahead(S, s, i)
      BY <2>2 DEF Alike
    <3> HIDE DEF S
    <3>2. Ahead(UNION {NodeAt(s[i + 1], r) : r \in S}, s, i)
      BY <3>1 DEF Ahead, NodeAt, Took
    <3> QED BY <3>2 DEF S
  <2>4. CoreNode(s, i, f) = UNION {NodeAt(s[i + 1], r) : r \in f[<<"parts", i + 2>>]}
         /\ CoreNode(s, i, g) = UNION {NodeAt(s[i + 1], r) : r \in g[<<"parts", i + 2>>]}
    BY <1>1 DEF CoreNode
  <2> QED BY <2>2, <2>3, <2>4 DEF Alike
<1>2. CASE Peek(s, i) \notin {"(", NoPiece}
  <2>1. i <= Len(s)
    BY <1>2, PeekWithin
  <2>2. CoreNode(s, i, f) = {Took(LeafOf(s[i], Bare(Inside(s[i]))), i + 1)}
         /\ CoreNode(s, i, g) = {Took(LeafOf(s[i], Bare(Inside(s[i]))), i + 1)}
    BY <1>2 DEF CoreNode
  <2> QED BY <2>1, <2>2, AheadOne DEF Alike
<1>3. CASE Peek(s, i) = NoPiece
  <2>1. CoreNode(s, i, f) = {} /\ CoreNode(s, i, g) = {}
    BY <1>3, MarksArePieces DEF CoreNode
  <2> QED BY <2>1 DEF Alike, Ahead
<1> QED BY <1>1, <1>2, <1>3

(* A part, and the parts after it that are read alike. *)
LEMMA ThenAlike ==
  ASSUME NEW s, NEW i, NEW part, NEW a, NEW b, Alike(a, b, s, i)
  PROVE  Alike(Then(part, a), Then(part, b), s, i)
BY AheadThen DEF Alike

LEMMA CorePartsAlike ==
  ASSUME NEW s \in Seq(Tokens), NEW i \in Nat, NEW f, NEW g,
         i <= Len(s) => AgreeAfter(f, g, s, i), AgreeOn(f, g, s, "node", i)
  PROVE  Alike(CoreParts(s, i, f), CoreParts(s, i, g), s, i)
<1>1. CASE Peek(s, i) = ")"
  <2>1. i <= Len(s)
    BY <1>1, PeekWithin, MarksArePieces
  <2>2. CoreParts(s, i, f) = {Took(NoParts, i + 1)} /\ CoreParts(s, i, g) = {Took(NoParts, i + 1)}
    BY <1>1 DEF CoreParts
  <2> QED BY <2>1, <2>2, AheadOne DEF Alike
<1>2. CASE Peek(s, i) = ":"
  <2> DEFINE ReadOn(h, r) == Then(Attr(s[i + 1], r.value), h[<<"parts", r.at>>])
  <2>1. i <= Len(s)
    BY <1>2, PeekWithin, MarksArePieces
  <2>2. Alike(f[<<"node", i + 2>>], g[<<"node", i + 2>>], s, i)
    <3>1. i + 2 \in Nat /\ i < i + 2
      OBVIOUS
    <3> QED BY <2>1, <3>1, LaterAlike, Zenon DEF Rules
  <2>3. ASSUME NEW r \in f[<<"node", i + 2>>]
        PROVE  Alike(ReadOn(f, r), ReadOn(g, r), s, i)
    <3>1. r.at \in Nat /\ i < r.at
      BY <2>2 DEF Alike, Ahead
    <3>2. Alike(f[<<"parts", r.at>>], g[<<"parts", r.at>>], s, i)
      BY <2>1, <3>1, LaterAlike DEF Rules
    <3> QED BY <3>2, ThenAlike
  <2>4. CoreParts(s, i, f) = UNION {ReadOn(f, r) : r \in f[<<"node", i + 2>>]}
         /\ CoreParts(s, i, g) = UNION {ReadOn(g, r) : r \in g[<<"node", i + 2>>]}
    BY <1>2 DEF CoreParts
  <2> HIDE DEF ReadOn
  <2> QED BY <2>2, <2>3, <2>4 DEF Alike, Ahead
<1>3. CASE Peek(s, i) \notin {")", ":"}
  <2> DEFINE ReadOn(h, r) == Then(Arg(r.value), h[<<"parts", r.at>>])
  <2>2. Alike(f[<<"node", i>>], g[<<"node", i>>], s, i)
    BY DEF AgreeOn
  <2>3. ASSUME NEW r \in f[<<"node", i>>]
        PROVE  Alike(ReadOn(f, r), ReadOn(g, r), s, i)
    <3>1. r.at \in Nat /\ i < r.at /\ i <= Len(s)
      BY <2>2 DEF Alike, Ahead
    <3>2. Alike(f[<<"parts", r.at>>], g[<<"parts", r.at>>], s, i)
      BY <3>1, LaterAlike DEF Rules
    <3> QED BY <3>2, ThenAlike
  <2>4. CoreParts(s, i, f) = UNION {ReadOn(f, r) : r \in f[<<"node", i>>]}
         /\ CoreParts(s, i, g) = UNION {ReadOn(g, r) : r \in g[<<"node", i>>]}
    BY <1>3 DEF CoreParts
  <2> HIDE DEF ReadOn
  <2> QED BY <2>2, <2>3, <2>4 DEF Alike, Ahead
<1> QED BY <1>1, <1>2, <1>3

LEMMA StrictNodeAlike ==
  ASSUME NEW s \in Seq(Tokens), NEW i \in Nat, NEW f, NEW g,
         i <= Len(s) => AgreeAfter(f, g, s, i)
  PROVE  Alike(StrictNode(s, i, f), StrictNode(s, i, g), s, i)
<1>1. CASE Peek(s, i) # NoPiece /\ Peek(s, i + 1) = "("
  <2> DEFINE S(h) == IF Peek(s, i + 2) = ")" THEN {Took(NoParts, i + 3)} ELSE h[<<"parts", i + 2>>]
  <2>1. i <= Len(s)
    BY <1>1, PeekWithin
  <2>2. Alike(f[<<"parts", i + 2>>], g[<<"parts", i + 2>>], s, i)
    <3>1. i + 2 \in Nat /\ i < i + 2
      OBVIOUS
    <3> QED BY <2>1, <3>1, LaterAlike, Zenon DEF Rules
  <2>3. Peek(s, i + 2) = ")" => Ahead({Took(NoParts, i + 3)}, s, i)
    <3> SUFFICES ASSUME Peek(s, i + 2) = ")" PROVE Ahead({Took(NoParts, i + 3)}, s, i)
      OBVIOUS
    <3>1. i + 2 \in Nat /\ Peek(s, i + 2) # NoPiece
      BY MarksArePieces
    <3>2. i + 2 <= Len(s)
      BY <3>1, PeekWithin, Zenon
    <3>3. i + 3 \in Nat /\ i < i + 3 /\ i + 3 <= Len(s) + 1
      BY <3>2
    <3> QED BY <3>3, AheadOne, Zenon
  <2>4. Alike(S(f), S(g), s, i)
    BY <2>2, <2>3 DEF Alike
  <2>5. StrictNode(s, i, f) = UNION {NodeAt(s[i], r) : r \in S(f)}
         /\ StrictNode(s, i, g) = UNION {NodeAt(s[i], r) : r \in S(g)}
    BY <1>1 DEF StrictNode
  <2> HIDE DEF S
  <2>6. Ahead(UNION {NodeAt(s[i], r) : r \in S(f)}, s, i)
    BY <2>4 DEF Alike, Ahead, NodeAt, Took
  <2> QED BY <2>4, <2>5, <2>6 DEF Alike
<1>2. CASE Peek(s, i) # NoPiece /\ Peek(s, i + 1) # "("
  <2>1. i <= Len(s)
    BY <1>2, PeekWithin
  <2>2. StrictNode(s, i, f) = {Took(LeafOf(s[i], Inside(s[i])), i + 1)}
         /\ StrictNode(s, i, g) = {Took(LeafOf(s[i], Inside(s[i])), i + 1)}
    BY <1>2 DEF StrictNode
  <2> QED BY <2>1, <2>2, AheadOne DEF Alike
<1>3. CASE Peek(s, i) = NoPiece
  <2>1. StrictNode(s, i, f) = {} /\ StrictNode(s, i, g) = {}
    BY <1>3 DEF StrictNode
  <2> QED BY <2>1 DEF Alike, Ahead
<1> QED BY <1>1, <1>2, <1>3

LEMMA StrictPartsAlike ==
  ASSUME NEW s \in Seq(Tokens), NEW i \in Nat, NEW f, NEW g,
         i <= Len(s) => AgreeAfter(f, g, s, i), AgreeOn(f, g, s, "node", i)
  PROVE  Alike(StrictParts(s, i, f), StrictParts(s, i, g), s, i)
<1>1. CASE LooksLikeAttr(s, i)
  <2> DEFINE ReadOn(h, r) == Then(Attr(s[i], r.value), More(s, r.at, "parts", ")", h))
  <2>1. i <= Len(s)
    <3>1. i + 1 \in Nat /\ Peek(s, i + 1) = "="
      BY <1>1 DEF LooksLikeAttr
    <3>2. i + 1 <= Len(s)
      BY <3>1, PeekWithin, MarksArePieces
    <3> QED BY <3>2
  <2>2. Alike(f[<<"node", i + 2>>], g[<<"node", i + 2>>], s, i)
    <3>1. i + 2 \in Nat /\ i < i + 2
      OBVIOUS
    <3> QED BY <2>1, <3>1, LaterAlike, Zenon DEF Rules
  <2>3. ASSUME NEW r \in f[<<"node", i + 2>>]
        PROVE  Alike(ReadOn(f, r), ReadOn(g, r), s, i)
    <3>1. r.at \in Nat /\ i < r.at
      BY <2>2 DEF Alike, Ahead
    <3>2. Alike(More(s, r.at, "parts", ")", f), More(s, r.at, "parts", ")", g), s, i)
      BY <2>1, <3>1, MoreAlike DEF Rules
    <3> QED BY <3>2, ThenAlike
  <2>4. StrictParts(s, i, f) = UNION {ReadOn(f, r) : r \in f[<<"node", i + 2>>]}
         /\ StrictParts(s, i, g) = UNION {ReadOn(g, r) : r \in g[<<"node", i + 2>>]}
    BY <1>1 DEF StrictParts
  <2> HIDE DEF ReadOn
  <2> QED BY <2>2, <2>3, <2>4 DEF Alike, Ahead
<1>2. CASE ~LooksLikeAttr(s, i)
  <2> DEFINE ReadOn(h, r) == Then(Arg(r.value), More(s, r.at, "parts", ")", h))
  <2>2. Alike(f[<<"node", i>>], g[<<"node", i>>], s, i)
    BY DEF AgreeOn
  <2>3. ASSUME NEW r \in f[<<"node", i>>]
        PROVE  Alike(ReadOn(f, r), ReadOn(g, r), s, i)
    <3>1. r.at \in Nat /\ i < r.at /\ i <= Len(s)
      BY <2>2 DEF Alike, Ahead
    <3>2. Alike(More(s, r.at, "parts", ")", f), More(s, r.at, "parts", ")", g), s, i)
      BY <3>1, MoreAlike DEF Rules
    <3> QED BY <3>2, ThenAlike
  <2>4. StrictParts(s, i, f) = UNION {ReadOn(f, r) : r \in f[<<"node", i>>]}
         /\ StrictParts(s, i, g) = UNION {ReadOn(g, r) : r \in g[<<"node", i>>]}
    BY <1>2 DEF StrictParts
  <2> HIDE DEF ReadOn
  <2> QED BY <2>2, <2>3, <2>4 DEF Alike, Ahead
<1> QED BY <1>1, <1>2

LEMMA StringAhead ==
  ASSUME NEW s \in Seq(Tokens), NEW i \in Nat
  PROVE  Ahead(ReadString(s, i), s, i)
<1>1. CASE IsQuoted(Peek(s, i))
  <2>1. i <= Len(s)
    BY <1>1, PeekWithin, BlankIsNothing
  <2>2. ReadString(s, i) = {Took(Unescape(Inside(s[i])), i + 1)}
    BY <1>1 DEF ReadString
  <2> QED BY <2>1, <2>2, AheadOne
<1>2. CASE ~IsQuoted(Peek(s, i))
  BY <1>2 DEF ReadString, Ahead
<1> QED BY <1>1, <1>2

LEMMA KeyedAhead ==
  ASSUME NEW s \in Seq(Tokens), NEW i \in Nat
  PROVE  Ahead(Keyed(s, i), s, i)
<1> SUFFICES ASSUME NEW r \in Keyed(s, i)
             PROVE  r.at \in Nat /\ i < r.at /\ r.at <= Len(s) + 1
  BY DEF Ahead
<1>1. PICK key \in ReadString(s, i) : Peek(s, key.at) = ":" /\ r = Took(key.value, key.at + 1)
  BY DEF Keyed
<1>2. key.at \in Nat /\ i < key.at
  BY StringAhead DEF Ahead
<1>3. key.at <= Len(s)
  <2>1. Peek(s, key.at) # NoPiece
    BY <1>1, MarksArePieces
  <2> QED BY <1>2, <2>1, PeekWithin
<1>4. r.at = key.at + 1
  BY <1>1 DEF Took
<1> QED BY <1>2, <1>3, <1>4

LEMMA AfterCommaLater ==
  ASSUME NEW s, NEW at \in Nat
  PROVE  AfterComma(s, at) \in Nat /\ at <= AfterComma(s, at)
BY DEF AfterComma

LEMMA ValuesAlike ==
  ASSUME NEW s \in Seq(Tokens), NEW i \in Nat, NEW f, NEW g,
         i <= Len(s) => AgreeAfter(f, g, s, i), AgreeOn(f, g, s, "skip", i)
  PROVE  Alike(Values(s, i, f), Values(s, i, g), s, i)
<1> DEFINE ReadOn(h, r) == More(s, r.at, "values", "]", h)
<1>2. Alike(f[<<"skip", i>>], g[<<"skip", i>>], s, i)
  BY DEF AgreeOn
<1>3. ASSUME NEW r \in f[<<"skip", i>>]
      PROVE  Alike(ReadOn(f, r), ReadOn(g, r), s, i)
  <2>1. r.at \in Nat /\ i < r.at /\ i <= Len(s)
    BY <1>2 DEF Alike, Ahead
  <2> QED BY <2>1, MoreAlike DEF Rules
<1>4. Values(s, i, f) = UNION {ReadOn(f, r) : r \in f[<<"skip", i>>]}
       /\ Values(s, i, g) = UNION {ReadOn(g, r) : r \in g[<<"skip", i>>]}
  BY DEF Values
<1> HIDE DEF ReadOn
<1> QED BY <1>2, <1>3, <1>4 DEF Alike, Ahead

(* What is read after a key. *)
LEMMA PairAlike ==
  ASSUME NEW s \in Seq(Tokens), NEW i \in Nat, NEW at \in Nat, i < at,
         NEW f, NEW g, AgreeAfter(f, g, s, i)
  PROVE  Alike(UNION {More(s, r.at, "pairs", Shut, f) : r \in f[<<"skip", at>>]},
               UNION {More(s, r.at, "pairs", Shut, g) : r \in g[<<"skip", at>>]}, s, i)
<1> DEFINE ReadOn(h, r) == More(s, r.at, "pairs", Shut, h)
<1>2. Alike(f[<<"skip", at>>], g[<<"skip", at>>], s, i)
  BY LaterAlike DEF Rules
<1>3. ASSUME NEW r \in f[<<"skip", at>>]
      PROVE  Alike(ReadOn(f, r), ReadOn(g, r), s, i)
  <2>1. r.at \in Nat /\ i < r.at
    BY <1>2 DEF Alike, Ahead
  <2> QED BY <2>1, MoreAlike DEF Rules
<1>4. Alike(UNION {ReadOn(f, r) : r \in f[<<"skip", at>>]},
            UNION {ReadOn(g, r) : r \in g[<<"skip", at>>]}, s, i)
  <2> HIDE DEF ReadOn
  <2> QED BY <1>2, <1>3 DEF Alike, Ahead
<1> QED BY <1>4

LEMMA PairsAlike ==
  ASSUME NEW s \in Seq(Tokens), NEW i \in Nat, NEW f, NEW g,
         i <= Len(s) => AgreeAfter(f, g, s, i)
  PROVE  Alike(Pairs(s, i, f), Pairs(s, i, g), s, i)
<1> DEFINE ReadOn(h, key) == UNION {More(s, r.at, "pairs", Shut, h) : r \in h[<<"skip", key.at>>]}
<1>1. Ahead(Keyed(s, i), s, i)
  BY KeyedAhead
<1>2. ASSUME NEW key \in Keyed(s, i)
      PROVE  Alike(ReadOn(f, key), ReadOn(g, key), s, i)
  <2>1. key.at \in Nat /\ i < key.at /\ i <= Len(s)
    BY <1>1 DEF Ahead
  <2> QED BY <2>1, PairAlike
<1>3. Pairs(s, i, f) = UNION {ReadOn(f, key) : key \in Keyed(s, i)}
       /\ Pairs(s, i, g) = UNION {ReadOn(g, key) : key \in Keyed(s, i)}
  BY DEF Pairs
<1> HIDE DEF ReadOn
<1> QED BY <1>2, <1>3 DEF Alike, Ahead

LEMMA SkipValueAlike ==
  ASSUME NEW s \in Seq(Tokens), NEW i \in Nat, NEW f, NEW g,
         i <= Len(s) => AgreeAfter(f, g, s, i)
  PROVE  Alike(SkipValue(s, i, f), SkipValue(s, i, g), s, i)
<1>0. ASSUME NEW mark \in {"]", Shut}, Peek(s, i + 1) = mark
      PROVE  Ahead({Took(NoParts, i + 2)}, s, i)
  <2>1. i + 1 \in Nat /\ Peek(s, i + 1) # NoPiece
    BY <1>0, MarksArePieces
  <2>2. i + 1 <= Len(s)
    BY <2>1, PeekWithin, Zenon
  <2>3. i + 2 \in Nat /\ i < i + 2 /\ i + 2 <= Len(s) + 1
    BY <2>2
  <2> QED BY <2>3, AheadOne, Zenon
<1>1. CASE Peek(s, i) = "["
  <2>1. i <= Len(s) /\ i + 1 \in Nat /\ i < i + 1
    BY <1>1, PeekWithin, MarksArePieces
  <2>2. Alike(f[<<"values", i + 1>>], g[<<"values", i + 1>>], s, i)
    BY <2>1, LaterAlike, Zenon DEF Rules
  <2>3. Peek(s, i) # Open
    BY <1>1, MarksArePieces
  <2>4. /\ SkipValue(s, i, f) =
             (IF Peek(s, i + 1) = "]" THEN {Took(NoParts, i + 2)} ELSE f[<<"values", i + 1>>])
        /\ SkipValue(s, i, g) =
             (IF Peek(s, i + 1) = "]" THEN {Took(NoParts, i + 2)} ELSE g[<<"values", i + 1>>])
    BY <1>1, <2>3 DEF SkipValue
  <2> QED BY <1>0, <2>2, <2>4 DEF Alike
<1>2. CASE Peek(s, i) = Open
  <2>1. i <= Len(s) /\ i + 1 \in Nat /\ i < i + 1
    BY <1>2, PeekWithin, MarksArePieces
  <2>2. Alike(f[<<"pairs", i + 1>>], g[<<"pairs", i + 1>>], s, i)
    BY <2>1, LaterAlike, Zenon DEF Rules
  <2>3. Peek(s, i) # "["
    BY <1>2, MarksArePieces
  <2>4. /\ SkipValue(s, i, f) =
             (IF Peek(s, i + 1) = Shut THEN {Took(NoParts, i + 2)} ELSE f[<<"pairs", i + 1>>])
        /\ SkipValue(s, i, g) =
             (IF Peek(s, i + 1) = Shut THEN {Took(NoParts, i + 2)} ELSE g[<<"pairs", i + 1>>])
    BY <1>2, <2>3 DEF SkipValue
  <2> QED BY <1>0, <2>2, <2>4 DEF Alike
<1>3. CASE Peek(s, i) \notin {"[", Open}
  <2> DEFINE C == \/ IsQuoted(Peek(s, i)) \/ IsInteger(Peek(s, i))
                  \/ Peek(s, i) \in {"true", "false", "null"}
  <2>1. SkipValue(s, i, f) = (IF C THEN {Took(NoParts, i + 1)} ELSE {})
         /\ SkipValue(s, i, g) = (IF C THEN {Took(NoParts, i + 1)} ELSE {})
    BY <1>3 DEF SkipValue
  <2>2. C => i <= Len(s)
    <3>1. C => Peek(s, i) # NoPiece
      <4>1. \A w \in {"true", "false", "null"} : w # NoPiece
        BY Zenon DEF NoPiece
      <4> QED BY <4>1, BlankIsNothing, Zenon
    <3> HIDE DEF C
    <3> QED BY <3>1, PeekWithin
  <2> HIDE DEF C
  <2>3. C => Ahead({Took(NoParts, i + 1)}, s, i)
    <3> SUFFICES ASSUME C PROVE Ahead({Took(NoParts, i + 1)}, s, i)
      OBVIOUS
    <3>1. i + 1 \in Nat /\ i < i + 1 /\ i + 1 <= Len(s) + 1
      BY <2>2
    <3> QED BY <3>1, AheadOne, Zenon
  <2> QED BY <2>1, <2>3 DEF Alike, Ahead
<1> QED BY <1>1, <1>2, <1>3

LEMMA ElementsAlike ==
  ASSUME NEW s \in Seq(Tokens), NEW i \in Nat, NEW f, NEW g,
         i <= Len(s) => AgreeAfter(f, g, s, i), AgreeOn(f, g, s, "node", i)
  PROVE  Alike(Elements(s, i, f), Elements(s, i, g), s, i)
<1> DEFINE ReadOn(h, r) == Then(Arg(r.value), More(s, r.at, "elements", "]", h))
<1>2. Alike(f[<<"node", i>>], g[<<"node", i>>], s, i)
  BY DEF AgreeOn
<1>3. ASSUME NEW r \in f[<<"node", i>>]
      PROVE  Alike(ReadOn(f, r), ReadOn(g, r), s, i)
  <2>1. r.at \in Nat /\ i < r.at /\ i <= Len(s)
    BY <1>2 DEF Alike, Ahead
  <2>2. Alike(More(s, r.at, "elements", "]", f), More(s, r.at, "elements", "]", g), s, i)
    BY <2>1, MoreAlike DEF Rules
  <2> QED BY <2>2, ThenAlike
<1>4. Elements(s, i, f) = UNION {ReadOn(f, r) : r \in f[<<"node", i>>]}
       /\ Elements(s, i, g) = UNION {ReadOn(g, r) : r \in g[<<"node", i>>]}
  BY DEF Elements
<1> HIDE DEF ReadOn
<1> QED BY <1>2, <1>3, <1>4 DEF Alike, Ahead

(* An attribute of an object, after its key. *)
Entry(s, key, read) ==
  UNION {Then(Attr(key.value, r.value), read[<<"entries", AfterComma(s, r.at)>>]) :
           r \in read[<<"node", key.at>>]}

LEMMA EntryAlike ==
  ASSUME NEW s \in Seq(Tokens), NEW i \in Nat, NEW key, key.at \in Nat, i < key.at,
         NEW f, NEW g, AgreeAfter(f, g, s, i)
  PROVE  Alike(Entry(s, key, f), Entry(s, key, g), s, i)
<1> DEFINE ReadOn(h, r) == Then(Attr(key.value, r.value), h[<<"entries", AfterComma(s, r.at)>>])
<1>2. Alike(f[<<"node", key.at>>], g[<<"node", key.at>>], s, i)
  BY LaterAlike DEF Rules
<1>3. ASSUME NEW r \in f[<<"node", key.at>>]
      PROVE  Alike(ReadOn(f, r), ReadOn(g, r), s, i)
  <2>1. r.at \in Nat /\ i < r.at
    BY <1>2 DEF Alike, Ahead
  <2>2. AfterComma(s, r.at) \in Nat /\ i < AfterComma(s, r.at)
    <3>1. AfterComma(s, r.at) \in Nat /\ r.at <= AfterComma(s, r.at)
      BY <2>1, AfterCommaLater
    <3> QED BY <2>1, <3>1
  <2>3. Alike(f[<<"entries", AfterComma(s, r.at)>>], g[<<"entries", AfterComma(s, r.at)>>], s, i)
    BY <2>2, LaterAlike, Zenon DEF Rules
  <2> QED BY <2>3, ThenAlike
<1>4. Alike(UNION {ReadOn(f, r) : r \in f[<<"node", key.at>>]},
            UNION {ReadOn(g, r) : r \in g[<<"node", key.at>>]}, s, i)
  <2> HIDE DEF ReadOn
  <2> QED BY <1>2, <1>3 DEF Alike, Ahead
<1> QED BY <1>4 DEF Entry

LEMMA EntriesAlike ==
  ASSUME NEW s \in Seq(Tokens), NEW i \in Nat, NEW f, NEW g,
         i <= Len(s) => AgreeAfter(f, g, s, i)
  PROVE  Alike(Entries(s, i, f), Entries(s, i, g), s, i)
<1>1. CASE Peek(s, i) = Shut
  <2>1. i <= Len(s)
    BY <1>1, PeekWithin, MarksArePieces
  <2>2. Entries(s, i, f) = {Took(NoParts, i + 1)} /\ Entries(s, i, g) = {Took(NoParts, i + 1)}
    BY <1>1 DEF Entries
  <2> QED BY <2>1, <2>2, AheadOne DEF Alike
<1>2. CASE Peek(s, i) # Shut
  <2>1. Ahead(Keyed(s, i), s, i)
    BY KeyedAhead
  <2>2. ASSUME NEW key \in Keyed(s, i)
        PROVE  Alike(Entry(s, key, f), Entry(s, key, g), s, i)
    <3>1. key.at \in Nat /\ i < key.at /\ i <= Len(s)
      BY <2>1 DEF Ahead
    <3> QED BY <3>1, EntryAlike
  <2>3. Entries(s, i, f) = UNION {Entry(s, key, f) : key \in Keyed(s, i)}
         /\ Entries(s, i, g) = UNION {Entry(s, key, g) : key \in Keyed(s, i)}
    BY <1>2 DEF Entries, Entry
  <2> QED BY <2>2, <2>3 DEF Alike, Ahead
<1> QED BY <1>1, <1>2

LEMMA MemberValueAlike ==
  ASSUME NEW s \in Seq(Tokens), NEW i \in Nat, NEW at \in Nat, i < at, NEW key,
         NEW f, NEW g, AgreeAfter(f, g, s, i)
  PROVE  Alike(MemberValue(s, key, at, f), MemberValue(s, key, at, g), s, i)
<1>0. at + 1 \in Nat /\ i < at + 1 /\ at + 2 \in Nat /\ i < at + 2
  OBVIOUS
<1>1. CASE key \in {"atom", "value", "head"}
  <2> DEFINE A == {Took(Parts(<<<<key, r.value>>>>, << >>, << >>), r.at) : r \in ReadString(s, at)}
  <2>1. Ahead(ReadString(s, at), s, at)
    BY StringAhead
  <2>2. Ahead(A, s, at)
    <3> SUFFICES ASSUME NEW r \in ReadString(s, at)
                 PROVE  /\ Took(Parts(<<<<key, r.value>>>>, << >>, << >>), r.at).at \in Nat
                        /\ at < Took(Parts(<<<<key, r.value>>>>, << >>, << >>), r.at).at
                        /\ Took(Parts(<<<<key, r.value>>>>, << >>, << >>), r.at).at <= Len(s) + 1
      BY Zenon DEF Ahead
    <3> QED BY <2>1 DEF Ahead, Took
  <2>3. MemberValue(s, key, at, f) = A /\ MemberValue(s, key, at, g) = A
    BY <1>1 DEF MemberValue
  <2> HIDE DEF A
  <2>4. Ahead(A, s, i)
    <3>1. i <= at  OBVIOUS
    <3> QED BY <2>2, <3>1, AheadFurther
  <2> QED BY <2>3, <2>4 DEF Alike
<1>2. CASE key = "args"
  <2>1. Alike(f[<<"elements", at + 1>>], g[<<"elements", at + 1>>], s, i)
    BY <1>0, LaterAlike, Zenon DEF Rules
  <2>2. Peek(s, at + 1) = "]" => Ahead({Took(NoParts, at + 2)}, s, i)
    <3> SUFFICES ASSUME Peek(s, at + 1) = "]" PROVE Ahead({Took(NoParts, at + 2)}, s, i)
      OBVIOUS
    <3>1. Peek(s, at + 1) # NoPiece
      BY MarksArePieces
    <3>2. at + 1 <= Len(s)
      BY <1>0, <3>1, PeekWithin, Zenon
    <3>3. at + 2 <= Len(s) + 1
      BY <3>2
    <3> QED BY <1>0, <3>3, AheadOne, Zenon
  <2>3. \A h : MemberValue(s, key, at, h) =
               IF Peek(s, at) # "[" THEN {}
               ELSE IF Peek(s, at + 1) = "]" THEN {Took(NoParts, at + 2)}
               ELSE h[<<"elements", at + 1>>]
    BY <1>2 DEF MemberValue
  <2> QED BY <2>1, <2>2, <2>3 DEF Alike, Ahead
<1>3. CASE key = "attrs"
  <2>1. Alike(f[<<"entries", at + 1>>], g[<<"entries", at + 1>>], s, i)
    BY <1>0, LaterAlike, Zenon DEF Rules
  <2>3. \A h : MemberValue(s, key, at, h) =
               IF Peek(s, at) # Open THEN {} ELSE h[<<"entries", at + 1>>]
    BY <1>3 DEF MemberValue
  <2> QED BY <2>1, <2>3 DEF Alike, Ahead
<1>4. CASE key \notin {"atom", "value", "head", "args", "attrs"}
  <2>1. Alike(f[<<"skip", at>>], g[<<"skip", at>>], s, i)
    BY LaterAlike DEF Rules
  <2>2. MemberValue(s, key, at, f) = f[<<"skip", at>>]
         /\ MemberValue(s, key, at, g) = g[<<"skip", at>>]
    BY <1>4 DEF MemberValue
  <2> QED BY <2>1, <2>2
<1> QED BY <1>1, <1>2, <1>3, <1>4

(* A member of an object, after its key. *)
AfterKey(s, key, read) ==
  UNION {Then(r.value, read[<<"parts", AfterComma(s, r.at)>>]) :
           r \in MemberValue(s, key.value, key.at, read)}

LEMMA MemberAlike ==
  ASSUME NEW s \in Seq(Tokens), NEW i \in Nat, NEW key, key.at \in Nat, i < key.at,
         NEW f, NEW g, AgreeAfter(f, g, s, i)
  PROVE  Alike(AfterKey(s, key, f), AfterKey(s, key, g), s, i)
<1> DEFINE ReadOn(h, r) == Then(r.value, h[<<"parts", AfterComma(s, r.at)>>])
           V(h) == MemberValue(s, key.value, key.at, h)
<1>2. Alike(V(f), V(g), s, i)
  BY MemberValueAlike
<1> HIDE DEF V
<1>3. ASSUME NEW r \in V(f)
      PROVE  Alike(ReadOn(f, r), ReadOn(g, r), s, i)
  <2>1. r.at \in Nat /\ i < r.at
    BY <1>2 DEF Alike, Ahead
  <2>2. AfterComma(s, r.at) \in Nat /\ i < AfterComma(s, r.at)
    <3>1. AfterComma(s, r.at) \in Nat /\ r.at <= AfterComma(s, r.at)
      BY <2>1, AfterCommaLater
    <3> QED BY <2>1, <3>1
  <2>3. Alike(f[<<"parts", AfterComma(s, r.at)>>], g[<<"parts", AfterComma(s, r.at)>>], s, i)
    BY <2>2, LaterAlike, Zenon DEF Rules
  <2> QED BY <2>3, ThenAlike
<1>4. Alike(UNION {ReadOn(f, r) : r \in V(f)}, UNION {ReadOn(g, r) : r \in V(g)}, s, i)
  <2> HIDE DEF ReadOn
  <2> QED BY <1>2, <1>3 DEF Alike, Ahead
<1> QED BY <1>4 DEF V, AfterKey

LEMMA MembersAlike ==
  ASSUME NEW s \in Seq(Tokens), NEW i \in Nat, NEW f, NEW g,
         i <= Len(s) => AgreeAfter(f, g, s, i)
  PROVE  Alike(Members(s, i, f), Members(s, i, g), s, i)
<1>1. CASE Peek(s, i) = Shut
  <2>1. i <= Len(s)
    BY <1>1, PeekWithin, MarksArePieces
  <2>2. Members(s, i, f) = {Took(NoParts, i + 1)} /\ Members(s, i, g) = {Took(NoParts, i + 1)}
    BY <1>1 DEF Members
  <2> QED BY <2>1, <2>2, AheadOne DEF Alike
<1>2. CASE Peek(s, i) # Shut
  <2>1. Ahead(Keyed(s, i), s, i)
    BY KeyedAhead
  <2>2. ASSUME NEW key \in Keyed(s, i)
        PROVE  Alike(AfterKey(s, key, f), AfterKey(s, key, g), s, i)
    <3>1. key.at \in Nat /\ i < key.at /\ i <= Len(s)
      BY <2>1 DEF Ahead
    <3> QED BY <3>1, MemberAlike
  <2>3. Members(s, i, f) = UNION {AfterKey(s, key, f) : key \in Keyed(s, i)}
         /\ Members(s, i, g) = UNION {AfterKey(s, key, g) : key \in Keyed(s, i)}
    BY <1>2 DEF Members, AfterKey
  <2> QED BY <2>2, <2>3 DEF Alike, Ahead
<1> QED BY <1>1, <1>2

LEMMA ObjectNodeAlike ==
  ASSUME NEW s \in Seq(Tokens), NEW i \in Nat, NEW f, NEW g,
         i <= Len(s) => AgreeAfter(f, g, s, i)
  PROVE  Alike(ObjectNode(s, i, f), ObjectNode(s, i, g), s, i)
<1>1. CASE IsQuoted(Peek(s, i))
  <2> DEFINE A == {Took(Sym(r.value), r.at) : r \in ReadString(s, i)}
  <2>1. Ahead(ReadString(s, i), s, i)
    BY StringAhead
  <2>2. Ahead(A, s, i)
    BY <2>1 DEF Ahead, Took
  <2>3. ObjectNode(s, i, f) = A /\ ObjectNode(s, i, g) = A
    BY <1>1 DEF ObjectNode
  <2> QED BY <2>2, <2>3 DEF Alike
<1>2. CASE ~IsQuoted(Peek(s, i)) /\ IsNumeral(Peek(s, i))
  <2>1. i <= Len(s)
    BY <1>2, PeekWithin, BlankIsNothing
  <2>2. ObjectNode(s, i, f) = {Took(Num(s[i]), i + 1)}
         /\ ObjectNode(s, i, g) = {Took(Num(s[i]), i + 1)}
    BY <1>2 DEF ObjectNode
  <2> QED BY <2>1, <2>2, AheadOne DEF Alike
<1>3. CASE ~IsQuoted(Peek(s, i)) /\ ~IsNumeral(Peek(s, i)) /\ Peek(s, i) = Open
  <2> DEFINE ReadOn(r) == {Took(t, r.at) : t \in ObjectOf(r.value)}
  <2>1. i <= Len(s) /\ i + 1 \in Nat /\ i < i + 1
    BY <1>3, PeekWithin, MarksArePieces
  <2>2. Alike(f[<<"parts", i + 1>>], g[<<"parts", i + 1>>], s, i)
    BY <2>1, LaterAlike, Zenon DEF Rules
  <2>3. ASSUME NEW r \in f[<<"parts", i + 1>>] PROVE Ahead(ReadOn(r), s, i)
    <3>1. r.at \in Nat /\ i < r.at /\ r.at <= Len(s) + 1
      BY <2>2 DEF Alike, Ahead
    <3> QED BY <3>1 DEF Ahead, Took
  <2>4. ObjectNode(s, i, f) = UNION {ReadOn(r) : r \in f[<<"parts", i + 1>>]}
         /\ ObjectNode(s, i, g) = UNION {ReadOn(r) : r \in g[<<"parts", i + 1>>]}
    BY <1>3 DEF ObjectNode
  <2> HIDE DEF ReadOn
  <2> QED BY <2>2, <2>3, <2>4 DEF Alike, Ahead
<1>4. CASE ~IsQuoted(Peek(s, i)) /\ ~IsNumeral(Peek(s, i)) /\ Peek(s, i) # Open
  <2>1. ObjectNode(s, i, f) = {} /\ ObjectNode(s, i, g) = {}
    BY <1>4 DEF ObjectNode
  <2> QED BY <2>1 DEF Alike, Ahead
<1> QED BY <1>1, <1>2, <1>3, <1>4

(* What a rule makes of the text at i follows from what the rules make of  *)
(* it after i and, for a list, from what its first part is.                *)
LEMMA StepAlike ==
  ASSUME NEW m \in Modes, NEW s \in Seq(Tokens), NEW rule \in Rules, NEW i \in Nat,
         NEW f, NEW g, i <= Len(s) => AgreeAfter(f, g, s, i),
         rule \notin {"node", "skip"} =>
           AgreeOn(f, g, s, "node", i) /\ AgreeOn(f, g, s, "skip", i)
  PROVE  Alike(Step(m, s, rule, i, f), Step(m, s, rule, i, g), s, i)
<1>1. CASE rule = "node"
  <2>1. CASE m = "core"
    BY <1>1, <2>1, CoreNodeAlike DEF Step
  <2>2. CASE m = "strict"
    BY <1>1, <2>2, StrictNodeAlike DEF Step
  <2>3. CASE m = "object"
    BY <1>1, <2>3, ObjectNodeAlike DEF Step
  <2> QED BY <2>1, <2>2, <2>3 DEF Modes
<1>2. CASE rule = "parts"
  <2>1. CASE m = "core"
    BY <1>2, <2>1, CorePartsAlike DEF Step
  <2>2. CASE m = "strict"
    BY <1>2, <2>2, StrictPartsAlike DEF Step
  <2>3. CASE m = "object"
    BY <1>2, <2>3, MembersAlike DEF Step
  <2> QED BY <2>1, <2>2, <2>3 DEF Modes
<1>3. CASE rule = "elements"
  BY <1>3, ElementsAlike DEF Step
<1>4. CASE rule = "entries"
  BY <1>4, EntriesAlike DEF Step
<1>5. CASE rule = "skip"
  BY <1>5, SkipValueAlike DEF Step
<1>6. CASE rule = "values"
  BY <1>6, ValuesAlike DEF Step
<1>7. CASE rule = "pairs"
  BY <1>7, PairsAlike DEF Step
<1> QED BY <1>1, <1>2, <1>3, <1>4, <1>5, <1>6, <1>7 DEF Rules

-----------------------------------------------------------------------------

(* The rules are defined from one another: those that begin with a piece   *)
(* of their own, from what is read after it; the lists, also from what     *)
(* their first part is.                                                    *)
Rank(s, p) ==
  2 * (IF p[2] > Len(s) THEN 0 ELSE Len(s) + 1 - p[2])
    + (IF p[1] \in {"node", "skip"} THEN 0 ELSE 1)

LEMMA RankIsNatural ==
  ASSUME NEW s \in Seq(Tokens), NEW p \in Rules \X Nat
  PROVE  Rank(s, p) \in Nat /\ Rank(s, p) < 2 * Len(s) + 4
<1>1. p[2] \in Nat /\ Len(s) \in Nat
  OBVIOUS
<1> DEFINE a == IF p[2] > Len(s) THEN 0 ELSE Len(s) + 1 - p[2]
           b == IF p[1] \in {"node", "skip"} THEN 0 ELSE 1
<1>2. a \in 0 .. Len(s) + 1 /\ b \in 0 .. 1
  BY <1>1
<1>3. Rank(s, p) = 2 * a + b
  BY DEF Rank
<1> HIDE DEF a, b
<1> QED BY <1>1, <1>2, <1>3

LEMMA RankLater ==
  ASSUME NEW s \in Seq(Tokens), NEW i \in Nat, NEW at \in Nat, i < at, i <= Len(s),
         NEW rule \in Rules, NEW other \in Rules
  PROVE  Rank(s, <<other, at>>) < Rank(s, <<rule, i>>)
<1> DEFINE a == IF at > Len(s) THEN 0 ELSE Len(s) + 1 - at
           b == IF other \in {"node", "skip"} THEN 0 ELSE 1
           c == IF rule \in {"node", "skip"} THEN 0 ELSE 1
<1>1. a \in Nat /\ a < Len(s) + 1 - i /\ b \in 0 .. 1 /\ c \in 0 .. 1
  OBVIOUS
<1>2. Rank(s, <<other, at>>) = 2 * a + b
  BY DEF Rank
<1>3. Rank(s, <<rule, i>>) = 2 * (Len(s) + 1 - i) + c
  <2>1. ~(i > Len(s))
    OBVIOUS
  <2>2. Rank(s, <<rule, i>>) = 2 * (IF i > Len(s) THEN 0 ELSE Len(s) + 1 - i) + c
    BY Zenon DEF Rank
  <2> QED BY <2>1, <2>2
<1> HIDE DEF a, b, c
<1> QED BY <1>1, <1>2, <1>3

LEMMA RankFirst ==
  ASSUME NEW s \in Seq(Tokens), NEW i \in Nat, NEW rule \in Rules \ {"node", "skip"},
         NEW first \in {"node", "skip"}
  PROVE  Rank(s, <<first, i>>) < Rank(s, <<rule, i>>)
<1> DEFINE a == IF i > Len(s) THEN 0 ELSE Len(s) + 1 - i
<1>1. a \in Nat
  OBVIOUS
<1>2. Rank(s, <<first, i>>) = 2 * a + 0 /\ Rank(s, <<rule, i>>) = 2 * a + 1
  BY DEF Rank
<1> HIDE DEF a
<1> QED BY <1>1, <1>2

(* A reader that is right at the ranks below n. *)
RightBelow(f, m, s, n) ==
  \A p \in Rules \X Nat : Rank(s, p) < n =>
    f[p] = Step(m, s, p[1], p[2], f) /\ Ahead(f[p], s, p[2])

LEMMA RightAlike ==
  ASSUME NEW m \in Modes, NEW s \in Seq(Tokens), NEW n \in Nat, NEW f, NEW g,
         RightBelow(f, m, s, n),
         \A p \in Rules \X Nat : Rank(s, p) < n => f[p] = g[p],
         NEW q \in Rules \X Nat, Rank(s, q) <= n
  PROVE  Alike(Step(m, s, q[1], q[2], f), Step(m, s, q[1], q[2], g), s, q[2])
<1> DEFINE rule == q[1]
           i == q[2]
<1>0. rule \in Rules /\ i \in Nat /\ q = <<rule, i>>
  OBVIOUS
<1> HIDE DEF rule, i
<1>1. ASSUME NEW p \in Rules \X Nat, Rank(s, p) < n
      PROVE  Alike(f[p], g[p], s, p[2])
  BY <1>1 DEF RightBelow, Alike
<1>2. ASSUME NEW other \in Rules, NEW at \in Nat, Rank(s, <<other, at>>) < Rank(s, <<rule, i>>)
      PROVE  Alike(f[<<other, at>>], g[<<other, at>>], s, at)
  <2>1. <<other, at>> \in Rules \X Nat
    OBVIOUS
  <2>2. Rank(s, <<other, at>>) \in Nat /\ Rank(s, q) \in Nat
    BY <2>1, RankIsNatural
  <2>3. Rank(s, <<other, at>>) < n
    BY <1>0, <1>2, <2>2
  <2>4. Alike(f[<<other, at>>], g[<<other, at>>], s, <<other, at>>[2])
    BY <1>1, <2>1, <2>3
  <2> QED BY <2>4
<1>3. i <= Len(s) => AgreeAfter(f, g, s, i)
  BY <1>0, <1>2, RankLater DEF AgreeAfter
<1>4. rule \notin {"node", "skip"} =>
        AgreeOn(f, g, s, "node", i) /\ AgreeOn(f, g, s, "skip", i)
  <2> SUFFICES ASSUME rule \notin {"node", "skip"}, NEW first \in {"node", "skip"}
               PROVE  AgreeOn(f, g, s, first, i)
    OBVIOUS
  <2>1. Rank(s, <<first, i>>) < Rank(s, <<rule, i>>)
    BY <1>0, RankFirst
  <2>2. first \in Rules
    BY DEF Rules
  <2> QED BY <1>0, <1>2, <2>1, <2>2 DEF AgreeOn
<1>5. Alike(Step(m, s, rule, i, f), Step(m, s, rule, i, g), s, i)
  BY <1>0, <1>3, <1>4, StepAlike
<1> QED BY <1>5 DEF rule, i

(* The rules have a meaning. *)
IsReader(f, m, s) == f = [p \in Rules \X Nat |-> Step(m, s, p[1], p[2], f)]

LEMMA ReaderExists ==
  ASSUME NEW m \in Modes, NEW s \in Seq(Tokens)
  PROVE  \E f : IsReader(f, m, s)
<1> DEFINE D == Rules \X Nat
           Fits(f, n) == f = [p \in D |-> f[p]] /\ RightBelow(f, m, s, n)
           Bad == {n \in Nat : ~\E f : Fits(f, n)}
<1>1. \E f : Fits(f, 0)
  <2> DEFINE f == [p \in D |-> {}]
  <2>1. f = [p \in D |-> f[p]]
    OBVIOUS
  <2>2. RightBelow(f, m, s, 0)
    <3> SUFFICES ASSUME NEW p \in Rules \X Nat PROVE ~(Rank(s, p) < 0)
      BY DEF RightBelow
    <3>1. Rank(s, p) \in Nat
      BY RankIsNatural
    <3> QED BY <3>1
  <2> HIDE DEF f, D
  <2> QED BY <2>1, <2>2
<1>2. ASSUME NEW n \in Nat, NEW f, Fits(f, n) PROVE \E g : Fits(g, n + 1)
  <2> DEFINE g == [p \in D |-> IF Rank(s, p) < n THEN f[p] ELSE Step(m, s, p[1], p[2], f)]
  <2>1. g = [p \in D |-> g[p]]
    OBVIOUS
  <2>2. \A p \in Rules \X Nat : Rank(s, p) < n => f[p] = g[p]
    OBVIOUS
  <2>3. RightBelow(f, m, s, n)
    BY <1>2
  <2>4. ASSUME NEW p \in Rules \X Nat, Rank(s, p) < n + 1
        PROVE  g[p] = Step(m, s, p[1], p[2], g) /\ Ahead(g[p], s, p[2])
    <3>1. g[p] = Step(m, s, p[1], p[2], f)
      BY <2>3 DEF RightBelow
    <3>2. Rank(s, p) <= n
      <4>1. Rank(s, p) \in Nat
        BY RankIsNatural
      <4> HIDE DEF g
      <4> QED BY <2>4, <4>1
    <3> HIDE DEF g, D
    <3>3. Alike(Step(m, s, p[1], p[2], f), Step(m, s, p[1], p[2], g), s, p[2])
      BY <2>2, <2>3, <3>2, RightAlike
    <3> QED BY <3>1, <3>3 DEF Alike
  <2>5. RightBelow(g, m, s, n + 1)
    <3> HIDE DEF g
    <3> QED BY <2>4 DEF RightBelow
  <2> HIDE DEF g, D
  <2> QED BY <2>1, <2>5
<1>3. Bad = {}
  <2> SUFFICES ASSUME Bad # {} PROVE FALSE
    OBVIOUS
  <2> HIDE DEF Fits
  <2>1. Bad \in SUBSET Nat
    OBVIOUS
  <2>2. PICK n \in Bad : \A k \in Bad : n <= k
    <3> HIDE DEF Bad
    <3> QED BY <2>1, LeastElement
  <2>3. n \in Nat /\ n # 0
    BY <1>1
  <2>4. n - 1 \in Nat /\ ~(n <= n - 1) /\ n - 1 + 1 = n
    BY <2>3
  <2>5. n - 1 \notin Bad
    <3> HIDE DEF Bad
    <3> QED BY <2>2, <2>4
  <2>6. PICK f : Fits(f, n - 1)
    BY <2>4, <2>5
  <2>7. \E g : Fits(g, n - 1 + 1)
    BY <1>2, <2>4, <2>6
  <2> QED BY <2>4, <2>7
<1> DEFINE top == 2 * Len(s) + 4
<1>4. PICK f : Fits(f, top)
  <2>1. top \in Nat
    OBVIOUS
  <2> HIDE DEF Fits, top
  <2> QED BY <1>3, <2>1
<1>5. \A p \in D : f[p] = Step(m, s, p[1], p[2], f)
  BY <1>4, RankIsNatural DEF RightBelow
<1>6. f = [p \in D |-> f[p]]
  BY <1>4
<1>7. [p \in D |-> f[p]] = [p \in D |-> Step(m, s, p[1], p[2], f)]
  BY <1>5
<1>8. f = [p \in D |-> Step(m, s, p[1], p[2], f)]
  <2> HIDE DEF D
  <2> QED BY <1>6, <1>7
<1> QED BY <1>8 DEF IsReader

(* A text of which a reader makes one tree and nothing is left is read as  *)
(* that tree.                                                              *)
LEMMA ReadingIs ==
  ASSUME NEW m \in Modes, NEW s \in Seq(Tokens), NEW t,
         \A f : IsReader(f, m, s) => f[<<"node", 1>>] = {Took(t, Len(s) + 1)}
  PROVE  Reading(s, m) = {t}
<1> DEFINE F == CHOOSE f : f = [p \in Rules \X Nat |-> Step(m, s, p[1], p[2], f)]
<1>1. Reading(s, m) = {r.value : r \in {r \in F[<<"node", 1>>] : r.at > Len(s)}}
  BY Zenon DEF Reading
<1>2. IsReader(F, m, s)
  <2>1. \E f : f = [p \in Rules \X Nat |-> Step(m, s, p[1], p[2], f)]
    BY ReaderExists, Zenon DEF IsReader
  <2> QED BY <2>1, Zenon DEF IsReader
<1> HIDE DEF F
<1>3. F[<<"node", 1>>] = {Took(t, Len(s) + 1)}
  BY <1>2
<1>4. Took(t, Len(s) + 1).at > Len(s) /\ Took(t, Len(s) + 1).value = t
  BY DEF Took
<1> HIDE DEF Took
<1>5. {r \in F[<<"node", 1>>] : r.at > Len(s)} = {Took(t, Len(s) + 1)}
  BY <1>3, <1>4
<1> QED BY <1>1, <1>4, <1>5

-----------------------------------------------------------------------------

(* Induction from the last of n places to the first. *)
LEMMA Downward ==
  ASSUME NEW n \in Nat, NEW Good, n \in Good,
         \A k \in 1 .. n : k < n /\ k + 1 \in Good => k \in Good
  PROVE  \A k \in 1 .. n : k \in Good
<1> DEFINE D == 1 .. n
           rank == [k \in D |-> n - k]
<1>1. rank \in [D -> Nat]
  OBVIOUS
<1>2. ASSUME NEW k \in D, \A j \in D : rank[j] < rank[k] => j \in Good
      PROVE  k \in Good
  <2>1. CASE k = n
    BY <2>1
  <2>2. CASE k < n
    <3>1. k + 1 \in D /\ rank[k + 1] < rank[k]
      BY <2>2
    <3>2. k + 1 \in Good
      BY <1>2, <3>1
    <3> QED BY <2>2, <3>2
  <2> QED BY <2>1, <2>2
<1> HIDE DEF D, rank
<1>3. \A k \in D : k \in Good
  BY <1>1, <1>2, RankInduction
<1> QED BY <1>3 DEF D

(* The pieces w are in the text s from place i on. *)
Occurs(w, s, i) == i + Len(w) <= Len(s) + 1 /\ \A k \in 1 .. Len(w) : s[i + k - 1] = w[k]

Place == Nat \ {0}

LEMMA OccursConcat ==
  ASSUME NEW s \in Seq(Tokens), NEW i \in Place,
         NEW a \in Seq(Tokens), NEW b \in Seq(Tokens), Occurs(a \o b, s, i)
  PROVE  Occurs(a, s, i) /\ Occurs(b, s, i + Len(a)) /\ i + Len(a) \in Place
<1>1. Len(a \o b) = Len(a) + Len(b) /\ Len(a) \in Nat /\ Len(b) \in Nat /\ i \in Nat
  BY DEF Place
<1>2. \A k \in 1 .. Len(a) : (a \o b)[k] = a[k]
  OBVIOUS
<1>3. \A k \in 1 .. Len(b) : (a \o b)[Len(a) + k] = b[k]
  OBVIOUS
<1>4. Occurs(a, s, i)
  <2>1. i + Len(a) <= Len(s) + 1
    BY <1>1 DEF Occurs
  <2>2. ASSUME NEW k \in 1 .. Len(a) PROVE s[i + k - 1] = a[k]
    <3>1. k \in 1 .. Len(a \o b)
      BY <1>1
    <3> QED BY <1>2, <3>1 DEF Occurs
  <2> QED BY <2>1, <2>2 DEF Occurs
<1>5. Occurs(b, s, i + Len(a))
  <2>1. (i + Len(a)) + Len(b) <= Len(s) + 1
    BY <1>1 DEF Occurs
  <2>2. ASSUME NEW k \in 1 .. Len(b) PROVE s[(i + Len(a)) + k - 1] = b[k]
    <3>1. Len(a) + k \in 1 .. Len(a \o b)
      BY <1>1
    <3>2. s[i + (Len(a) + k) - 1] = (a \o b)[Len(a) + k]
      BY <3>1 DEF Occurs
    <3>3. i + (Len(a) + k) - 1 = (i + Len(a)) + k - 1
      BY <1>1
    <3> QED BY <1>3, <3>2, <3>3
  <2> QED BY <2>1, <2>2 DEF Occurs
<1> QED BY <1>1, <1>4, <1>5 DEF Place

LEMMA OccursOne ==
  ASSUME NEW s \in Seq(Tokens), NEW i \in Place, NEW w \in Seq(Tokens),
         NEW k \in 1 .. Len(w), Occurs(w, s, i)
  PROVE  /\ i + k - 1 \in Place /\ i + k - 1 <= Len(s)
         /\ Peek(s, i + k - 1) = w[k] /\ s[i + k - 1] = w[k]
<1>1. i + k - 1 \in Place /\ i + k - 1 <= Len(s)
  BY DEF Place, Occurs
<1>2. s[i + k - 1] = w[k]
  BY DEF Occurs
<1> QED BY <1>1, <1>2 DEF Peek

(* The sequences seqs follow each other from place i to place end. *)
Laid(seqs, s, at, i, end) ==
  /\ at \in [1 .. Len(seqs) + 1 -> Place]
  /\ at[1] = i /\ at[Len(seqs) + 1] = end
  /\ \A k \in 1 .. Len(seqs) : Occurs(seqs[k], s, at[k]) /\ at[k + 1] = at[k] + Len(seqs[k])

FlattenStep(seqs, f, k) == IF k = 1 THEN seqs[k] ELSE f[k - 1] \o seqs[k]
IsFlatten(seqs, f) == f = [k \in 1 .. Len(seqs) |-> FlattenStep(seqs, f, k)]

LEMMA FlattenIs ==
  ASSUME NEW seqs \in Seq(Seq(Tokens)), Len(seqs) # 0
  PROVE  \E f \in [1 .. Len(seqs) -> Seq(Tokens)] :
           IsFlatten(seqs, f) /\ FlattenSeq(seqs) = f[Len(seqs)]
<1> DEFINE D == 1 .. Len(seqs)
           S == Seq(Tokens)
           F == CHOOSE f : f = [k \in D |-> IF k = 1 THEN seqs[k] ELSE f[k - 1] \o seqs[k]]
           rank == [k \in D |-> k]
           step == [k \in D |-> [f \in [D -> S] |-> FlattenStep(seqs, f, k)]]
<1>0. Len(seqs) \in Nat /\ \A k \in D : seqs[k] \in S
  OBVIOUS
<1>1. FlattenSeq(seqs) = F[Len(seqs)]
  BY Zenon DEF FlattenSeq
<1>2. \E f : IsFlatten(seqs, f)
  <2>1. LooksDown(D, S, Len(seqs), rank, step)
    <3>1. S # {} /\ Len(seqs) \in Nat
      <4>1. << >> \in S
        OBVIOUS
      <4> QED BY <4>1
    <3>2. rank \in [D -> 0 .. Len(seqs)]
      BY <1>0
    <3>3. step \in [D -> [[D -> S] -> S]]
      <4> SUFFICES ASSUME NEW k \in D, NEW f \in [D -> S] PROVE FlattenStep(seqs, f, k) \in S
        BY Zenon
      <4>1. CASE k = 1
        BY <1>0, <4>1 DEF FlattenStep
      <4>2. CASE k # 1
        <5>1. f[k - 1] \in S
          <6>1. k - 1 \in D
            BY <1>0, <4>2
          <6> QED BY <6>1
        <5>2. f[k - 1] \o seqs[k] \in S
          BY <1>0, <5>1, ConcatProperties
        <5> QED BY <4>2, <5>2 DEF FlattenStep
      <4> QED BY <4>1, <4>2
    <3>4. ASSUME NEW k \in D, NEW f \in [D -> S], NEW g \in [D -> S],
                 \A j \in D : rank[j] < rank[k] => f[j] = g[j]
          PROVE  step[k][f] = step[k][g]
      <4>1. CASE k = 1
        BY <4>1 DEF FlattenStep
      <4>2. CASE k # 1
        <5>1. k - 1 \in D /\ rank[k - 1] < rank[k]
          BY <1>0, <4>2
        <5>2. f[k - 1] = g[k - 1]
          BY <3>4, <5>1
        <5> QED BY <4>2, <5>2 DEF FlattenStep
      <4> QED BY <4>1, <4>2
    <3> HIDE DEF D, S, rank, step
    <3> QED BY <3>1, <3>2, <3>3, <3>4 DEF LooksDown
  <2>2. PICK f \in [D -> S] : \A k \in D : f[k] = step[k][f]
    <3> HIDE DEF D, S, rank, step
    <3> QED BY <2>1, Recursion
  <2>3. f = [k \in D |-> FlattenStep(seqs, f, k)]
    BY <2>2
  <2> QED BY <2>3, Zenon DEF IsFlatten
<1>3. IsFlatten(seqs, F)
  <2>1. F = CHOOSE f : f = [k \in D |-> FlattenStep(seqs, f, k)]
    BY Zenon DEF FlattenStep
  <2>2. \E f : f = [k \in D |-> FlattenStep(seqs, f, k)]
    BY <1>2, Zenon DEF IsFlatten
  <2>3. F = [k \in D |-> FlattenStep(seqs, F, k)]
    <3> HIDE DEF F
    <3> QED BY <2>1, <2>2, Zenon
  <2> QED BY <2>3, Zenon DEF IsFlatten
<1> HIDE DEF F, step
<1>4. \A k \in D : F[k] \in S
  <2> DEFINE Good == {k \in D : F[k] \in S}
  <2>1. rank \in [D -> Nat]
    BY <1>0
  <2>2. ASSUME NEW k \in D, \A j \in D : rank[j] < rank[k] => j \in Good
        PROVE  k \in Good
    <3>1. F[k] = FlattenStep(seqs, F, k)
      BY <1>3 DEF IsFlatten
    <3>2. CASE k = 1
      BY <1>0, <3>1, <3>2 DEF FlattenStep
    <3>3. CASE k # 1
      <4>1. k - 1 \in D /\ rank[k - 1] < rank[k]
        BY <1>0, <3>3
      <4>2. F[k - 1] \in S
        BY <2>2, <4>1
      <4>3. F[k - 1] \o seqs[k] \in S
        BY <1>0, <4>2, ConcatProperties
      <4> QED BY <3>1, <3>3, <4>3 DEF FlattenStep
    <3> QED BY <3>2, <3>3
  <2>3. \A k \in D : k \in Good
    <3> HIDE DEF Good, D, rank
    <3> QED BY <2>1, <2>2, RankInduction
  <2> QED BY <2>3
<1>5. F \in [D -> S]
  <2>1. F = [k \in D |-> FlattenStep(seqs, F, k)]
    BY <1>3, Zenon DEF IsFlatten
  <2>2. DOMAIN F = D /\ F = [k \in D |-> F[k]]
    BY <2>1
  <2> HIDE DEF D, S
  <2> QED BY <1>4, <2>2
<1> QED BY <1>1, <1>3, <1>5

LEMMA FlattenTyped ==
  ASSUME NEW seqs \in Seq(Seq(Tokens))
  PROVE  FlattenSeq(seqs) \in Seq(Tokens)
<1>1. CASE Len(seqs) = 0
  BY <1>1 DEF FlattenSeq
<1>2. CASE Len(seqs) # 0
  <2>1. PICK f \in [1 .. Len(seqs) -> Seq(Tokens)] : FlattenSeq(seqs) = f[Len(seqs)]
    BY <1>2, FlattenIs
  <2>2. Len(seqs) \in 1 .. Len(seqs)
    BY <1>2
  <2> QED BY <2>1, <2>2
<1> QED BY <1>1, <1>2

LEMMA FlattenLaid ==
  ASSUME NEW seqs \in Seq(Seq(Tokens)), NEW s \in Seq(Tokens), NEW i \in Place,
         Occurs(FlattenSeq(seqs), s, i)
  PROVE  \E at : Laid(seqs, s, at, i, i + Len(FlattenSeq(seqs)))
<1> DEFINE n == Len(seqs)
           end == i + Len(FlattenSeq(seqs))
<1>0. n \in Nat /\ i \in Nat /\ \A k \in 1 .. n : seqs[k] \in Seq(Tokens) /\ Len(seqs[k]) \in Nat
  BY DEF Place
<1>1. CASE n = 0
  <2> DEFINE at == [k \in 1 .. n + 1 |-> i]
  <2>1. FlattenSeq(seqs) = seqs /\ end = i
    BY <1>0, <1>1 DEF FlattenSeq
  <2>2. Laid(seqs, s, at, i, i)
    BY <1>1 DEF Laid
  <2> QED BY <2>1, <2>2
<1>2. CASE n # 0
  <2>1. PICK f \in [1 .. n -> Seq(Tokens)] : IsFlatten(seqs, f) /\ FlattenSeq(seqs) = f[n]
    BY <1>2, FlattenIs
  <2>2. \A k \in 1 .. n : f[k] \in Seq(Tokens) /\ Len(f[k]) \in Nat
    <3>1. \A k \in 1 .. n : f[k] \in Seq(Tokens)
      OBVIOUS
    <3> QED BY <3>1, LenProperties
  <2>3. f[1] = seqs[1]
    BY <1>0, <1>2, <2>1 DEF IsFlatten, FlattenStep
  <2>4. \A k \in 1 .. n : k < n => f[k + 1] = f[k] \o seqs[k + 1]
    <3> SUFFICES ASSUME NEW k \in 1 .. n, k < n PROVE f[k + 1] = f[k] \o seqs[k + 1]
      OBVIOUS
    <3>1. k + 1 \in 1 .. n /\ k + 1 # 1 /\ (k + 1) - 1 = k
      OBVIOUS
    <3>2. f[k + 1] = FlattenStep(seqs, f, k + 1)
      BY <2>1, <3>1 DEF IsFlatten
    <3>3. FlattenStep(seqs, f, k + 1) = f[(k + 1) - 1] \o seqs[k + 1]
      BY <3>1, Zenon DEF FlattenStep
    <3> QED BY <3>1, <3>2, <3>3
  <2> DEFINE Good == {k \in 1 .. n : Occurs(f[k], s, i)}
  <2>5. \A k \in 1 .. n : k \in Good
    <3>1. n \in Good
      BY <1>0, <1>2, <2>1
    <3>2. ASSUME NEW k \in 1 .. n, k < n, k + 1 \in Good PROVE k \in Good
      <4>1. k + 1 \in 1 .. n /\ Occurs(f[k] \o seqs[k + 1], s, i)
        BY <2>4, <3>2
      <4>2. f[k] \in Seq(Tokens) /\ seqs[k + 1] \in Seq(Tokens)
        BY <4>1, <1>0
      <4> QED BY <4>1, <4>2, OccursConcat
    <3> HIDE DEF Good
    <3> QED BY <1>0, <3>1, <3>2, Downward
  <2> DEFINE at == [k \in 1 .. n + 1 |-> IF k = 1 THEN i ELSE i + Len(f[k - 1])]
  <2>6. at \in [1 .. n + 1 -> Place]
    <3> SUFFICES ASSUME NEW k \in 1 .. n + 1, k # 1 PROVE i + Len(f[k - 1]) \in Place
      OBVIOUS
    <3>1. k - 1 \in 1 .. n
      OBVIOUS
    <3>2. Len(f[k - 1]) \in Nat
      BY <2>2, <3>1
    <3> QED BY <3>2 DEF Place
  <2>7. at[1] = i
    OBVIOUS
  <2>8. at[n + 1] = end
    <3>1. n + 1 \in 1 .. n + 1 /\ n + 1 # 1 /\ (n + 1) - 1 = n
      BY <1>0, <1>2
    <3>2. at[n + 1] = i + Len(f[(n + 1) - 1])
      BY <3>1
    <3> QED BY <2>1, <3>1, <3>2
  <2>9. ASSUME NEW k \in 1 .. n
        PROVE  Occurs(seqs[k], s, at[k]) /\ at[k + 1] = at[k] + Len(seqs[k])
    <3>1. at[k + 1] = i + Len(f[k])
      <4>1. k + 1 \in 1 .. n + 1 /\ k + 1 # 1 /\ (k + 1) - 1 = k
        OBVIOUS
      <4>2. at[k + 1] = i + Len(f[(k + 1) - 1])
        BY <4>1
      <4> QED BY <4>1, <4>2
    <3>2. CASE k = 1
      BY <2>3, <2>5, <3>1, <3>2
    <3>3. CASE k # 1
      <4>1. k - 1 \in 1 .. n /\ k - 1 < n /\ (k - 1) + 1 = k
        BY <3>3
      <4>2. f[(k - 1) + 1] = f[k - 1] \o seqs[(k - 1) + 1]
        BY <2>4, <4>1
      <4>3. f[k] = f[k - 1] \o seqs[k]
        BY <4>1, <4>2
      <4>4. Occurs(f[k - 1] \o seqs[k], s, i) /\ f[k - 1] \in Seq(Tokens) /\ seqs[k] \in Seq(Tokens)
        BY <1>0, <2>5, <4>1, <4>3
      <4>5. Occurs(seqs[k], s, i + Len(f[k - 1]))
        BY <4>4, OccursConcat
      <4>6. at[k] = i + Len(f[k - 1])
        BY <3>3
      <4>7. Len(f[k]) = Len(f[k - 1]) + Len(seqs[k])
        BY <4>3, <4>4
      <4>8. Len(f[k - 1]) \in Nat /\ Len(seqs[k]) \in Nat
        BY <4>4
      <4>9. i + Len(f[k]) = (i + Len(f[k - 1])) + Len(seqs[k])
        <5>1. i \in Nat
          BY <1>0
        <5>2. \A a, b \in Nat : \A l : l = a + b => i + l = (i + a) + b
          BY <5>1
        <5> QED BY <4>7, <4>8, <5>2, Zenon
      <4> HIDE DEF at
      <4> QED BY <3>1, <4>5, <4>6, <4>9, Zenon
    <3> QED BY <3>2, <3>3
  <2> HIDE DEF at
  <2>10. Laid(seqs, s, at, i, end)
    BY <2>6, <2>7, <2>8, <2>9 DEF Laid
  <2> QED BY <2>10
<1> QED BY <1>1, <1>2

(* The sequences parts follow each other with commas between, and end is   *)
(* the place after them.                                                   *)
Joined(parts, s, at, i, end) ==
  /\ at \in [1 .. Len(parts) + 1 -> Place]
  /\ at[1] = i /\ at[Len(parts) + 1] = end + 1
  /\ \A k \in 1 .. Len(parts) :
       /\ Occurs(parts[k], s, at[k])
       /\ at[k + 1] = at[k] + Len(parts[k]) + 1
       /\ k < Len(parts) => Peek(s, at[k] + Len(parts[k])) = Comma

AfterFirst(parts) == [k \in DOMAIN parts |-> (IF k = 1 THEN << >> ELSE <<Comma>>) \o parts[k]]

LEMMA AfterFirstTyped ==
  ASSUME NEW parts \in Seq(Seq(Tokens))
  PROVE  /\ AfterFirst(parts) \in Seq(Seq(Tokens)) /\ Len(AfterFirst(parts)) = Len(parts)
         /\ Commas(parts) = FlattenSeq(AfterFirst(parts))
         /\ \A k \in 1 .. Len(parts) :
              AfterFirst(parts)[k] = IF k = 1 THEN parts[k] ELSE <<Comma>> \o parts[k]
<1>0. Len(parts) \in Nat /\ DOMAIN parts = 1 .. Len(parts)
       /\ \A k \in 1 .. Len(parts) : parts[k] \in Seq(Tokens)
  OBVIOUS
<1>1. \A k \in 1 .. Len(parts) :
        (IF k = 1 THEN << >> ELSE <<Comma>>) \o parts[k]
          = IF k = 1 THEN parts[k] ELSE <<Comma>> \o parts[k]
  <2> SUFFICES ASSUME NEW k \in 1 .. Len(parts)
               PROVE  << >> \o parts[k] = parts[k]
    OBVIOUS
  <2> QED BY <1>0, ConcatEmptySeq
<1>2. \A k \in 1 .. Len(parts) : <<Comma>> \o parts[k] \in Seq(Tokens)
  <2>1. <<Comma>> \in Seq(Tokens)
    BY DEF Tokens
  <2> QED BY <1>0, <2>1, ConcatProperties
<1>3. \A k \in 1 .. Len(parts) :
        AfterFirst(parts)[k] = IF k = 1 THEN parts[k] ELSE <<Comma>> \o parts[k]
  BY <1>0, <1>1 DEF AfterFirst
<1>4. \A k \in 1 .. Len(parts) : AfterFirst(parts)[k] \in Seq(Tokens)
  BY <1>0, <1>2, <1>3
<1>5. AfterFirst(parts) = [k \in 1 .. Len(parts) |-> AfterFirst(parts)[k]]
  BY <1>0 DEF AfterFirst
<1>6. AfterFirst(parts) \in [1 .. Len(parts) -> Seq(Tokens)]
  BY <1>4, <1>5
<1>7. AfterFirst(parts) \in Seq(Seq(Tokens)) /\ Len(AfterFirst(parts)) = Len(parts)
  BY <1>0, <1>6
<1>8. Commas(parts) = FlattenSeq(AfterFirst(parts))
  BY Zenon DEF Commas, AfterFirst
<1> QED BY <1>3, <1>7, <1>8

LEMMA CommasTyped ==
  ASSUME NEW parts \in Seq(Seq(Tokens))
  PROVE  Commas(parts) \in Seq(Tokens)
BY AfterFirstTyped, FlattenTyped

LEMMA CommasNone == Commas(<< >>) = << >>
<1>1. Len(AfterFirst(<< >>)) = 0 /\ AfterFirst(<< >>) = << >>
  BY DEF AfterFirst
<1>2. Commas(<< >>) = FlattenSeq(AfterFirst(<< >>))
  BY Zenon DEF Commas, AfterFirst
<1> QED BY <1>1, <1>2 DEF FlattenSeq

LEMMA CommasJoined ==
  ASSUME NEW parts \in Seq(Seq(Tokens)), NEW s \in Seq(Tokens), NEW i \in Place,
         Len(parts) # 0, Occurs(Commas(parts), s, i)
  PROVE  \E at : Joined(parts, s, at, i, i + Len(Commas(parts)))
<1> DEFINE n == Len(parts)
           segs == AfterFirst(parts)
           end == i + Len(Commas(parts))
<1>0. /\ n \in Nat /\ n # 0 /\ i \in Nat
      /\ \A k \in 1 .. n : parts[k] \in Seq(Tokens) /\ Len(parts[k]) \in Nat
  BY DEF Place
<1>1. PICK a : Laid(segs, s, a, i, end)
  BY AfterFirstTyped, FlattenLaid
<1>2. a \in [1 .. n + 1 -> Place] /\ a[1] = i /\ a[n + 1] = end
  BY <1>1, AfterFirstTyped DEF Laid
<1>3. \A k \in 1 .. n : Occurs(segs[k], s, a[k]) /\ a[k + 1] = a[k] + Len(segs[k])
  BY <1>1, AfterFirstTyped DEF Laid
<1>4. \A k \in 1 .. n : segs[k] = IF k = 1 THEN parts[k] ELSE <<Comma>> \o parts[k]
  BY AfterFirstTyped
<1> HIDE DEF segs, end, n
<1> DEFINE at == [k \in 1 .. n + 1 |-> IF k = 1 THEN i ELSE a[k] + 1]
<1>5. at \in [1 .. n + 1 -> Place]
  BY <1>2 DEF Place
<1>6. at[1] = i /\ at[n + 1] = end + 1
  BY <1>0, <1>2
<1>7. ASSUME NEW k \in 1 .. n
      PROVE  Occurs(parts[k], s, at[k]) /\ at[k + 1] = at[k] + Len(parts[k]) + 1
  <2>0. at[k + 1] = a[k + 1] + 1 /\ a[k] \in Place /\ k \in 1 .. n + 1 /\ k + 1 # 1
    <3>1. k \in 1 .. n + 1 /\ k + 1 \in 1 .. n + 1 /\ k + 1 # 1
      BY <1>0
    <3> QED BY <1>2, <3>1
  <2>1. CASE k = 1
    <3>1. segs[k] = parts[k] /\ at[k] = a[k]
      BY <1>2, <1>4, <2>0, <2>1
    <3> HIDE DEF at
    <3> QED BY <1>3, <2>0, <3>1
  <2>2. CASE k # 1
    <3>1. segs[k] = <<Comma>> \o parts[k] /\ at[k] = a[k] + 1
      BY <1>4, <2>0, <2>2
    <3>2. <<Comma>> \in Seq(Tokens) /\ parts[k] \in Seq(Tokens) /\ Len(<<Comma>>) = 1
      BY <1>0 DEF Tokens
    <3>3. Occurs(parts[k], s, a[k] + Len(<<Comma>>))
      BY <1>3, <2>0, <3>1, <3>2, OccursConcat
    <3>4. Len(segs[k]) = 1 + Len(parts[k]) /\ Len(parts[k]) \in Nat /\ a[k] \in Nat
      BY <2>0, <3>1, <3>2 DEF Place
    <3>5. a[k + 1] = a[k] + Len(segs[k])
      BY <1>3
    <3> HIDE DEF at
    <3>6. at[k + 1] = at[k] + Len(parts[k]) + 1
      <4>1. \A l, x \in Nat : (x + (1 + l)) + 1 = (x + 1) + l + 1
        OBVIOUS
      <4>2. a[k] \in Nat
        BY <2>0 DEF Place
      <4>3. a[k + 1] + 1 = (a[k] + 1) + Len(parts[k]) + 1
        <5>1. a[k + 1] = a[k] + (1 + Len(parts[k]))
          BY <3>4, <3>5, Zenon
        <5>2. (a[k] + (1 + Len(parts[k]))) + 1 = (a[k] + 1) + Len(parts[k]) + 1
          BY <3>4, <4>1, <4>2, Zenon
        <5> QED BY <5>1, <5>2, Zenon
      <4>4. at[k + 1] = a[k + 1] + 1 /\ at[k] = a[k] + 1
        BY <2>0, <3>1
      <4> QED BY <4>3, <4>4, Zenon
    <3> QED BY <3>1, <3>2, <3>3, <3>6
  <2> QED BY <2>1, <2>2
<1>8. ASSUME NEW k \in 1 .. n, k < n
      PROVE  Peek(s, at[k] + Len(parts[k])) = Comma
  <2>1. k + 1 \in 1 .. n /\ k + 1 # 1 /\ k + 1 \in 1 .. n + 1
    BY <1>0, <1>8
  <2>2. segs[k + 1] = <<Comma>> \o parts[k + 1] /\ at[k + 1] = a[k + 1] + 1
    BY <1>4, <2>1
  <2>3. <<Comma>> \in Seq(Tokens) /\ parts[k + 1] \in Seq(Tokens)
    BY <1>0, <2>1 DEF Tokens
  <2>4. Occurs(<<Comma>>, s, a[k + 1]) /\ a[k + 1] \in Place
    <3>1. a[k + 1] \in Place /\ Occurs(<<Comma>> \o parts[k + 1], s, a[k + 1])
      BY <1>2, <1>3, <2>1, <2>2
    <3> QED BY <2>3, <3>1, OccursConcat
  <2>5. Peek(s, a[k + 1]) = Comma
    <3>1. 1 \in 1 .. Len(<<Comma>>) /\ <<Comma>>[1] = Comma /\ a[k + 1] + 1 - 1 = a[k + 1]
      BY <2>4 DEF Place
    <3>2. Peek(s, a[k + 1] + 1 - 1) = <<Comma>>[1]
      BY <2>3, <2>4, <3>1, OccursOne, Zenon
    <3> QED BY <3>1, <3>2
  <2>6. at[k + 1] = at[k] + Len(parts[k]) + 1 /\ at[k] \in Place /\ Len(parts[k]) \in Nat
    <3>1. k \in 1 .. n + 1
      BY <1>0
    <3> HIDE DEF at
    <3> QED BY <1>0, <1>5, <1>7, <3>1
  <2>7. a[k + 1] = at[k] + Len(parts[k])
    <3> HIDE DEF at
    <3>1. \A x, l, y : x \in Nat /\ l \in Nat /\ y \in Nat /\ x + l + 1 = y + 1 => y = x + l
      OBVIOUS
    <3>2. a[k + 1] \in Nat /\ at[k] \in Nat
      BY <2>4, <2>6 DEF Place
    <3>3. at[k] + Len(parts[k]) + 1 = a[k + 1] + 1
      BY <2>2, <2>6, Zenon
    <3> QED BY <2>6, <3>1, <3>2, <3>3, Zenon
  <2> QED BY <2>5, <2>7
<1> HIDE DEF at
<1>9. Joined(parts, s, at, i, end)
  BY <1>5, <1>6, <1>7, <1>8 DEF Joined, n
<1> QED BY <1>9 DEF end

-----------------------------------------------------------------------------

(* The first n keys that t has, each once. *)
Ordered(ks, n, t) ==
  /\ ks \in Seq(STRING)
  /\ \A k \in 1 .. Len(ks) : ks[k] \in DOMAIN t.attrs /\ \E j \in 1 .. n : ks[k] = Keys[j]
  /\ \A j \in 1 .. n : Keys[j] \in DOMAIN t.attrs => \E k \in 1 .. Len(ks) : ks[k] = Keys[j]
  /\ \A j, k \in 1 .. Len(ks) : ks[j] = ks[k] => j = k

LEMMA OneMoreKey ==
  ASSUME NEW t, NEW n \in 1 .. Len(Keys), NEW ks, Ordered(ks, n - 1, t),
         Keys[n] \in DOMAIN t.attrs
  PROVE  Ordered(ks \o <<Keys[n]>>, n, t)
<1>0. ks \in Seq(STRING) /\ Keys[n] \in STRING /\ n \in Nat /\ Len(Keys) \in Nat
  BY TreesAssumption DEF Ordered
<1>1. /\ ks \o <<Keys[n]>> \in Seq(STRING)
      /\ Len(ks \o <<Keys[n]>>) = Len(ks) + 1 /\ Len(ks) \in Nat
      /\ \A k \in 1 .. Len(ks) : (ks \o <<Keys[n]>>)[k] = ks[k]
      /\ (ks \o <<Keys[n]>>)[Len(ks) + 1] = Keys[n]
  BY <1>0
<1> DEFINE new == ks \o <<Keys[n]>>
<1> HIDE DEF new
<1>2. ASSUME NEW k \in 1 .. Len(new)
      PROVE  new[k] \in DOMAIN t.attrs /\ \E j \in 1 .. n : new[k] = Keys[j]
  <2>1. CASE k = Len(ks) + 1
    BY <1>0, <1>1, <2>1 DEF new
  <2>2. CASE k # Len(ks) + 1
    <3>1. k \in 1 .. Len(ks) /\ new[k] = ks[k]
      BY <1>1, <2>2 DEF new
    <3>2. PICK j \in 1 .. n - 1 : ks[k] = Keys[j]
      BY <3>1 DEF Ordered
    <3>3. j \in 1 .. n
      BY <1>0
    <3> QED BY <3>1, <3>2, <3>3 DEF Ordered
  <2> QED BY <2>1, <2>2
<1>3. ASSUME NEW j \in 1 .. n, Keys[j] \in DOMAIN t.attrs
      PROVE  \E k \in 1 .. Len(new) : new[k] = Keys[j]
  <2>1. CASE j = n
    <3>1. Len(ks) + 1 \in 1 .. Len(new)
      BY <1>1 DEF new
    <3> QED BY <1>1, <2>1, <3>1 DEF new
  <2>2. CASE j # n
    <3>1. j \in 1 .. n - 1
      BY <2>2
    <3>2. PICK k \in 1 .. Len(ks) : ks[k] = Keys[j]
      BY <1>3, <3>1 DEF Ordered
    <3>3. k \in 1 .. Len(new) /\ new[k] = ks[k]
      BY <1>1 DEF new
    <3> QED BY <3>2, <3>3
  <2> QED BY <2>1, <2>2
<1>4. \A k \in 1 .. Len(ks) : ks[k] # Keys[n]
  <2> SUFFICES ASSUME NEW k \in 1 .. Len(ks), ks[k] = Keys[n] PROVE FALSE
    OBVIOUS
  <2>1. PICK j \in 1 .. n - 1 : ks[k] = Keys[j]
    BY DEF Ordered
  <2>2. j \in DOMAIN Keys /\ n \in DOMAIN Keys /\ j # n
    BY <1>0, TreesAssumption
  <2> QED BY <2>1, <2>2, TreesAssumption
<1>5. ASSUME NEW j \in 1 .. Len(new), NEW k \in 1 .. Len(new), new[j] = new[k]
      PROVE  j = k
  <2>1. \A h \in 1 .. Len(new) :
          \/ h \in 1 .. Len(ks) /\ new[h] = ks[h]
          \/ h = Len(ks) + 1 /\ new[h] = Keys[n]
    BY <1>1 DEF new
  <2> QED BY <1>4, <1>5, <2>1 DEF Ordered
<1> QED BY <1>1, <1>2, <1>3, <1>5 DEF Ordered, new

LEMMA NoMoreKey ==
  ASSUME NEW t, NEW n \in 1 .. Len(Keys), NEW ks, Ordered(ks, n - 1, t),
         Keys[n] \notin DOMAIN t.attrs
  PROVE  Ordered(ks, n, t)
<1>0. n \in Nat /\ \A j \in 1 .. n : j = n \/ j \in 1 .. n - 1
  OBVIOUS
<1>1. \A j \in 1 .. n - 1 : j \in 1 .. n
  OBVIOUS
<1> QED BY <1>0, <1>1 DEF Ordered

KeysStep(t, f, n) ==
  IF n = 0 THEN << >>
  ELSE f[n - 1] \o IF Keys[n] \in DOMAIN t.attrs THEN <<Keys[n]>> ELSE << >>

LEMMA KeysInOrder ==
  ASSUME NEW t
  PROVE  Ordered(AttrsInOrder(t), Len(Keys), t)
<1> DEFINE D == 0 .. Len(Keys)
           S == Seq(STRING)
           F == CHOOSE f : f = [n \in D |->
                  IF n = 0 THEN << >>
                  ELSE f[n - 1] \o IF Keys[n] \in DOMAIN t.attrs THEN <<Keys[n]>> ELSE << >>]
           rank == [n \in D |-> n]
           step == [n \in D |-> [f \in [D -> S] |-> KeysStep(t, f, n)]]
<1>0. /\ Len(Keys) \in Nat
      /\ \A n \in D : n # 0 => n \in 1 .. Len(Keys) /\ n - 1 \in D /\ Keys[n] \in STRING
  BY TreesAssumption
<1>1. AttrsInOrder(t) = F[Len(Keys)]
  BY Zenon DEF AttrsInOrder
<1>2. \E f : f = [n \in D |-> KeysStep(t, f, n)]
  <2>1. LooksDown(D, S, Len(Keys), rank, step)
    <3>1. S # {} /\ Len(Keys) \in Nat
      <4>1. << >> \in S
        OBVIOUS
      <4> QED BY <1>0, <4>1
    <3>2. rank \in [D -> 0 .. Len(Keys)]
      BY <1>0
    <3>3. step \in [D -> [[D -> S] -> S]]
      <4> SUFFICES ASSUME NEW n \in D, NEW f \in [D -> S] PROVE KeysStep(t, f, n) \in S
        BY Zenon
      <4>1. CASE n = 0
        BY <4>1 DEF KeysStep
      <4>2. CASE n # 0
        <5>1. f[n - 1] \in S /\ Keys[n] \in STRING
          BY <1>0, <4>2
        <5>4. << >> \in S /\ (Keys[n] \in STRING => <<Keys[n]>> \in S)
          OBVIOUS
        <5>2. (IF Keys[n] \in DOMAIN t.attrs THEN <<Keys[n]>> ELSE << >>) \in S
          BY <5>1, <5>4
        <5>3. f[n - 1] \o (IF Keys[n] \in DOMAIN t.attrs THEN <<Keys[n]>> ELSE << >>) \in S
          BY <5>1, <5>2, ConcatProperties
        <5> QED BY <4>2, <5>3 DEF KeysStep
      <4> QED BY <4>1, <4>2
    <3>4. ASSUME NEW n \in D, NEW f \in [D -> S], NEW g \in [D -> S],
                 \A j \in D : rank[j] < rank[n] => f[j] = g[j]
          PROVE  step[n][f] = step[n][g]
      <4>1. CASE n = 0
        BY <4>1 DEF KeysStep
      <4>2. CASE n # 0
        <5>1. n - 1 \in D /\ rank[n - 1] < rank[n]
          BY <1>0, <4>2
        <5>2. f[n - 1] = g[n - 1]
          BY <3>4, <5>1
        <5> QED BY <4>2, <5>2 DEF KeysStep
      <4> QED BY <4>1, <4>2
    <3> HIDE DEF D, S, rank, step
    <3> QED BY <3>1, <3>2, <3>3, <3>4 DEF LooksDown
  <2>2. PICK f \in [D -> S] : \A n \in D : f[n] = step[n][f]
    <3> HIDE DEF D, S, rank, step
    <3> QED BY <2>1, Recursion
  <2>3. f = [n \in D |-> KeysStep(t, f, n)]
    BY <2>2
  <2> QED BY <2>3, Zenon
<1>3. F = [n \in D |-> KeysStep(t, F, n)]
  <2>1. F = CHOOSE f : f = [n \in D |-> KeysStep(t, f, n)]
    BY Zenon DEF KeysStep
  <2> HIDE DEF F
  <2> QED BY <1>2, <2>1, Zenon
<1> HIDE DEF F, step
<1> DEFINE Good == {n \in D : Ordered(F[n], n, t)}
<1>4. rank \in [D -> Nat]
  BY <1>0
<1>5. ASSUME NEW n \in D, \A j \in D : rank[j] < rank[n] => j \in Good
      PROVE  n \in Good
  <2>1. F[n] = KeysStep(t, F, n)
    BY <1>3
  <2>2. CASE n = 0
    <3>1. F[n] = << >>
      BY <2>1, <2>2 DEF KeysStep
    <3>2. Ordered(<< >>, 0, t)
      BY DEF Ordered
    <3> QED BY <2>2, <3>1, <3>2
  <2>3. CASE n # 0
    <3>1. n - 1 \in D /\ n \in 1 .. Len(Keys) /\ rank[n - 1] < rank[n]
      BY <1>0, <2>3
    <3>2. Ordered(F[n - 1], n - 1, t)
      BY <1>5, <3>1
    <3>3. F[n - 1] \in Seq(STRING)
      BY <3>2 DEF Ordered
    <3>4. CASE Keys[n] \in DOMAIN t.attrs
      <4>1. F[n] = F[n - 1] \o <<Keys[n]>>
        BY <2>1, <2>3, <3>4 DEF KeysStep
      <4> QED BY <3>1, <3>2, <3>4, <4>1, OneMoreKey
    <3>5. CASE Keys[n] \notin DOMAIN t.attrs
      <4>1. F[n] = F[n - 1] \o << >>
        BY <2>1, <2>3, <3>5 DEF KeysStep
      <4>2. F[n] = F[n - 1]
        BY <3>3, <4>1, ConcatEmptySeq
      <4> QED BY <3>1, <3>2, <3>5, <4>2, NoMoreKey
    <3> QED BY <3>4, <3>5
  <2> QED BY <2>2, <2>3
<1>6. \A n \in D : n \in Good
  <2> HIDE DEF D, Good, rank
  <2> QED BY <1>4, <1>5, RankInduction
<1>7. Len(Keys) \in D
  BY <1>0
<1> QED BY <1>1, <1>6, <1>7

-----------------------------------------------------------------------------

LEMMA LeafIs ==
  ASSUME NEW t \in Trees, t.tag # "Compound"
  PROVE  /\ t = Leaf(t.tag, t.text) /\ t.tag \in DOMAIN AtomTags /\ t.text \in STRING
         /\ PartsOf(t) = {}
         /\ t.tag = "Rat" => IsRatio(t.text)
<1>1. /\ t = Leaf(t.tag, t.text) /\ t.tag \in DOMAIN AtomTags /\ t.text \in STRING
      /\ t.tag = "Rat" => IsRatio(t.text)
  BY TreesAssumption, Zenon
<1>2. t.args = << >> /\ t.attrs = << >>
  BY <1>1 DEF Leaf, NoAttrs
<1>3. PartsOf(t) = {}
  BY <1>2 DEF PartsOf
<1> QED BY <1>1, <1>3

(* A compound, of a head, arguments and attributes that are lower trees. *)
LEMMA CompoundIs ==
  ASSUME NEW t \in Trees, t.tag = "Compound"
  PROVE  /\ t = With(t.text, t.args, t.attrs) /\ t.text \in STRING
         /\ t.args \in Seq(Trees) /\ t.attrs \in [DOMAIN t.attrs -> Trees]
         /\ \A k \in 1 .. Len(t.args) : t.args[k] \in PartsOf(t)
         /\ \A key \in DOMAIN t.attrs : t.attrs[key] \in PartsOf(t)
         /\ \A u \in PartsOf(t) : u \in Trees /\ Height[u] < Height[t]
         /\ Ordered(AttrsInOrder(t), Len(Keys), t)
         /\ \A key \in DOMAIN t.attrs : \E k \in 1 .. Len(AttrsInOrder(t)) : AttrsInOrder(t)[k] = key
<1>1. /\ t = With(t.text, t.args, t.attrs) /\ t.text \in STRING
      /\ t.args \in Seq(Trees) /\ t.attrs \in [DOMAIN t.attrs -> Trees]
      /\ \A u \in PartsOf(t) : Height[u] < Height[t]
      /\ DOMAIN t.attrs \subseteq {Keys[k] : k \in DOMAIN Keys}
  BY TreesAssumption, Zenon
<1>2. DOMAIN t.args = 1 .. Len(t.args)
  BY <1>1
<1>3. \A u \in PartsOf(t) : u \in Trees
  BY <1>1, <1>2 DEF PartsOf
<1>4. \A k \in 1 .. Len(t.args) : t.args[k] \in PartsOf(t)
  BY <1>2, Zenon DEF PartsOf
<1>5. \A key \in DOMAIN t.attrs : t.attrs[key] \in PartsOf(t)
  BY Zenon DEF PartsOf
<1>6. Ordered(AttrsInOrder(t), Len(Keys), t)
  BY KeysInOrder
<1>7. ASSUME NEW key \in DOMAIN t.attrs
      PROVE  \E k \in 1 .. Len(AttrsInOrder(t)) : AttrsInOrder(t)[k] = key
  <2>1. PICK j \in DOMAIN Keys : key = Keys[j]
    BY <1>1, Zenon
  <2>2. j \in 1 .. Len(Keys)
    BY TreesAssumption
  <2> QED BY <1>6, <2>1, <2>2 DEF Ordered
<1> QED BY <1>1, <1>3, <1>4, <1>5, <1>6, <1>7, Zenon

(* What is carried has nothing that is lost, itself or in its parts. *)
NodesStep(t, f) == {t} \cup UNION {f[u] : u \in PartsOf(t)}

LEMMA NodesUnfold ==
  ASSUME NEW t \in Trees
  PROVE  NodesOf[t] = {t} \cup UNION {NodesOf[u] : u \in PartsOf(t)}
<1> DEFINE S == SUBSET Trees
           step == [k \in Trees |-> [f \in [Trees -> S] |-> NodesStep(k, f)]]
<1>0. \A k \in Trees : \A u \in PartsOf(k) : u \in Trees /\ Height[u] < Height[k]
  <2> SUFFICES ASSUME NEW k \in Trees PROVE \A u \in PartsOf(k) : u \in Trees /\ Height[u] < Height[k]
    OBVIOUS
  <2>1. CASE k.tag = "Compound"
    BY <2>1, CompoundIs
  <2>2. CASE k.tag # "Compound"
    BY <2>2, LeafIs
  <2> QED BY <2>1, <2>2
<1>1. NodesOf = CHOOSE f : f = [k \in Trees |-> NodesStep(k, f)]
  BY Zenon DEF NodesOf, NodesStep
<1>2. \E f : f = [k \in Trees |-> NodesStep(k, f)]
  <2>1. Descends(Trees, S, Height, step)
    <3>1. S # {} /\ Height \in [Trees -> Nat]
      BY TreesAssumption
    <3>2. step \in [Trees -> [[Trees -> S] -> S]]
      <4> SUFFICES ASSUME NEW k \in Trees, NEW f \in [Trees -> S] PROVE NodesStep(k, f) \in S
        BY Zenon
      <4> QED BY <1>0 DEF NodesStep
    <3>3. ASSUME NEW k \in Trees, NEW f \in [Trees -> S], NEW g \in [Trees -> S],
                 \A j \in Trees : Height[j] < Height[k] => f[j] = g[j]
          PROVE  step[k][f] = step[k][g]
      <4>1. \A u \in PartsOf(k) : f[u] = g[u]
        BY <1>0, <3>3
      <4>2. NodesStep(k, f) = NodesStep(k, g)
        BY <4>1 DEF NodesStep
      <4> QED BY <4>2
    <3> HIDE DEF S, step
    <3> QED BY <3>1, <3>2, <3>3 DEF Descends
  <2>2. PICK f \in [Trees -> S] : \A k \in Trees : f[k] = step[k][f]
    <3> HIDE DEF S, step
    <3> QED BY <2>1, UnboundedRecursion
  <2>3. f = [k \in Trees |-> NodesStep(k, f)]
    BY <2>2
  <2> QED BY <2>3, Zenon
<1>3. NodesOf = [k \in Trees |-> NodesStep(k, NodesOf)]
  BY <1>1, <1>2, Zenon
<1>4. NodesOf[t] = NodesStep(t, NodesOf)
  BY <1>3
<1> QED BY <1>4 DEF NodesStep

LEMMA CarriesAll ==
  ASSUME NEW m, NEW t \in Trees, Carries(m, t)
  PROVE  ~Lost(t, m) /\ \A u \in PartsOf(t) : Carries(m, u)
<1>1. NodesOf[t] = {t} \cup UNION {NodesOf[u] : u \in PartsOf(t)}
  BY NodesUnfold
<1> QED BY <1>1, Zenon DEF Carries

-----------------------------------------------------------------------------

(* The texts of the arguments and of the attributes, printed by f. *)
ArgTexts(t, f) == [k \in DOMAIN t.args |-> f[t.args[k]]]

Lead(m, key) ==
  IF m = "core" THEN <<":", key>> ELSE IF m = "strict" THEN <<key, "=">> ELSE <<Quoted(key), ":">>

AttrTexts(m, t, f) ==
  [k \in DOMAIN AttrsInOrder(t) |-> Lead(m, AttrsInOrder(t)[k]) \o f[t.attrs[AttrsInOrder(t)[k]]]]

MemberTexts(t, f) ==
  IF t.tag # "Compound"
  THEN <<String("atom", AtomTags[t.tag]), String("value", t.text)>>
  ELSE <<String("head", t.text), Member("args", <<"[">> \o Commas(ArgTexts(t, f)) \o <<"]">>)>>
         \o IF AttrsInOrder(t) = << >> THEN << >>
            ELSE <<Member("attrs", <<Open>> \o Commas(AttrTexts("object", t, f)) \o <<Shut>>)>>

PrintStep(m, t, f) ==
  IF m = "object" THEN <<Open>> \o Commas(MemberTexts(t, f)) \o <<Shut>>
  ELSE IF m = "core"
  THEN IF t.tag # "Compound" THEN Pieces(t)
       ELSE <<"(", t.text>> \o FlattenSeq(ArgTexts(t, f) \o AttrTexts(m, t, f)) \o <<")">>
  ELSE IF t.tag # "Compound" THEN StrictPieces(t)
       ELSE <<t.text, "(">> \o Commas(ArgTexts(t, f) \o AttrTexts(m, t, f)) \o <<")">>

LEMMA KeyIsWord ==
  ASSUME NEW t \in Trees, t.tag = "Compound", NEW k \in 1 .. Len(AttrsInOrder(t))
  PROVE  LET key == AttrsInOrder(t)[k]
         IN key \in DOMAIN t.attrs /\ key \in STRING /\ IsWord(key) /\ key \in Words
<1>1. Ordered(AttrsInOrder(t), Len(Keys), t)
  BY CompoundIs
<1>2. PICK j \in 1 .. Len(Keys) : AttrsInOrder(t)[k] = Keys[j]
  BY <1>1 DEF Ordered
<1>3. j \in DOMAIN Keys /\ Keys[j] \in STRING
  BY TreesAssumption
<1>4. IsWord(Keys[j])
  BY <1>3, TreesAssumption, Zenon
<1>5. Keys[j] \in Words
  BY <1>3, Zenon DEF Words
<1> QED BY <1>1, <1>2, <1>3, <1>4, <1>5 DEF Ordered

LEMMA QuotedIs ==
  ASSUME NEW w \in Words
  PROVE  Quoted(w) \in STRING /\ IsQuoted(Quoted(w)) /\ Unescape(Inside(Quoted(w))) = w
BY PiecesAssumption, Zenon

LEMMA WordsAre ==
  /\ {"atom", "value", "head", "args", "attrs", "span"} \subseteq Words
  /\ \A t \in Trees : t.text \in Words
  /\ \A tag \in DOMAIN AtomTags : AtomTags[tag] \in Words
BY Zenon DEF Words

LEMMA LeadTyped ==
  ASSUME NEW m, NEW key \in Words, key \in STRING
  PROVE  Lead(m, key) \in Seq(Tokens) /\ Len(Lead(m, key)) = 2
<1>1. Quoted(key) \in STRING
  BY QuotedIs
<1>2. Quoted(key) \in Tokens /\ key \in Tokens /\ ":" \in Tokens /\ "=" \in Tokens
  BY <1>1, StringsAreTokens
<1>3. \A a, b \in Tokens : <<a, b>> \in Seq(Tokens) /\ Len(<<a, b>>) = 2
  OBVIOUS
<1> QED BY <1>2, <1>3, Zenon DEF Lead

LEMMA TextsTyped ==
  ASSUME NEW m, NEW t \in Trees, t.tag = "Compound",
         NEW f, \A u \in PartsOf(t) : f[u] \in Seq(Tokens)
  PROVE  /\ ArgTexts(t, f) \in Seq(Seq(Tokens)) /\ Len(ArgTexts(t, f)) = Len(t.args)
         /\ AttrTexts(m, t, f) \in Seq(Seq(Tokens))
         /\ Len(AttrTexts(m, t, f)) = Len(AttrsInOrder(t))
         /\ \A k \in 1 .. Len(t.args) : ArgTexts(t, f)[k] = f[t.args[k]]
         /\ \A k \in 1 .. Len(AttrsInOrder(t)) :
              AttrTexts(m, t, f)[k] = Lead(m, AttrsInOrder(t)[k]) \o f[t.attrs[AttrsInOrder(t)[k]]]
<1> DEFINE ks == AttrsInOrder(t)
<1>1. t.args \in Seq(Trees) /\ \A k \in 1 .. Len(t.args) : f[t.args[k]] \in Seq(Tokens)
  BY CompoundIs
<1>2. ks \in Seq(STRING)
  BY CompoundIs DEF Ordered
<1>3. ASSUME NEW k \in 1 .. Len(ks)
      PROVE  Lead(m, ks[k]) \o f[t.attrs[ks[k]]] \in Seq(Tokens)
  <2>1. ks[k] \in DOMAIN t.attrs /\ Lead(m, ks[k]) \in Seq(Tokens)
    BY KeyIsWord, LeadTyped
  <2>2. f[t.attrs[ks[k]]] \in Seq(Tokens)
    BY <2>1, CompoundIs
  <2> QED BY <2>1, <2>2, ConcatProperties
<1> HIDE DEF ks
<1>4. /\ DOMAIN t.args = 1 .. Len(t.args) /\ DOMAIN ks = 1 .. Len(ks)
      /\ Len(ks) \in Nat /\ Len(t.args) \in Nat
  BY <1>1, <1>2
<1>5. ArgTexts(t, f) = [k \in 1 .. Len(t.args) |-> f[t.args[k]]]
  BY <1>4 DEF ArgTexts
<1>6. AttrTexts(m, t, f) = [k \in 1 .. Len(ks) |-> Lead(m, ks[k]) \o f[t.attrs[ks[k]]]]
  BY <1>4 DEF AttrTexts, ks
<1>7. ArgTexts(t, f) \in [1 .. Len(t.args) -> Seq(Tokens)]
  BY <1>1, <1>5
<1>8. AttrTexts(m, t, f) \in [1 .. Len(ks) -> Seq(Tokens)]
  BY <1>3, <1>6
<1>9. ArgTexts(t, f) \in Seq(Seq(Tokens)) /\ Len(ArgTexts(t, f)) = Len(t.args)
  BY <1>4, <1>7
<1>10. AttrTexts(m, t, f) \in Seq(Seq(Tokens)) /\ Len(AttrTexts(m, t, f)) = Len(ks)
  BY <1>4, <1>8
<1>11. \A k \in 1 .. Len(t.args) : ArgTexts(t, f)[k] = f[t.args[k]]
  BY <1>5
<1>12. \A k \in 1 .. Len(ks) : AttrTexts(m, t, f)[k] = Lead(m, ks[k]) \o f[t.attrs[ks[k]]]
  BY <1>6
<1> QED BY <1>9, <1>10, <1>11, <1>12 DEF ks

(* A member is a string with its quotes, a colon and what it is of. *)
LEMMA MemberTyped ==
  ASSUME NEW key \in Words, NEW pieces \in Seq(Tokens)
  PROVE  Member(key, pieces) \in Seq(Tokens) /\ <<Quoted(key), ":">> \in Seq(Tokens)
<1>1. <<Quoted(key), ":">> \in Seq(Tokens)
  <2>1. Quoted(key) \in Tokens /\ ":" \in Tokens
    BY QuotedIs, StringsAreTokens
  <2> QED BY <2>1
<1> QED BY <1>1, ConcatProperties, Zenon DEF Member

LEMMA StringTyped ==
  ASSUME NEW key \in Words, NEW value \in Words
  PROVE  String(key, value) \in Seq(Tokens) /\ <<Quoted(value)>> \in Seq(Tokens)
<1>1. <<Quoted(value)>> \in Seq(Tokens)
  BY QuotedIs DEF Tokens
<1> QED BY <1>1, MemberTyped, Zenon DEF String

LEMMA MarksTyped ==
  /\ <<Open>> \in Seq(Tokens) /\ <<Shut>> \in Seq(Tokens) /\ <<Comma>> \in Seq(Tokens)
  /\ <<"[">> \in Seq(Tokens) /\ <<"]">> \in Seq(Tokens) /\ <<")">> \in Seq(Tokens)
  /\ \A w \in STRING : <<w, "(">> \in Seq(Tokens) /\ <<"(", w>> \in Seq(Tokens)
<1>1. \A a, b \in Tokens : <<a>> \in Seq(Tokens) /\ <<a, b>> \in Seq(Tokens)
  OBVIOUS
<1> QED BY <1>1, StringsAreTokens

LEMMA MemberTextsTyped ==
  ASSUME NEW t \in Trees, NEW f, \A u \in PartsOf(t) : f[u] \in Seq(Tokens)
  PROVE  /\ MemberTexts(t, f) \in Seq(Seq(Tokens))
         /\ Len(MemberTexts(t, f)) =
              IF t.tag = "Compound" /\ AttrsInOrder(t) # << >> THEN 3 ELSE 2
<1>1. CASE t.tag # "Compound"
  <2>1. String("atom", AtomTags[t.tag]) \in Seq(Tokens)
    BY <1>1, LeafIs, StringTyped, WordsAre
  <2>2. String("value", t.text) \in Seq(Tokens)
    BY StringTyped, WordsAre
  <2>3. MemberTexts(t, f) = <<String("atom", AtomTags[t.tag]), String("value", t.text)>>
    BY <1>1, Zenon DEF MemberTexts
  <2>4. \A a, b \in Seq(Tokens) : <<a, b>> \in Seq(Seq(Tokens)) /\ Len(<<a, b>>) = 2
    OBVIOUS
  <2> QED BY <1>1, <2>1, <2>2, <2>3, <2>4, Zenon
<1>2. CASE t.tag = "Compound"
  <2> DEFINE args == <<"[">> \o Commas(ArgTexts(t, f)) \o <<"]">>
             attrs == <<Open>> \o Commas(AttrTexts("object", t, f)) \o <<Shut>>
             a == String("head", t.text)
             b == Member("args", args)
             c == Member("attrs", attrs)
  <2>1. args \in Seq(Tokens) /\ attrs \in Seq(Tokens)
    <3>1. Commas(ArgTexts(t, f)) \in Seq(Tokens) /\ Commas(AttrTexts("object", t, f)) \in Seq(Tokens)
      BY <1>2, TextsTyped, CommasTyped, Zenon
    <3>2. \A x, y, z \in Seq(Tokens) : x \o y \o z \in Seq(Tokens)
      BY ConcatProperties
    <3> QED BY <3>1, <3>2, MarksTyped, Zenon
  <2>2. a \in Seq(Tokens) /\ b \in Seq(Tokens) /\ c \in Seq(Tokens)
    BY <2>1, StringTyped, MemberTyped, WordsAre, Zenon
  <2>3. MemberTexts(t, f) = <<a, b>> \o IF AttrsInOrder(t) = << >> THEN << >> ELSE <<c>>
    BY <1>2, Zenon DEF MemberTexts
  <2> HIDE DEF args, attrs, a, b, c
  <2> QED BY <1>2, <2>2, <2>3
<1> QED BY <1>1, <1>2

LEMMA PrintStepTyped ==
  ASSUME NEW m \in Modes, NEW t \in Trees, NEW f, \A u \in PartsOf(t) : f[u] \in Seq(Tokens)
  PROVE  PrintStep(m, t, f) \in Seq(Tokens)
<1>0. \A x, y, z \in Seq(Tokens) : x \o y \o z \in Seq(Tokens)
  BY ConcatProperties
<1>1. CASE m = "object"
  <2>1. Commas(MemberTexts(t, f)) \in Seq(Tokens)
    BY MemberTextsTyped, CommasTyped
  <2>2. PrintStep(m, t, f) = <<Open>> \o Commas(MemberTexts(t, f)) \o <<Shut>>
    BY <1>1, Zenon DEF PrintStep
  <2>3. <<Open>> \in Seq(Tokens) /\ <<Shut>> \in Seq(Tokens)
    BY MarksTyped
  <2> QED BY <1>0, <2>1, <2>2, <2>3
<1>2. CASE m # "object" /\ t.tag # "Compound"
  <2>1. Pieces(t) \in Seq(STRING) /\ StrictPieces(t) \in Seq(STRING)
    BY <1>2, PiecesAssumption, Zenon
  <2>2. \A x \in Seq(STRING) : x \in Seq(Tokens)
    BY SeqMonotonic DEF Tokens
  <2>3. PrintStep(m, t, f) = IF m = "core" THEN Pieces(t) ELSE StrictPieces(t)
    BY <1>2, Zenon DEF PrintStep
  <2> QED BY <2>1, <2>2, <2>3, Zenon
<1>3. CASE m # "object" /\ t.tag = "Compound"
  <2> DEFINE parts == ArgTexts(t, f) \o AttrTexts(m, t, f)
  <2>1. parts \in Seq(Seq(Tokens))
    BY <1>3, TextsTyped, ConcatProperties
  <2>2. FlattenSeq(parts) \in Seq(Tokens) /\ Commas(parts) \in Seq(Tokens)
    <3> HIDE DEF parts
    <3> QED BY <2>1, FlattenTyped, CommasTyped
  <2>3. t.text \in STRING
    BY <1>3, CompoundIs
  <2>4. PrintStep(m, t, f) = IF m = "core" THEN <<"(", t.text>> \o FlattenSeq(parts) \o <<")">>
                             ELSE <<t.text, "(">> \o Commas(parts) \o <<")">>
    BY <1>3, Zenon DEF PrintStep
  <2>5. <<"(", t.text>> \in Seq(Tokens) /\ <<t.text, "(">> \in Seq(Tokens) /\ <<")">> \in Seq(Tokens)
    BY <2>3, MarksTyped
  <2> HIDE DEF parts
  <2> QED BY <1>0, <2>2, <2>4, <2>5
<1> QED BY <1>1, <1>2, <1>3

LEMMA PrintStepLocal ==
  ASSUME NEW m, NEW t \in Trees, NEW f, NEW g, \A u \in PartsOf(t) : f[u] = g[u]
  PROVE  PrintStep(m, t, f) = PrintStep(m, t, g)
<1>1. CASE t.tag # "Compound"
  BY <1>1, Zenon DEF PrintStep, MemberTexts
<1>2. CASE t.tag = "Compound"
  <2>1. ArgTexts(t, f) = ArgTexts(t, g)
    BY <1>2, CompoundIs DEF ArgTexts
  <2>2. \A n : AttrTexts(n, t, f) = AttrTexts(n, t, g)
    <3> SUFFICES ASSUME NEW n PROVE AttrTexts(n, t, f) = AttrTexts(n, t, g)
      OBVIOUS
    <3>1. \A k \in DOMAIN AttrsInOrder(t) : AttrsInOrder(t)[k] \in DOMAIN t.attrs
      BY <1>2, CompoundIs DEF Ordered
    <3>2. \A k \in DOMAIN AttrsInOrder(t) :
            f[t.attrs[AttrsInOrder(t)[k]]] = g[t.attrs[AttrsInOrder(t)[k]]]
      BY <1>2, <3>1, CompoundIs
    <3> QED BY <3>2 DEF AttrTexts
  <2>3. MemberTexts(t, f) = MemberTexts(t, g)
    BY <2>1, <2>2 DEF MemberTexts
  <2>4. AttrTexts(m, t, f) = AttrTexts(m, t, g)
    BY <2>2
  <2> QED BY <2>1, <2>3, <2>4 DEF PrintStep
<1> QED BY <1>1, <1>2

(* The printers have a meaning, and print every tree. *)
LEMMA PrintersExist ==
  ASSUME NEW m \in Modes
  PROVE  \E f : f = [t \in Trees |-> PrintStep(m, t, f)]
<1> DEFINE S == Seq(Tokens)
           step == [t \in Trees |-> [f \in [Trees -> S] |-> PrintStep(m, t, f)]]
<1>0. \A t \in Trees : \A u \in PartsOf(t) : u \in Trees /\ Height[u] < Height[t]
  BY LeafIs, CompoundIs
<1>1. Descends(Trees, S, Height, step)
  <2>1. S # {} /\ Height \in [Trees -> Nat]
    <3>1. << >> \in S
      OBVIOUS
    <3> QED BY <3>1, TreesAssumption
  <2>2. step \in [Trees -> [[Trees -> S] -> S]]
    <3> SUFFICES ASSUME NEW t \in Trees, NEW f \in [Trees -> S] PROVE PrintStep(m, t, f) \in S
      BY Zenon
    <3>1. \A u \in PartsOf(t) : f[u] \in S
      BY <1>0
    <3> QED BY <3>1, PrintStepTyped
  <2>3. ASSUME NEW t \in Trees, NEW f \in [Trees -> S], NEW g \in [Trees -> S],
               \A j \in Trees : Height[j] < Height[t] => f[j] = g[j]
        PROVE  step[t][f] = step[t][g]
    <3>1. \A u \in PartsOf(t) : f[u] = g[u]
      BY <1>0, <2>3
    <3>2. PrintStep(m, t, f) = PrintStep(m, t, g)
      BY <3>1, PrintStepLocal
    <3> QED BY <3>2
  <2> HIDE DEF S, step
  <2> QED BY <2>1, <2>2, <2>3 DEF Descends
<1>2. PICK f \in [Trees -> S] : \A t \in Trees : f[t] = step[t][f]
  <2> HIDE DEF S, step
  <2> QED BY <1>1, UnboundedRecursion
<1>3. f = [t \in Trees |-> PrintStep(m, t, f)]
  BY <1>2
<1> QED BY <1>3, Zenon

LEMMA PrintersTyped ==
  ASSUME NEW m \in Modes, NEW f, f = [t \in Trees |-> PrintStep(m, t, f)]
  PROVE  \A t \in Trees : f[t] \in Seq(Tokens)
<1> DEFINE Good == {t \in Trees : f[t] \in Seq(Tokens)}
<1>0. \A t \in Trees : \A u \in PartsOf(t) : u \in Trees /\ Height[u] < Height[t]
  BY LeafIs, CompoundIs
<1>1. ASSUME NEW t \in Trees, \A u \in Trees : Height[u] < Height[t] => u \in Good
      PROVE  t \in Good
  <2>1. \A u \in PartsOf(t) : f[u] \in Seq(Tokens)
    BY <1>0, <1>1
  <2>2. PrintStep(m, t, f) \in Seq(Tokens)
    BY <2>1, PrintStepTyped
  <2>3. f[t] = PrintStep(m, t, f)
    BY Zenon
  <2> QED BY <2>2, <2>3
<1>2. Height \in [Trees -> Nat]
  BY TreesAssumption
<1>3. \A t \in Trees : t \in Good
  <2> HIDE DEF Good
  <2> QED BY <1>1, <1>2, RankInduction
<1> QED BY <1>3

(* The printer of a projection, and its equation. *)
Printer(m) == IF m = "core" THEN PrintCore ELSE IF m = "strict" THEN PrintStrict ELSE PrintObject

LEMMA PrinterIs ==
  ASSUME NEW m \in Modes
  PROVE  /\ \A t \in Trees : Printer(m)[t] \in Seq(Tokens)
         /\ \A t \in Trees : Printer(m)[t] = PrintStep(m, t, Printer(m))
<1>1. Printer(m) = CHOOSE f : f = [t \in Trees |-> PrintStep(m, t, f)]
  <2>1. CASE m = "core"
    <3>1. PrintCore = CHOOSE f : f = [t \in Trees |-> PrintStep("core", t, f)]
      BY Zenon DEF PrintCore, PrintStep, ArgTexts, AttrTexts, Lead
    <3> QED BY <2>1, <3>1, Zenon DEF Printer
  <2>2. CASE m = "strict"
    <3>1. PrintStrict = CHOOSE f : f = [t \in Trees |-> PrintStep("strict", t, f)]
      BY Zenon DEF PrintStrict, PrintStep, ArgTexts, AttrTexts, Lead
    <3>2. "strict" # "core"
      OBVIOUS
    <3> QED BY <2>2, <3>1, <3>2, Zenon DEF Printer
  <2>3. CASE m = "object"
    <3>1. PrintObject = CHOOSE f : f = [t \in Trees |-> PrintStep("object", t, f)]
      BY ZenonT(60) DEF PrintObject, PrintStep, ArgTexts, AttrTexts, Lead, MemberTexts, Member
    <3>2. "object" # "core" /\ "object" # "strict"
      OBVIOUS
    <3> QED BY <2>3, <3>1, <3>2, Zenon DEF Printer
  <2> QED BY <2>1, <2>2, <2>3 DEF Modes
<1>2. \E f : f = [t \in Trees |-> PrintStep(m, t, f)]
  BY PrintersExist
<1>3. Printer(m) = [t \in Trees |-> PrintStep(m, t, Printer(m))]
  BY <1>1, <1>2, Zenon
<1>4. \A t \in Trees : Printer(m)[t] \in Seq(Tokens)
  BY <1>3, PrintersTyped, Zenon
<1>5. \A t \in Trees : Printer(m)[t] = PrintStep(m, t, Printer(m))
  BY <1>3, Zenon
<1> QED BY <1>4, <1>5

(* The texts of the arguments and the attributes of t, one after another. *)
ArePartTexts(m, t, f, parts) ==
  /\ parts \in Seq(Seq(Tokens))
  /\ Len(parts) = Len(t.args) + Len(AttrsInOrder(t))
  /\ \A k \in 1 .. Len(t.args) : parts[k] = f[t.args[k]]
  /\ \A k \in 1 .. Len(AttrsInOrder(t)) :
       parts[Len(t.args) + k] = Lead(m, AttrsInOrder(t)[k]) \o f[t.attrs[AttrsInOrder(t)[k]]]

LEMMA PartTextsAre ==
  ASSUME NEW m, NEW t \in Trees, t.tag = "Compound",
         NEW f, \A u \in PartsOf(t) : f[u] \in Seq(Tokens)
  PROVE  ArePartTexts(m, t, f, ArgTexts(t, f) \o AttrTexts(m, t, f))
<1> DEFINE a == ArgTexts(t, f)
           b == AttrTexts(m, t, f)
<1>1. a \in Seq(Seq(Tokens)) /\ b \in Seq(Seq(Tokens)) /\ Len(a) = Len(t.args)
       /\ Len(b) = Len(AttrsInOrder(t))
  BY TextsTyped
<1>2. \A k \in 1 .. Len(t.args) : a[k] = f[t.args[k]]
  BY TextsTyped
<1>3. \A k \in 1 .. Len(AttrsInOrder(t)) :
        b[k] = Lead(m, AttrsInOrder(t)[k]) \o f[t.attrs[AttrsInOrder(t)[k]]]
  <2> SUFFICES ASSUME NEW k \in 1 .. Len(AttrsInOrder(t))
               PROVE  AttrTexts(m, t, f)[k]
                        = Lead(m, AttrsInOrder(t)[k]) \o f[t.attrs[AttrsInOrder(t)[k]]]
    BY Zenon
  <2>1. k \in DOMAIN AttrsInOrder(t)
    BY CompoundIs DEF Ordered
  <2> QED BY <2>1, Zenon DEF AttrTexts
<1> HIDE DEF a, b
<1>4. /\ a \o b \in Seq(Seq(Tokens)) /\ Len(a \o b) = Len(a) + Len(b)
      /\ Len(a) \in Nat /\ Len(b) \in Nat
      /\ \A k \in 1 .. Len(a) : (a \o b)[k] = a[k]
      /\ \A k \in 1 .. Len(b) : (a \o b)[Len(a) + k] = b[k]
  <2> DEFINE S == Seq(Tokens)
  <2>1. a \in Seq(S) /\ b \in Seq(S)
    BY <1>1
  <2> HIDE DEF S
  <2>2. a \o b \in Seq(S)
    BY <2>1, ConcatProperties
  <2>3. /\ Len(a \o b) = Len(a) + Len(b) /\ Len(a) \in Nat /\ Len(b) \in Nat
        /\ \A k \in 1 .. Len(a) : (a \o b)[k] = a[k]
        /\ \A k \in 1 .. Len(b) : (a \o b)[Len(a) + k] = b[k]
    BY <2>1
  <2> QED BY <2>2, <2>3 DEF S
<1>5. \A k \in 1 .. Len(t.args) : (a \o b)[k] = f[t.args[k]]
  BY <1>1, <1>2, <1>4
<1>6. \A k \in 1 .. Len(AttrsInOrder(t)) :
        (a \o b)[Len(t.args) + k] = Lead(m, AttrsInOrder(t)[k]) \o f[t.attrs[AttrsInOrder(t)[k]]]
  BY <1>1, <1>3, <1>4
<1>7. ArePartTexts(m, t, f, a \o b)
  BY <1>1, <1>4, <1>5, <1>6 DEF ArePartTexts
<1> QED BY <1>7 DEF a, b

-----------------------------------------------------------------------------

(* The attributes of a tree as its text gives them, and what is left of    *)
(* its parts from the k-th argument or attribute on.                       *)
PairsOf(t) ==
  [k \in 1 .. Len(AttrsInOrder(t)) |-> <<AttrsInOrder(t)[k], t.attrs[AttrsInOrder(t)[k]]>>]

From(strings, t, k) ==
  LET n == Len(t.args)
  IN Parts(strings, SubSeq(t.args, k, n),
           SubSeq(PairsOf(t), IF k > n THEN k - n ELSE 1, Len(PairsOf(t))))

LEMMA PairsTyped ==
  ASSUME NEW t \in Trees, t.tag = "Compound"
  PROVE  PairsOf(t) \in Seq(STRING \X Trees) /\ Len(PairsOf(t)) = Len(AttrsInOrder(t))
<1>1. AttrsInOrder(t) \in Seq(STRING)
  BY CompoundIs DEF Ordered
<1>2. \A k \in 1 .. Len(AttrsInOrder(t)) :
        <<AttrsInOrder(t)[k], t.attrs[AttrsInOrder(t)[k]]>> \in STRING \X Trees
  BY KeyIsWord, CompoundIs
<1>3. Len(AttrsInOrder(t)) \in Nat
  BY <1>1
<1>4. PairsOf(t) \in [1 .. Len(AttrsInOrder(t)) -> STRING \X Trees]
  BY <1>2 DEF PairsOf
<1> QED BY <1>3, <1>4

LEMMA RestFirst ==
  ASSUME NEW S, NEW seq \in Seq(S), NEW k \in 1 .. Len(seq)
  PROVE  <<seq[k]>> \o SubSeq(seq, k + 1, Len(seq)) = SubSeq(seq, k, Len(seq))
<1>1. Len(seq) \in k .. Len(seq)
  OBVIOUS
<1> QED BY <1>1, SubSeqRecursiveFirst, Zenon

LEMMA RestNone ==
  ASSUME NEW S, NEW seq \in Seq(S)
  PROVE  SubSeq(seq, Len(seq) + 1, Len(seq)) = << >>
<1>1. Len(seq) + 1 \in Int /\ Len(seq) \in Int /\ Len(seq) < Len(seq) + 1
  OBVIOUS
<1> QED BY <1>1, SubSeqEmpty, Zenon

LEMMA RestTyped ==
  ASSUME NEW S, NEW seq \in Seq(S), NEW k \in Nat \ {0}
  PROVE  SubSeq(seq, k, Len(seq)) \in Seq(S)
<1>1. \A j \in k .. Len(seq) : seq[j] \in S
  OBVIOUS
<1>2. k \in Int /\ Len(seq) \in Int
  OBVIOUS
<1> QED BY <1>1, <1>2, SubSeqProperties, Zenon

LEMMA FromEnd ==
  ASSUME NEW t \in Trees, t.tag = "Compound"
  PROVE  From(<< >>, t, Len(t.args) + Len(AttrsInOrder(t)) + 1) = NoParts
<1> DEFINE n == Len(t.args)
           l == Len(PairsOf(t))
<1>1. t.args \in Seq(Trees) /\ PairsOf(t) \in Seq(STRING \X Trees) /\ l = Len(AttrsInOrder(t))
  BY PairsTyped, CompoundIs
<1>2. n \in Nat /\ l \in Nat
  BY <1>1
<1>3. SubSeq(PairsOf(t), l + 1, l) = << >>
  BY <1>1, RestNone
<1>4. SubSeq(t.args, n + l + 1, n) = << >>
  <2>1. n + l + 1 \in Int /\ n \in Int /\ n < n + l + 1
    BY <1>2
  <2> QED BY <2>1, SubSeqEmpty, Zenon
<1>5. n + l + 1 > n /\ (n + l + 1) - n = l + 1
  <2> HIDE DEF n, l
  <2> QED BY <1>2
<1>6. From(<< >>, t, n + l + 1) =
        Parts(<< >>, SubSeq(t.args, n + l + 1, n),
              SubSeq(PairsOf(t), IF n + l + 1 > n THEN (n + l + 1) - n ELSE 1, l))
  BY Zenon DEF From
<1>7. From(<< >>, t, n + l + 1) = NoParts
  <2> HIDE DEF n, l
  <2> QED BY <1>3, <1>4, <1>5, <1>6, Zenon DEF NoParts
<1> QED BY <1>1, <1>7

LEMMA ThenOne ==
  ASSUME NEW part, NEW rest, NEW e
  PROVE  Then(part, {Took(rest, e)}) =
           {Took(Parts(part.strings \o rest.strings, part.args \o rest.args,
                       part.attrs \o rest.attrs), e)}
<1>1. Took(rest, e).value = rest /\ Took(rest, e).at = e
  BY DEF Took
<1> HIDE DEF Took
<1> QED BY <1>1 DEF Then

LEMMA PartsAre ==
  ASSUME NEW x, NEW y, NEW z
  PROVE  Parts(x, y, z).strings = x /\ Parts(x, y, z).args = y /\ Parts(x, y, z).attrs = z
BY DEF Parts

(* A part and the rest make the whole. *)
IsWhole(part, rest, whole) ==
  /\ part.strings \o rest.strings = whole.strings
  /\ part.args \o rest.args = whole.args
  /\ part.attrs \o rest.attrs = whole.attrs
  /\ whole = Parts(whole.strings, whole.args, whole.attrs)

LEMMA ThenIs ==
  ASSUME NEW part, NEW rest, NEW whole, NEW e, IsWhole(part, rest, whole)
  PROVE  Then(part, {Took(rest, e)}) = {Took(whole, e)}
<1>1. Then(part, {Took(rest, e)}) =
        {Took(Parts(part.strings \o rest.strings, part.args \o rest.args,
                    part.attrs \o rest.attrs), e)}
  BY ThenOne
<1>2. Parts(part.strings \o rest.strings, part.args \o rest.args, part.attrs \o rest.attrs) = whole
  BY Zenon DEF IsWhole
<1> QED BY <1>1, <1>2, Zenon

LEMMA FromArg ==
  ASSUME NEW t \in Trees, t.tag = "Compound", NEW k \in 1 .. Len(t.args), NEW e
  PROVE  Then(Arg(t.args[k]), {Took(From(<< >>, t, k + 1), e)}) = {Took(From(<< >>, t, k), e)}
<1> DEFINE n == Len(t.args)
           l == Len(PairsOf(t))
           pairs == SubSeq(PairsOf(t), 1, l)
<1>1. t.args \in Seq(Trees) /\ PairsOf(t) \in Seq(STRING \X Trees)
  BY PairsTyped, CompoundIs
<1>2. n \in Nat /\ k \in Nat /\ ~(k > n) /\ (k + 1 > n => (k + 1) - n = 1)
  BY <1>1
<1>3. <<t.args[k]>> \o SubSeq(t.args, k + 1, n) = SubSeq(t.args, k, n)
  BY <1>1, RestFirst
<1>4. << >> \o pairs = pairs /\ << >> \o << >> = << >>
  <2>1. pairs \in Seq(STRING \X Trees)
    <3>1. 1 \in Nat \ {0}
      OBVIOUS
    <3> QED BY <1>1, <3>1, RestTyped, Zenon
  <2> HIDE DEF pairs
  <2> QED BY <2>1, ConcatEmptySeq
<1>5. From(<< >>, t, k) = Parts(<< >>, SubSeq(t.args, k, n), pairs)
  <2>1. From(<< >>, t, k) = Parts(<< >>, SubSeq(t.args, k, n),
                                 SubSeq(PairsOf(t), IF k > n THEN k - n ELSE 1, l))
    BY Zenon DEF From
  <2> HIDE DEF n, l
  <2> QED BY <1>2, <2>1, Zenon
<1>6. From(<< >>, t, k + 1) = Parts(<< >>, SubSeq(t.args, k + 1, n), pairs)
  <2>1. From(<< >>, t, k + 1) = Parts(<< >>, SubSeq(t.args, k + 1, n),
                                 SubSeq(PairsOf(t), IF k + 1 > n THEN (k + 1) - n ELSE 1, l))
    BY Zenon DEF From
  <2> HIDE DEF n, l
  <2> QED BY <1>2, <2>1, Zenon
<1>7. Arg(t.args[k]) = Parts(<< >>, <<t.args[k]>>, << >>)
  BY Zenon DEF Arg
<1> HIDE DEF n, pairs
<1>8. /\ Arg(t.args[k]).strings = << >> /\ Arg(t.args[k]).args = <<t.args[k]>>
      /\ Arg(t.args[k]).attrs = << >>
  BY <1>7 DEF Parts
<1>9. /\ From(<< >>, t, k + 1).strings = << >>
      /\ From(<< >>, t, k + 1).args = SubSeq(t.args, k + 1, n)
      /\ From(<< >>, t, k + 1).attrs = pairs
  BY <1>6 DEF Parts
<1>10. /\ From(<< >>, t, k).strings = << >> /\ From(<< >>, t, k).args = SubSeq(t.args, k, n)
       /\ From(<< >>, t, k).attrs = pairs
  BY <1>5 DEF Parts
<1>11. IsWhole(Arg(t.args[k]), From(<< >>, t, k + 1), From(<< >>, t, k))
  BY <1>3, <1>4, <1>5, <1>8, <1>9, <1>10, Zenon DEF IsWhole
<1> QED BY <1>11, ThenIs

LEMMA FromAttr ==
  ASSUME NEW t \in Trees, t.tag = "Compound", NEW k \in 1 .. Len(AttrsInOrder(t)), NEW e
  PROVE  LET key == AttrsInOrder(t)[k]
             n == Len(t.args)
         IN Then(Attr(key, t.attrs[key]), {Took(From(<< >>, t, n + k + 1), e)})
              = {Took(From(<< >>, t, n + k), e)}
<1> DEFINE n == Len(t.args)
           key == AttrsInOrder(t)[k]
           l == Len(PairsOf(t))
<1>1. t.args \in Seq(Trees) /\ PairsOf(t) \in Seq(STRING \X Trees) /\ l = Len(AttrsInOrder(t))
  BY PairsTyped, CompoundIs
<1>2. /\ n \in Nat /\ k \in Nat /\ n + k > n /\ n + k + 1 > n
      /\ (n + k) - n = k /\ (n + k + 1) - n = k + 1
      /\ n + k \in Int /\ n + k + 1 \in Int /\ n \in Int /\ n < n + k /\ n < n + k + 1
  <2>1. n \in Nat /\ k \in Nat /\ k > 0
    BY <1>1
  <2> HIDE DEF n
  <2> QED BY <2>1
<1>3. PairsOf(t)[k] = <<key, t.attrs[key]>>
  BY DEF PairsOf
<1>4. <<<<key, t.attrs[key]>>>> \o SubSeq(PairsOf(t), k + 1, l) = SubSeq(PairsOf(t), k, l)
  <2>1. k \in 1 .. Len(PairsOf(t))
    BY <1>1
  <2> QED BY <1>1, <1>3, <2>1, RestFirst, Zenon
<1>5. SubSeq(t.args, n + k, n) = << >> /\ SubSeq(t.args, n + k + 1, n) = << >>
  <2> HIDE DEF n
  <2> QED BY <1>2, SubSeqEmpty, Zenon
<1>6. << >> \o << >> = << >>
  BY ConcatEmptySeq
<1>7. From(<< >>, t, n + k) = Parts(<< >>, << >>, SubSeq(PairsOf(t), k, l))
  <2>1. From(<< >>, t, n + k) = Parts(<< >>, SubSeq(t.args, n + k, n),
                                 SubSeq(PairsOf(t), IF n + k > n THEN (n + k) - n ELSE 1, l))
    BY Zenon DEF From
  <2> HIDE DEF n, l
  <2> QED BY <1>2, <1>5, <2>1, Zenon
<1>8. From(<< >>, t, n + k + 1) = Parts(<< >>, << >>, SubSeq(PairsOf(t), k + 1, l))
  <2>1. From(<< >>, t, n + k + 1) = Parts(<< >>, SubSeq(t.args, n + k + 1, n),
                                 SubSeq(PairsOf(t), IF n + k + 1 > n THEN (n + k + 1) - n ELSE 1, l))
    BY Zenon DEF From
  <2> HIDE DEF n, l
  <2> QED BY <1>2, <1>5, <2>1, Zenon
<1>9. Attr(key, t.attrs[key]) = Parts(<< >>, << >>, <<<<key, t.attrs[key]>>>>)
  BY Zenon DEF Attr
<1> HIDE DEF n, l, key
<1>10. /\ Attr(key, t.attrs[key]).strings = << >> /\ Attr(key, t.attrs[key]).args = << >>
       /\ Attr(key, t.attrs[key]).attrs = <<<<key, t.attrs[key]>>>>
  BY <1>9, PartsAre
<1>11. /\ From(<< >>, t, n + k + 1).strings = << >> /\ From(<< >>, t, n + k + 1).args = << >>
       /\ From(<< >>, t, n + k + 1).attrs = SubSeq(PairsOf(t), k + 1, l)
  BY <1>8 DEF Parts
<1>12. /\ From(<< >>, t, n + k).strings = << >> /\ From(<< >>, t, n + k).args = << >>
       /\ From(<< >>, t, n + k).attrs = SubSeq(PairsOf(t), k, l)
  BY <1>7 DEF Parts
<1>13. Then(Attr(key, t.attrs[key]), {Took(From(<< >>, t, n + k + 1), e)})
         = {Took(From(<< >>, t, n + k), e)}
  <2>1. IsWhole(Attr(key, t.attrs[key]), From(<< >>, t, n + k + 1), From(<< >>, t, n + k))
    BY <1>4, <1>6, <1>7, <1>10, <1>11, <1>12, Zenon DEF IsWhole
  <2> QED BY <2>1, ThenIs
<1> QED BY <1>13 DEF n, key

(* The whole of the parts makes the tree. *)
LEMMA NodeIs ==
  ASSUME NEW t \in Trees, t.tag = "Compound", NEW parts,
         parts.args = t.args, parts.attrs = PairsOf(t)
  PROVE  Node(t.text, parts) = {t}
<1> DEFINE ks == AttrsInOrder(t)
           attrs == parts.attrs
<1>1. /\ DOMAIN attrs = 1 .. Len(ks)
      /\ \A k \in 1 .. Len(ks) : attrs[k][1] = ks[k] /\ attrs[k][2] = t.attrs[ks[k]]
  BY DEF PairsOf
<1>2. \A j, k \in 1 .. Len(ks) : ks[j] = ks[k] => j = k
  BY CompoundIs DEF Ordered
<1>3. ~\E j, k \in DOMAIN attrs : j # k /\ attrs[j][1] = attrs[k][1]
  <2> HIDE DEF ks, attrs
  <2> QED BY <1>1, <1>2
<1>4. {attrs[k][1] : k \in DOMAIN attrs} = DOMAIN t.attrs
  <2>1. \A k \in 1 .. Len(ks) : ks[k] \in DOMAIN t.attrs
    BY KeyIsWord
  <2>2. \A key \in DOMAIN t.attrs : \E k \in 1 .. Len(ks) : ks[k] = key
    BY CompoundIs
  <2> HIDE DEF ks, attrs
  <2>3. \A k \in DOMAIN attrs : attrs[k][1] \in DOMAIN t.attrs
    BY <1>1, <2>1
  <2>4. \A key \in DOMAIN t.attrs : \E k \in DOMAIN attrs : attrs[k][1] = key
    BY <1>1, <2>2
  <2> QED BY <2>3, <2>4
<1> DEFINE pick(key) == CHOOSE k \in DOMAIN attrs : attrs[k][1] = key
<1>5. ASSUME NEW key \in DOMAIN t.attrs
      PROVE  attrs[pick(key)][2] = t.attrs[key]
  <2>1. \E k \in DOMAIN attrs : attrs[k][1] = key
    BY <1>4
  <2>2. pick(key) \in DOMAIN attrs /\ attrs[pick(key)][1] = key
    <3> HIDE DEF attrs
    <3> QED BY <2>1
  <2> HIDE DEF pick, attrs, ks
  <2> QED BY <1>1, <2>2
<1>6. t.attrs = [key \in DOMAIN t.attrs |-> t.attrs[key]]
  BY CompoundIs
<1>7. [key \in {attrs[k][1] : k \in DOMAIN attrs} |-> attrs[pick(key)][2]] = t.attrs
  <2> HIDE DEF pick, attrs, ks
  <2>1. [key \in {attrs[k][1] : k \in DOMAIN attrs} |-> attrs[pick(key)][2]]
          = [key \in DOMAIN t.attrs |-> t.attrs[key]]
    BY <1>4, <1>5
  <2> QED BY <1>6, <2>1, Zenon
<1>8. Node(t.text, parts) =
        IF \E j, k \in DOMAIN attrs : j # k /\ attrs[j][1] = attrs[k][1] THEN {}
        ELSE {With(t.text, t.args,
                   [key \in {attrs[k][1] : k \in DOMAIN attrs} |-> attrs[pick(key)][2]])}
  BY Zenon DEF Node
<1>9. Node(t.text, parts) = {With(t.text, t.args, t.attrs)}
  <2> HIDE DEF pick, attrs
  <2> QED BY <1>3, <1>7, <1>8, Zenon
<1>10. With(t.text, t.args, t.attrs) = t
  BY CompoundIs, Zenon
<1> QED BY <1>9, <1>10, Zenon

LEMMA FromStart ==
  ASSUME NEW t \in Trees, t.tag = "Compound", NEW strings
  PROVE  From(strings, t, 1) = Parts(strings, t.args, PairsOf(t))
<1>1. t.args \in Seq(Trees) /\ PairsOf(t) \in Seq(STRING \X Trees)
  BY PairsTyped, CompoundIs
<1>2. SubSeq(t.args, 1, Len(t.args)) = t.args /\ SubSeq(PairsOf(t), 1, Len(PairsOf(t))) = PairsOf(t)
  BY <1>1, SubSeqFull
<1>3. (IF 1 > Len(t.args) THEN 1 - Len(t.args) ELSE 1) = 1
  BY <1>1
<1> QED BY <1>2, <1>3, Zenon DEF From

LEMMA WholeNode ==
  ASSUME NEW t \in Trees, t.tag = "Compound", NEW strings, NEW e
  PROVE  NodeAt(t.text, Took(Parts(strings, t.args, PairsOf(t)), e)) = {Took(t, e)}
<1> DEFINE parts == Parts(strings, t.args, PairsOf(t))
<1>1. parts.args = t.args /\ parts.attrs = PairsOf(t)
  BY DEF Parts
<1>2. Took(parts, e).value = parts /\ Took(parts, e).at = e
  BY DEF Took
<1> HIDE DEF parts, Took
<1>3. Node(t.text, parts) = {t}
  BY <1>1, NodeIs
<1>4. NodeAt(t.text, Took(parts, e)) = {Took(t, e)}
  BY <1>2, <1>3 DEF NodeAt
<1> QED BY <1>4 DEF parts

-----------------------------------------------------------------------------

LEMMA RuleIs ==
  ASSUME NEW m, NEW s, NEW f, IsReader(f, m, s), NEW rule \in Rules, NEW i \in Nat
  PROVE  f[<<rule, i>>] = Step(m, s, rule, i, f)
<1>1. <<rule, i>> \in Rules \X Nat /\ <<rule, i>>[1] = rule /\ <<rule, i>>[2] = i
  OBVIOUS
<1>2. f[<<rule, i>>] = Step(m, s, <<rule, i>>[1], <<rule, i>>[2], f)
  BY <1>1, Zenon DEF IsReader
<1> QED BY <1>1, <1>2, Zenon

LEMMA OccursFirst ==
  ASSUME NEW s \in Seq(Tokens), NEW i \in Place, NEW w \in Seq(Tokens), Len(w) > 0, Occurs(w, s, i)
  PROVE  i \in Nat /\ i <= Len(s) /\ Peek(s, i) = w[1] /\ s[i] = w[1]
<1>1. 1 \in 1 .. Len(w) /\ i + 1 - 1 = i /\ i \in Nat
  BY DEF Place
<1>2. /\ i + 1 - 1 <= Len(s) /\ Peek(s, i + 1 - 1) = w[1] /\ s[i + 1 - 1] = w[1]
  BY <1>1, OccursOne, Zenon
<1> QED BY <1>1, <1>2

LEMMA OccursSecond ==
  ASSUME NEW s \in Seq(Tokens), NEW i \in Place, NEW w \in Seq(Tokens), Len(w) > 1, Occurs(w, s, i)
  PROVE  i + 1 \in Nat /\ i + 1 <= Len(s) /\ Peek(s, i + 1) = w[2] /\ s[i + 1] = w[2]
<1>1. 2 \in 1 .. Len(w) /\ i + 2 - 1 = i + 1 /\ i + 1 \in Nat
  BY DEF Place
<1>2. /\ i + 2 - 1 <= Len(s) /\ Peek(s, i + 2 - 1) = w[2] /\ s[i + 2 - 1] = w[2]
  BY <1>1, OccursOne, Zenon
<1> QED BY <1>1, <1>2

(* A head of two pieces, what is between, and the mark that ends it. *)
LEMMA OccursAround ==
  ASSUME NEW s \in Seq(Tokens), NEW i \in Place, NEW a \in Tokens, NEW b \in Tokens,
         NEW w \in Seq(Tokens), NEW z \in Tokens, Occurs(<<a, b>> \o w \o <<z>>, s, i)
  PROVE  /\ i \in Nat /\ Peek(s, i) = a /\ s[i] = a /\ Peek(s, i + 1) = b /\ s[i + 1] = b
         /\ i + 2 \in Place /\ Occurs(w, s, i + 2)
         /\ i + 2 + Len(w) \in Place /\ Peek(s, i + 2 + Len(w)) = z
         /\ Len(<<a, b>> \o w \o <<z>>) = Len(w) + 3
<1>0. <<a, b>> \in Seq(Tokens) /\ <<z>> \in Seq(Tokens) /\ Len(<<a, b>>) = 2 /\ Len(<<z>>) = 1
       /\ <<a, b>>[1] = a /\ <<a, b>>[2] = b /\ <<z>>[1] = z
  OBVIOUS
<1> DEFINE head == <<a, b>>
           end == <<z>>
<1> HIDE DEF head, end
<1>1. /\ head \in Seq(Tokens) /\ end \in Seq(Tokens) /\ Len(head) = 2 /\ Len(end) = 1
      /\ head[1] = a /\ head[2] = b /\ end[1] = z /\ Occurs((head \o w) \o end, s, i)
  BY <1>0 DEF head, end
<1>2. head \o w \in Seq(Tokens) /\ Len(head \o w) = 2 + Len(w) /\ Len(w) \in Nat
       /\ Len((head \o w) \o end) = Len(w) + 3
  <2>1. head \o w \in Seq(Tokens) /\ Len(head \o w) = 2 + Len(w) /\ Len(w) \in Nat
    <3>1. head \o w \in Seq(Tokens) /\ Len(head \o w) = Len(head) + Len(w)
      BY <1>1, ConcatProperties
    <3>2. Len(w) \in Nat /\ Len(head) = 2
      BY <1>1
    <3> QED BY <3>1, <3>2, Zenon
  <2>2. Len((head \o w) \o end) = Len(head \o w) + Len(end)
    BY <1>1, <2>1, ConcatProperties
  <2>3. Len(end) = 1 /\ 2 + Len(w) + 1 = Len(w) + 3
    BY <1>1, <2>1
  <2> QED BY <2>1, <2>2, <2>3, Zenon
<1>3. Occurs(head \o w, s, i) /\ Occurs(end, s, i + Len(head \o w)) /\ i + Len(head \o w) \in Place
  BY <1>1, <1>2, OccursConcat
<1>4. Occurs(head, s, i) /\ Occurs(w, s, i + Len(head)) /\ i + Len(head) \in Place
  BY <1>1, <1>3, OccursConcat
<1>5. i \in Nat /\ Peek(s, i) = a /\ s[i] = a
  <2>1. Len(head) > 0
    BY <1>1
  <2>2. i \in Nat /\ Peek(s, i) = head[1] /\ s[i] = head[1]
    BY <1>1, <1>4, <2>1, OccursFirst
  <2> QED BY <1>1, <2>2, Zenon
<1>6. Peek(s, i + 1) = b /\ s[i + 1] = b
  BY <1>1, <1>4, OccursSecond
<1>7. Peek(s, i + Len(head \o w)) = z
  BY <1>1, <1>3, OccursFirst
<1>8. i + Len(head \o w) = i + 2 + Len(w)
  BY <1>2, <1>5
<1> QED BY <1>1, <1>2, <1>3, <1>4, <1>5, <1>6, <1>7, <1>8 DEF head, end

-----------------------------------------------------------------------------

(* The core text of u is read as u, wherever it is. *)
CoreReads(u) ==
  \A s \in Seq(Tokens), i \in Place : \A f :
    IsReader(f, "core", s) /\ Occurs(PrintCore[u], s, i) =>
      /\ f[<<"node", i>>] = {Took(u, i + Len(PrintCore[u]))}
      /\ Peek(s, i) \notin {")", ":"}

LEMMA CoreIs ==
  ASSUME NEW u \in Trees
  PROVE  /\ PrintCore[u] \in Seq(Tokens)
         /\ u.tag # "Compound" => PrintCore[u] = Pieces(u)
         /\ u.tag = "Compound" =>
              PrintCore[u] = <<"(", u.text>>
                \o FlattenSeq(ArgTexts(u, PrintCore) \o AttrTexts("core", u, PrintCore)) \o <<")">>
<1>1. "core" \in Modes /\ Printer("core") = PrintCore
  BY DEF Modes, Printer
<1>2. PrintCore[u] \in Seq(Tokens) /\ PrintCore[u] = PrintStep("core", u, PrintCore)
  BY <1>1, PrinterIs
<1>3. "core" # "object"
  OBVIOUS
<1> QED BY <1>2, <1>3, Zenon DEF PrintStep

LEMMA CoreLeafReads ==
  ASSUME NEW u \in Trees, u.tag # "Compound", ~Lost(u, "core")
  PROVE  CoreReads(u)
<1> SUFFICES ASSUME NEW s \in Seq(Tokens), NEW i \in Place, NEW f,
                    IsReader(f, "core", s), Occurs(PrintCore[u], s, i)
             PROVE  /\ f[<<"node", i>>] = {Took(u, i + Len(PrintCore[u]))}
                    /\ Peek(s, i) \notin {")", ":"}
  BY Zenon DEF CoreReads
<1> DEFINE w == PrintCore[u]
<1>1. ReadsAs(u, w, Bare(Inside(w[1])), {NoPiece, "(", ")", ":"}) /\ w \in Seq(Tokens)
  <2>1. w = Pieces(u) /\ w \in Seq(Tokens)
    BY CoreIs
  <2>2. ReadsAs(u, Pieces(u), Bare(Inside(Pieces(u)[1])), {NoPiece, "(", ")", ":"})
    BY PiecesAssumption, Zenon
  <2> HIDE DEF w
  <2> QED BY <2>1, <2>2, Zenon
<1> HIDE DEF w
<1>2. Len(w) = 1 /\ w[1] \notin {NoPiece, "(", ")", ":"} /\ LeafOf(w[1], Bare(Inside(w[1]))) = u
  BY <1>1, Zenon DEF ReadsAs
<1>3. i \in Nat /\ Peek(s, i) = w[1] /\ s[i] = w[1]
  <2>1. Len(w) > 0 /\ Occurs(w, s, i)
    BY <1>2 DEF w
  <2> QED BY <1>1, <2>1, OccursFirst
<1>4. CoreNode(s, i, f) = {Took(LeafOf(s[i], Bare(Inside(s[i]))), i + 1)}
  BY <1>2, <1>3 DEF CoreNode
<1>5. f[<<"node", i>>] = CoreNode(s, i, f)
  BY <1>3, RuleIs DEF Rules, Step
<1>6. f[<<"node", i>>] = {Took(u, i + Len(w))}
  BY <1>2, <1>3, <1>4, <1>5
<1> QED BY <1>2, <1>3, <1>6 DEF w

(* An argument, or an attribute, before the parts after it. *)
LEMMA CoreArgReads ==
  ASSUME NEW s \in Seq(Tokens), NEW i \in Place, NEW f, IsReader(f, "core", s),
         NEW u, CoreReads(u), PrintCore[u] \in Seq(Tokens), Occurs(PrintCore[u], s, i)
  PROVE  f[<<"parts", i>>] = Then(Arg(u), f[<<"parts", i + Len(PrintCore[u])>>])
<1>1. i \in Nat /\ f[<<"node", i>>] = {Took(u, i + Len(PrintCore[u]))}
       /\ Peek(s, i) # ")" /\ Peek(s, i) # ":"
  BY DEF CoreReads, Place
<1>2. f[<<"parts", i>>] = CoreParts(s, i, f)
  BY <1>1, RuleIs DEF Rules, Step
<1>3. CoreParts(s, i, f) = UNION {Then(Arg(r.value), f[<<"parts", r.at>>]) : r \in f[<<"node", i>>]}
  BY <1>1 DEF CoreParts
<1>4. Took(u, i + Len(PrintCore[u])).value = u
       /\ Took(u, i + Len(PrintCore[u])).at = i + Len(PrintCore[u])
  BY DEF Took
<1> DEFINE x == Took(u, i + Len(PrintCore[u]))
<1>5. f[<<"parts", i>>] = UNION {Then(Arg(r.value), f[<<"parts", r.at>>]) : r \in {x}}
  BY <1>1, <1>2, <1>3, Zenon
<1> HIDE DEF x
<1>6. UNION {Then(Arg(r.value), f[<<"parts", r.at>>]) : r \in {x}}
        = Then(Arg(x.value), f[<<"parts", x.at>>])
  OBVIOUS
<1> QED BY <1>4, <1>5, <1>6, Zenon DEF x

LEMMA CoreAttrReads ==
  ASSUME NEW s \in Seq(Tokens), NEW i \in Place, NEW f, IsReader(f, "core", s), NEW key,
         Lead("core", key) \in Seq(Tokens),
         NEW u, CoreReads(u), PrintCore[u] \in Seq(Tokens),
         Occurs(Lead("core", key) \o PrintCore[u], s, i)
  PROVE  f[<<"parts", i>>] =
           Then(Attr(key, u), f[<<"parts", i + Len(Lead("core", key) \o PrintCore[u])>>])
<1> DEFINE lead == Lead("core", key)
           w == PrintCore[u]
<1>1. lead = <<":", key>> /\ Len(lead) = 2 /\ lead[1] = ":" /\ lead[2] = key
  BY DEF Lead
<1> HIDE DEF lead, w
<1>2. lead \in Seq(Tokens) /\ w \in Seq(Tokens) /\ Occurs(lead \o w, s, i) /\ i \in Nat
  BY DEF lead, w, Place
<1>3. Occurs(lead, s, i) /\ Occurs(w, s, i + 2) /\ i + 2 \in Place
  BY <1>1, <1>2, OccursConcat
<1>4. Peek(s, i) = ":" /\ s[i + 1] = key
  <2>1. Len(lead) > 0 /\ Len(lead) > 1
    BY <1>1
  <2>2. Peek(s, i) = lead[1]
    BY <1>2, <1>3, <2>1, OccursFirst
  <2>3. s[i + 1] = lead[2]
    BY <1>2, <1>3, <2>1, OccursSecond
  <2> QED BY <1>1, <2>2, <2>3, Zenon
<1>5. Len(w) \in Nat /\ Len(lead \o w) = 2 + Len(w) /\ i + 2 + Len(w) = i + Len(lead \o w)
  <2>1. Len(w) \in Nat /\ Len(lead \o w) = 2 + Len(w)
    BY <1>1, <1>2
  <2> QED BY <1>2, <2>1
<1>6. f[<<"node", i + 2>>] = {Took(u, i + Len(lead \o w))}
  <2>1. f[<<"node", i + 2>>] = {Took(u, i + 2 + Len(w))}
    BY <1>3 DEF CoreReads, w
  <2> QED BY <1>5, <2>1
<1>7. f[<<"parts", i>>] = CoreParts(s, i, f)
  BY <1>2, RuleIs DEF Rules, Step
<1>8. CoreParts(s, i, f) =
        UNION {Then(Attr(s[i + 1], r.value), f[<<"parts", r.at>>]) : r \in f[<<"node", i + 2>>]}
  BY <1>4 DEF CoreParts
<1>9. Took(u, i + Len(lead \o w)).value = u /\ Took(u, i + Len(lead \o w)).at = i + Len(lead \o w)
  BY DEF Took
<1> HIDE DEF Took
<1> DEFINE x == Took(u, i + Len(lead \o w))
<1>10. f[<<"parts", i>>] = Then(Attr(key, u), f[<<"parts", i + Len(lead \o w)>>])
  <2>1. x.value = u /\ x.at = i + Len(lead \o w)
    BY <1>9
  <2>2. f[<<"parts", i>>] = UNION {Then(Attr(key, r.value), f[<<"parts", r.at>>]) : r \in {x}}
    BY <1>4, <1>6, <1>7, <1>8, Zenon
  <2> HIDE DEF x
  <2>3. UNION {Then(Attr(key, r.value), f[<<"parts", r.at>>]) : r \in {x}}
          = Then(Attr(key, x.value), f[<<"parts", x.at>>])
    OBVIOUS
  <2> QED BY <2>1, <2>2, <2>3, Zenon
<1> QED BY <1>10 DEF lead, w

LEMMA CoreCompoundReads ==
  ASSUME NEW u \in Trees, u.tag = "Compound", \A v \in PartsOf(u) : CoreReads(v)
  PROVE  CoreReads(u)
<1> SUFFICES ASSUME NEW s \in Seq(Tokens), NEW i \in Place, NEW f,
                    IsReader(f, "core", s), Occurs(PrintCore[u], s, i)
             PROVE  /\ f[<<"node", i>>] = {Took(u, i + Len(PrintCore[u]))}
                    /\ Peek(s, i) \notin {")", ":"}
  BY Zenon DEF CoreReads
<1> DEFINE parts == ArgTexts(u, PrintCore) \o AttrTexts("core", u, PrintCore)
           a == Len(u.args)
           b == Len(AttrsInOrder(u))
           flat == FlattenSeq(parts)
           end == i + 2 + Len(flat)
<1>0. \A v \in PartsOf(u) : PrintCore[v] \in Seq(Tokens) /\ CoreReads(v)
  BY CompoundIs, CoreIs
<1>1. /\ parts \in Seq(Seq(Tokens)) /\ Len(parts) = a + b
      /\ \A k \in 1 .. a : parts[k] = PrintCore[u.args[k]]
      /\ \A k \in 1 .. b : parts[a + k] = Lead("core", AttrsInOrder(u)[k])
                                            \o PrintCore[u.attrs[AttrsInOrder(u)[k]]]
  <2>1. ArePartTexts("core", u, PrintCore, parts)
    BY <1>0, PartTextsAre
  <2> HIDE DEF parts
  <2> QED BY <2>1 DEF ArePartTexts
<1>2. a \in Nat /\ b \in Nat
  BY CompoundIs DEF Ordered
<1> HIDE DEF parts
<1>3. flat \in Seq(Tokens)
  BY <1>1, FlattenTyped
<1>4. PrintCore[u] = <<"(", u.text>> \o flat \o <<")">>
  BY CoreIs, Zenon DEF parts
<1> HIDE DEF flat
<1>5. /\ i \in Nat /\ Peek(s, i) = "(" /\ s[i + 1] = u.text
      /\ i + 2 \in Place /\ Occurs(flat, s, i + 2) /\ end \in Place
      /\ Peek(s, end) = ")" /\ Len(PrintCore[u]) = Len(flat) + 3
  <2>1. "(" \in Tokens /\ ")" \in Tokens /\ u.text \in Tokens
    BY CompoundIs, StringsAreTokens
  <2>2. Occurs(<<"(", u.text>> \o flat \o <<")">>, s, i)
    BY <1>4
  <2> QED BY <1>3, <1>4, <2>1, <2>2, OccursAround
<1>6. PICK at : Laid(parts, s, at, i + 2, end)
  BY <1>1, <1>5, FlattenLaid DEF flat
<1> HIDE DEF end, a, b
<1> DEFINE n == a + b + 1
           Good == {k \in 1 .. n : f[<<"parts", at[k]>>] = {Took(From(<< >>, u, k), end + 1)}}
<1>7. /\ at[1] = i + 2 /\ at[n] = end
      /\ \A k \in 1 .. n : at[k] \in Place /\ at[k] \in Nat
      /\ \A k \in 1 .. a + b : Occurs(parts[k], s, at[k]) /\ at[k + 1] = at[k] + Len(parts[k])
  BY <1>1, <1>6 DEF Laid, Place
<1>8. n \in Good
  <2>1. f[<<"parts", end>>] = CoreParts(s, end, f) /\ end \in Nat
    BY <1>5, RuleIs DEF Rules, Step, Place
  <2>2. CoreParts(s, end, f) = {Took(NoParts, end + 1)}
    BY <1>5 DEF CoreParts
  <2>3. From(<< >>, u, n) = NoParts
    BY FromEnd DEF a, b
  <2>4. n \in 1 .. n
    BY <1>2
  <2> HIDE DEF n
  <2> QED BY <1>7, <2>1, <2>2, <2>3, <2>4
<1>9. ASSUME NEW k \in 1 .. n, k < n, k + 1 \in Good
      PROVE  k \in Good
  <2>0. k \in 1 .. a + b /\ f[<<"parts", at[k + 1]>>] = {Took(From(<< >>, u, k + 1), end + 1)}
    BY <1>2, <1>9
  <2>1. CASE k <= a
    <3>1. k \in 1 .. a /\ k \in 1 .. Len(u.args)
      BY <1>2, <2>1 DEF a
    <3> DEFINE v == u.args[k]
    <3>2. v \in PartsOf(u)
      BY <3>1, CompoundIs
    <3> HIDE DEF v
    <3>3. parts[k] = PrintCore[v]
      BY <1>1, <3>1 DEF v, a
    <3>4. f[<<"parts", at[k]>>] = Then(Arg(v), f[<<"parts", at[k] + Len(PrintCore[v])>>])
      <4>1. Occurs(PrintCore[v], s, at[k]) /\ at[k] \in Place
        BY <1>7, <2>0, <3>3
      <4> QED BY <1>0, <3>2, <4>1, CoreArgReads
    <3>5. f[<<"parts", at[k]>>] = Then(Arg(v), {Took(From(<< >>, u, k + 1), end + 1)})
      BY <1>7, <2>0, <3>3, <3>4
    <3>6. Then(Arg(v), {Took(From(<< >>, u, k + 1), end + 1)}) = {Took(From(<< >>, u, k), end + 1)}
      BY <3>1, FromArg DEF v
    <3> QED BY <3>5, <3>6
  <2>2. CASE k > a
    <3> DEFINE j == k - a
               key == AttrsInOrder(u)[j]
               v == u.attrs[key]
    <3>1. j \in 1 .. b /\ k = a + j /\ k + 1 = a + j + 1
      BY <1>2, <2>0, <2>2
    <3> HIDE DEF j
    <3>2. key \in DOMAIN u.attrs /\ key \in STRING /\ key \in Words /\ v \in PartsOf(u)
      BY <3>1, KeyIsWord, CompoundIs DEF b
    <3>3. parts[k] = Lead("core", key) \o PrintCore[v]
      BY <1>1, <3>1 DEF a, b
    <3> HIDE DEF key, v
    <3>4. f[<<"parts", at[k]>>] =
            Then(Attr(key, v), f[<<"parts", at[k] + Len(Lead("core", key) \o PrintCore[v])>>])
      <4>1. Occurs(Lead("core", key) \o PrintCore[v], s, at[k]) /\ at[k] \in Place
        BY <1>7, <2>0, <3>3
      <4>2. Lead("core", key) \in Seq(Tokens)
        BY <3>2, LeadTyped
      <4> QED BY <1>0, <3>2, <4>1, <4>2, CoreAttrReads
    <3>5. f[<<"parts", at[k]>>] = Then(Attr(key, v), {Took(From(<< >>, u, k + 1), end + 1)})
      BY <1>7, <2>0, <3>3, <3>4
    <3>6. Then(Attr(key, v), {Took(From(<< >>, u, k + 1), end + 1)})
            = {Took(From(<< >>, u, k), end + 1)}
      <4>1. Then(Attr(key, v), {Took(From(<< >>, u, Len(u.args) + j + 1), end + 1)})
              = {Took(From(<< >>, u, Len(u.args) + j), end + 1)}
        BY <3>1, FromAttr DEF key, v, b
      <4> QED BY <3>1, <4>1 DEF a
    <3> QED BY <3>5, <3>6
  <2> QED BY <1>2, <2>1, <2>2
<1>10. 1 \in Good
  <2>1. n \in Nat /\ 1 \in 1 .. n
    BY <1>2
  <2> HIDE DEF Good, n
  <2> QED BY <1>8, <1>9, <2>1, Downward
<1>11. f[<<"parts", i + 2>>] = {Took(Parts(<< >>, u.args, PairsOf(u)), end + 1)}
  BY <1>7, <1>10, FromStart
<1>12. f[<<"node", i>>] = UNION {NodeAt(s[i + 1], r) : r \in f[<<"parts", i + 2>>]}
  <2>1. f[<<"node", i>>] = CoreNode(s, i, f)
    BY <1>5, RuleIs DEF Rules, Step
  <2>2. CoreNode(s, i, f) = UNION {NodeAt(s[i + 1], r) : r \in f[<<"parts", i + 2>>]}
    BY <1>5 DEF CoreNode
  <2> QED BY <2>1, <2>2
<1>13. f[<<"node", i>>] = NodeAt(u.text, Took(Parts(<< >>, u.args, PairsOf(u)), end + 1))
  BY <1>5, <1>11, <1>12
<1>14. NodeAt(u.text, Took(Parts(<< >>, u.args, PairsOf(u)), end + 1)) = {Took(u, end + 1)}
  BY WholeNode
<1>15. end + 1 = i + Len(PrintCore[u])
  BY <1>3, <1>5 DEF end
<1> QED BY <1>5, <1>13, <1>14, <1>15

-----------------------------------------------------------------------------

(* A tree that core carries is read back from its core text, wherever the  *)
(* text is in a longer one (print_core_inner, CoreParser).                 *)
THEOREM CoreRoundTrip ==
  ASSUME NEW u \in Trees, Carries("core", u)
  PROVE  CoreReads(u)
<1> DEFINE Good == {v \in Trees : Carries("core", v) => CoreReads(v)}
<1>1. Height \in [Trees -> Nat]
  BY TreesAssumption
<1>2. ASSUME NEW v \in Trees, \A w \in Trees : Height[w] < Height[v] => w \in Good
      PROVE  v \in Good
  <2> SUFFICES ASSUME Carries("core", v) PROVE CoreReads(v)
    OBVIOUS
  <2>1. ~Lost(v, "core") /\ \A w \in PartsOf(v) : Carries("core", w)
    BY CarriesAll
  <2>2. CASE v.tag # "Compound"
    BY <2>1, <2>2, CoreLeafReads
  <2>3. CASE v.tag = "Compound"
    <3>1. \A w \in PartsOf(v) : w \in Trees /\ Height[w] < Height[v]
      BY <2>3, CompoundIs
    <3>2. \A w \in PartsOf(v) : CoreReads(w)
      BY <1>2, <2>1, <3>1
    <3> QED BY <2>3, <3>2, CoreCompoundReads
  <2> QED BY <2>2, <2>3
<1>3. \A v \in Trees : v \in Good
  <2> HIDE DEF Good
  <2> QED BY <1>1, <1>2, RankInduction
<1> QED BY <1>3

-----------------------------------------------------------------------------

(* The strict text of u is read as u, wherever it is before no "(" and     *)
(* no "=".                                                                 *)
StrictReads(u) ==
  \A s \in Seq(Tokens), i \in Place : \A f :
    (/\ IsReader(f, "strict", s) /\ Occurs(PrintStrict[u], s, i)
     /\ Peek(s, i + Len(PrintStrict[u])) \notin {"(", "="}) =>
      /\ f[<<"node", i>>] = {Took(u, i + Len(PrintStrict[u]))}
      /\ Peek(s, i) # ")" /\ ~LooksLikeAttr(s, i)

LEMMA StrictIs ==
  ASSUME NEW u \in Trees
  PROVE  /\ PrintStrict[u] \in Seq(Tokens)
         /\ u.tag # "Compound" => PrintStrict[u] = StrictPieces(u)
         /\ u.tag = "Compound" =>
              PrintStrict[u] = <<u.text, "(">>
                \o Commas(ArgTexts(u, PrintStrict) \o AttrTexts("strict", u, PrintStrict)) \o <<")">>
<1>1. "strict" \in Modes /\ Printer("strict") = PrintStrict
  BY DEF Modes, Printer
<1>2. PrintStrict[u] \in Seq(Tokens) /\ PrintStrict[u] = PrintStep("strict", u, PrintStrict)
  BY <1>1, PrinterIs
<1>3. "strict" # "object" /\ "strict" # "core"
  OBVIOUS
<1> QED BY <1>2, <1>3, Zenon DEF PrintStep

LEMMA StrictLeafReads ==
  ASSUME NEW u \in Trees, u.tag # "Compound", ~Lost(u, "strict")
  PROVE  StrictReads(u)
<1> SUFFICES ASSUME NEW s \in Seq(Tokens), NEW i \in Place, NEW f,
                    IsReader(f, "strict", s), Occurs(PrintStrict[u], s, i),
                    Peek(s, i + Len(PrintStrict[u])) \notin {"(", "="}
             PROVE  /\ f[<<"node", i>>] = {Took(u, i + Len(PrintStrict[u]))}
                    /\ Peek(s, i) # ")" /\ ~LooksLikeAttr(s, i)
  BY Zenon DEF StrictReads
<1> DEFINE w == PrintStrict[u]
<1>1. ReadsAs(u, w, Inside(w[1]), {NoPiece, "(", ")", Comma}) /\ w \in Seq(Tokens)
  <2>1. w = StrictPieces(u) /\ w \in Seq(Tokens)
    BY StrictIs
  <2>2. ReadsAs(u, StrictPieces(u), Inside(StrictPieces(u)[1]), {NoPiece, "(", ")", Comma})
    BY PiecesAssumption, Zenon
  <2> HIDE DEF w
  <2> QED BY <2>1, <2>2, Zenon
<1> HIDE DEF w
<1>2. Len(w) = 1 /\ w[1] \notin {NoPiece, "(", ")", Comma} /\ LeafOf(w[1], Inside(w[1])) = u
  BY <1>1, Zenon DEF ReadsAs
<1>3. i \in Nat /\ Peek(s, i) = w[1] /\ s[i] = w[1]
  <2>1. Len(w) > 0 /\ Occurs(w, s, i)
    BY <1>2 DEF w
  <2> QED BY <1>1, <2>1, OccursFirst
<1>4. Peek(s, i + 1) # "(" /\ Peek(s, i + 1) # "="
  BY <1>2 DEF w
<1>5. StrictNode(s, i, f) = {Took(LeafOf(s[i], Inside(s[i])), i + 1)}
  BY <1>2, <1>3, <1>4 DEF StrictNode
<1>6. f[<<"node", i>>] = StrictNode(s, i, f)
  BY <1>3, RuleIs DEF Rules, Step
<1>7. f[<<"node", i>>] = {Took(u, i + Len(w))}
  BY <1>2, <1>3, <1>5, <1>6
<1>8. ~LooksLikeAttr(s, i)
  BY <1>4 DEF LooksLikeAttr
<1> QED BY <1>2, <1>3, <1>7, <1>8 DEF w

(* An argument, or an attribute, before the parts after it. *)
LEMMA StrictArgReads ==
  ASSUME NEW s \in Seq(Tokens), NEW i \in Place, NEW f, IsReader(f, "strict", s),
         NEW u, StrictReads(u), Occurs(PrintStrict[u], s, i),
         Peek(s, i + Len(PrintStrict[u])) \in {Comma, ")"}
  PROVE  /\ f[<<"parts", i>>] =
              Then(Arg(u), More(s, i + Len(PrintStrict[u]), "parts", ")", f))
         /\ Peek(s, i) # ")"
<1>0. Peek(s, i + Len(PrintStrict[u])) \notin {"(", "="}
  BY MarksArePieces
<1>1. i \in Nat /\ f[<<"node", i>>] = {Took(u, i + Len(PrintStrict[u]))}
       /\ Peek(s, i) # ")" /\ ~LooksLikeAttr(s, i)
  BY <1>0 DEF StrictReads, Place
<1>2. f[<<"parts", i>>] = StrictParts(s, i, f)
  BY <1>1, RuleIs DEF Rules, Step
<1>3. StrictParts(s, i, f) =
        UNION {Then(Arg(r.value), More(s, r.at, "parts", ")", f)) : r \in f[<<"node", i>>]}
  BY <1>1 DEF StrictParts
<1>4. Took(u, i + Len(PrintStrict[u])).value = u
       /\ Took(u, i + Len(PrintStrict[u])).at = i + Len(PrintStrict[u])
  BY DEF Took
<1> DEFINE x == Took(u, i + Len(PrintStrict[u]))
<1>5. f[<<"parts", i>>] = UNION {Then(Arg(r.value), More(s, r.at, "parts", ")", f)) : r \in {x}}
  BY <1>1, <1>2, <1>3, Zenon
<1> HIDE DEF x
<1>6. UNION {Then(Arg(r.value), More(s, r.at, "parts", ")", f)) : r \in {x}}
        = Then(Arg(x.value), More(s, x.at, "parts", ")", f))
  OBVIOUS
<1>7. f[<<"parts", i>>] = Then(Arg(u), More(s, i + Len(PrintStrict[u]), "parts", ")", f))
  BY <1>4, <1>5, <1>6, Zenon DEF x
<1> QED BY <1>1, <1>7

LEMMA StrictAttrReads ==
  ASSUME NEW s \in Seq(Tokens), NEW i \in Place, NEW f, IsReader(f, "strict", s), NEW key,
         IsWord(key), Lead("strict", key) \in Seq(Tokens),
         NEW u, StrictReads(u), PrintStrict[u] \in Seq(Tokens),
         Occurs(Lead("strict", key) \o PrintStrict[u], s, i),
         Peek(s, i + Len(Lead("strict", key) \o PrintStrict[u])) \in {Comma, ")"}
  PROVE  /\ f[<<"parts", i>>] =
              Then(Attr(key, u),
                   More(s, i + Len(Lead("strict", key) \o PrintStrict[u]), "parts", ")", f))
         /\ Peek(s, i) # ")"
<1> DEFINE lead == Lead("strict", key)
           w == PrintStrict[u]
<1>1. lead = <<key, "=">> /\ Len(lead) = 2 /\ lead[1] = key /\ lead[2] = "="
  BY DEF Lead
<1> HIDE DEF lead, w
<1>2. lead \in Seq(Tokens) /\ w \in Seq(Tokens) /\ Occurs(lead \o w, s, i) /\ i \in Nat
  BY DEF lead, w, Place
<1>3. Occurs(lead, s, i) /\ Occurs(w, s, i + 2) /\ i + 2 \in Place
  BY <1>1, <1>2, OccursConcat
<1>4. Peek(s, i) = key /\ s[i] = key /\ Peek(s, i + 1) = "="
  <2>1. Len(lead) > 0 /\ Len(lead) > 1
    BY <1>1
  <2>2. Peek(s, i) = lead[1] /\ s[i] = lead[1]
    BY <1>2, <1>3, <2>1, OccursFirst
  <2>3. Peek(s, i + 1) = lead[2]
    BY <1>2, <1>3, <2>1, OccursSecond
  <2> QED BY <1>1, <2>2, <2>3, Zenon
<1>5. Len(w) \in Nat /\ Len(lead \o w) = 2 + Len(w) /\ i + 2 + Len(w) = i + Len(lead \o w)
  <2>1. Len(w) \in Nat /\ Len(lead \o w) = 2 + Len(w)
    BY <1>1, <1>2
  <2> QED BY <1>2, <2>1
<1>6. f[<<"node", i + 2>>] = {Took(u, i + Len(lead \o w))}
  <2>1. Peek(s, i + 2 + Len(w)) \notin {"(", "="}
    BY <1>5, MarksArePieces DEF lead, w
  <2>2. f[<<"node", i + 2>>] = {Took(u, i + 2 + Len(w))}
    BY <1>3, <2>1 DEF StrictReads, w
  <2> QED BY <1>5, <2>2
<1>7. f[<<"parts", i>>] = StrictParts(s, i, f)
  BY <1>2, RuleIs DEF Rules, Step
<1>8. StrictParts(s, i, f) =
        UNION {Then(Attr(s[i], r.value), More(s, r.at, "parts", ")", f)) : r \in f[<<"node", i + 2>>]}
  BY <1>4 DEF StrictParts, LooksLikeAttr
<1>9. Took(u, i + Len(lead \o w)).value = u /\ Took(u, i + Len(lead \o w)).at = i + Len(lead \o w)
  BY DEF Took
<1> HIDE DEF Took
<1> DEFINE x == Took(u, i + Len(lead \o w))
<1>10. f[<<"parts", i>>] = Then(Attr(key, u), More(s, i + Len(lead \o w), "parts", ")", f))
  <2>1. x.value = u /\ x.at = i + Len(lead \o w)
    BY <1>9
  <2>2. s[i] = key /\ f[<<"node", i + 2>>] = {x}
    BY <1>4, <1>6
  <2> HIDE DEF x
  <2>3. f[<<"parts", i>>] =
          UNION {Then(Attr(s[i], r.value), More(s, r.at, "parts", ")", f)) : r \in {x}}
    BY <2>2, <1>7, <1>8, Zenon
  <2>4. UNION {Then(Attr(s[i], r.value), More(s, r.at, "parts", ")", f)) : r \in {x}}
          = Then(Attr(s[i], x.value), More(s, x.at, "parts", ")", f))
    OBVIOUS
  <2>5. f[<<"parts", i>>] = Then(Attr(s[i], x.value), More(s, x.at, "parts", ")", f))
    BY <2>3, <2>4, Zenon
  <2> QED BY <2>1, <2>2, <2>5, Zenon
<1>11. Peek(s, i) # ")"
  BY <1>4, PiecesAssumption, Zenon
<1> QED BY <1>10, <1>11 DEF lead, w

LEMMA CompoundLost ==
  ASSUME NEW t, NEW m, t.tag = "Compound", ~Lost(t, m)
  PROVE  t.text # NoPiece
<1>1. "Compound" # "Str" /\ "Compound" # "Int" /\ "Compound" # "Real" /\ "Compound" # "Sym"
  OBVIOUS
<1> QED BY <1>1, Zenon DEF Lost
(* After a comma comes the next part; the mark that closes a list ends it. *)
LEMMA MoreIs ==
  ASSUME NEW s, NEW at, NEW next, NEW f, NEW close \in {")", "]", Shut}
  PROVE  /\ Peek(s, at) = Comma => More(s, at, next, close, f) = f[<<next, at + 1>>]
         /\ Peek(s, at) = close => More(s, at, next, close, f) = {Took(NoParts, at + 1)}
<1>1. close # Comma
  BY MarksArePieces
<1> QED BY <1>1, Zenon DEF More

(* The arguments and attributes of a node, with commas between. *)
LEMMA StrictListReads ==
  ASSUME NEW u \in Trees, u.tag = "Compound", \A v \in PartsOf(u) : StrictReads(v),
         NEW s \in Seq(Tokens), NEW i \in Place, NEW f, IsReader(f, "strict", s),
         NEW parts, ArePartTexts("strict", u, PrintStrict, parts), Len(parts) # 0,
         NEW end \in Place, Peek(s, end) = ")", NEW at, Joined(parts, s, at, i, end)
  PROVE  /\ f[<<"parts", i>>] = {Took(Parts(<< >>, u.args, PairsOf(u)), end + 1)}
         /\ Peek(s, i) # ")"
<1> DEFINE a == Len(u.args)
           b == Len(AttrsInOrder(u))
           n == a + b
           Good == {k \in 1 .. n : f[<<"parts", at[k]>>] = {Took(From(<< >>, u, k), end + 1)}
                                     /\ Peek(s, at[k]) # ")"}
           after(k) == at[k] + Len(parts[k])
           more(k) == More(s, after(k), "parts", ")", f)
<1>0. \A v \in PartsOf(u) : PrintStrict[v] \in Seq(Tokens) /\ StrictReads(v)
  BY CompoundIs, StrictIs
<1>1. /\ parts \in Seq(Seq(Tokens)) /\ Len(parts) = n
      /\ \A k \in 1 .. a : parts[k] = PrintStrict[u.args[k]]
      /\ \A k \in 1 .. b : parts[a + k] = Lead("strict", AttrsInOrder(u)[k])
                                            \o PrintStrict[u.attrs[AttrsInOrder(u)[k]]]
  BY DEF ArePartTexts
<1>2. a \in Nat /\ b \in Nat
  BY CompoundIs DEF Ordered
<1>3. end \in Nat
  BY DEF Place
<1> HIDE DEF a, b
<1>4. /\ at[1] = i /\ at[n + 1] = end + 1
      /\ \A k \in 1 .. n : at[k] \in Place /\ at[k] \in Nat
      /\ \A k \in 1 .. n : Occurs(parts[k], s, at[k]) /\ at[k + 1] = after(k) + 1
      /\ \A k \in 1 .. n : k < n => Peek(s, after(k)) = Comma
      /\ \A k \in 1 .. n : after(k) \in Nat
  <2>1. /\ at \in [1 .. n + 1 -> Place] /\ at[1] = i /\ at[n + 1] = end + 1
        /\ \A k \in 1 .. n : Occurs(parts[k], s, at[k])
        /\ \A k \in 1 .. n : at[k + 1] = at[k] + Len(parts[k]) + 1
        /\ \A k \in 1 .. n : k < n => Peek(s, at[k] + Len(parts[k])) = Comma
    BY <1>1 DEF Joined
  <2>2. \A k \in 1 .. n : at[k] \in Place /\ at[k] \in Nat
    BY <1>2, <2>1 DEF Place
  <2>3. \A k \in 1 .. n : Len(parts[k]) \in Nat
    BY <1>1
  <2>4. \A k \in 1 .. n : after(k) \in Nat
    BY <2>2, <2>3
  <2> QED BY <2>1, <2>2, <2>4
<1>5. ASSUME NEW k \in 1 .. n, k < n => k + 1 \in Good
      PROVE  more(k) = {Took(From(<< >>, u, k + 1), end + 1)} /\ Peek(s, after(k)) \in {Comma, ")"}
  <2>1. CASE k < n
    <3>1. Peek(s, after(k)) = Comma /\ at[k + 1] = after(k) + 1
      BY <1>4, <2>1
    <3>2. f[<<"parts", at[k + 1]>>] = {Took(From(<< >>, u, k + 1), end + 1)}
      BY <1>5, <2>1
    <3>3. more(k) = f[<<"parts", after(k) + 1>>]
      <4>1. ")" \in {")", "]", Shut}
        OBVIOUS
      <4> HIDE DEF after
      <4> QED BY <3>1, <4>1, MoreIs
    <3> QED BY <3>1, <3>2, <3>3
  <2>2. CASE k = n
    <3>1. end = after(k)
      <4>1. at[k + 1] = end + 1 /\ at[k + 1] = after(k) + 1 /\ after(k) \in Nat
        BY <1>4, <2>2
      <4> HIDE DEF after
      <4> QED BY <4>1, <1>3
    <3>2. more(k) = {Took(NoParts, after(k) + 1)}
      <4>1. Peek(s, after(k)) = ")" /\ ")" # Comma
        BY <3>1, MarksArePieces
      <4> QED BY <4>1, Zenon DEF More
    <3>3. From(<< >>, u, k + 1) = NoParts
      <4>1. From(<< >>, u, n + 1) = NoParts
        BY FromEnd DEF a, b
      <4> QED BY <2>2, <4>1
    <3> HIDE DEF after
    <3> QED BY <3>1, <3>2, <3>3
  <2> QED BY <1>2, <2>1, <2>2
<1>6. ASSUME NEW k \in 1 .. n, k < n => k + 1 \in Good
      PROVE  k \in Good
  <2>0. /\ more(k) = {Took(From(<< >>, u, k + 1), end + 1)} /\ Peek(s, after(k)) \in {Comma, ")"}
        /\ at[k] \in Place /\ Occurs(parts[k], s, at[k])
    BY <1>4, <1>5, <1>6
  <2>1. CASE k <= a
    <3>1. k \in 1 .. a /\ k \in 1 .. Len(u.args)
      BY <1>2, <2>1 DEF a
    <3> DEFINE v == u.args[k]
    <3>2. v \in PartsOf(u)
      BY <3>1, CompoundIs
    <3> HIDE DEF v
    <3>3. parts[k] = PrintStrict[v]
      BY <1>1, <3>1 DEF v, a
    <3>4. f[<<"parts", at[k]>>] = Then(Arg(v), more(k)) /\ Peek(s, at[k]) # ")"
      <4>1. Occurs(PrintStrict[v], s, at[k]) /\ Peek(s, at[k] + Len(PrintStrict[v])) \in {Comma, ")"}
        BY <2>0, <3>3
      <4>2. f[<<"parts", at[k]>>] = Then(Arg(v), More(s, at[k] + Len(PrintStrict[v]), "parts", ")", f))
              /\ Peek(s, at[k]) # ")"
        BY <1>0, <2>0, <3>2, <4>1, StrictArgReads
      <4> QED BY <3>3, <4>2
    <3>5. Then(Arg(v), {Took(From(<< >>, u, k + 1), end + 1)}) = {Took(From(<< >>, u, k), end + 1)}
      BY <3>1, FromArg DEF v
    <3> HIDE DEF more
    <3> QED BY <2>0, <3>4, <3>5
  <2>2. CASE k > a
    <3> DEFINE j == k - a
               key == AttrsInOrder(u)[j]
               v == u.attrs[key]
    <3>1. j \in 1 .. b /\ k = a + j /\ k + 1 = a + j + 1
      BY <1>2, <2>2
    <3> HIDE DEF j
    <3>2. key \in DOMAIN u.attrs /\ key \in STRING /\ key \in Words /\ IsWord(key) /\ v \in PartsOf(u)
      BY <3>1, KeyIsWord, CompoundIs DEF b
    <3>3. parts[k] = Lead("strict", key) \o PrintStrict[v]
      BY <1>1, <3>1 DEF a, b
    <3> HIDE DEF key, v
    <3>4. f[<<"parts", at[k]>>] = Then(Attr(key, v), more(k)) /\ Peek(s, at[k]) # ")"
      <4>1. Occurs(Lead("strict", key) \o PrintStrict[v], s, at[k])
              /\ Peek(s, at[k] + Len(Lead("strict", key) \o PrintStrict[v])) \in {Comma, ")"}
        BY <2>0, <3>3
      <4>2. Lead("strict", key) \in Seq(Tokens)
        BY <3>2, LeadTyped
      <4>3. f[<<"parts", at[k]>>] =
              Then(Attr(key, v),
                   More(s, at[k] + Len(Lead("strict", key) \o PrintStrict[v]), "parts", ")", f))
              /\ Peek(s, at[k]) # ")"
        BY <1>0, <2>0, <3>2, <4>1, <4>2, StrictAttrReads
      <4> QED BY <3>3, <4>3
    <3>5. Then(Attr(key, v), {Took(From(<< >>, u, k + 1), end + 1)})
            = {Took(From(<< >>, u, k), end + 1)}
      <4>1. Then(Attr(key, v), {Took(From(<< >>, u, Len(u.args) + j + 1), end + 1)})
              = {Took(From(<< >>, u, Len(u.args) + j), end + 1)}
        <5>1. j \in 1 .. Len(AttrsInOrder(u))
          BY <3>1 DEF b
        <5> QED BY <5>1, FromAttr, Zenon DEF key, v
      <4> QED BY <3>1, <4>1 DEF a
    <3> HIDE DEF more
    <3> QED BY <2>0, <3>4, <3>5
  <2> QED BY <1>2, <2>1, <2>2
<1>7. n \in Nat /\ n > 0
  BY <1>1, <1>2
<1>8. n \in Good /\ \A k \in 1 .. n : k < n /\ k + 1 \in Good => k \in Good
  <2>1. n \in 1 .. n /\ ~(n < n)
    BY <1>7
  <2> HIDE DEF Good, n
  <2> QED BY <1>6, <2>1
<1>9. 1 \in Good
  <2>1. 1 \in 1 .. n
    BY <1>7
  <2> HIDE DEF Good, n
  <2> QED BY <1>7, <1>8, <2>1, Downward
<1> QED BY <1>4, <1>9, FromStart
LEMMA StrictCompoundReads ==
  ASSUME NEW u \in Trees, u.tag = "Compound", ~Lost(u, "strict"),
         \A v \in PartsOf(u) : StrictReads(v)
  PROVE  StrictReads(u)
<1> SUFFICES ASSUME NEW s \in Seq(Tokens), NEW i \in Place, NEW f,
                    IsReader(f, "strict", s), Occurs(PrintStrict[u], s, i)
             PROVE  /\ f[<<"node", i>>] = {Took(u, i + Len(PrintStrict[u]))}
                    /\ Peek(s, i) # ")" /\ ~LooksLikeAttr(s, i)
  BY Zenon DEF StrictReads
<1> DEFINE parts == ArgTexts(u, PrintStrict) \o AttrTexts("strict", u, PrintStrict)
           list == Commas(parts)
           end == i + 2 + Len(list)
<1>1. ArePartTexts("strict", u, PrintStrict, parts)
  <2>1. \A v \in PartsOf(u) : PrintStrict[v] \in Seq(Tokens)
    BY CompoundIs, StrictIs
  <2> QED BY <2>1, PartTextsAre
<1> HIDE DEF parts
<1>2. parts \in Seq(Seq(Tokens)) /\ list \in Seq(Tokens)
  BY <1>1, CommasTyped DEF ArePartTexts
<1>3. PrintStrict[u] = <<u.text, "(">> \o list \o <<")">>
  BY StrictIs, Zenon DEF parts
<1> HIDE DEF list
<1>4. /\ i \in Nat /\ Peek(s, i) = u.text /\ s[i] = u.text /\ Peek(s, i + 1) = "("
      /\ i + 2 \in Place /\ Occurs(list, s, i + 2) /\ end \in Place
      /\ Peek(s, end) = ")" /\ Len(PrintStrict[u]) = Len(list) + 3
  <2>1. "(" \in Tokens /\ ")" \in Tokens /\ u.text \in Tokens
    BY CompoundIs, StringsAreTokens
  <2>2. Occurs(<<u.text, "(">> \o list \o <<")">>, s, i)
    BY <1>3
  <2> DEFINE a == u.text
             b == "("
             z == ")"
  <2>3. /\ i \in Nat /\ Peek(s, i) = a /\ s[i] = a /\ Peek(s, i + 1) = b
        /\ i + 2 \in Place /\ Occurs(list, s, i + 2)
        /\ i + 2 + Len(list) \in Place /\ Peek(s, i + 2 + Len(list)) = z
        /\ Len(<<a, b>> \o list \o <<z>>) = Len(list) + 3
    <3>1. a \in Tokens /\ b \in Tokens /\ z \in Tokens /\ Occurs(<<a, b>> \o list \o <<z>>, s, i)
      BY <2>1, <2>2
    <3> HIDE DEF a, b, z
    <3> QED BY <1>2, <3>1, OccursAround
  <2> QED BY <1>3, <2>3
<1>5. u.text # NoPiece /\ u.text # ")"
  BY CompoundLost, PiecesAssumption, Zenon
<1> DEFINE read == IF Peek(s, i + 2) = ")" THEN {Took(NoParts, i + 3)} ELSE f[<<"parts", i + 2>>]
<1>6. f[<<"node", i>>] = UNION {NodeAt(s[i], r) : r \in read}
  <2>1. f[<<"node", i>>] = StrictNode(s, i, f)
    BY <1>4, RuleIs DEF Rules, Step
  <2>2. Peek(s, i) # NoPiece /\ Peek(s, i + 1) = "("
    BY <1>4, <1>5
  <2> QED BY <2>1, <2>2, Zenon DEF StrictNode
<1>7. read = {Took(Parts(<< >>, u.args, PairsOf(u)), end + 1)}
  <2>1. CASE Len(parts) = 0
    <3>1. list = << >> /\ Len(list) = 0
      <4>1. parts = << >>
        BY <1>2, <2>1
      <4>2. list = << >>
        BY <4>1, CommasNone DEF list
      <4> QED BY <4>2
    <3>2. end = i + 2 /\ end + 1 = i + 3
      BY <1>4, <3>1
    <3>3. read = {Took(NoParts, end + 1)}
      <4> HIDE DEF end
      <4> QED BY <1>4, <3>2
    <3>4. NoParts = Parts(<< >>, u.args, PairsOf(u))
      <4>1. Len(u.args) = 0 /\ Len(AttrsInOrder(u)) = 0
        BY <1>1, <2>1, CompoundIs DEF ArePartTexts, Ordered
      <4>2. From(<< >>, u, 0 + 0 + 1) = NoParts
        BY <4>1, FromEnd
      <4>3. From(<< >>, u, 1) = NoParts
        BY <4>2
      <4> QED BY <4>3, FromStart
    <3> HIDE DEF read
    <3> QED BY <3>3, <3>4
  <2>2. CASE Len(parts) # 0
    <3>1. PICK at : Joined(parts, s, at, i + 2, end)
      BY <1>2, <1>4, <2>2, CommasJoined DEF list
    <3>2. /\ f[<<"parts", i + 2>>] = {Took(Parts(<< >>, u.args, PairsOf(u)), end + 1)}
          /\ Peek(s, i + 2) # ")"
      <4>1. i + 2 \in Place /\ end \in Place /\ Peek(s, end) = ")"
        BY <1>4
      <4> HIDE DEF end
      <4> QED BY <1>1, <2>2, <3>1, <4>1, StrictListReads
    <3> QED BY <3>2
  <2> QED BY <2>1, <2>2
<1> HIDE DEF read
<1>8. f[<<"node", i>>] = NodeAt(u.text, Took(Parts(<< >>, u.args, PairsOf(u)), end + 1))
  BY <1>4, <1>6, <1>7
<1>9. NodeAt(u.text, Took(Parts(<< >>, u.args, PairsOf(u)), end + 1)) = {Took(u, end + 1)}
  BY WholeNode
<1>10. end + 1 = i + Len(PrintStrict[u])
  BY <1>2, <1>4
<1>11. ~LooksLikeAttr(s, i)
  <2>1. "(" # "="
    OBVIOUS
  <2> QED BY <1>4, <2>1, Zenon DEF LooksLikeAttr
<1> HIDE DEF end
<1> QED BY <1>4, <1>5, <1>8, <1>9, <1>10, <1>11

-----------------------------------------------------------------------------

(* A tree that strict carries is read back from its strict text, before    *)
(* anything but "(" and "=" (print_strict_inner, StrictParser).            *)
THEOREM StrictRoundTrip ==
  ASSUME NEW u \in Trees, Carries("strict", u)
  PROVE  StrictReads(u)
<1> DEFINE Good == {v \in Trees : Carries("strict", v) => StrictReads(v)}
<1>1. Height \in [Trees -> Nat]
  BY TreesAssumption
<1>2. ASSUME NEW v \in Trees, \A w \in Trees : Height[w] < Height[v] => w \in Good
      PROVE  v \in Good
  <2> SUFFICES ASSUME Carries("strict", v) PROVE StrictReads(v)
    OBVIOUS
  <2>1. ~Lost(v, "strict") /\ \A w \in PartsOf(v) : Carries("strict", w)
    BY CarriesAll
  <2>2. CASE v.tag # "Compound"
    BY <2>1, <2>2, StrictLeafReads
  <2>3. CASE v.tag = "Compound"
    <3>1. \A w \in PartsOf(v) : w \in Trees /\ Height[w] < Height[v]
      BY <2>3, CompoundIs
    <3>2. \A w \in PartsOf(v) : StrictReads(w)
      BY <1>2, <2>1, <3>1
    <3> QED BY <2>1, <2>3, <3>2, StrictCompoundReads
  <2> QED BY <2>2, <2>3
<1>3. \A v \in Trees : v \in Good
  <2> HIDE DEF Good
  <2> QED BY <1>1, <1>2, RankInduction
<1> QED BY <1>3

-----------------------------------------------------------------------------
(* One piece, what is between, and the mark that ends it. *)
LEMMA OccursBetween ==
  ASSUME NEW s \in Seq(Tokens), NEW i \in Place, NEW a \in Tokens,
         NEW w \in Seq(Tokens), NEW z \in Tokens, Occurs(<<a>> \o w \o <<z>>, s, i)
  PROVE  /\ i \in Nat /\ Peek(s, i) = a /\ s[i] = a
         /\ i + 1 \in Place /\ Occurs(w, s, i + 1)
         /\ i + 1 + Len(w) \in Place /\ Peek(s, i + 1 + Len(w)) = z
         /\ Len(<<a>> \o w \o <<z>>) = Len(w) + 2
<1>0. <<a>> \in Seq(Tokens) /\ <<z>> \in Seq(Tokens) /\ Len(<<a>>) = 1 /\ Len(<<z>>) = 1
       /\ <<a>>[1] = a /\ <<z>>[1] = z
  OBVIOUS
<1> DEFINE head == <<a>>
           end == <<z>>
<1> HIDE DEF head, end
<1>1. /\ head \in Seq(Tokens) /\ end \in Seq(Tokens) /\ Len(head) = 1 /\ Len(end) = 1
      /\ head[1] = a /\ end[1] = z /\ Occurs((head \o w) \o end, s, i)
  BY <1>0 DEF head, end
<1>2. head \o w \in Seq(Tokens) /\ Len(head \o w) = 1 + Len(w) /\ Len(w) \in Nat
       /\ Len((head \o w) \o end) = Len(w) + 2
  <2>1. head \o w \in Seq(Tokens) /\ Len(head \o w) = 1 + Len(w) /\ Len(w) \in Nat
    <3>1. head \o w \in Seq(Tokens) /\ Len(head \o w) = Len(head) + Len(w)
      BY <1>1, ConcatProperties
    <3>2. Len(w) \in Nat /\ Len(head) = 1
      BY <1>1
    <3> QED BY <3>1, <3>2, Zenon
  <2>2. Len((head \o w) \o end) = Len(head \o w) + Len(end)
    BY <1>1, <2>1, ConcatProperties
  <2>3. Len(end) = 1 /\ 1 + Len(w) + 1 = Len(w) + 2
    BY <1>1, <2>1
  <2> QED BY <2>1, <2>2, <2>3, Zenon
<1>3. Occurs(head \o w, s, i) /\ Occurs(end, s, i + Len(head \o w)) /\ i + Len(head \o w) \in Place
  BY <1>1, <1>2, OccursConcat
<1>4. Occurs(head, s, i) /\ Occurs(w, s, i + Len(head)) /\ i + Len(head) \in Place
  BY <1>1, <1>3, OccursConcat
<1>5. i \in Nat /\ Peek(s, i) = a /\ s[i] = a
  <2>1. Len(head) > 0
    BY <1>1
  <2>2. i \in Nat /\ Peek(s, i) = head[1] /\ s[i] = head[1]
    BY <1>1, <1>4, <2>1, OccursFirst
  <2> QED BY <1>1, <2>2, Zenon
<1>6. Peek(s, i + Len(head \o w)) = z
  BY <1>1, <1>3, OccursFirst
<1>7. i + Len(head \o w) = i + 1 + Len(w)
  BY <1>2, <1>5
<1> QED BY <1>1, <1>2, <1>3, <1>4, <1>5, <1>6, <1>7 DEF head, end

(* A member, or a string, is in the text s at place i. *)
HasMember(key, w, s, i) ==
  key \in Words /\ w \in Seq(Tokens) /\ i \in Place /\ Occurs(<<Quoted(key), ":">> \o w, s, i)

HasString(value, s, i) == value \in Words /\ i \in Place /\ Occurs(<<Quoted(value)>>, s, i)

(* A key and its colon are read, and what it is the key of comes next. *)
LEMMA KeyedIs ==
  ASSUME NEW s \in Seq(Tokens), NEW i, NEW key, NEW w, HasMember(key, w, s, i)
  PROVE  /\ Keyed(s, i) = {Took(key, i + 2)} /\ Peek(s, i) # Shut
         /\ i \in Nat /\ i + 2 \in Place /\ i + 2 \in Nat /\ Occurs(w, s, i + 2)
         /\ Len(<<Quoted(key), ":">> \o w) = Len(w) + 2
<1> USE DEF HasMember
<1> DEFINE lead == <<Quoted(key), ":">>
<1>0. lead \in Seq(Tokens) /\ Len(lead) = 2 /\ lead[1] = Quoted(key) /\ lead[2] = ":"
       /\ Len(lead) > 0 /\ Len(lead) > 1
  <2>1. lead \in Seq(Tokens)
    BY MemberTyped
  <2>2. Len(lead) = 2 /\ lead[1] = Quoted(key) /\ lead[2] = ":"
    OBVIOUS
  <2> HIDE DEF lead
  <2> QED BY <2>1, <2>2
<1> HIDE DEF lead
<1>1. Occurs(lead, s, i) /\ Occurs(w, s, i + Len(lead)) /\ i + Len(lead) \in Place
  BY <1>0, OccursConcat DEF lead
<1>2. i \in Nat /\ Peek(s, i) = Quoted(key) /\ s[i] = Quoted(key)
  BY <1>0, <1>1, OccursFirst
<1>3. Peek(s, i + 1) = ":"
  BY <1>0, <1>1, OccursSecond
<1>4. IsQuoted(Quoted(key)) /\ Unescape(Inside(Quoted(key))) = key
  BY QuotedIs
<1>5. ReadString(s, i) = {Took(key, i + 1)}
  BY <1>2, <1>4, Zenon DEF ReadString
<1> DEFINE x == Took(key, i + 1)
<1>6. x.value = key /\ x.at = i + 1 /\ x.at + 1 = i + 2
  BY <1>2 DEF Took
<1>7. Keyed(s, i) = {Took(key, i + 2)}
  <2>1. ReadString(s, i) = {x}
    BY <1>5
  <2>2. Peek(s, x.at) = ":"
    BY <1>3, <1>6, Zenon
  <2> HIDE DEF x
  <2>3. Keyed(s, i) = {Took(k.value, k.at + 1) : k \in {k \in {x} : Peek(s, k.at) = ":"}}
    BY <2>1, Zenon DEF Keyed
  <2>4. {k \in {x} : Peek(s, k.at) = ":"} = {x}
    BY <2>2
  <2>5. Keyed(s, i) = {Took(x.value, x.at + 1)}
    BY <2>3, <2>4
  <2> QED BY <1>6, <2>5, Zenon
<1>8. Peek(s, i) # Shut
  BY <1>2, <1>4, PiecesAssumption, Zenon
<1>9. Len(lead \o w) = Len(w) + 2
  <2>1. Len(lead \o w) = Len(lead) + Len(w)
    BY <1>0, ConcatProperties
  <2>2. Len(w) \in Nat
    OBVIOUS
  <2> QED BY <1>0, <2>1, <2>2
<1> QED BY <1>0, <1>1, <1>2, <1>7, <1>8, <1>9 DEF lead, Place

(* The string of a member is read. *)
GivesString(s, key, i, f, value) ==
  MemberValue(s, key, i, f) = {Took(Parts(<<<<key, value>>>>, << >>, << >>), i + 1)}

LEMMA StringValue ==
  ASSUME NEW s \in Seq(Tokens), NEW i \in Nat, NEW value, HasString(value, s, i),
         NEW key \in {"atom", "value", "head"}, NEW f
  PROVE  GivesString(s, key, i, f, value)
<1> USE DEF HasString
<1> DEFINE w == <<Quoted(value)>>
<1>1. w \in Seq(Tokens) /\ Len(w) > 0 /\ w[1] = Quoted(value)
  <2>1. "atom" \in Words
    BY WordsAre
  <2>2. w \in Seq(Tokens)
    BY <2>1, StringTyped
  <2>3. Len(w) = 1 /\ w[1] = Quoted(value)
    OBVIOUS
  <2> QED BY <2>2, <2>3
<1> HIDE DEF w
<1>2. Peek(s, i) = Quoted(value) /\ s[i] = Quoted(value)
  BY <1>1, OccursFirst DEF w
<1>3. ReadString(s, i) = {Took(value, i + 1)}
  BY <1>2, QuotedIs, Zenon DEF ReadString
<1>4. MemberValue(s, key, i, f)
        = {Took(Parts(<<<<key, r.value>>>>, << >>, << >>), r.at) : r \in ReadString(s, i)}
  <2>1. key # "args" /\ key # "attrs"
    OBVIOUS
  <2> QED BY <2>1, Zenon DEF MemberValue
<1> DEFINE x == Took(value, i + 1)
<1>5. x.value = value /\ x.at = i + 1
  BY DEF Took
<1>6. MemberValue(s, key, i, f) = {Took(Parts(<<<<key, r.value>>>>, << >>, << >>), r.at) : r \in {x}}
  BY <1>3, <1>4, Zenon
<1> HIDE DEF x
<1>7. MemberValue(s, key, i, f) = {Took(Parts(<<<<key, x.value>>>>, << >>, << >>), x.at)}
  BY <1>6
<1> QED BY <1>5, <1>7, Zenon DEF GivesString

(* The value of a member is read as part, up to e. *)
Gives(s, key, i, f, part, e) == MemberValue(s, key, i + 2, f) = {Took(part, e)}

(* The members after a member, or the end of the object. *)
GoesOn(s, f, e, rest, z) ==
  \/ Peek(s, e) = Comma /\ f[<<"parts", e + 1>>] = {Took(rest, z)}
  \/ Peek(s, e) = Shut /\ rest = NoParts /\ z = e + 1

LEMMA MemberThen ==
  ASSUME NEW s \in Seq(Tokens), NEW i, NEW f, IsReader(f, "object", s),
         NEW key, NEW w, HasMember(key, w, s, i),
         NEW part, NEW e \in Nat, Gives(s, key, i, f, part, e),
         NEW rest, NEW z, GoesOn(s, f, e, rest, z),
         NEW whole, IsWhole(part, rest, whole)
  PROVE  f[<<"parts", i>>] = {Took(whole, z)}
<1> DEFINE k == Took(key, i + 2)
           x == Took(part, e)
<1>1. /\ Keyed(s, i) = {k} /\ Peek(s, i) # Shut /\ i \in Nat
      /\ k.value = key /\ k.at = i + 2 /\ x.value = part /\ x.at = e
  <2>1. Keyed(s, i) = {Took(key, i + 2)} /\ Peek(s, i) # Shut /\ i \in Nat
    BY KeyedIs
  <2>2. k.value = key /\ k.at = i + 2 /\ x.value = part /\ x.at = e
    BY DEF Took
  <2> QED BY <2>1, <2>2
<1>2. f[<<"parts", i>>] = Members(s, i, f)
  BY <1>1, RuleIs DEF Rules, Step
<1>3. Members(s, i, f) = UNION {AfterKey(s, q, f) : q \in Keyed(s, i)}
  BY <1>1, Zenon DEF Members, AfterKey
<1> HIDE DEF k
<1>4. Members(s, i, f) = AfterKey(s, k, f)
  <2>1. Members(s, i, f) = UNION {AfterKey(s, q, f) : q \in {k}}
    BY <1>1, <1>3, Zenon
  <2>2. UNION {AfterKey(s, q, f) : q \in {k}} = AfterKey(s, k, f)
    OBVIOUS
  <2> QED BY <2>1, <2>2, Zenon
<1>5. MemberValue(s, k.value, k.at, f) = {x}
  BY <1>1, Zenon DEF Gives
<1> HIDE DEF x
<1>6. AfterKey(s, k, f) = Then(x.value, f[<<"parts", AfterComma(s, x.at)>>])
  <2>1. AfterKey(s, k, f) = UNION {Then(r.value, f[<<"parts", AfterComma(s, r.at)>>]) : r \in {x}}
    BY <1>5, Zenon DEF AfterKey
  <2>2. UNION {Then(r.value, f[<<"parts", AfterComma(s, r.at)>>]) : r \in {x}}
          = Then(x.value, f[<<"parts", AfterComma(s, x.at)>>])
    OBVIOUS
  <2> QED BY <2>1, <2>2, Zenon
<1>7. f[<<"parts", i>>] = Then(part, f[<<"parts", AfterComma(s, e)>>])
  BY <1>1, <1>2, <1>4, <1>6, Zenon
<1>8. f[<<"parts", AfterComma(s, e)>>] = {Took(rest, z)}
  <2>1. CASE Peek(s, e) = Comma /\ f[<<"parts", e + 1>>] = {Took(rest, z)}
    BY <2>1, Zenon DEF AfterComma
  <2>2. CASE Peek(s, e) = Shut /\ rest = NoParts /\ z = e + 1
    <3>1. AfterComma(s, e) = e
      <4>1. Shut # Comma
        BY MarksArePieces
      <4> QED BY <2>2, <4>1, Zenon DEF AfterComma
    <3>2. f[<<"parts", e>>] = Members(s, e, f)
      BY RuleIs DEF Rules, Step
    <3>3. Members(s, e, f) = {Took(NoParts, e + 1)}
      BY <2>2, Zenon DEF Members
    <3> QED BY <2>2, <3>1, <3>2, <3>3, Zenon
  <2> QED BY <2>1, <2>2 DEF GoesOn
<1>9. Then(part, {Took(rest, z)}) = {Took(whole, z)}
  BY ThenIs
<1> QED BY <1>7, <1>8, <1>9, Zenon
(* Where the parts are, and what is after each of them. *)
Spaced(parts, s, at, end) ==
  \A k \in 1 .. Len(parts) :
    /\ at[k] \in Place /\ at[k] \in Nat /\ Occurs(parts[k], s, at[k])
    /\ at[k] + Len(parts[k]) \in Nat /\ at[k + 1] = at[k] + Len(parts[k]) + 1
    /\ k < Len(parts) => Peek(s, at[k] + Len(parts[k])) = Comma
    /\ k = Len(parts) => at[k] + Len(parts[k]) = end

LEMMA JoinedSpaced ==
  ASSUME NEW parts \in Seq(Seq(Tokens)), NEW s, NEW at, NEW i, NEW end \in Nat,
         Joined(parts, s, at, i, end)
  PROVE  Spaced(parts, s, at, end)
<1> SUFFICES ASSUME NEW k \in 1 .. Len(parts)
             PROVE  /\ at[k] \in Place /\ at[k] \in Nat /\ Occurs(parts[k], s, at[k])
                    /\ at[k] + Len(parts[k]) \in Nat /\ at[k + 1] = at[k] + Len(parts[k]) + 1
                    /\ k < Len(parts) => Peek(s, at[k] + Len(parts[k])) = Comma
                    /\ k = Len(parts) => at[k] + Len(parts[k]) = end
  BY DEF Spaced
<1> DEFINE n == Len(parts)
           l == Len(parts[k])
<1>1. n \in Nat /\ k \in 1 .. n /\ l \in Nat
  OBVIOUS
<1>2. /\ at \in [1 .. n + 1 -> Place] /\ at[n + 1] = end + 1
      /\ Occurs(parts[k], s, at[k]) /\ at[k + 1] = at[k] + l + 1
      /\ k < n => Peek(s, at[k] + l) = Comma
  BY DEF Joined
<1> HIDE DEF n, l
<1>3. at[k] \in Place /\ at[k] \in Nat
  BY <1>1, <1>2 DEF Place
<1>4. at[k] + l \in Nat
  BY <1>1, <1>3
<1>5. k = n => at[k] + l = end
  <2> DEFINE x == at[k] + l
  <2>1. x \in Nat /\ (k = n => x + 1 = end + 1)
    BY <1>2, <1>4
  <2> HIDE DEF x
  <2>2. k = n => x = end
    BY <2>1
  <2> QED BY <2>2 DEF x
<1> QED BY <1>2, <1>3, <1>4, <1>5 DEF n, l

(* The k-th of the parts is a member, after which rest is read. *)
IsMember(parts, k, key, w) ==
  /\ k \in 1 .. Len(parts) /\ key \in Words /\ w \in Seq(Tokens)
  /\ parts[k] = <<Quoted(key), ":">> \o w

Follows(parts, at, end, k, f, rest) ==
  /\ k < Len(parts) => f[<<"parts", at[k + 1]>>] = {Took(rest, end + 1)}
  /\ k = Len(parts) => rest = NoParts

(* The members of an object, up to its end. *)
Listed(parts, s, at, end, f) ==
  /\ parts \in Seq(Seq(Tokens)) /\ s \in Seq(Tokens) /\ end \in Nat
  /\ Spaced(parts, s, at, end) /\ Peek(s, end) = Shut /\ IsReader(f, "object", s)

MemberCase(parts, s, at, end, f, k, key, w, part, rest, whole) ==
  /\ Listed(parts, s, at, end, f) /\ IsMember(parts, k, key, w)
  /\ Gives(s, key, at[k], f, part, at[k] + Len(parts[k]))
  /\ Follows(parts, at, end, k, f, rest) /\ IsWhole(part, rest, whole)

LEMMA MemberAt ==
  ASSUME NEW parts, NEW s, NEW at, NEW end, NEW f, NEW k, NEW key, NEW w, NEW part, NEW rest,
         NEW whole, MemberCase(parts, s, at, end, f, k, key, w, part, rest, whole)
  PROVE  f[<<"parts", at[k]>>] = {Took(whole, end + 1)}
<1> USE DEF MemberCase, Listed
<1> DEFINE e == at[k] + Len(parts[k])
           here == at[k]
           z == end + 1
           n == Len(parts)
<1>1. /\ k \in 1 .. n /\ n \in Nat /\ key \in Words /\ w \in Seq(Tokens)
      /\ parts[k] = <<Quoted(key), ":">> \o w
  BY DEF IsMember
<1>2. /\ here \in Place /\ Occurs(<<Quoted(key), ":">> \o w, s, here)
      /\ e \in Nat /\ at[k + 1] = e + 1
      /\ k < n => Peek(s, e) = Comma
      /\ k = n => e = end
  BY <1>1 DEF Spaced
<1>3. Gives(s, key, here, f, part, e)
  OBVIOUS
<1>4. GoesOn(s, f, e, rest, z)
  <2>1. k < n \/ k = n
    BY <1>1
  <2>2. CASE k < n
    BY <1>2, <2>2 DEF GoesOn, Follows
  <2>3. CASE k = n
    <3>1. e = end /\ rest = NoParts
      BY <1>2, <2>3 DEF Follows
    <3> HIDE DEF e
    <3> QED BY <3>1, <2>3 DEF GoesOn
  <2> QED BY <2>1, <2>2, <2>3
<1> HIDE DEF e, here, z
<1>5. f[<<"parts", here>>] = {Took(whole, z)}
  <2>1. HasMember(key, w, s, here)
    BY <1>1, <1>2 DEF HasMember
  <2>2. e \in Nat
    BY <1>2
  <2> QED BY <1>3, <1>4, <2>1, <2>2, MemberThen
<1> QED BY <1>5 DEF here, z

(* The object text of u is read as u, wherever it is. *)
ObjectReads(u) ==
  \A s \in Seq(Tokens), i \in Place : \A f :
    (IsReader(f, "object", s) /\ Occurs(PrintObject[u], s, i)) =>
      f[<<"node", i>>] = {Took(u, i + Len(PrintObject[u]))} /\ Peek(s, i) = Open

(* The members of u as its text gives them, and what is read of them. *)
Body(u) == Commas(MemberTexts(u, PrintObject))

Seen(u) ==
  IF u.tag # "Compound"
  THEN Parts(<<<<"atom", AtomTags[u.tag]>>, <<"value", u.text>>>>, << >>, << >>)
  ELSE Parts(<<<<"head", u.text>>>>, u.args, PairsOf(u))

MembersRead(u) ==
  \A s \in Seq(Tokens), i \in Place : \A f :
    (/\ IsReader(f, "object", s) /\ Occurs(Body(u), s, i)
     /\ Peek(s, i + Len(Body(u))) = Shut) =>
      f[<<"parts", i>>] = {Took(Seen(u), i + Len(Body(u)) + 1)}

LEMMA ObjectIs ==
  ASSUME NEW u \in Trees
  PROVE  /\ PrintObject[u] \in Seq(Tokens) /\ Body(u) \in Seq(Tokens)
         /\ MemberTexts(u, PrintObject) \in Seq(Seq(Tokens))
         /\ Len(MemberTexts(u, PrintObject)) =
              IF u.tag = "Compound" /\ AttrsInOrder(u) # << >> THEN 3 ELSE 2
         /\ PrintObject[u] = <<Open>> \o Body(u) \o <<Shut>>
<1>1. "object" \in Modes /\ Printer("object") = PrintObject
  BY DEF Modes, Printer
<1>2. \A v \in Trees : PrintObject[v] \in Seq(Tokens)
  BY <1>1, PrinterIs
<1>3. PrintObject[u] = PrintStep("object", u, PrintObject)
  BY <1>1, PrinterIs
<1>4. \A v \in PartsOf(u) : PrintObject[v] \in Seq(Tokens)
  <2>1. CASE u.tag = "Compound"
    BY <1>2, <2>1, CompoundIs
  <2>2. CASE u.tag # "Compound"
    BY <2>2, LeafIs
  <2> QED BY <2>1, <2>2
<1>5. /\ MemberTexts(u, PrintObject) \in Seq(Seq(Tokens))
      /\ Len(MemberTexts(u, PrintObject)) =
           IF u.tag = "Compound" /\ AttrsInOrder(u) # << >> THEN 3 ELSE 2
  BY <1>4, MemberTextsTyped
<1>6. Body(u) \in Seq(Tokens)
  BY <1>5, CommasTyped DEF Body
<1>7. PrintObject[u] = <<Open>> \o Body(u) \o <<Shut>>
  BY <1>3, Zenon DEF PrintStep, Body
<1> QED BY <1>2, <1>5, <1>6, <1>7

(* A member that is a string. *)
StringPart(key, value) == Parts(<<<<key, value>>>>, << >>, << >>)

LEMMA StringMember ==
  ASSUME NEW s \in Seq(Tokens), NEW i \in Place, NEW value \in Words, NEW f,
         NEW key \in {"atom", "value", "head"}, Occurs(String(key, value), s, i)
  PROVE  Gives(s, key, i, f, StringPart(key, value), i + Len(String(key, value)))
<1> DEFINE w == <<Quoted(value)>>
<1>1. key \in Words
  BY WordsAre
<1>2. w \in Seq(Tokens) /\ Len(w) = 1
  BY <1>1, StringTyped
<1> HIDE DEF w
<1>3. String(key, value) = <<Quoted(key), ":">> \o w
  BY Zenon DEF String, Member, w
<1>4. /\ i \in Nat /\ i + 2 \in Place /\ Occurs(w, s, i + 2)
      /\ Len(String(key, value)) = Len(w) + 2
  <2>1. HasMember(key, w, s, i)
    BY <1>1, <1>2, <1>3 DEF HasMember
  <2>2. /\ i \in Nat /\ i + 2 \in Place /\ Occurs(w, s, i + 2)
        /\ Len(<<Quoted(key), ":">> \o w) = Len(w) + 2
    BY <2>1, KeyedIs
  <2> QED BY <1>3, <2>2
<1>5. MemberValue(s, key, i + 2, f) = {Took(Parts(<<<<key, value>>>>, << >>, << >>), i + 2 + 1)}
  <2>1. HasString(value, s, i + 2)
    BY <1>4 DEF w, HasString
  <2> DEFINE j == i + 2
  <2>2. HasString(value, s, j) /\ j \in Nat
    BY <1>4, <2>1
  <2> HIDE DEF j
  <2>3. GivesString(s, key, j, f, value)
    BY <2>2, StringValue
  <2> QED BY <2>3 DEF j, GivesString
<1>6. i + 2 + 1 = i + Len(String(key, value))
  BY <1>2, <1>4
<1> QED BY <1>5, <1>6, Zenon DEF Gives, StringPart
(* A string among the members of an object. *)
StringCase(parts, s, at, end, f, k, key, value, rest, whole) ==
  /\ Listed(parts, s, at, end, f) /\ k \in 1 .. Len(parts)
  /\ key \in {"atom", "value", "head"} /\ value \in Words /\ parts[k] = String(key, value)
  /\ Follows(parts, at, end, k, f, rest) /\ IsWhole(StringPart(key, value), rest, whole)

LEMMA StringAt ==
  ASSUME NEW parts, NEW s, NEW at, NEW end, NEW f, NEW k, NEW key, NEW value, NEW rest,
         NEW whole, StringCase(parts, s, at, end, f, k, key, value, rest, whole)
  PROVE  f[<<"parts", at[k]>>] = {Took(whole, end + 1)}
<1> DEFINE w == <<Quoted(value)>>
           here == at[k]
           part == StringPart(key, value)
<1>0. /\ Listed(parts, s, at, end, f) /\ k \in 1 .. Len(parts)
      /\ key \in {"atom", "value", "head"} /\ value \in Words /\ parts[k] = String(key, value)
      /\ Follows(parts, at, end, k, f, rest) /\ IsWhole(part, rest, whole)
  BY DEF StringCase
<1>1. key \in Words
  BY <1>0, WordsAre
<1>2. w \in Seq(Tokens)
  BY <1>0, <1>1, StringTyped
<1>3. String(key, value) = <<Quoted(key), ":">> \o w
  BY Zenon DEF String, Member
<1> HIDE DEF w, part
<1>4. IsMember(parts, k, key, w)
  BY <1>0, <1>1, <1>2, <1>3 DEF IsMember
<1>5. here \in Place /\ Occurs(String(key, value), s, here) /\ s \in Seq(Tokens)
  BY <1>0 DEF Spaced, Listed
<1> HIDE DEF here
<1>6. Gives(s, key, here, f, part, here + Len(String(key, value)))
  BY <1>0, <1>5, StringMember DEF part
<1>7. Gives(s, key, at[k], f, part, at[k] + Len(parts[k]))
  BY <1>0, <1>6 DEF here
<1>8. MemberCase(parts, s, at, end, f, k, key, w, part, rest, whole)
  BY <1>0, <1>4, <1>7 DEF MemberCase
<1> QED BY <1>8, MemberAt

LEMMA TwoPieces ==
  ASSUME NEW x, NEW y
  PROVE  <<x>> \o <<y>> = <<x, y>>
<1> DEFINE S == {x, y}
           a == <<x>>
           b == <<y>>
           c == <<x, y>>
<1>1. /\ a \in Seq(S) /\ b \in Seq(S) /\ Len(a) = 1 /\ Len(b) = 1
      /\ a[1] = x /\ b[1] = y
  OBVIOUS
<1>2. c \in Seq(S) /\ Len(c) = 2 /\ c[1] = x /\ c[2] = y
  OBVIOUS
<1> HIDE DEF S, a, b, c
<1>3. /\ a \o b \in Seq(S) /\ Len(a \o b) = 2
      /\ (a \o b)[1] = x /\ (a \o b)[2] = y
  <2>1. /\ a \o b \in Seq(S) /\ Len(a \o b) = Len(a) + Len(b)
        /\ \A i \in 1 .. Len(a) + Len(b) : (a \o b)[i] = IF i <= Len(a) THEN a[i] ELSE b[i - Len(a)]
    BY <1>1, ConcatProperties
  <2> DEFINE d == a \o b
  <2> HIDE DEF d
  <2>2. /\ d \in Seq(S) /\ Len(d) = 1 + 1
        /\ \A i \in 1 .. 1 + 1 : d[i] = IF i <= 1 THEN a[i] ELSE b[i - 1]
    BY <1>1, <2>1, Zenon DEF d
  <2>3. d \in Seq(S) /\ Len(d) = 2 /\ d[1] = a[1] /\ d[2] = b[1]
    BY <2>2
  <2> QED BY <1>1, <2>3 DEF d
<1>4. \A k \in 1 .. 2 : (a \o b)[k] = c[k]
  BY <1>2, <1>3
<1>5. a \o b = c
  BY <1>2, <1>3, <1>4, SeqEqual
<1> QED BY <1>5 DEF a, b, c

LEMMA LeafMembersRead ==
  ASSUME NEW u \in Trees, u.tag # "Compound"
  PROVE  MembersRead(u)
<1> SUFFICES ASSUME NEW s \in Seq(Tokens), NEW i \in Place, NEW f,
                    IsReader(f, "object", s), Occurs(Body(u), s, i),
                    Peek(s, i + Len(Body(u))) = Shut
             PROVE  f[<<"parts", i>>] = {Took(Seen(u), i + Len(Body(u)) + 1)}
  BY Zenon DEF MembersRead
<1> DEFINE parts == MemberTexts(u, PrintObject)
           end == i + Len(Body(u))
           tag == AtomTags[u.tag]
           one == String("atom", tag)
           two == String("value", u.text)
<1>1. parts = <<one, two>>
  BY Zenon DEF MemberTexts
<1>2. parts \in Seq(Seq(Tokens)) /\ Len(parts) = 2 /\ end \in Nat /\ Body(u) = Commas(parts)
  <2>1. parts \in Seq(Seq(Tokens)) /\ Body(u) \in Seq(Tokens) /\ Len(parts) = 2
    BY ObjectIs
  <2>2. end \in Nat
    BY <2>1 DEF Place
  <2>3. Body(u) = Commas(parts)
    BY DEF Body
  <2> QED BY <2>1, <2>2, <2>3
<1> HIDE DEF parts
<1>3. PICK at : Joined(parts, s, at, i, end)
  <2>1. Len(parts) # 0 /\ Occurs(Commas(parts), s, i)
    BY <1>2
  <2> QED BY <1>2, <2>1, CommasJoined
<1>4. Spaced(parts, s, at, end) /\ at[1] = i
  <2>1. at[1] = i
    BY <1>3 DEF Joined
  <2> HIDE DEF end
  <2> QED BY <1>2, <1>3, <2>1, JoinedSpaced
<1>5. Peek(s, end) = Shut /\ tag \in Words /\ u.text \in Words
  BY LeafIs, WordsAre
<1> HIDE DEF tag, end
<1>6. parts[1] = one /\ parts[2] = two
  <2> HIDE DEF one, two
  <2> QED BY <1>1
<1> DEFINE last == StringPart("value", u.text)
           first == StringPart("atom", tag)
           seen == Seen(u)
<1>7. /\ last.strings = <<<<"value", u.text>>>> /\ last.args = << >> /\ last.attrs = << >>
      /\ last = Parts(last.strings, last.args, last.attrs)
      /\ first.strings = <<<<"atom", tag>>>> /\ first.args = << >> /\ first.attrs = << >>
      /\ NoParts.strings = << >> /\ NoParts.args = << >> /\ NoParts.attrs = << >>
  BY DEF Parts, StringPart, NoParts
<1>8. /\ seen.strings = <<<<"atom", tag>>, <<"value", u.text>>>>
      /\ seen.args = << >> /\ seen.attrs = << >>
      /\ seen = Parts(seen.strings, seen.args, seen.attrs)
  <2>1. seen = Parts(<<<<"atom", tag>>, <<"value", u.text>>>>, << >>, << >>)
    BY Zenon DEF Seen, tag
  <2> HIDE DEF seen
  <2> QED BY <2>1 DEF Parts
<1>9. IsWhole(last, NoParts, last)
  <2>1. <<<<"value", u.text>>>> \o << >> = <<<<"value", u.text>>>> /\ << >> \o << >> = << >>
    OBVIOUS
  <2> HIDE DEF last
  <2> QED BY <1>7, <2>1, Zenon DEF IsWhole
<1>10. IsWhole(first, last, seen)
  <2>1. << >> \o << >> = << >>
    OBVIOUS
  <2> HIDE DEF first, last, seen
  <2>2. <<<<"atom", tag>>>> \o <<<<"value", u.text>>>> = <<<<"atom", tag>>, <<"value", u.text>>>>
    BY TwoPieces, Zenon
  <2> QED BY <1>7, <1>8, <2>1, <2>2, Zenon DEF IsWhole
<1> HIDE DEF first, last, seen, one, two
<1>11. f[<<"parts", at[2]>>] = {Took(last, end + 1)}
  <2>1. Follows(parts, at, end, 2, f, NoParts)
    BY <1>2 DEF Follows
  <2>2. "value" \in {"atom", "value", "head"} /\ 2 \in 1 .. Len(parts)
    BY <1>2
  <2>3. parts[2] = String("value", u.text)
    BY <1>6 DEF two
  <2>4. IsWhole(StringPart("value", u.text), NoParts, last)
    BY <1>9 DEF last
  <2>5. StringCase(parts, s, at, end, f, 2, "value", u.text, NoParts, last)
    BY <1>2, <1>4, <1>5, <2>1, <2>2, <2>3, <2>4 DEF StringCase, Listed
  <2> QED BY <2>5, StringAt
<1>12. f[<<"parts", at[1]>>] = {Took(seen, end + 1)}
  <2>1. Follows(parts, at, end, 1, f, last)
    <3>1. 1 + 1 = 2 /\ 1 # Len(parts)
      BY <1>2
    <3> QED BY <1>11, <3>1, Zenon DEF Follows
  <2>2. "atom" \in {"atom", "value", "head"} /\ 1 \in 1 .. Len(parts)
    BY <1>2
  <2>3. parts[1] = String("atom", tag)
    BY <1>6 DEF one
  <2>4. IsWhole(StringPart("atom", tag), last, seen)
    BY <1>10 DEF first
  <2>5. StringCase(parts, s, at, end, f, 1, "atom", tag, last, seen)
    BY <1>2, <1>4, <1>5, <2>1, <2>2, <2>3, <2>4 DEF StringCase, Listed
  <2> QED BY <2>5, StringAt
<1> QED BY <1>4, <1>12 DEF end, seen

-----------------------------------------------------------------------------

(* The arguments, and the attributes, from the k-th on. *)
ArgsFrom(t, k) == Parts(<< >>, SubSeq(t.args, k, Len(t.args)), << >>)
AttrsFrom(t, k) == Parts(<< >>, << >>, SubSeq(PairsOf(t), k, Len(PairsOf(t))))

LEMMA ArgsStep ==
  ASSUME NEW t \in Trees, t.tag = "Compound", NEW e
  PROVE  /\ \A k \in 1 .. Len(t.args) :
              Then(Arg(t.args[k]), {Took(ArgsFrom(t, k + 1), e)}) = {Took(ArgsFrom(t, k), e)}
         /\ ArgsFrom(t, Len(t.args) + 1) = NoParts
         /\ ArgsFrom(t, 1) = Parts(<< >>, t.args, << >>)
<1> DEFINE n == Len(t.args)
<1>1. t.args \in Seq(Trees) /\ n \in Nat
  BY CompoundIs
<1>2. ASSUME NEW k \in 1 .. n
      PROVE  Then(Arg(t.args[k]), {Took(ArgsFrom(t, k + 1), e)}) = {Took(ArgsFrom(t, k), e)}
  <2> DEFINE v == t.args[k]
             part == Arg(v)
             rest == ArgsFrom(t, k + 1)
             whole == ArgsFrom(t, k)
  <2>1. <<v>> \o SubSeq(t.args, k + 1, n) = SubSeq(t.args, k, n) /\ << >> \o << >> = << >>
    BY <1>1, RestFirst, ConcatEmptySeq
  <2>2. /\ part.strings = << >> /\ part.args = <<v>> /\ part.attrs = << >>
        /\ rest.strings = << >> /\ rest.args = SubSeq(t.args, k + 1, n) /\ rest.attrs = << >>
        /\ whole.strings = << >> /\ whole.args = SubSeq(t.args, k, n) /\ whole.attrs = << >>
        /\ whole = Parts(whole.strings, whole.args, whole.attrs)
    BY DEF Parts, Arg, ArgsFrom
  <2> HIDE DEF n, v, part, rest, whole
  <2>3. IsWhole(part, rest, whole)
    BY <2>1, <2>2, Zenon DEF IsWhole
  <2>4. Then(part, {Took(rest, e)}) = {Took(whole, e)}
    BY <2>3, ThenIs
  <2> QED BY <2>4 DEF v, part, rest, whole
<1>3. ArgsFrom(t, n + 1) = NoParts
  <2>1. SubSeq(t.args, n + 1, n) = << >>
    BY <1>1, RestNone
  <2> HIDE DEF n
  <2> QED BY <2>1, Zenon DEF ArgsFrom, NoParts, n
<1>4. ArgsFrom(t, 1) = Parts(<< >>, t.args, << >>)
  <2>1. SubSeq(t.args, 1, n) = t.args
    BY <1>1, SubSeqFull
  <2> QED BY <2>1, Zenon DEF ArgsFrom
<1> QED BY <1>2, <1>3, <1>4

LEMMA AttrsStep ==
  ASSUME NEW t \in Trees, t.tag = "Compound", NEW e
  PROVE  /\ \A k \in 1 .. Len(AttrsInOrder(t)) :
              Then(Attr(AttrsInOrder(t)[k], t.attrs[AttrsInOrder(t)[k]]),
                   {Took(AttrsFrom(t, k + 1), e)}) = {Took(AttrsFrom(t, k), e)}
         /\ AttrsFrom(t, Len(AttrsInOrder(t)) + 1) = NoParts
         /\ AttrsFrom(t, 1) = Parts(<< >>, << >>, PairsOf(t))
<1> DEFINE pairs == PairsOf(t)
           n == Len(pairs)
<1>1. pairs \in Seq(STRING \X Trees) /\ n \in Nat /\ n = Len(AttrsInOrder(t))
  BY PairsTyped
<1>2. ASSUME NEW k \in 1 .. n
      PROVE  Then(Attr(AttrsInOrder(t)[k], t.attrs[AttrsInOrder(t)[k]]),
                   {Took(AttrsFrom(t, k + 1), e)}) = {Took(AttrsFrom(t, k), e)}
  <2> DEFINE key == AttrsInOrder(t)[k]
             v == t.attrs[key]
             part == Attr(key, v)
             rest == AttrsFrom(t, k + 1)
             whole == AttrsFrom(t, k)
  <2>0. pairs[k] = <<key, v>>
    BY <1>1 DEF PairsOf
  <2> HIDE DEF key, v, pairs
  <2>1. <<<<key, v>>>> \o SubSeq(pairs, k + 1, n) = SubSeq(pairs, k, n)
    BY <1>1, <2>0, RestFirst, Zenon
  <2>2. << >> \o << >> = << >>
    BY ConcatEmptySeq
  <2>3. /\ part.strings = << >> /\ part.args = << >> /\ part.attrs = <<<<key, v>>>>
        /\ rest.strings = << >> /\ rest.args = << >> /\ rest.attrs = SubSeq(pairs, k + 1, n)
        /\ whole.strings = << >> /\ whole.args = << >> /\ whole.attrs = SubSeq(pairs, k, n)
        /\ whole = Parts(whole.strings, whole.args, whole.attrs)
    BY DEF Parts, Attr, AttrsFrom, pairs
  <2> HIDE DEF n, part, rest, whole
  <2>4. IsWhole(part, rest, whole)
    BY <2>1, <2>2, <2>3, Zenon DEF IsWhole
  <2>5. Then(part, {Took(rest, e)}) = {Took(whole, e)}
    BY <2>4, ThenIs
  <2> QED BY <2>5 DEF key, v, part, rest, whole
<1>3. AttrsFrom(t, n + 1) = NoParts
  <2>1. SubSeq(pairs, n + 1, n) = << >>
    BY <1>1, RestNone
  <2> HIDE DEF n
  <2> QED BY <2>1, Zenon DEF AttrsFrom, NoParts, n
<1>4. AttrsFrom(t, 1) = Parts(<< >>, << >>, pairs)
  <2>1. SubSeq(pairs, 1, n) = pairs
    BY <1>1, SubSeqFull
  <2> QED BY <2>1, Zenon DEF AttrsFrom
<1> HIDE DEF n, pairs
<1> QED BY <1>1, <1>2, <1>3, <1>4 DEF pairs

(* An argument of an object, before the arguments after it. *)
LEMMA ElementReads ==
  ASSUME NEW s \in Seq(Tokens), NEW i \in Place, NEW f, IsReader(f, "object", s),
         NEW u, ObjectReads(u), Occurs(PrintObject[u], s, i)
  PROVE  /\ f[<<"elements", i>>] =
              Then(Arg(u), More(s, i + Len(PrintObject[u]), "elements", "]", f))
         /\ Peek(s, i) = Open
<1>1. i \in Nat /\ f[<<"node", i>>] = {Took(u, i + Len(PrintObject[u]))} /\ Peek(s, i) = Open
  BY DEF ObjectReads, Place
<1>2. f[<<"elements", i>>] = Elements(s, i, f)
  BY <1>1, RuleIs DEF Rules, Step
<1>3. Elements(s, i, f) =
        UNION {Then(Arg(r.value), More(s, r.at, "elements", "]", f)) : r \in f[<<"node", i>>]}
  BY DEF Elements
<1>4. Took(u, i + Len(PrintObject[u])).value = u
       /\ Took(u, i + Len(PrintObject[u])).at = i + Len(PrintObject[u])
  BY DEF Took
<1> DEFINE x == Took(u, i + Len(PrintObject[u]))
<1>5. f[<<"elements", i>>] = UNION {Then(Arg(r.value), More(s, r.at, "elements", "]", f)) : r \in {x}}
  BY <1>1, <1>2, <1>3, Zenon
<1> HIDE DEF x
<1>6. UNION {Then(Arg(r.value), More(s, r.at, "elements", "]", f)) : r \in {x}}
        = Then(Arg(x.value), More(s, x.at, "elements", "]", f))
  OBVIOUS
<1>7. f[<<"elements", i>>] = Then(Arg(u), More(s, i + Len(PrintObject[u]), "elements", "]", f))
  BY <1>4, <1>5, <1>6, Zenon DEF x
<1> QED BY <1>1, <1>7

(* An attribute of an object, before the attributes after it. *)
LEMMA EntryReads ==
  ASSUME NEW s \in Seq(Tokens), NEW i \in Place, NEW f, IsReader(f, "object", s),
         NEW u, ObjectReads(u), NEW key, HasMember(key, PrintObject[u], s, i)
  PROVE  f[<<"entries", i>>] =
           Then(Attr(key, u),
                f[<<"entries", AfterComma(s, i + Len(<<Quoted(key), ":">> \o PrintObject[u]))>>])
<1> DEFINE w == PrintObject[u]
           l == Len(<<Quoted(key), ":">> \o w)
           k == Took(key, i + 2)
           x == Took(u, i + l)
<1>1. /\ Keyed(s, i) = {k} /\ Peek(s, i) # Shut /\ i \in Nat /\ i + 2 \in Place
      /\ Occurs(w, s, i + 2) /\ l = Len(w) + 2 /\ Len(w) \in Nat
  <2>1. /\ Keyed(s, i) = {Took(key, i + 2)} /\ Peek(s, i) # Shut
        /\ i \in Nat /\ i + 2 \in Place /\ Occurs(w, s, i + 2)
        /\ Len(<<Quoted(key), ":">> \o w) = Len(w) + 2
    BY KeyedIs
  <2>2. Len(w) \in Nat
    BY DEF HasMember
  <2> QED BY <2>1, <2>2
<1>2. k.value = key /\ k.at = i + 2 /\ x.value = u /\ x.at = i + l
  BY DEF Took
<1>3. f[<<"node", i + 2>>] = {x}
  <2>1. f[<<"node", i + 2>>] = {Took(u, i + 2 + Len(w))}
    BY <1>1 DEF ObjectReads
  <2>2. i + 2 + Len(w) = i + l
    <3> HIDE DEF l, w
    <3> QED BY <1>1
  <2> QED BY <2>1, <2>2
<1>4. f[<<"entries", i>>] = Entries(s, i, f)
  BY <1>1, RuleIs DEF Rules, Step
<1>5. Entries(s, i, f) = UNION {Entry(s, q, f) : q \in Keyed(s, i)}
  BY <1>1, Zenon DEF Entries, Entry
<1> HIDE DEF k, w, l
<1>6. Entries(s, i, f) = Entry(s, k, f)
  <2>1. Entries(s, i, f) = UNION {Entry(s, q, f) : q \in {k}}
    BY <1>1, <1>5, Zenon
  <2>2. UNION {Entry(s, q, f) : q \in {k}} = Entry(s, k, f)
    OBVIOUS
  <2> QED BY <2>1, <2>2, Zenon
<1> HIDE DEF x
<1>7. Entry(s, k, f) = Then(Attr(key, x.value), f[<<"entries", AfterComma(s, x.at)>>])
  <2>1. f[<<"node", k.at>>] = {x}
    BY <1>2, <1>3, Zenon
  <2>2. Entry(s, k, f) =
          UNION {Then(Attr(k.value, r.value), f[<<"entries", AfterComma(s, r.at)>>]) : r \in {x}}
    BY <2>1, Zenon DEF Entry
  <2>3. UNION {Then(Attr(k.value, r.value), f[<<"entries", AfterComma(s, r.at)>>]) : r \in {x}}
          = Then(Attr(k.value, x.value), f[<<"entries", AfterComma(s, x.at)>>])
    OBVIOUS
  <2> QED BY <1>2, <2>2, <2>3, Zenon
<1>8. f[<<"entries", i>>] = Then(Attr(key, u), f[<<"entries", AfterComma(s, i + l)>>])
  BY <1>2, <1>4, <1>6, <1>7, Zenon
<1> QED BY <1>8 DEF l, w

(* The arguments of an object, with commas between. *)
LEMMA ElementsRead ==
  ASSUME NEW u \in Trees, u.tag = "Compound", \A v \in PartsOf(u) : ObjectReads(v),
         NEW s \in Seq(Tokens), NEW f, IsReader(f, "object", s),
         NEW at, NEW end \in Nat, Spaced(ArgTexts(u, PrintObject), s, at, end),
         Peek(s, end) = "]", Len(u.args) # 0
  PROVE  /\ f[<<"elements", at[1]>>] = {Took(Parts(<< >>, u.args, << >>), end + 1)}
         /\ Peek(s, at[1]) = Open
<1> DEFINE n == Len(u.args)
           texts == ArgTexts(u, PrintObject)
           after(k) == at[k] + Len(texts[k])
           more(k) == More(s, after(k), "elements", "]", f)
           Good == {k \in 1 .. n : f[<<"elements", at[k]>>] = {Took(ArgsFrom(u, k), end + 1)}
                                     /\ Peek(s, at[k]) = Open}
<1>1. /\ n \in Nat /\ Len(texts) = n
      /\ \A k \in 1 .. n : texts[k] = PrintObject[u.args[k]] /\ u.args[k] \in PartsOf(u)
  <2>1. \A v \in PartsOf(u) : PrintObject[v] \in Seq(Tokens)
    BY CompoundIs, ObjectIs
  <2>2. Len(texts) = n /\ \A k \in 1 .. n : texts[k] = PrintObject[u.args[k]]
    BY <2>1, TextsTyped
  <2> HIDE DEF texts
  <2> QED BY <2>2, CompoundIs
<1> HIDE DEF texts
<1>2. \A k \in 1 .. n :
        /\ at[k] \in Place /\ Occurs(texts[k], s, at[k])
        /\ after(k) \in Nat /\ at[k + 1] = after(k) + 1
        /\ k < n => Peek(s, after(k)) = Comma
        /\ k = n => after(k) = end
  BY <1>1 DEF Spaced, texts
<1> HIDE DEF n
<1>3. ASSUME NEW k \in 1 .. n, k < n => k + 1 \in Good
      PROVE  k \in Good
  <2> DEFINE v == u.args[k]
  <2>1. v \in PartsOf(u) /\ texts[k] = PrintObject[v]
    BY <1>1
  <2> HIDE DEF v
  <2>2. f[<<"elements", at[k]>>] = Then(Arg(v), more(k)) /\ Peek(s, at[k]) = Open
    <3>1. at[k] \in Place /\ Occurs(PrintObject[v], s, at[k]) /\ ObjectReads(v)
      BY <1>2, <2>1
    <3>2. /\ f[<<"elements", at[k]>>] =
               Then(Arg(v), More(s, at[k] + Len(PrintObject[v]), "elements", "]", f))
          /\ Peek(s, at[k]) = Open
      BY <3>1, ElementReads
    <3> QED BY <2>1, <3>2
  <2>3. more(k) = {Took(ArgsFrom(u, k + 1), end + 1)}
    <3>1. CASE k < n
      <4>1. Peek(s, after(k)) = Comma /\ at[k + 1] = after(k) + 1 /\ "]" # Comma
        BY <1>2, <3>1, MarksArePieces
      <4>2. f[<<"elements", at[k + 1]>>] = {Took(ArgsFrom(u, k + 1), end + 1)}
        BY <1>3, <3>1
      <4>3. more(k) = f[<<"elements", after(k) + 1>>]
        BY <4>1, Zenon DEF More
      <4> QED BY <4>1, <4>2, <4>3, Zenon
    <3>2. CASE k = n
      <4>1. Peek(s, after(k)) = "]" /\ after(k) = end /\ "]" # Comma
        BY <1>2, <3>2, MarksArePieces
      <4>2. more(k) = {Took(NoParts, after(k) + 1)}
        BY <4>1, Zenon DEF More
      <4>3. ArgsFrom(u, k + 1) = NoParts
        BY <3>2, ArgsStep DEF n
      <4> QED BY <4>1, <4>2, <4>3, Zenon
    <3>3. k < n \/ k = n
      BY <1>1
    <3> QED BY <3>1, <3>2, <3>3
  <2>4. Then(Arg(v), {Took(ArgsFrom(u, k + 1), end + 1)}) = {Took(ArgsFrom(u, k), end + 1)}
    BY ArgsStep DEF n, v
  <2> HIDE DEF more
  <2> QED BY <2>2, <2>3, <2>4
<1>4. n \in Nat /\ n > 0
  BY <1>1 DEF n
<1>5. n \in Good /\ \A k \in 1 .. n : k < n /\ k + 1 \in Good => k \in Good
  <2>1. n \in 1 .. n /\ ~(n < n)
    BY <1>4
  <2> HIDE DEF Good
  <2> QED BY <1>3, <2>1
<1>6. 1 \in Good
  <2>1. 1 \in 1 .. n
    BY <1>4
  <2> HIDE DEF Good
  <2> QED BY <1>4, <1>5, <2>1, Downward
<1> QED BY <1>6, ArgsStep

(* The attributes of an object, with commas between. *)
LEMMA EntriesRead ==
  ASSUME NEW u \in Trees, u.tag = "Compound", \A v \in PartsOf(u) : ObjectReads(v),
         NEW s \in Seq(Tokens), NEW f, IsReader(f, "object", s),
         NEW at, NEW end \in Nat, Spaced(AttrTexts("object", u, PrintObject), s, at, end),
         Peek(s, end) = Shut, Len(AttrsInOrder(u)) # 0
  PROVE  f[<<"entries", at[1]>>] = {Took(Parts(<< >>, << >>, PairsOf(u)), end + 1)}
<1> DEFINE n == Len(AttrsInOrder(u))
           texts == AttrTexts("object", u, PrintObject)
           after(k) == at[k] + Len(texts[k])
           more(k) == f[<<"entries", AfterComma(s, after(k))>>]
           Good == {k \in 1 .. n : f[<<"entries", at[k]>>] = {Took(AttrsFrom(u, k), end + 1)}}
<1>0. \A v \in PartsOf(u) : PrintObject[v] \in Seq(Tokens)
  BY CompoundIs, ObjectIs
<1>1. /\ n \in Nat /\ Len(texts) = n
      /\ \A k \in 1 .. n : texts[k] = Lead("object", AttrsInOrder(u)[k])
                                        \o PrintObject[u.attrs[AttrsInOrder(u)[k]]]
  <2>1. n \in Nat
    BY CompoundIs DEF Ordered
  <2>2. /\ Len(AttrTexts("object", u, PrintObject)) = Len(AttrsInOrder(u))
        /\ \A k \in 1 .. Len(AttrsInOrder(u)) :
             AttrTexts("object", u, PrintObject)[k] =
               Lead("object", AttrsInOrder(u)[k]) \o PrintObject[u.attrs[AttrsInOrder(u)[k]]]
    <3> DEFINE m == "object"
    <3> HIDE DEF m
    <3>1. /\ Len(AttrTexts(m, u, PrintObject)) = Len(AttrsInOrder(u))
          /\ \A k \in 1 .. Len(AttrsInOrder(u)) :
               AttrTexts(m, u, PrintObject)[k] =
                 Lead(m, AttrsInOrder(u)[k]) \o PrintObject[u.attrs[AttrsInOrder(u)[k]]]
      <4>1. Len(AttrTexts(m, u, PrintObject)) = Len(AttrsInOrder(u))
        BY <1>0, TextsTyped
      <4>2. AttrsInOrder(u) \in Seq(STRING)
        BY CompoundIs DEF Ordered
      <4>3. DOMAIN AttrsInOrder(u) = 1 .. Len(AttrsInOrder(u))
        BY <4>2
      <4> QED BY <4>1, <4>3, Zenon DEF AttrTexts
    <3> QED BY <3>1 DEF m
  <2> QED BY <2>1, <2>2
<1> HIDE DEF texts
<1>2. \A k \in 1 .. n :
        /\ at[k] \in Place /\ Occurs(texts[k], s, at[k])
        /\ after(k) \in Nat /\ at[k + 1] = after(k) + 1
        /\ k < n => Peek(s, after(k)) = Comma
        /\ k = n => after(k) = end
  BY <1>1 DEF Spaced, texts
<1> HIDE DEF n
<1>3. ASSUME NEW k \in 1 .. n, k < n => k + 1 \in Good
      PROVE  k \in Good
  <2> DEFINE key == AttrsInOrder(u)[k]
             v == u.attrs[key]
  <2>1. v \in PartsOf(u) /\ key \in Words /\ texts[k] = <<Quoted(key), ":">> \o PrintObject[v]
    <3>1. key \in DOMAIN u.attrs /\ key \in Words
      BY KeyIsWord DEF n
    <3>2. v \in PartsOf(u)
      BY <3>1, CompoundIs
    <3>3. texts[k] = Lead("object", key) \o PrintObject[v]
      BY <1>1
    <3>4. Lead("object", key) = <<Quoted(key), ":">>
      BY DEF Lead
    <3> QED BY <3>1, <3>2, <3>3, <3>4, Zenon
  <2>2. Then(Attr(key, v), {Took(AttrsFrom(u, k + 1), end + 1)}) = {Took(AttrsFrom(u, k), end + 1)}
    <3>1. k \in 1 .. Len(AttrsInOrder(u))
      BY DEF n
    <3> QED BY <3>1, AttrsStep, Zenon
  <2> HIDE DEF key, v
  <2>3. f[<<"entries", at[k]>>] = Then(Attr(key, v), more(k))
    <3>1. HasMember(key, PrintObject[v], s, at[k]) /\ ObjectReads(v) /\ at[k] \in Place
      BY <1>0, <1>2, <2>1 DEF HasMember
    <3>2. f[<<"entries", at[k]>>] =
            Then(Attr(key, v),
                 f[<<"entries", AfterComma(s, at[k] + Len(<<Quoted(key), ":">> \o PrintObject[v]))>>])
      BY <3>1, EntryReads
    <3> QED BY <2>1, <3>2, Zenon
  <2>4. more(k) = {Took(AttrsFrom(u, k + 1), end + 1)}
    <3>1. CASE k < n
      <4>1. AfterComma(s, after(k)) = at[k + 1]
        BY <1>2, <3>1 DEF AfterComma
      <4>2. f[<<"entries", at[k + 1]>>] = {Took(AttrsFrom(u, k + 1), end + 1)}
        BY <1>3, <3>1
      <4> QED BY <4>1, <4>2, Zenon
    <3>2. CASE k = n
      <4>1. Peek(s, after(k)) = Shut /\ after(k) = end /\ Shut # Comma
        BY <1>2, <3>2, MarksArePieces
      <4>2. AfterComma(s, after(k)) = end
        BY <4>1, Zenon DEF AfterComma
      <4>3. f[<<"entries", end>>] = Entries(s, end, f)
        BY RuleIs DEF Rules, Step
      <4>4. Entries(s, end, f) = {Took(NoParts, end + 1)}
        BY Zenon DEF Entries
      <4>5. AttrsFrom(u, k + 1) = NoParts
        BY <3>2, AttrsStep DEF n
      <4> QED BY <4>2, <4>3, <4>4, <4>5, Zenon
    <3>3. k < n \/ k = n
      BY <1>1
    <3> QED BY <3>1, <3>2, <3>3
  <2> HIDE DEF more
  <2> QED BY <2>2, <2>3, <2>4
<1>4. n \in Nat /\ n > 0
  BY <1>1 DEF n
<1>5. n \in Good /\ \A k \in 1 .. n : k < n /\ k + 1 \in Good => k \in Good
  <2>1. n \in 1 .. n /\ ~(n < n)
    BY <1>4
  <2> HIDE DEF Good
  <2> QED BY <1>3, <2>1
<1>6. 1 \in Good
  <2>1. 1 \in 1 .. n
    BY <1>4
  <2> HIDE DEF Good
  <2> QED BY <1>4, <1>5, <2>1, Downward
<1> QED BY <1>6, AttrsStep

(* What the value of "args", or of "attrs", is written as. *)
ArgsText(u) == <<"[">> \o Commas(ArgTexts(u, PrintObject)) \o <<"]">>
AttrsText(u) == <<Open>> \o Commas(AttrTexts("object", u, PrintObject)) \o <<Shut>>

LEMMA PartTextsTyped ==
  ASSUME NEW u \in Trees, u.tag = "Compound"
  PROVE  /\ ArgTexts(u, PrintObject) \in Seq(Seq(Tokens))
         /\ Len(ArgTexts(u, PrintObject)) = Len(u.args)
         /\ AttrTexts("object", u, PrintObject) \in Seq(Seq(Tokens))
         /\ Len(AttrTexts("object", u, PrintObject)) = Len(AttrsInOrder(u))
         /\ ArgsText(u) \in Seq(Tokens) /\ AttrsText(u) \in Seq(Tokens)
<1>1. \A v \in PartsOf(u) : PrintObject[v] \in Seq(Tokens)
  BY CompoundIs, ObjectIs
<1>2. /\ ArgTexts(u, PrintObject) \in Seq(Seq(Tokens))
      /\ Len(ArgTexts(u, PrintObject)) = Len(u.args)
  BY <1>1, TextsTyped
<1>3. /\ AttrTexts("object", u, PrintObject) \in Seq(Seq(Tokens))
      /\ Len(AttrTexts("object", u, PrintObject)) = Len(AttrsInOrder(u))
  BY <1>1, TextsTyped
<1>4. ArgsText(u) \in Seq(Tokens)
  <2> DEFINE w == Commas(ArgTexts(u, PrintObject))
             a == <<"[">>
             z == <<"]">>
  <2>1. w \in Seq(Tokens) /\ a \in Seq(Tokens) /\ z \in Seq(Tokens)
    BY <1>2, CommasTyped, MarksTyped
  <2>2. ArgsText(u) = (a \o w) \o z
    BY Zenon DEF ArgsText
  <2> HIDE DEF a, w, z
  <2> QED BY <2>1, <2>2
<1>5. AttrsText(u) \in Seq(Tokens)
  <2> DEFINE w == Commas(AttrTexts("object", u, PrintObject))
             a == <<Open>>
             z == <<Shut>>
  <2>1. w \in Seq(Tokens) /\ a \in Seq(Tokens) /\ z \in Seq(Tokens)
    BY <1>3, CommasTyped, MarksTyped
  <2>2. AttrsText(u) = (a \o w) \o z
    BY Zenon DEF AttrsText
  <2> HIDE DEF a, w, z
  <2> QED BY <2>1, <2>2
<1> QED BY <1>2, <1>3, <1>4, <1>5

LEMMA ArgsMember ==
  ASSUME NEW u \in Trees, u.tag = "Compound", \A v \in PartsOf(u) : ObjectReads(v),
         NEW s \in Seq(Tokens), NEW i \in Place, NEW f, IsReader(f, "object", s),
         Occurs(ArgsText(u), s, i)
  PROVE  MemberValue(s, "args", i, f) = {Took(Parts(<< >>, u.args, << >>), i + Len(ArgsText(u)))}
<1> DEFINE texts == ArgTexts(u, PrintObject)
           w == Commas(texts)
           end == i + 1 + Len(w)
<1>1. texts \in Seq(Seq(Tokens)) /\ Len(texts) = Len(u.args)
  BY PartTextsTyped
<1>2. w \in Seq(Tokens)
  BY <1>1, CommasTyped
<1>3. ArgsText(u) = <<"[">> \o w \o <<"]">>
  BY DEF ArgsText
<1> HIDE DEF texts
<1>4. /\ i \in Nat /\ Peek(s, i) = "[" /\ i + 1 \in Place /\ Occurs(w, s, i + 1)
      /\ end \in Place /\ Peek(s, end) = "]" /\ Len(ArgsText(u)) = Len(w) + 2
  <2> DEFINE a == "["
             z == "]"
  <2>1. a \in Tokens /\ z \in Tokens /\ Occurs(<<a>> \o w \o <<z>>, s, i)
    BY <1>3, StringsAreTokens
  <2> HIDE DEF a, z, w
  <2>2. /\ i \in Nat /\ Peek(s, i) = a /\ i + 1 \in Place /\ Occurs(w, s, i + 1)
        /\ i + 1 + Len(w) \in Place /\ Peek(s, i + 1 + Len(w)) = z
        /\ Len(<<a>> \o w \o <<z>>) = Len(w) + 2
    BY <1>2, <2>1, OccursBetween
  <2>3. ArgsText(u) = <<a>> \o w \o <<z>>
    BY <1>3 DEF a, z
  <2>4. Peek(s, i) = "[" /\ Peek(s, end) = "]"
    BY <2>2 DEF a, z
  <2> QED BY <2>2, <2>3, <2>4
<1>5. end \in Nat /\ end + 1 = i + Len(ArgsText(u))
  <2>1. Len(w) \in Nat
    BY <1>2
  <2> HIDE DEF w
  <2> QED BY <1>4, <2>1
<1> DEFINE value == IF Peek(s, i + 1) = "]" THEN {Took(NoParts, i + 2)} ELSE f[<<"elements", i + 1>>]
<1>6. MemberValue(s, "args", i, f) = value
  <2>1. "args" \notin {"atom", "value", "head"} /\ "args" # "attrs"
    OBVIOUS
  <2> QED BY <1>4, <2>1, Zenon DEF MemberValue
<1>7. value = {Took(Parts(<< >>, u.args, << >>), end + 1)}
  <2>1. CASE Len(u.args) = 0
    <3>1. w = << >> /\ Len(w) = 0
      <4>1. texts = << >>
        BY <1>1, <2>1
      <4>2. w = << >>
        BY <4>1, CommasNone
      <4> QED BY <4>2
    <3>2. end = i + 1 /\ end + 1 = i + 2
      BY <1>4, <3>1
    <3>3. Parts(<< >>, u.args, << >>) = NoParts
      <4>1. u.args = << >>
        BY <2>1, CompoundIs
      <4> QED BY <4>1, Zenon DEF NoParts
    <3>4. value = {Took(NoParts, end + 1)}
      <4> HIDE DEF end
      <4> QED BY <1>4, <3>2
    <3> QED BY <3>3, <3>4, Zenon
  <2>2. CASE Len(u.args) # 0
    <3>1. PICK at : Joined(texts, s, at, i + 1, end)
      <4>1. Len(texts) # 0 /\ i + 1 \in Place /\ Occurs(Commas(texts), s, i + 1)
        BY <1>1, <1>4, <2>2
      <4> QED BY <1>1, <4>1, CommasJoined
    <3>2. Spaced(texts, s, at, end) /\ at[1] = i + 1
      <4>1. at[1] = i + 1
        BY <3>1 DEF Joined
      <4> HIDE DEF end
      <4>2. Spaced(texts, s, at, end)
        BY <1>1, <1>5, <3>1, JoinedSpaced
      <4> QED BY <4>1, <4>2
    <3> HIDE DEF end
    <3>3. /\ f[<<"elements", at[1]>>] = {Took(Parts(<< >>, u.args, << >>), end + 1)}
          /\ Peek(s, at[1]) = Open
      <4>1. Spaced(ArgTexts(u, PrintObject), s, at, end)
        BY <3>2 DEF texts
      <4> QED BY <1>4, <1>5, <2>2, <4>1, ElementsRead
    <3>4. Open # "]"
      BY MarksArePieces, Zenon
    <3> QED BY <3>2, <3>3, <3>4, Zenon
  <2> QED BY <2>1, <2>2
<1> HIDE DEF value, end
<1> QED BY <1>5, <1>6, <1>7, Zenon

LEMMA AttrsMember ==
  ASSUME NEW u \in Trees, u.tag = "Compound", \A v \in PartsOf(u) : ObjectReads(v),
         Len(AttrsInOrder(u)) # 0,
         NEW s \in Seq(Tokens), NEW i \in Place, NEW f, IsReader(f, "object", s),
         Occurs(AttrsText(u), s, i)
  PROVE  MemberValue(s, "attrs", i, f) = {Took(Parts(<< >>, << >>, PairsOf(u)), i + Len(AttrsText(u)))}
<1> DEFINE texts == AttrTexts("object", u, PrintObject)
           w == Commas(texts)
           end == i + 1 + Len(w)
<1>1. texts \in Seq(Seq(Tokens)) /\ Len(texts) # 0
  BY PartTextsTyped
<1>2. w \in Seq(Tokens)
  BY <1>1, CommasTyped
<1>3. AttrsText(u) = <<Open>> \o w \o <<Shut>>
  BY DEF AttrsText
<1> HIDE DEF texts
<1>4. /\ i \in Nat /\ Peek(s, i) = Open /\ i + 1 \in Place /\ Occurs(w, s, i + 1)
      /\ end \in Place /\ Peek(s, end) = Shut /\ Len(AttrsText(u)) = Len(w) + 2
  <2>1. Open \in Tokens /\ Shut \in Tokens /\ Occurs(<<Open>> \o w \o <<Shut>>, s, i)
    BY <1>3, StringsAreTokens
  <2> HIDE DEF w
  <2>2. /\ i \in Nat /\ Peek(s, i) = Open /\ i + 1 \in Place /\ Occurs(w, s, i + 1)
        /\ i + 1 + Len(w) \in Place /\ Peek(s, i + 1 + Len(w)) = Shut
        /\ Len(<<Open>> \o w \o <<Shut>>) = Len(w) + 2
    BY <1>2, <2>1, OccursBetween
  <2> QED BY <1>3, <2>2
<1>5. end \in Nat /\ end + 1 = i + Len(AttrsText(u))
  <2>1. Len(w) \in Nat
    BY <1>2
  <2> HIDE DEF w
  <2> QED BY <1>4, <2>1
<1>6. MemberValue(s, "attrs", i, f) = f[<<"entries", i + 1>>]
  <2>1. "attrs" \notin {"atom", "value", "head"} /\ "attrs" # "args"
    OBVIOUS
  <2> QED BY <1>4, <2>1, Zenon DEF MemberValue
<1>7. PICK at : Joined(texts, s, at, i + 1, end)
  <2>1. i + 1 \in Place /\ Occurs(Commas(texts), s, i + 1)
    BY <1>4
  <2> QED BY <1>1, <2>1, CommasJoined
<1>8. Spaced(texts, s, at, end) /\ at[1] = i + 1
  <2>1. at[1] = i + 1
    BY <1>7 DEF Joined
  <2> HIDE DEF end
  <2>2. Spaced(texts, s, at, end)
    BY <1>1, <1>5, <1>7, JoinedSpaced
  <2> QED BY <2>1, <2>2
<1> HIDE DEF end
<1>9. f[<<"entries", at[1]>>] = {Took(Parts(<< >>, << >>, PairsOf(u)), end + 1)}
  <2>1. Spaced(AttrTexts("object", u, PrintObject), s, at, end)
    BY <1>8 DEF texts
  <2> QED BY <1>4, <1>5, <2>1, EntriesRead
<1> QED BY <1>5, <1>6, <1>8, <1>9, Zenon

(* Where the value of the k-th member is. *)
LEMMA MemberPlace ==
  ASSUME NEW parts, NEW s, NEW at, NEW end, NEW f, Listed(parts, s, at, end, f),
         NEW k, NEW key, NEW w, IsMember(parts, k, key, w)
  PROVE  /\ at[k] + 2 \in Place /\ Occurs(w, s, at[k] + 2)
         /\ at[k] + Len(parts[k]) = at[k] + 2 + Len(w)
<1> DEFINE here == at[k]
<1>1. HasMember(key, w, s, here) /\ s \in Seq(Tokens)
  BY DEF HasMember, IsMember, Spaced, Listed
<1>2. parts[k] = <<Quoted(key), ":">> \o w /\ Len(w) \in Nat
  BY DEF IsMember
<1> HIDE DEF here
<1>3. /\ here \in Nat /\ here + 2 \in Place /\ Occurs(w, s, here + 2)
      /\ Len(<<Quoted(key), ":">> \o w) = Len(w) + 2
  BY <1>1, KeyedIs
<1>4. here + Len(parts[k]) = here + 2 + Len(w)
  BY <1>2, <1>3
<1> QED BY <1>3, <1>4 DEF here

LEMMA CompoundTexts ==
  ASSUME NEW u \in Trees, u.tag = "Compound"
  PROVE  LET parts == MemberTexts(u, PrintObject)
         IN /\ Len(parts) = IF AttrsInOrder(u) # << >> THEN 3 ELSE 2
            /\ parts[1] = String("head", u.text)
            /\ IsMember(parts, 2, "args", ArgsText(u))
            /\ AttrsInOrder(u) # << >> => IsMember(parts, 3, "attrs", AttrsText(u))
<1> DEFINE parts == MemberTexts(u, PrintObject)
           one == String("head", u.text)
           two == Member("args", ArgsText(u))
           three == Member("attrs", AttrsText(u))
<1>1. Len(parts) = IF AttrsInOrder(u) # << >> THEN 3 ELSE 2
  BY ObjectIs
<1>2. parts = <<one, two>> \o IF AttrsInOrder(u) = << >> THEN << >> ELSE <<three>>
  BY Zenon DEF MemberTexts, ArgsText, AttrsText
<1>3. /\ "args" \in Words /\ "attrs" \in Words
      /\ ArgsText(u) \in Seq(Tokens) /\ AttrsText(u) \in Seq(Tokens)
  BY WordsAre, PartTextsTyped
<1>4. one \in Seq(Tokens) /\ two \in Seq(Tokens) /\ three \in Seq(Tokens)
  <2>1. "head" \in Words /\ u.text \in Words
    BY WordsAre
  <2> QED BY <1>3, <2>1, StringTyped, MemberTyped, Zenon
<1>5. /\ two = <<Quoted("args"), ":">> \o ArgsText(u)
      /\ three = <<Quoted("attrs"), ":">> \o AttrsText(u)
  BY Zenon DEF Member
<1> HIDE DEF parts, one, two, three
<1> DEFINE S == Seq(Tokens)
           a == <<one, two>>
           b == IF AttrsInOrder(u) = << >> THEN << >> ELSE <<three>>
<1>6. /\ a \in Seq(S) /\ Len(a) = 2 /\ a[1] = one /\ a[2] = two
      /\ b \in Seq(S) /\ (AttrsInOrder(u) # << >> => Len(b) = 1 /\ b[1] = three)
  BY <1>4
<1> HIDE DEF a, b, S
<1>7. /\ parts[1] = one /\ parts[2] = two
      /\ AttrsInOrder(u) # << >> => parts[3] = three
  <2>1. parts = a \o b
    BY <1>2 DEF a, b
  <2>2. \A k \in 1 .. Len(a) + Len(b) : (a \o b)[k] = IF k <= Len(a) THEN a[k] ELSE b[k - Len(a)]
    BY <1>6, ConcatProperties
  <2>3. \A k \in 1 .. 2 + Len(b) : parts[k] = IF k <= 2 THEN a[k] ELSE b[k - 2]
    BY <1>6, <2>1, <2>2, Zenon
  <2>4. Len(b) \in Nat
    BY <1>6
  <2>5. parts[1] = a[1] /\ parts[2] = a[2] /\ (Len(b) = 1 => parts[3] = b[1])
    BY <2>3, <2>4
  <2> QED BY <1>6, <2>5
<1>8. IsMember(parts, 2, "args", ArgsText(u))
  <2>1. 2 \in 1 .. Len(parts)
    BY <1>1
  <2> QED BY <1>3, <1>5, <1>7, <2>1, Zenon DEF IsMember
<1>9. AttrsInOrder(u) # << >> => IsMember(parts, 3, "attrs", AttrsText(u))
  <2>1. AttrsInOrder(u) # << >> => 3 \in 1 .. Len(parts)
    BY <1>1
  <2> QED BY <1>3, <1>5, <1>7, <2>1, Zenon DEF IsMember
<1> QED BY <1>1, <1>7, <1>8, <1>9 DEF parts, one

LEMMA CompoundMembersRead ==
  ASSUME NEW u \in Trees, u.tag = "Compound", \A v \in PartsOf(u) : ObjectReads(v)
  PROVE  MembersRead(u)
<1> SUFFICES ASSUME NEW s \in Seq(Tokens), NEW i \in Place, NEW f,
                    IsReader(f, "object", s), Occurs(Body(u), s, i),
                    Peek(s, i + Len(Body(u))) = Shut
             PROVE  f[<<"parts", i>>] = {Took(Seen(u), i + Len(Body(u)) + 1)}
  BY Zenon DEF MembersRead
<1> DEFINE parts == MemberTexts(u, PrintObject)
           end == i + Len(Body(u))
           pairs == PairsOf(u)
<1>1. parts \in Seq(Seq(Tokens)) /\ Len(parts) # 0 /\ end \in Nat /\ Body(u) = Commas(parts)
  <2>0. /\ parts \in Seq(Seq(Tokens)) /\ Body(u) \in Seq(Tokens)
        /\ Len(parts) = IF u.tag = "Compound" /\ AttrsInOrder(u) # << >> THEN 3 ELSE 2
    BY ObjectIs
  <2>1. parts \in Seq(Seq(Tokens)) /\ Body(u) \in Seq(Tokens) /\ Len(parts) # 0
    <3> HIDE DEF parts
    <3> QED BY <2>0
  <2>2. end \in Nat
    BY <2>1 DEF Place
  <2>3. Body(u) = Commas(parts)
    BY DEF Body
  <2> QED BY <2>1, <2>2, <2>3
<1>2. /\ Len(parts) = IF AttrsInOrder(u) # << >> THEN 3 ELSE 2
      /\ parts[1] = String("head", u.text)
      /\ IsMember(parts, 2, "args", ArgsText(u))
      /\ AttrsInOrder(u) # << >> => IsMember(parts, 3, "attrs", AttrsText(u))
  BY CompoundTexts
<1> HIDE DEF parts
<1>3. PICK at : Joined(parts, s, at, i, end)
  <2>1. Occurs(Commas(parts), s, i)
    BY <1>1
  <2> QED BY <1>1, <2>1, CommasJoined
<1>4. Listed(parts, s, at, end, f) /\ at[1] = i
  <2>1. at[1] = i /\ Peek(s, end) = Shut
    BY <1>3 DEF Joined
  <2> HIDE DEF end
  <2>2. Spaced(parts, s, at, end)
    BY <1>1, <1>3, JoinedSpaced
  <2> QED BY <1>1, <2>1, <2>2 DEF Listed
<1> HIDE DEF end
<1> DEFINE argsPart == Parts(<< >>, u.args, << >>)
           attrsPart == Parts(<< >>, << >>, pairs)
           both == Parts(<< >>, u.args, pairs)
           first == StringPart("head", u.text)
           seen == Seen(u)
<1>5. /\ argsPart.strings = << >> /\ argsPart.args = u.args /\ argsPart.attrs = << >>
      /\ attrsPart.strings = << >> /\ attrsPart.args = << >> /\ attrsPart.attrs = pairs
      /\ attrsPart = Parts(attrsPart.strings, attrsPart.args, attrsPart.attrs)
      /\ both.strings = << >> /\ both.args = u.args /\ both.attrs = pairs
      /\ both = Parts(both.strings, both.args, both.attrs)
      /\ NoParts.strings = << >> /\ NoParts.args = << >> /\ NoParts.attrs = << >>
      /\ first.strings = <<<<"head", u.text>>>> /\ first.args = << >> /\ first.attrs = << >>
  BY DEF Parts, NoParts, StringPart
<1>6. /\ seen.strings = <<<<"head", u.text>>>> /\ seen.args = u.args /\ seen.attrs = pairs
      /\ seen = Parts(seen.strings, seen.args, seen.attrs)
  <2>1. seen = Parts(<<<<"head", u.text>>>>, u.args, pairs)
    BY Zenon DEF Seen
  <2> HIDE DEF seen, pairs
  <2> QED BY <2>1 DEF Parts
<1>7. /\ u.args \in Seq(Trees) /\ pairs \in Seq(STRING \X Trees)
      /\ (AttrsInOrder(u) = << >> => pairs = << >>)
  <2>1. /\ u.args \in Seq(Trees) /\ pairs \in Seq(STRING \X Trees)
        /\ Len(pairs) = Len(AttrsInOrder(u))
    BY CompoundIs, PairsTyped
  <2> HIDE DEF pairs
  <2> QED BY <2>1
<1> HIDE DEF pairs, argsPart, attrsPart, both, first, seen
<1>8. /\ << >> \o << >> = << >> /\ u.args \o << >> = u.args /\ << >> \o u.args = u.args
      /\ pairs \o << >> = pairs /\ << >> \o pairs = pairs
      /\ <<<<"head", u.text>>>> \o << >> = <<<<"head", u.text>>>>
  <2>1. u.args \o << >> = u.args /\ << >> \o u.args = u.args
    BY <1>7, ConcatEmptySeq
  <2>2. pairs \o << >> = pairs /\ << >> \o pairs = pairs
    BY <1>7, ConcatEmptySeq
  <2> QED BY <2>1, <2>2
<1>9. Gives(s, "args", at[2], f, argsPart, at[2] + Len(parts[2]))
  <2>1. /\ at[2] + 2 \in Place /\ Occurs(ArgsText(u), s, at[2] + 2)
        /\ at[2] + Len(parts[2]) = at[2] + 2 + Len(ArgsText(u))
    BY <1>2, <1>4, MemberPlace
  <2> DEFINE j == at[2] + 2
  <2> HIDE DEF j
  <2>2. MemberValue(s, "args", j, f) = {Took(Parts(<< >>, u.args, << >>), j + Len(ArgsText(u)))}
    <3>1. j \in Place /\ Occurs(ArgsText(u), s, j)
      BY <2>1 DEF j
    <3> QED BY <3>1, ArgsMember
  <2> QED BY <2>1, <2>2, Zenon DEF Gives, j, argsPart
<1>10. f[<<"parts", at[2]>>] = {Took(both, end + 1)}
  <2>1. CASE AttrsInOrder(u) = << >>
    <3>1. Follows(parts, at, end, 2, f, NoParts)
      BY <1>2, <2>1 DEF Follows
    <3>2. IsWhole(argsPart, NoParts, both)
      BY <1>5, <1>7, <1>8, <2>1, Zenon DEF IsWhole
    <3>3. MemberCase(parts, s, at, end, f, 2, "args", ArgsText(u), argsPart, NoParts, both)
      BY <1>2, <1>4, <1>9, <3>1, <3>2, Zenon DEF MemberCase
    <3> QED BY <3>3, MemberAt
  <2>2. CASE AttrsInOrder(u) # << >>
    <3>1. Gives(s, "attrs", at[3], f, attrsPart, at[3] + Len(parts[3]))
      <4>1. /\ at[3] + 2 \in Place /\ Occurs(AttrsText(u), s, at[3] + 2)
            /\ at[3] + Len(parts[3]) = at[3] + 2 + Len(AttrsText(u))
        BY <1>2, <1>4, <2>2, MemberPlace
      <4> DEFINE j == at[3] + 2
      <4> HIDE DEF j
      <4>2. Len(AttrsInOrder(u)) # 0
        BY <2>2, CompoundIs DEF Ordered
      <4>3. MemberValue(s, "attrs", j, f) = {Took(Parts(<< >>, << >>, PairsOf(u)), j + Len(AttrsText(u)))}
        <5>1. j \in Place /\ Occurs(AttrsText(u), s, j)
          BY <4>1 DEF j
        <5> QED BY <4>2, <5>1, AttrsMember
      <4> QED BY <4>1, <4>3, Zenon DEF Gives, j, attrsPart, pairs
    <3>2. f[<<"parts", at[3]>>] = {Took(attrsPart, end + 1)}
      <4>1. Follows(parts, at, end, 3, f, NoParts)
        BY <1>2, <2>2 DEF Follows
      <4>2. IsWhole(attrsPart, NoParts, attrsPart)
        BY <1>5, <1>8, Zenon DEF IsWhole
      <4>3. MemberCase(parts, s, at, end, f, 3, "attrs", AttrsText(u), attrsPart, NoParts, attrsPart)
        BY <1>2, <1>4, <2>2, <3>1, <4>1, <4>2, Zenon DEF MemberCase
      <4> QED BY <4>3, MemberAt
    <3>3. Follows(parts, at, end, 2, f, attrsPart)
      <4>1. 2 + 1 = 3 /\ 2 # Len(parts)
        BY <1>2, <2>2
      <4> QED BY <3>2, <4>1, Zenon DEF Follows
    <3>4. IsWhole(argsPart, attrsPart, both)
      BY <1>5, <1>8, Zenon DEF IsWhole
    <3>5. MemberCase(parts, s, at, end, f, 2, "args", ArgsText(u), argsPart, attrsPart, both)
      BY <1>2, <1>4, <1>9, <3>3, <3>4, Zenon DEF MemberCase
    <3> QED BY <3>5, MemberAt
  <2> QED BY <2>1, <2>2
<1>11. f[<<"parts", at[1]>>] = {Took(seen, end + 1)}
  <2>1. Follows(parts, at, end, 1, f, both)
    <3>1. 1 + 1 = 2 /\ 1 # Len(parts)
      BY <1>2
    <3> QED BY <1>10, <3>1, Zenon DEF Follows
  <2>2. IsWhole(StringPart("head", u.text), both, seen)
    <3>1. IsWhole(first, both, seen)
      BY <1>5, <1>6, <1>8, Zenon DEF IsWhole
    <3> QED BY <3>1 DEF first
  <2>3. "head" \in {"atom", "value", "head"} /\ 1 \in 1 .. Len(parts) /\ u.text \in Words
    BY <1>2, WordsAre
  <2>4. StringCase(parts, s, at, end, f, 1, "head", u.text, both, seen)
    BY <1>2, <1>4, <2>1, <2>2, <2>3, Zenon DEF StringCase
  <2> QED BY <2>4, StringAt
<1> QED BY <1>4, <1>11 DEF end, seen

-----------------------------------------------------------------------------

LEMMA TagsAre ==
  /\ \A tag \in DOMAIN AtomTags : AtomTags[tag] # NoPiece
  /\ \A tag, other \in DOMAIN AtomTags : AtomTags[tag] = AtomTags[other] => tag = other
<1>1. DOMAIN AtomTags = {"Sym", "Int", "Rat", "Real", "Str"}
  BY DEF AtomTags
<1>2. /\ AtomTags["Sym"] = "sym" /\ AtomTags["Int"] = "int" /\ AtomTags["Rat"] = "rat"
      /\ AtomTags["Real"] = "real" /\ AtomTags["Str"] = "str"
  BY DEF AtomTags
<1>3. {"sym", "int", "rat", "real", "str"} \cap {NoPiece} = {}
  BY DEF NoPiece
<1> QED BY <1>1, <1>2, <1>3

(* The members of a tree are those of no other. *)
LEMMA LeafObject ==
  ASSUME NEW u \in Trees, u.tag # "Compound"
  PROVE  ObjectOf(Seen(u)) = {u}
<1> DEFINE a == AtomTags[u.tag]
           x == <<"atom", a>>
           y == <<"value", u.text>>
           strings == <<x, y>>
<1>1. Seen(u).strings = strings
  <2>1. Seen(u) = Parts(strings, << >>, << >>)
    BY Zenon DEF Seen
  <2> HIDE DEF strings
  <2> QED BY <2>1, PartsAre
<1>2. x[1] = "atom" /\ x[2] = a /\ y[1] = "value" /\ y[2] = u.text /\ "atom" # "value"
  OBVIOUS
<1> HIDE DEF x, y, a
<1>3. DOMAIN strings = {1, 2} /\ strings[1] = x /\ strings[2] = y
  OBVIOUS
<1> HIDE DEF strings
<1>4. Given("atom", strings) = a
  <2>1. ~(\A k \in DOMAIN strings : strings[k][1] # "atom")
    BY <1>2, <1>3
  <2> DEFINE P(k) == /\ strings[k][1] = "atom"
                     /\ \A n \in DOMAIN strings : strings[n][1] = "atom" => n <= k
  <2>2. \A k \in DOMAIN strings : P(k) <=> k = 1
    BY <1>2, <1>3
  <2>3. (CHOOSE k \in DOMAIN strings : P(k)) = 1
    <3> HIDE DEF P
    <3> QED BY <1>3, <2>2
  <2> QED BY <1>2, <1>3, <2>1, <2>3, Zenon DEF Given
<1>5. Given("value", strings) = u.text
  <2>1. ~(\A k \in DOMAIN strings : strings[k][1] # "value")
    BY <1>2, <1>3
  <2> DEFINE P(k) == /\ strings[k][1] = "value"
                     /\ \A n \in DOMAIN strings : strings[n][1] = "value" => n <= k
  <2>2. \A k \in DOMAIN strings : P(k) <=> k = 2
    BY <1>2, <1>3
  <2>3. (CHOOSE k \in DOMAIN strings : P(k)) = 2
    <3> HIDE DEF P
    <3> QED BY <1>3, <2>2
  <2> QED BY <1>2, <1>3, <2>1, <2>3, Zenon DEF Given
<1>6. /\ u = Leaf(u.tag, u.text) /\ u.tag \in DOMAIN AtomTags /\ a # NoPiece
      /\ u.tag = "Rat" => IsRatio(u.text)
  BY LeafIs, TagsAre DEF a
<1> DEFINE tags == {tag \in DOMAIN AtomTags : AtomTags[tag] = a}
           kept == {tag \in tags : tag = "Rat" => IsRatio(u.text)}
<1>7. tags = {u.tag}
  BY <1>6, TagsAre DEF a
<1>8. kept = {u.tag}
  <2> HIDE DEF tags
  <2> QED BY <1>6, <1>7
<1>9. ObjectOf(Seen(u)) = {Leaf(tag, u.text) : tag \in kept}
  <2>1. Given("atom", Seen(u).strings) = a /\ Given("value", Seen(u).strings) = u.text
    BY <1>1, <1>4, <1>5
  <2> QED BY <1>6, <2>1, Zenon DEF ObjectOf
<1> HIDE DEF kept, Leaf
<1>10. {Leaf(tag, u.text) : tag \in kept} = {Leaf(u.tag, u.text)}
  BY <1>8
<1> QED BY <1>6, <1>9, <1>10, Zenon

LEMMA CompoundObject ==
  ASSUME NEW u \in Trees, u.tag = "Compound", ~Lost(u, "object")
  PROVE  ObjectOf(Seen(u)) = {u}
<1> DEFINE x == <<"head", u.text>>
           strings == <<x>>
           seen == Seen(u)
<1>1. seen.strings = strings /\ seen.args = u.args /\ seen.attrs = PairsOf(u)
  <2>1. seen = Parts(<<<<"head", u.text>>>>, u.args, PairsOf(u))
    BY Zenon DEF Seen
  <2> HIDE DEF seen
  <2> QED BY <2>1, PartsAre
<1>2. x[1] = "head" /\ x[2] = u.text /\ "atom" # "head"
  OBVIOUS
<1> HIDE DEF x, seen
<1>3. DOMAIN strings = {1} /\ strings[1] = x
  OBVIOUS
<1> HIDE DEF strings
<1>4. Given("atom", strings) = NoPiece
  BY <1>2, <1>3, Zenon DEF Given
<1>5. Given("head", strings) = u.text
  <2>1. ~(\A k \in DOMAIN strings : strings[k][1] # "head")
    BY <1>2, <1>3
  <2> DEFINE P(k) == /\ strings[k][1] = "head"
                     /\ \A n \in DOMAIN strings : strings[n][1] = "head" => n <= k
  <2>2. \A k \in DOMAIN strings : P(k) <=> k = 1
    BY <1>2, <1>3
  <2>3. (CHOOSE k \in DOMAIN strings : P(k)) = 1
    <3> HIDE DEF P
    <3> QED BY <1>3, <2>2
  <2> QED BY <1>2, <1>3, <2>1, <2>3, Zenon DEF Given
<1>6. u.text # NoPiece
  BY CompoundLost
<1>7. Node(u.text, seen) = {u}
  BY <1>1, NodeIs
<1>8. ObjectOf(seen) = Node(u.text, seen)
  BY <1>1, <1>4, <1>5, <1>6, Zenon DEF ObjectOf
<1> QED BY <1>7, <1>8 DEF seen

(* An object whose members are those of u. *)
IsObjectOf(u, s, i, f, e) ==
  /\ ObjectOf(Seen(u)) = {u} /\ i \in Nat /\ IsReader(f, "object", s)
  /\ Peek(s, i) = Open /\ f[<<"parts", i + 1>>] = {Took(Seen(u), e)}

LEMMA ObjectNodeIs ==
  ASSUME NEW u, NEW s, NEW i, NEW f, NEW e, IsObjectOf(u, s, i, f, e)
  PROVE  f[<<"node", i>>] = {Took(u, e)}
<1> USE DEF IsObjectOf
<1> DEFINE x == Took(Seen(u), e)
<1>1. f[<<"node", i>>] = ObjectNode(s, i, f)
  BY RuleIs DEF Rules, Step
<1>2. ~IsQuoted(Open) /\ ~IsNumeral(Open)
  <2>1. ~IsQuoted(Open) /\ ~IsInteger(Open)
    BY PiecesAssumption, Zenon
  <2> QED BY <2>1, Zenon DEF IsInteger
<1>3. ObjectNode(s, i, f) =
        UNION {{Took(t, r.at) : t \in ObjectOf(r.value)} : r \in f[<<"parts", i + 1>>]}
  BY <1>2, Zenon DEF ObjectNode
<1>4. x.value = Seen(u) /\ x.at = e
  BY DEF Took
<1> HIDE DEF x
<1>5. ObjectNode(s, i, f) = {Took(t, x.at) : t \in ObjectOf(x.value)}
  <2>1. f[<<"parts", i + 1>>] = {x}
    BY DEF x
  <2>2. ObjectNode(s, i, f) = UNION {{Took(t, r.at) : t \in ObjectOf(r.value)} : r \in {x}}
    BY <1>3, <2>1, Zenon
  <2>3. UNION {{Took(t, r.at) : t \in ObjectOf(r.value)} : r \in {x}}
          = {Took(t, x.at) : t \in ObjectOf(x.value)}
    OBVIOUS
  <2> QED BY <2>2, <2>3, Zenon
<1>6. ObjectNode(s, i, f) = {Took(u, e)}
  <2>1. ObjectNode(s, i, f) = {Took(t, e) : t \in {u}}
    BY <1>4, <1>5, Zenon
  <2> HIDE DEF Took
  <2> QED BY <2>1
<1> QED BY <1>1, <1>6, Zenon

(* The object text of a tree, whose members are read. *)
LEMMA ObjectNodeReads ==
  ASSUME NEW u \in Trees, MembersRead(u), ObjectOf(Seen(u)) = {u}
  PROVE  ObjectReads(u)
<1> SUFFICES ASSUME NEW s \in Seq(Tokens), NEW i \in Place, NEW f,
                    IsReader(f, "object", s), Occurs(PrintObject[u], s, i)
             PROVE  f[<<"node", i>>] = {Took(u, i + Len(PrintObject[u]))} /\ Peek(s, i) = Open
  BY Zenon DEF ObjectReads
<1> DEFINE w == Body(u)
           e == i + 1 + Len(w) + 1
<1>1. w \in Seq(Tokens) /\ PrintObject[u] = <<Open>> \o w \o <<Shut>>
  BY ObjectIs
<1> HIDE DEF w
<1>2. /\ i \in Nat /\ Peek(s, i) = Open /\ i + 1 \in Place /\ Occurs(w, s, i + 1)
      /\ Peek(s, i + 1 + Len(w)) = Shut /\ Len(PrintObject[u]) = Len(w) + 2 /\ Len(w) \in Nat
  <2>1. Open \in Tokens /\ Shut \in Tokens /\ Occurs(<<Open>> \o w \o <<Shut>>, s, i)
    BY <1>1, StringsAreTokens
  <2>2. /\ i \in Nat /\ Peek(s, i) = Open /\ i + 1 \in Place /\ Occurs(w, s, i + 1)
        /\ i + 1 + Len(w) \in Place /\ Peek(s, i + 1 + Len(w)) = Shut
        /\ Len(<<Open>> \o w \o <<Shut>>) = Len(w) + 2
    BY <1>1, <2>1, OccursBetween
  <2> QED BY <1>1, <2>2
<1>3. f[<<"parts", i + 1>>] = {Took(Seen(u), e)}
  BY <1>2 DEF MembersRead, w
<1>4. e = i + Len(PrintObject[u])
  BY <1>2
<1> HIDE DEF e
<1>5. f[<<"node", i>>] = {Took(u, e)}
  <2>1. IsObjectOf(u, s, i, f, e)
    BY <1>2, <1>3 DEF IsObjectOf
  <2> QED BY <2>1, ObjectNodeIs
<1> QED BY <1>2, <1>4, <1>5, Zenon

(* A tree that an object carries is read back from its object text, and    *)
(* from the members of one (object_inner, JsonParser).                     *)
THEOREM ObjectRoundTrip ==
  ASSUME NEW u \in Trees, Carries("object", u)
  PROVE  ObjectReads(u) /\ MembersRead(u) /\ ObjectOf(Seen(u)) = {u}
<1> DEFINE Good == {v \in Trees : Carries("object", v) =>
                      ObjectReads(v) /\ MembersRead(v) /\ ObjectOf(Seen(v)) = {v}}
<1>1. Height \in [Trees -> Nat]
  BY TreesAssumption
<1>2. ASSUME NEW v \in Trees, \A w \in Trees : Height[w] < Height[v] => w \in Good
      PROVE  v \in Good
  <2> SUFFICES ASSUME Carries("object", v)
               PROVE  ObjectReads(v) /\ MembersRead(v) /\ ObjectOf(Seen(v)) = {v}
    OBVIOUS
  <2>1. ~Lost(v, "object") /\ \A w \in PartsOf(v) : Carries("object", w)
    BY CarriesAll
  <2>2. CASE v.tag # "Compound"
    <3>1. MembersRead(v) /\ ObjectOf(Seen(v)) = {v}
      BY <2>2, LeafMembersRead, LeafObject
    <3> QED BY <3>1, ObjectNodeReads
  <2>3. CASE v.tag = "Compound"
    <3>1. \A w \in PartsOf(v) : w \in Trees /\ Height[w] < Height[v]
      BY <2>3, CompoundIs
    <3>2. \A w \in PartsOf(v) : ObjectReads(w)
      BY <1>2, <2>1, <3>1
    <3>3. MembersRead(v) /\ ObjectOf(Seen(v)) = {v}
      BY <2>1, <2>3, <3>2, CompoundMembersRead, CompoundObject
    <3> QED BY <3>3, ObjectNodeReads
  <2> QED BY <2>2, <2>3
<1>3. \A v \in Trees : v \in Good
  <2> HIDE DEF Good
  <2> QED BY <1>1, <1>2, RankInduction
<1> QED BY <1>3

-----------------------------------------------------------------------------

(* The text of t when another program has added its member. *)
Passed(t) == <<Open>> \o Extra \o <<Comma>> \o Tail(PrintObject[t])

ExtraValue == <<"[", "1", Comma, Open, Shut, Comma, "null", "]">>

LEMMA ExtraIs ==
  /\ ExtraValue \in Seq(Tokens) /\ Len(ExtraValue) = 8
  /\ ExtraValue[1] = "[" /\ ExtraValue[2] = "1" /\ ExtraValue[3] = Comma /\ ExtraValue[4] = Open
  /\ ExtraValue[5] = Shut /\ ExtraValue[6] = Comma /\ ExtraValue[7] = "null" /\ ExtraValue[8] = "]"
  /\ Extra \in Seq(Tokens) /\ Len(Extra) = 10 /\ Extra = <<Quoted("span"), ":">> \o ExtraValue
  /\ Extra[1] = Quoted("span")
<1>1. ExtraValue \in Seq(Tokens)
  BY StringsAreTokens DEF ExtraValue
<1>2. /\ Len(ExtraValue) = 8
      /\ ExtraValue[1] = "[" /\ ExtraValue[2] = "1" /\ ExtraValue[3] = Comma
      /\ ExtraValue[4] = Open /\ ExtraValue[5] = Shut /\ ExtraValue[6] = Comma
      /\ ExtraValue[7] = "null" /\ ExtraValue[8] = "]"
  BY DEF ExtraValue
<1>3. Extra = <<Quoted("span"), ":">> \o ExtraValue
  BY Zenon DEF Extra, Member, ExtraValue
<1>4. "span" \in Words
  BY WordsAre
<1>5. Extra \in Seq(Tokens) /\ <<Quoted("span"), ":">> \in Seq(Tokens)
  BY <1>1, <1>4, MemberTyped, Zenon DEF Extra, ExtraValue
<1> DEFINE lead == <<Quoted("span"), ":">>
<1>6. Len(lead) = 2 /\ lead[1] = Quoted("span") /\ lead \in Seq(Tokens)
  BY <1>5
<1> HIDE DEF lead
<1>7. Len(lead \o ExtraValue) = Len(lead) + Len(ExtraValue) /\ (lead \o ExtraValue)[1] = lead[1]
  <2>1. /\ Len(lead \o ExtraValue) = Len(lead) + Len(ExtraValue)
        /\ \A k \in 1 .. Len(lead) + Len(ExtraValue) :
             (lead \o ExtraValue)[k] = IF k <= Len(lead) THEN lead[k] ELSE ExtraValue[k - Len(lead)]
    BY <1>1, <1>6, ConcatProperties
  <2>2. 1 \in 1 .. Len(lead) + Len(ExtraValue) /\ 1 <= Len(lead)
    BY <1>2, <1>6
  <2> QED BY <2>1, <2>2, Zenon
<1>8. Len(Extra) = 10 /\ Extra[1] = Quoted("span")
  <2>1. Extra = lead \o ExtraValue
    BY <1>3 DEF lead
  <2> QED BY <1>2, <1>6, <1>7, <2>1
<1> QED BY <1>1, <1>2, <1>3, <1>5, <1>8

Skipped(f, i, e) == f[<<"skip", i>>] = {Took(NoParts, e)}

(* A value that is skipped, before the values after it. *)
LEMMA ValueThen ==
  ASSUME NEW s, NEW i \in Nat, NEW f, IsReader(f, "object", s), NEW e, Skipped(f, i, e)
  PROVE  f[<<"values", i>>] = More(s, e, "values", "]", f)
<1> DEFINE x == Took(NoParts, e)
<1>1. f[<<"values", i>>] = Values(s, i, f)
  BY RuleIs DEF Rules, Step
<1>2. x.at = e
  BY DEF Took
<1>3. f[<<"skip", i>>] = {x}
  BY DEF Skipped
<1> HIDE DEF x
<1>4. Values(s, i, f) = UNION {More(s, r.at, "values", "]", f) : r \in {x}}
  BY <1>3, Zenon DEF Values
<1>5. UNION {More(s, r.at, "values", "]", f) : r \in {x}} = More(s, x.at, "values", "]", f)
  OBVIOUS
<1> QED BY <1>1, <1>2, <1>4, <1>5, Zenon

(* The value of the member that was added is skipped. *)
LEMMA ExtraSkipped ==
  ASSUME NEW s \in Seq(Tokens), NEW i \in Place, NEW f, IsReader(f, "object", s),
         Occurs(ExtraValue, s, i)
  PROVE  MemberValue(s, "span", i, f) = {Took(NoParts, i + 8)}
<1>1. i \in Nat
  BY DEF Place
<1>2. /\ Peek(s, i) = "[" /\ Peek(s, i + 1) = "1" /\ Peek(s, i + 2) = Comma
      /\ Peek(s, i + 3) = Open /\ Peek(s, i + 4) = Shut /\ Peek(s, i + 5) = Comma
      /\ Peek(s, i + 6) = "null" /\ Peek(s, i + 7) = "]"
  <2>1. \A k \in 1 .. 8 : Peek(s, i + k - 1) = ExtraValue[k]
    <3>1. ExtraValue \in Seq(Tokens) /\ Len(ExtraValue) = 8
      BY ExtraIs
    <3> QED BY <3>1, OccursOne
  <2>2. /\ Peek(s, i) = ExtraValue[1] /\ Peek(s, i + 1) = ExtraValue[2]
        /\ Peek(s, i + 2) = ExtraValue[3] /\ Peek(s, i + 3) = ExtraValue[4]
        /\ Peek(s, i + 4) = ExtraValue[5] /\ Peek(s, i + 5) = ExtraValue[6]
        /\ Peek(s, i + 6) = ExtraValue[7] /\ Peek(s, i + 7) = ExtraValue[8]
    <3>1. /\ i + 1 - 1 = i /\ i + 2 - 1 = i + 1 /\ i + 3 - 1 = i + 2 /\ i + 4 - 1 = i + 3
          /\ i + 5 - 1 = i + 4 /\ i + 6 - 1 = i + 5 /\ i + 7 - 1 = i + 6 /\ i + 8 - 1 = i + 7
      BY <1>1
    <3>2. /\ 1 \in 1 .. 8 /\ 2 \in 1 .. 8 /\ 3 \in 1 .. 8 /\ 4 \in 1 .. 8
          /\ 5 \in 1 .. 8 /\ 6 \in 1 .. 8 /\ 7 \in 1 .. 8 /\ 8 \in 1 .. 8
      OBVIOUS
    <3>3. Peek(s, i) = ExtraValue[1] /\ Peek(s, i + 1) = ExtraValue[2]
      BY <2>1, <3>1, <3>2, Zenon
    <3>4. Peek(s, i + 2) = ExtraValue[3] /\ Peek(s, i + 3) = ExtraValue[4]
      BY <2>1, <3>1, <3>2, Zenon
    <3>5. Peek(s, i + 4) = ExtraValue[5] /\ Peek(s, i + 5) = ExtraValue[6]
      BY <2>1, <3>1, <3>2, Zenon
    <3>6. Peek(s, i + 6) = ExtraValue[7] /\ Peek(s, i + 7) = ExtraValue[8]
      BY <2>1, <3>1, <3>2, Zenon
    <3> QED BY <3>3, <3>4, <3>5, <3>6
  <2> QED BY <2>2, ExtraIs
<1>3. \A k \in 0 .. 7 : i + k \in Nat /\ f[<<"skip", i + k>>] = SkipValue(s, i + k, f)
  BY <1>1, RuleIs DEF Rules, Step
<1>4. /\ "[" # Open /\ "1" # "[" /\ "1" # Open /\ "1" # "]" /\ "null" # "[" /\ "null" # Open
      /\ Open # "[" /\ Comma # "]" /\ "]" # Comma /\ IsInteger("1")
  <2>1. "1" # "[" /\ "1" # "]" /\ "null" # "["
    OBVIOUS
  <2>2. IsInteger("1")
    BY PiecesAssumption, Zenon
  <2>3. "[" # Open /\ "1" # Open /\ "null" # Open /\ "]" # Comma
    BY MarksArePieces, Zenon
  <2> QED BY <2>1, <2>2, <2>3
<1>5. f[<<"skip", i + 6>>] = {Took(NoParts, i + 7)}
  <2>1. f[<<"skip", i + 6>>] = SkipValue(s, i + 6, f) /\ i + 6 + 1 = i + 7
    BY <1>1, <1>3
  <2>2. Peek(s, i + 6) \notin {"[", Open} /\ Peek(s, i + 6) \in {"true", "false", "null"}
    BY <1>2, <1>4
  <2>3. SkipValue(s, i + 6, f) = {Took(NoParts, i + 6 + 1)}
    BY <2>2, Zenon DEF SkipValue
  <2> QED BY <2>1, <2>3, Zenon
<1>6. f[<<"values", i + 6>>] = {Took(NoParts, i + 8)}
  <2>1. f[<<"values", i + 6>>] = More(s, i + 7, "values", "]", f)
    <3> DEFINE j == i + 6
               e == i + 7
    <3>1. j \in Nat /\ Skipped(f, j, e)
      BY <1>1, <1>5 DEF Skipped
    <3> HIDE DEF j, e
    <3>2. f[<<"values", j>>] = More(s, e, "values", "]", f)
      BY <3>1, ValueThen
    <3> QED BY <3>2 DEF j, e
  <2>2. More(s, i + 7, "values", "]", f) = {Took(NoParts, i + 7 + 1)}
    BY <1>2, <1>4, Zenon DEF More
  <2>3. i + 7 + 1 = i + 8
    BY <1>1
  <2> QED BY <2>1, <2>2, <2>3, Zenon
<1>7. f[<<"skip", i + 3>>] = {Took(NoParts, i + 5)}
  <2>1. /\ f[<<"skip", i + 3>>] = SkipValue(s, i + 3, f)
        /\ i + 3 + 1 = i + 4 /\ i + 3 + 2 = i + 5
    BY <1>1, <1>3
  <2>2. SkipValue(s, i + 3, f) = {Took(NoParts, i + 3 + 2)}
    <3>1. Peek(s, i + 3) = Open /\ Peek(s, i + 3 + 1) = Shut /\ Open # "["
      BY <1>2, <1>4, <2>1, Zenon
    <3> QED BY <3>1, Zenon DEF SkipValue
  <2> QED BY <2>1, <2>2, Zenon
<1>8. f[<<"values", i + 3>>] = {Took(NoParts, i + 8)}
  <2>1. f[<<"values", i + 3>>] = More(s, i + 5, "values", "]", f)
    <3> DEFINE j == i + 3
               e == i + 5
    <3>1. j \in Nat /\ Skipped(f, j, e)
      BY <1>1, <1>7 DEF Skipped
    <3> HIDE DEF j, e
    <3>2. f[<<"values", j>>] = More(s, e, "values", "]", f)
      BY <3>1, ValueThen
    <3> QED BY <3>2 DEF j, e
  <2>2. More(s, i + 5, "values", "]", f) = f[<<"values", i + 5 + 1>>]
    BY <1>2, <1>4, Zenon DEF More
  <2>3. i + 5 + 1 = i + 6
    BY <1>1
  <2> QED BY <1>6, <2>1, <2>2, <2>3, Zenon
<1>9. f[<<"skip", i + 1>>] = {Took(NoParts, i + 2)}
  <2>1. f[<<"skip", i + 1>>] = SkipValue(s, i + 1, f) /\ i + 1 + 1 = i + 2
    BY <1>1, <1>3
  <2>2. Peek(s, i + 1) \notin {"[", Open} /\ IsInteger(Peek(s, i + 1))
    BY <1>2, <1>4
  <2>3. SkipValue(s, i + 1, f) = {Took(NoParts, i + 1 + 1)}
    BY <2>2, Zenon DEF SkipValue
  <2> QED BY <2>1, <2>3, Zenon
<1>10. f[<<"values", i + 1>>] = {Took(NoParts, i + 8)}
  <2>1. f[<<"values", i + 1>>] = More(s, i + 2, "values", "]", f)
    <3> DEFINE j == i + 1
               e == i + 2
    <3>1. j \in Nat /\ Skipped(f, j, e)
      BY <1>1, <1>9 DEF Skipped
    <3> HIDE DEF j, e
    <3>2. f[<<"values", j>>] = More(s, e, "values", "]", f)
      BY <3>1, ValueThen
    <3> QED BY <3>2 DEF j, e
  <2>2. More(s, i + 2, "values", "]", f) = f[<<"values", i + 2 + 1>>]
    BY <1>2, <1>4, Zenon DEF More
  <2>3. i + 2 + 1 = i + 3
    BY <1>1
  <2> QED BY <1>8, <2>1, <2>2, <2>3, Zenon
<1>11. f[<<"skip", i>>] = f[<<"values", i + 1>>]
  <2>1. f[<<"skip", i>>] = SkipValue(s, i, f)
    BY <1>1, RuleIs DEF Rules, Step
  <2>2. SkipValue(s, i, f) = f[<<"values", i + 1>>]
    BY <1>2, <1>4, Zenon DEF SkipValue
  <2> QED BY <2>1, <2>2
<1>12. MemberValue(s, "span", i, f) = f[<<"skip", i>>]
  <2>1. "span" \notin {"atom", "value", "head"} /\ "span" # "args" /\ "span" # "attrs"
    OBVIOUS
  <2> QED BY <2>1, Zenon DEF MemberValue
<1> QED BY <1>10, <1>11, <1>12, Zenon

LEMMA TailOf ==
  ASSUME NEW a \in Tokens, NEW w \in Seq(Tokens)
  PROVE  Tail(<<a>> \o w) = w
<1> DEFINE one == <<a>>
           both == one \o w
<1>1. one \in Seq(Tokens) /\ Len(one) = 1
  OBVIOUS
<1> HIDE DEF one
<1>2. /\ both \in Seq(Tokens) /\ Len(both) = 1 + Len(w) /\ Len(w) \in Nat
      /\ \A k \in 1 .. Len(w) : both[k + 1] = w[k]
  <2>1. /\ both \in Seq(Tokens) /\ Len(both) = Len(one) + Len(w) /\ Len(w) \in Nat
        /\ \A k \in 1 .. Len(one) + Len(w) :
             both[k] = IF k <= Len(one) THEN one[k] ELSE w[k - Len(one)]
    <3>1. one \o w \in Seq(Tokens) /\ Len(w) \in Nat
      BY <1>1, ConcatProperties
    <3>2. /\ Len(one \o w) = Len(one) + Len(w)
          /\ \A k \in 1 .. Len(one) + Len(w) :
               (one \o w)[k] = IF k <= Len(one) THEN one[k] ELSE w[k - Len(one)]
      BY <1>1, ConcatProperties
    <3> QED BY <3>1, <3>2, Zenon
  <2> HIDE DEF both
  <2>2. ASSUME NEW k \in 1 .. Len(w) PROVE both[k + 1] = w[k]
    <3>1. k + 1 \in 1 .. Len(one) + Len(w) /\ ~(k + 1 <= Len(one)) /\ (k + 1) - Len(one) = k
      BY <1>1, <2>1
    <3>2. both[k + 1] = IF k + 1 <= Len(one) THEN one[k + 1] ELSE w[(k + 1) - Len(one)]
      BY <2>1, <3>1, Zenon
    <3> QED BY <3>1, <3>2, Zenon
  <2> QED BY <1>1, <2>1, <2>2
<1> HIDE DEF both
<1>3. both # << >>
  BY <1>2
<1>4. /\ Tail(both) \in Seq(Tokens) /\ Len(Tail(both)) = Len(both) - 1
      /\ \A k \in 1 .. Len(Tail(both)) : Tail(both)[k] = both[k + 1]
  BY <1>2, <1>3, HeadTailProperties
<1>5. Len(Tail(both)) = Len(w) /\ \A k \in 1 .. Len(Tail(both)) : Tail(both)[k] = w[k]
  BY <1>2, <1>4
<1>6. Tail(both) = w
  BY <1>4, <1>5, SeqEqual
<1> QED BY <1>6 DEF both, one

(* An object of u to which a member has been added, from its pieces. *)
PassedAt(u, s) ==
  /\ s \in Seq(Tokens) /\ Len(s) = 13 + Len(Body(u))
  /\ Peek(s, 1) = Open /\ Occurs(Extra, s, 2) /\ Peek(s, 12) = Comma
  /\ Occurs(Body(u), s, 13) /\ Peek(s, 13 + Len(Body(u))) = Shut

LEMMA PassedIs ==
  ASSUME NEW u \in Trees
  PROVE  PassedAt(u, Passed(u)) /\ Passed(u)[2] = Quoted("span")
<1> DEFINE w == Body(u)
           front == <<Open>> \o Extra \o <<Comma>>
           back == w \o <<Shut>>
           s == Passed(u)
<1>1. /\ Open \in Tokens /\ Shut \in Tokens /\ Comma \in Tokens /\ w \in Seq(Tokens)
      /\ PrintObject[u] = <<Open>> \o w \o <<Shut>>
  BY ObjectIs, StringsAreTokens
<1>2. Extra \in Seq(Tokens) /\ Len(Extra) = 10 /\ Extra[1] = Quoted("span")
  BY ExtraIs
<1> HIDE DEF w
<1>3. Tail(PrintObject[u]) = back /\ back \in Seq(Tokens) /\ Len(back) = Len(w) + 1
  <2>1. \A a \in Tokens : <<a>> \in Seq(Tokens) /\ Len(<<a>>) = 1
    OBVIOUS
  <2>2. (<<Open>> \o w) \o <<Shut>> = <<Open>> \o (w \o <<Shut>>)
    BY <1>1, <2>1, ConcatAssociative
  <2>3. w \o <<Shut>> \in Seq(Tokens) /\ Len(w \o <<Shut>>) = Len(w) + Len(<<Shut>>)
    BY <1>1, <2>1, ConcatProperties
  <2>4. Tail(<<Open>> \o (w \o <<Shut>>)) = w \o <<Shut>>
    BY <1>1, <2>3, TailOf
  <2>5. Len(<<Shut>>) = 1
    OBVIOUS
  <2> QED BY <1>1, <2>2, <2>3, <2>4, <2>5, Zenon
<1>4. front \in Seq(Tokens) /\ Len(front) = 12
  <2> DEFINE a == <<Open>>
             c == <<Comma>>
  <2>1. a \in Seq(Tokens) /\ Len(a) = 1 /\ c \in Seq(Tokens) /\ Len(c) = 1
    BY <1>1
  <2> HIDE DEF a, c
  <2>2. a \o Extra \in Seq(Tokens) /\ Len(a \o Extra) = Len(a) + Len(Extra)
    BY <1>2, <2>1, ConcatProperties
  <2>3. (a \o Extra) \o c \in Seq(Tokens) /\ Len((a \o Extra) \o c) = Len(a \o Extra) + Len(c)
    BY <2>1, <2>2, ConcatProperties
  <2>4. Len((a \o Extra) \o c) = 12
    BY <1>2, <2>1, <2>2, <2>3
  <2> QED BY <2>3, <2>4 DEF a, c
<1>5. s = front \o back
  BY <1>3, Zenon DEF Passed
<1> HIDE DEF front, back, s
<1>6. s \in Seq(Tokens) /\ Len(s) = 13 + Len(w) /\ Len(w) \in Nat
  <2>1. s \in Seq(Tokens) /\ Len(s) = Len(front) + Len(back) /\ Len(w) \in Nat
    <3>1. front \in Seq(Tokens) /\ back \in Seq(Tokens) /\ Len(w) \in Nat
      BY <1>1, <1>3, <1>4
    <3>2. front \o back \in Seq(Tokens) /\ Len(front \o back) = Len(front) + Len(back)
      BY <3>1, ConcatProperties
    <3> QED BY <1>5, <3>1, <3>2, Zenon
  <2> QED BY <1>3, <1>4, <2>1
<1>7. 1 \in Place /\ Occurs(s, s, 1)
  BY <1>6 DEF Place, Occurs
<1>8. Occurs(front, s, 1) /\ Occurs(back, s, 13) /\ 13 \in Place
  <2>1. Occurs(front, s, 1) /\ Occurs(back, s, 1 + Len(front)) /\ 1 + Len(front) \in Place
    <3>1. Occurs(front \o back, s, 1)
      BY <1>5, <1>7, Zenon
    <3> QED BY <1>3, <1>4, <1>6, <1>7, <3>1, OccursConcat
  <2>2. 1 + Len(front) = 13
    BY <1>4
  <2> QED BY <2>1, <2>2, Zenon
<1>9. Peek(s, 1) = Open /\ 2 \in Place /\ Occurs(Extra, s, 2) /\ Peek(s, 12) = Comma
  <2>1. /\ Peek(s, 1) = Open /\ 1 + 1 \in Place /\ Occurs(Extra, s, 1 + 1)
        /\ Peek(s, 1 + 1 + Len(Extra)) = Comma
    <3>1. Occurs(<<Open>> \o Extra \o <<Comma>>, s, 1)
      BY <1>8 DEF front
    <3>2. Extra \in Seq(Tokens) /\ Open \in Tokens /\ Comma \in Tokens
      BY <1>1, <1>2
    <3>3. s \in Seq(Tokens) /\ 1 \in Place
      BY <1>6, <1>7
    <3> QED BY <3>1, <3>2, <3>3, OccursBetween
  <2>2. 1 + 1 = 2 /\ 1 + 1 + Len(Extra) = 12
    BY <1>2
  <2> QED BY <2>1, <2>2, Zenon
<1>10. Occurs(w, s, 13) /\ Peek(s, 13 + Len(w)) = Shut
  <2> DEFINE z == <<Shut>>
  <2>1. z \in Seq(Tokens) /\ Len(z) > 0 /\ z[1] = Shut
    BY <1>1
  <2>2. Occurs(w \o z, s, 13)
    BY <1>8 DEF back
  <2> HIDE DEF z
  <2>3. Occurs(w, s, 13) /\ Occurs(z, s, 13 + Len(w)) /\ 13 + Len(w) \in Place
    BY <1>1, <1>6, <1>8, <2>1, <2>2, OccursConcat
  <2>4. Peek(s, 13 + Len(w)) = z[1]
    BY <1>6, <2>1, <2>3, OccursFirst
  <2> QED BY <2>1, <2>3, <2>4, Zenon
<1>11. s[2] = Quoted("span")
  <2>1. Len(Extra) > 0
    BY <1>2
  <2>2. s[2] = Extra[1]
    BY <1>2, <1>6, <1>9, <2>1, OccursFirst
  <2> QED BY <1>2, <2>2, Zenon
<1> QED BY <1>6, <1>9, <1>10, <1>11 DEF PassedAt, w, s

LEMMA SeenWhole ==
  ASSUME NEW u \in Trees
  PROVE  IsWhole(NoParts, Seen(u), Seen(u))
<1> DEFINE seen == Seen(u)
<1>1. NoParts.strings = << >> /\ NoParts.args = << >> /\ NoParts.attrs = << >>
  BY DEF NoParts, Parts
<1>2. /\ << >> \o seen.strings = seen.strings /\ << >> \o seen.args = seen.args
      /\ << >> \o seen.attrs = seen.attrs
      /\ seen = Parts(seen.strings, seen.args, seen.attrs)
  <2>1. CASE u.tag = "Compound"
    <3> DEFINE x == <<"head", u.text>>
               pairs == PairsOf(u)
    <3>1. u.args \in Seq(Trees) /\ pairs \in Seq(STRING \X Trees)
      BY <2>1, PairsTyped, CompoundIs
    <3> HIDE DEF pairs
    <3>2. << >> \o u.args = u.args /\ << >> \o pairs = pairs
      BY <3>1, ConcatEmptySeq
    <3>3. seen = Parts(<<x>>, u.args, pairs)
      BY <2>1, Zenon DEF Seen, pairs
    <3> HIDE DEF x, seen
    <3>4. << >> \o <<x>> = <<x>>
      OBVIOUS
    <3>5. seen.strings = <<x>> /\ seen.args = u.args /\ seen.attrs = pairs
      BY <3>3, PartsAre
    <3> QED BY <3>2, <3>3, <3>4, <3>5, Zenon
  <2>2. CASE u.tag # "Compound"
    <3> DEFINE x == <<"atom", AtomTags[u.tag]>>
               y == <<"value", u.text>>
    <3>1. seen = Parts(<<x, y>>, << >>, << >>)
      BY <2>2, Zenon DEF Seen
    <3> HIDE DEF x, y, seen
    <3>2. << >> \o <<x, y>> = <<x, y>> /\ << >> \o << >> = << >>
      OBVIOUS
    <3>3. seen.strings = <<x, y>> /\ seen.args = << >> /\ seen.attrs = << >>
      BY <3>1, PartsAre
    <3> QED BY <3>1, <3>2, <3>3, Zenon
  <2> QED BY <2>1, <2>2
<1> HIDE DEF seen
<1>3. IsWhole(NoParts, seen, seen)
  BY <1>1, <1>2, Zenon DEF IsWhole
<1> QED BY <1>3 DEF seen

(* An object that was passed on is read as the object it was. *)
LEMMA PassedReads ==
  ASSUME NEW u \in Trees, Carries("object", u)
  PROVE  Reading(Passed(u), "object") = {u}
<1> DEFINE s == Passed(u)
           z == Len(s) + 1
           span == "span"
<1>1. /\ s \in Seq(Tokens) /\ Len(s) = 13 + Len(Body(u)) /\ Peek(s, 1) = Open
      /\ Occurs(Extra, s, 2) /\ Peek(s, 12) = Comma
      /\ Occurs(Body(u), s, 13) /\ Peek(s, 13 + Len(Body(u))) = Shut
  BY PassedIs DEF PassedAt
<1>2. MembersRead(u) /\ ObjectOf(Seen(u)) = {u} /\ "object" \in Modes
  BY ObjectRoundTrip DEF Modes
<1>3. ExtraValue \in Seq(Tokens) /\ Extra = <<Quoted(span), ":">> \o ExtraValue /\ span \in Words
  BY ExtraIs, WordsAre
<1> HIDE DEF span
<1>4. HasMember(span, ExtraValue, s, 2)
  <2>1. 2 \in Place
    BY DEF Place
  <2> QED BY <1>1, <1>3, <2>1, Zenon DEF HasMember
<1> HIDE DEF s
<1>5. ASSUME NEW f, IsReader(f, "object", s)
      PROVE  f[<<"node", 1>>] = {Took(u, z)}
  <2>1. f[<<"parts", 13>>] = {Took(Seen(u), z)}
    <3>1. 13 \in Place
      BY DEF Place
    <3>2. f[<<"parts", 13>>] = {Took(Seen(u), 13 + Len(Body(u)) + 1)}
      BY <1>1, <1>2, <1>5, <3>1, Zenon DEF MembersRead
    <3> QED BY <1>1, <3>2, Zenon
  <2>2. Gives(s, span, 2, f, NoParts, 12)
    <3>1. 4 \in Place /\ Occurs(ExtraValue, s, 4)
      <4>1. 2 + 2 \in Place /\ Occurs(ExtraValue, s, 2 + 2)
        BY <1>1, <1>4, KeyedIs
      <4>2. 2 + 2 = 4
        OBVIOUS
      <4> QED BY <4>1, <4>2, Zenon
    <3>2. MemberValue(s, "span", 4, f) = {Took(NoParts, 4 + 8)}
      BY <1>1, <1>5, <3>1, ExtraSkipped
    <3>3. 2 + 2 = 4 /\ 4 + 8 = 12
      OBVIOUS
    <3> QED BY <3>2, <3>3, Zenon DEF Gives, span
  <2>3. GoesOn(s, f, 12, Seen(u), z)
    <3>1. 12 + 1 = 13
      OBVIOUS
    <3> QED BY <1>1, <2>1, <3>1, Zenon DEF GoesOn
  <2>4. IsWhole(NoParts, Seen(u), Seen(u))
    BY SeenWhole
  <2>5. f[<<"parts", 2>>] = {Took(Seen(u), z)}
    <3>1. 12 \in Nat
      OBVIOUS
    <3> HIDE DEF z
    <3> QED BY <1>1, <1>4, <1>5, <2>2, <2>3, <2>4, <3>1, MemberThen
  <2>6. IsObjectOf(u, s, 1, f, z)
    <3>1. 1 \in Nat /\ 1 + 1 = 2
      OBVIOUS
    <3> QED BY <1>1, <1>2, <1>5, <2>5, <3>1, Zenon DEF IsObjectOf
  <2> QED BY <2>6, ObjectNodeIs
<1>6. \A f : IsReader(f, "object", s) => f[<<"node", 1>>] = {Took(u, Len(s) + 1)}
  BY <1>5, Zenon
<1>7. s \in Seq(Tokens) /\ "object" \in Modes
  BY <1>1, <1>2
<1>8. Reading(s, "object") = {u}
  BY <1>6, <1>7, ReadingIs
<1> QED BY <1>8 DEF s

(* What m carries of a text that m wrote comes back from it. *)
LEMMA WrittenReads ==
  ASSUME NEW u \in Trees, NEW m \in Modes, Carries(m, u)
  PROVE  Reading(Written(u, m), m) = {u}
<1> DEFINE s == Printer(m)[u]
           z == 1 + Len(s)
<1>1. s \in Seq(Tokens) /\ Written(u, m) = s
  <2>1. s \in Seq(Tokens)
    BY PrinterIs
  <2>2. Written(u, m) = s
    BY DEF Written, Printer, Modes
  <2> QED BY <2>1, <2>2
<1>2. (m = "core" => s = PrintCore[u]) /\ (m = "strict" => s = PrintStrict[u])
      /\ (m = "object" => s = PrintObject[u])
  BY DEF Printer
<1> HIDE DEF s
<1>3. 1 \in Place /\ Occurs(s, s, 1) /\ Len(s) \in Nat /\ z = Len(s) + 1 /\ Peek(s, z) = NoPiece
  BY <1>1 DEF Place, Occurs, Peek
<1>4. Peek(s, z) \notin {"(", "="}
  BY <1>3, MarksArePieces
<1> HIDE DEF z
<1>5. ASSUME NEW f, IsReader(f, m, s)
      PROVE  f[<<"node", 1>>] = {Took(u, z)}
  <2>1. CASE m = "core"
    <3>1. CoreReads(u)
      BY <2>1, CoreRoundTrip
    <3>2. IsReader(f, "core", s) /\ PrintCore[u] = s
      BY <1>2, <1>5, <2>1, Zenon
    <3>3. f[<<"node", 1>>] = {Took(u, 1 + Len(s))}
      BY <1>1, <1>3, <3>1, <3>2 DEF CoreReads
    <3> QED BY <3>3 DEF z
  <2>2. CASE m = "strict"
    <3>1. StrictReads(u)
      BY <2>2, StrictRoundTrip
    <3>2. Peek(s, 1 + Len(s)) \notin {"(", "="}
      BY <1>4 DEF z
    <3>3. IsReader(f, "strict", s) /\ PrintStrict[u] = s
      BY <1>2, <1>5, <2>2, Zenon
    <3>4. f[<<"node", 1>>] = {Took(u, 1 + Len(s))}
      BY <1>1, <1>3, <3>1, <3>2, <3>3 DEF StrictReads
    <3> QED BY <3>4 DEF z
  <2>3. CASE m = "object"
    <3>1. ObjectReads(u)
      BY <2>3, ObjectRoundTrip
    <3>2. IsReader(f, "object", s) /\ PrintObject[u] = s
      BY <1>2, <1>5, <2>3, Zenon
    <3>3. f[<<"node", 1>>] = {Took(u, 1 + Len(s))}
      BY <1>1, <1>3, <3>1, <3>2 DEF ObjectReads
    <3> QED BY <3>3 DEF z
  <2> QED BY <2>1, <2>2, <2>3 DEF Modes
<1>6. \A f : IsReader(f, m, s) => f[<<"node", 1>>] = {Took(u, Len(s) + 1)}
  BY <1>3, <1>5, Zenon
<1>7. Reading(s, m) = {u}
  BY <1>1, <1>6, ReadingIs
<1> QED BY <1>1, <1>7

-----------------------------------------------------------------------------

Carried == \A k \in DOMAIN used : Carries(used[k], original)

(* While every projection of the chain carries the tree, there is one tree *)
(* between two programs, or a text of it: the one that was written, or the *)
(* one that was passed on.                                                 *)
ChainInv ==
  /\ original \in Trees
  /\ used \in Seq(Modes)
  /\ mode \in Modes \cup {"none"}
  /\ Carried =>
       IF mode = "none" THEN tree = {original}
       ELSE /\ \E k \in DOMAIN used : used[k] = mode
            /\ \/ text = Written(original, mode)
               \/ mode = "object" /\ text = Passed(original)

LEMMA ChainBegins ==
  ASSUME Init
  PROVE  ChainInv
<1>1. used \in Seq(Modes)
  BY DEF Init
<1> QED BY <1>1 DEF Init, ChainInv

LEMMA WriteKeepsChain ==
  ASSUME ChainInv, NEW m \in Modes, Write(m)
  PROVE  ChainInv'
<1>1. /\ mode = "none" /\ mode' = m /\ used' = Append(used, m)
      /\ original' = original /\ tree' = tree
  BY DEF Write
<1>2. PICK t \in tree \cap Writable : text' = Written(t, m)
  BY DEF Write
<1>3. used \in Seq(Modes) /\ original \in Trees
  BY DEF ChainInv
<1>4. used' \in Seq(Modes) /\ used'[Len(used) + 1] = m /\ Len(used) + 1 \in DOMAIN used'
      /\ \A k \in DOMAIN used : k \in DOMAIN used' /\ used'[k] = used[k]
  BY <1>1, <1>3
<1>5. m # "none"
  BY DEF Modes
<1>6. ASSUME Carried'
      PROVE  (\E k \in DOMAIN used' : used'[k] = mode') /\ text' = Written(original', mode')
  <2>1. Carried
    BY <1>1, <1>4, <1>6 DEF Carried
  <2>2. tree = {original}
    BY <1>1, <2>1 DEF ChainInv
  <2>3. t = original
    BY <1>2, <2>2
  <2> QED BY <1>1, <1>2, <1>4, <2>3
<1> QED BY <1>1, <1>3, <1>4, <1>5, <1>6 DEF ChainInv

LEMMA ReadKeepsChain ==
  ASSUME ChainInv, Read
  PROVE  ChainInv'
<1>1. /\ mode # "none" /\ mode' = "none" /\ tree' = Reading(text, mode)
      /\ original' = original /\ used' = used
  BY DEF Read
<1>2. original \in Trees /\ used \in Seq(Modes) /\ mode \in Modes
  BY <1>1 DEF ChainInv
<1>3. ASSUME Carried' PROVE tree' = {original'}
  <2>1. Carried
    BY <1>1, <1>3 DEF Carried
  <2>2. /\ \E k \in DOMAIN used : used[k] = mode
        /\ text = Written(original, mode) \/ (mode = "object" /\ text = Passed(original))
    BY <1>1, <2>1 DEF ChainInv
  <2>3. Carries(mode, original)
    BY <2>1, <2>2 DEF Carried
  <2>4. CASE text = Written(original, mode)
    BY <1>1, <1>2, <2>3, <2>4, WrittenReads
  <2>5. CASE mode = "object" /\ text = Passed(original)
    BY <1>1, <1>2, <2>3, <2>5, PassedReads
  <2> QED BY <2>2, <2>4, <2>5
<1> QED BY <1>1, <1>2, <1>3 DEF ChainInv

LEMMA PassOnKeepsChain ==
  ASSUME ChainInv, PassOn
  PROVE  ChainInv'
<1>1. /\ mode = "object" /\ text[2] # Quoted("span")
      /\ original' = original /\ tree' = tree /\ mode' = mode /\ used' = used
  BY Zenon DEF PassOn
<1>2. text' = <<Open>> \o Extra \o <<Comma>> \o Tail(text)
  BY Zenon DEF PassOn
<1>3. original \in Trees /\ used \in Seq(Modes) /\ mode \in Modes
  BY <1>1 DEF ChainInv, Modes
<1>4. ASSUME Carried'
      PROVE  (\E k \in DOMAIN used' : used'[k] = mode') /\ text' = Passed(original')
  <2>1. Carried
    BY <1>1, <1>4 DEF Carried
  <2>2. /\ \E k \in DOMAIN used : used[k] = mode
        /\ text = Written(original, mode) \/ text = Passed(original)
    <3>1. mode # "none"
      BY <1>1
    <3> QED BY <2>1, <3>1, Zenon DEF ChainInv
  <2>3. text # Passed(original)
    BY <1>1, <1>3, PassedIs, Zenon
  <2>4. text = PrintObject[original]
    <3>1. Written(original, "object") = PrintObject[original]
      BY DEF Written
    <3> QED BY <1>1, <2>2, <2>3, <3>1, Zenon
  <2>5. text' = Passed(original)
    BY <1>2, <2>4, Zenon DEF Passed
  <2> QED BY <1>1, <2>2, <2>5, Zenon
<1> QED BY <1>1, <1>3, <1>4, Zenon DEF ChainInv

(* Every reachable state keeps the chain: whatever was written, read and   *)
(* passed on, as long as each projection carries the original tree, the    *)
(* text between two programs is a text of it and the tree that was read is *)
(* it (print_core, print_strict, print_object and their readers).          *)
THEOREM ChainIsKept == Spec => []ChainInv
<1>1. Init => ChainInv
  BY ChainBegins
<1>2. ChainInv /\ [Next]_vars => ChainInv'
  <2> SUFFICES ASSUME ChainInv, [Next]_vars PROVE ChainInv'
    OBVIOUS
  <2>1. ASSUME NEW m \in Modes, Write(m) PROVE ChainInv'
    BY <2>1, WriteKeepsChain
  <2>2. CASE Read
    BY <2>2, ReadKeepsChain
  <2>3. CASE PassOn
    BY <2>3, PassOnKeepsChain
  <2>4. CASE UNCHANGED vars
    BY <2>4 DEF ChainInv, Carried, vars
  <2> QED BY <2>1, <2>2, <2>3, <2>4 DEF Next
<1> QED BY <1>1, <1>2, PTL DEF Spec

(* Lossless round-trips: a tree comes through any chain of projections     *)
(* that carry it as the same tree, whatever member another program adds to *)
(* an object on its way.                                                   *)
THEOREM ConversionsKeep == Spec => []ConversionsKeepTheTree
<1>1. ChainInv => ConversionsKeepTheTree
  BY DEF ChainInv, Carried, ConversionsKeepTheTree
<1> QED BY <1>1, ChainIsKept, PTL

=============================================================================
