---------------------------- MODULE Projections ----------------------------
(***************************************************************************)
(* The core, strict and object projections (src/facet.cpp): a tree goes    *)
(* through any chain of writers and readers, as when facet programs are    *)
(* piped into each other or a kernel sends back what it was sent.          *)
(*                                                                         *)
(* A text is the sequence of the pieces that its reader takes at a time.   *)
(* A string is one piece, with the quotes and the escapes it is written    *)
(* with; the three readers differ in what they make of these.  A reader    *)
(* gives its result as the one member of a set, or the empty set where an  *)
(* Error is thrown.                                                        *)
(***************************************************************************)
EXTENDS SyntaxTrees, SequencesExt

CONSTANTS
  Trees,      \* the trees that are converted, and the trees in them
  Height,     \* how high each of them is
  Keys,       \* the keys of attributes, in the order of std::string
  MaxWrites   \* bound: writes in a chain

VARIABLES
  original,   \* the tree the chain begins with
  tree,       \* the tree of the last program, if its reader gave one
  mode,       \* the projection that text is written in, "none" when it is read
  text,       \* the text between two programs
  used        \* the projections of the chain so far, in order

vars == <<original, tree, mode, text, used>>

Leaf(tag, value) == [tag |-> tag, text |-> value, args |-> << >>, attrs |-> NoAttrs]

NoPiece == ""
Comma == ","
Open == "{"
Shut == "}"

Peek(s, i) == IF i <= Len(s) THEN s[i] ELSE NoPiece
Took(value, i) == [value |-> value, at |-> i]

Chars(word) == [k \in 1 .. Len(word) |-> Char(word, k)]
Spell(chars) == FoldLeft(LAMBDA word, c : word \o c, "", chars)
PlaceOf(c, word) == {k \in 1 .. Len(word) : Char(word, k) = c}
Only(word, chars) == \A k \in 1 .. Len(word) : Char(word, k) \in chars

-----------------------------------------------------------------------------

(* escape; \b, \f, \r, \t and \u.... are as \n. *)
Escape(value) ==
  Spell([k \in 1 .. Len(value) |->
           CASE Char(value, k) = "\\" -> "\\\\"
             [] Char(value, k) = "\"" -> "\\\""
             [] Char(value, k) = "\n" -> "\\n"
             [] OTHER -> Char(value, k)])

Quoted(value) == "\"" \o Escape(value) \o "\""
IsQuoted(piece) == Len(piece) > 1 /\ Char(piece, 1) = "\""
Inside(piece) == SubSeq(piece, 2, Len(piece) - 1)

(* The token of a string in core: a backslash goes, what follows it stays. *)
Bare(word) ==
  FoldLeft(LAMBDA read, c :
             IF c = "\\" /\ ~read.escaped
             THEN [read EXCEPT !.escaped = TRUE]
             ELSE [word |-> read.word \o c, escaped |-> FALSE],
           [word |-> "", escaped |-> FALSE], Chars(word)).word

(* The string of JSON. *)
Unescape(word) ==
  FoldLeft(LAMBDA read, c :
             IF c = "\\" /\ ~read.escaped
             THEN [read EXCEPT !.escaped = TRUE]
             ELSE [word |-> read.word \o (IF read.escaped /\ c = "n" THEN "\n" ELSE c),
                   escaped |-> FALSE],
           [word |-> "", escaped |-> FALSE], Chars(word)).word

(* atom_from_token, where value is what the reader makes of a string. *)
LeafOf(piece, value) ==
  CASE IsQuoted(piece) -> Leaf("Str", value)
    [] IsInteger(piece) /\ PlaceOf(".", piece) = {} -> Num(piece)
    [] IsInteger(piece) /\ PlaceOf(".", piece) # {} -> Leaf("Real", piece)
    [] OTHER -> Sym(piece)

(* print_atom.  A rational is three pieces to every reader. *)
Pieces(t) ==
  CASE t.tag = "Str" -> <<Quoted(t.text)>>
    [] t.tag = "Rat" ->
         LET slash == CHOOSE k \in PlaceOf("/", t.text) : TRUE
         IN <<SubSeq(t.text, 1, slash - 1), "/", Rest(t.text, slash + 1)>>
    [] OTHER -> Spelled(t.text)

Commas(parts) ==
  FlattenSeq([k \in DOMAIN parts |-> (IF k = 1 THEN << >> ELSE <<Comma>>) \o parts[k]])

(* The keys of a tree in the order Arena::compound sorts them in. *)
AttrsInOrder(t) ==
  LET Upto[n \in 0 .. Len(Keys)] ==
        IF n = 0 THEN << >>
        ELSE Upto[n - 1] \o IF Keys[n] \in DOMAIN t.attrs THEN <<Keys[n]>> ELSE << >>
  IN Upto[Len(Keys)]

(* What a reader has seen of a node: strings of an object by their keys,   *)
(* arguments, and attributes in the order they were read.                  *)
Parts(strings, args, attrs) == [strings |-> strings, args |-> args, attrs |-> attrs]
NoParts == Parts(<< >>, << >>, << >>)
Arg(value) == Parts(<< >>, <<value>>, << >>)
Attr(key, value) == Parts(<< >>, << >>, <<<<key, value>>>>)

(* Arena::rational, which refuses what is not a number over one but 0. *)
IsRatio(word) ==
  LET digits(w) == IF Len(w) > 0 /\ Char(w, 1) = "-" THEN Rest(w, 2) ELSE w
  IN \E k \in PlaceOf("/", word) :
       LET above == digits(SubSeq(word, 1, k - 1))
           below == digits(Rest(word, k + 1))
       IN /\ Len(above) > 0 /\ Only(above, Digits)
          /\ Only(below, Digits) /\ ~Only(below, {"0"})

(* A part, before each of the ways to read the parts after it. *)
Then(part, rests) ==
  {Took(Parts(part.strings \o r.value.strings, part.args \o r.value.args,
              part.attrs \o r.value.attrs), r.at) : r \in rests}

(* Arena::compound, which refuses a key that is given twice. *)
Node(head, parts) ==
  LET attrs == parts.attrs
  IN IF \E j, k \in DOMAIN attrs : j # k /\ attrs[j][1] = attrs[k][1] THEN {}
     ELSE {With(head, parts.args,
                [key \in {attrs[k][1] : k \in DOMAIN attrs} |->
                   attrs[CHOOSE k \in DOMAIN attrs : attrs[k][1] = key][2]])}

(* A compound, of the parts that are read at r. *)
NodeAt(head, r) == {Took(t, r.at) : t \in Node(head, r.value)}

(* After a part of a list: a comma and the next part, or the end. *)
More(s, at, next, close, read) ==
  CASE Peek(s, at) = Comma -> read[<<next, at + 1>>]
    [] Peek(s, at) = close -> {Took(NoParts, at + 1)}
    [] OTHER -> {}

-----------------------------------------------------------------------------

(* print_core_inner and CoreParser *)
PrintCore[t \in Trees] ==
  IF t.tag # "Compound"
  THEN Pieces(t)
  ELSE LET keys == AttrsInOrder(t)
       IN <<"(", t.text>>
            \o FlattenSeq([k \in DOMAIN t.args |-> PrintCore[t.args[k]]]
                          \o [k \in DOMAIN keys |->
                                <<":", keys[k]>> \o PrintCore[t.attrs[keys[k]]]])
            \o <<")">>

(* CoreParser::expr. *)
CoreParts(s, i, read) ==
  CASE Peek(s, i) = ")" -> {Took(NoParts, i + 1)}
    [] Peek(s, i) = ":" ->
         UNION {Then(Attr(s[i + 1], r.value), read[<<"parts", r.at>>]) :
                  r \in read[<<"node", i + 2>>]}
    [] OTHER ->
         UNION {Then(Arg(r.value), read[<<"parts", r.at>>]) : r \in read[<<"node", i>>]}

CoreNode(s, i, read) ==
  CASE Peek(s, i) = "(" ->
         UNION {NodeAt(s[i + 1], r) : r \in read[<<"parts", i + 2>>]}
    [] Peek(s, i) \notin {"(", NoPiece} ->
         {Took(LeafOf(s[i], Bare(Inside(s[i]))), i + 1)}
    [] OTHER -> {}

-----------------------------------------------------------------------------

(* print_strict_inner and StrictParser.  A real that ends in its dot is    *)
(* two pieces: atom() takes a dot only before a digit.                     *)
EndsInDot(word) == Len(word) > 1 /\ Char(word, Len(word)) = "."

StrictPieces(t) ==
  IF t.tag = "Real" /\ EndsInDot(t.text)
  THEN <<SubSeq(t.text, 1, Len(t.text) - 1), ".">> ELSE Pieces(t)

PrintStrict[t \in Trees] ==
  IF t.tag # "Compound"
  THEN StrictPieces(t)
  ELSE LET keys == AttrsInOrder(t)
       IN <<t.text, "(">>
            \o Commas([k \in DOMAIN t.args |-> PrintStrict[t.args[k]]]
                      \o [k \in DOMAIN keys |->
                            <<keys[k], "=">> \o PrintStrict[t.attrs[keys[k]]]])
            \o <<")">>

LooksLikeAttr(s, i) == IsWord(Peek(s, i)) /\ Peek(s, i + 1) = "="

(* The next argument or attribute, and those after it. *)
StrictParts(s, i, read) ==
  IF LooksLikeAttr(s, i)
  THEN UNION {Then(Attr(s[i], r.value), More(s, r.at, "parts", ")", read)) :
                r \in read[<<"node", i + 2>>]}
  ELSE UNION {Then(Arg(r.value), More(s, r.at, "parts", ")", read)) :
                r \in read[<<"node", i>>]}

StrictNode(s, i, read) ==
  CASE Peek(s, i) # NoPiece /\ Peek(s, i + 1) = "(" ->
         UNION {NodeAt(s[i], r) :
                  r \in IF Peek(s, i + 2) = ")" THEN {Took(NoParts, i + 3)}
                        ELSE read[<<"parts", i + 2>>]}
    [] Peek(s, i) # NoPiece /\ Peek(s, i + 1) # "(" ->
         {Took(LeafOf(s[i], Inside(s[i])), i + 1)}
    [] OTHER -> {}

-----------------------------------------------------------------------------

(* object_inner and JsonParser *)
Member(key, pieces) == <<Quoted(key), ":">> \o pieces
String(key, value) == Member(key, <<Quoted(value)>>)

AtomTags == [Sym |-> "sym", Int |-> "int", Rat |-> "rat", Real |-> "real", Str |-> "str"]

PrintObject[t \in Trees] ==
  <<Open>>
    \o Commas(IF t.tag # "Compound"
              THEN <<String("atom", AtomTags[t.tag]), String("value", t.text)>>
              ELSE LET keys == AttrsInOrder(t)
                       args == Commas([k \in DOMAIN t.args |-> PrintObject[t.args[k]]])
                       attrs == Commas([k \in DOMAIN keys |->
                                          Member(keys[k], PrintObject[t.attrs[keys[k]]])])
                   IN <<String("head", t.text),
                        Member("args", <<"[">> \o args \o <<"]">>)>>
                        \o IF keys = << >> THEN << >>
                           ELSE <<Member("attrs", <<Open>> \o attrs \o <<Shut>>)>>)
    \o <<Shut>>

(* string() *)
ReadString(s, i) ==
  IF IsQuoted(Peek(s, i)) THEN {Took(Unescape(Inside(s[i])), i + 1)} ELSE {}

AfterComma(s, i) == IF Peek(s, i) = Comma THEN i + 1 ELSE i

(* A key and its colon: where what it is the key of begins. *)
Keyed(s, i) ==
  {Took(key.value, key.at + 1) :
     key \in {key \in ReadString(s, i) : Peek(s, key.at) = ":"}}

(* skip_value, skip_array and skip_object, of a value that is not looked at. *)
Values(s, i, read) ==
  UNION {More(s, r.at, "values", "]", read) : r \in read[<<"skip", i>>]}

Pairs(s, i, read) ==
  UNION {UNION {More(s, r.at, "pairs", Shut, read) : r \in read[<<"skip", key.at>>]} :
           key \in Keyed(s, i)}

(* A mutant of SkipValue: no array and no object is empty. *)
SkipValueOfSome(s, i, read) ==
  CASE Peek(s, i) = "[" -> read[<<"values", i + 1>>]
    [] Peek(s, i) = Open -> read[<<"pairs", i + 1>>]
    [] OTHER -> {Took(NoParts, i + 1)}

SkipValue(s, i, read) ==
  CASE Peek(s, i) = "[" -> IF Peek(s, i + 1) = "]" THEN {Took(NoParts, i + 2)}
                           ELSE read[<<"values", i + 1>>]
    [] Peek(s, i) = Open -> IF Peek(s, i + 1) = Shut THEN {Took(NoParts, i + 2)}
                           ELSE read[<<"pairs", i + 1>>]
    [] Peek(s, i) \notin {"[", Open} ->
         IF \/ IsQuoted(Peek(s, i)) \/ IsInteger(Peek(s, i))
            \/ Peek(s, i) \in {"true", "false", "null"}
         THEN {Took(NoParts, i + 1)} ELSE {}

(* The string that was read last for a key. *)
Given(key, strings) ==
  IF \A k \in DOMAIN strings : strings[k][1] # key THEN NoPiece
  ELSE strings[CHOOSE k \in DOMAIN strings :
                 /\ strings[k][1] = key
                 /\ \A n \in DOMAIN strings : strings[n][1] = key => n <= k][2]

ObjectOf(seen) ==
  LET atom == Given("atom", seen.strings)
      value == Given("value", seen.strings)
      head == Given("head", seen.strings)
      tags == {tag \in DOMAIN AtomTags : AtomTags[tag] = atom}
  IN IF atom # NoPiece
     THEN {Leaf(tag, value) :
             tag \in {tag \in tags : tag = "Rat" => IsRatio(value)}}
     ELSE IF head = NoPiece THEN {} ELSE Node(head, seen)

Elements(s, i, read) ==
  UNION {Then(Arg(r.value), More(s, r.at, "elements", "]", read)) :
           r \in read[<<"node", i>>]}

Entries(s, i, read) ==
  IF Peek(s, i) = Shut
  THEN {Took(NoParts, i + 1)}
  ELSE UNION {UNION {Then(Attr(key.value, r.value),
                          read[<<"entries", AfterComma(s, r.at)>>]) :
                       r \in read[<<"node", key.at>>]} : key \in Keyed(s, i)}

(* The value of a member; one of no known key is skipped. *)
MemberValue(s, key, i, read) ==
  CASE key \in {"atom", "value", "head"} ->
         {Took(Parts(<<<<key, r.value>>>>, << >>, << >>), r.at) : r \in ReadString(s, i)}
    [] key = "args" ->
         IF Peek(s, i) # "[" THEN {}
         ELSE IF Peek(s, i + 1) = "]" THEN {Took(NoParts, i + 2)}
         ELSE read[<<"elements", i + 1>>]
    [] key = "attrs" -> IF Peek(s, i) # Open THEN {} ELSE read[<<"entries", i + 1>>]
    [] OTHER -> read[<<"skip", i>>]

(* One member at a time, in any order. *)
Members(s, i, read) ==
  IF Peek(s, i) = Shut
  THEN {Took(NoParts, i + 1)}
  ELSE UNION {UNION {Then(r.value, read[<<"parts", AfterComma(s, r.at)>>]) :
                       r \in MemberValue(s, key.value, key.at, read)} :
                key \in Keyed(s, i)}

ObjectNode(s, i, read) ==
  IF IsQuoted(Peek(s, i)) THEN {Took(Sym(r.value), r.at) : r \in ReadString(s, i)}
  ELSE IF IsNumeral(Peek(s, i)) THEN {Took(Num(s[i]), i + 1)}
  ELSE IF Peek(s, i) = Open
  THEN UNION {{Took(t, r.at) : t \in ObjectOf(r.value)} : r \in read[<<"parts", i + 1>>]}
  ELSE {}

-----------------------------------------------------------------------------

Modes == {"core", "strict", "object"}

Written(t, m) ==
  CASE m = "core" -> PrintCore[t] [] m = "strict" -> PrintStrict[t]
    [] m = "object" -> PrintObject[t]

(* What a rule of the reader of m makes of the text from place i on, where *)
(* read is what the rules make of it from each place on.                   *)
Rules == {"node", "parts", "elements", "entries", "skip", "values", "pairs"}

Step(m, s, rule, i, read) ==
  CASE rule = "node" ->
         (CASE m = "core" -> CoreNode(s, i, read)
            [] m = "strict" -> StrictNode(s, i, read)
            [] m = "object" -> ObjectNode(s, i, read))
    [] rule = "parts" ->
         (CASE m = "core" -> CoreParts(s, i, read)
            [] m = "strict" -> StrictParts(s, i, read)
            [] m = "object" -> Members(s, i, read))
    [] rule = "elements" -> Elements(s, i, read)
    [] rule = "entries" -> Entries(s, i, read)
    [] rule = "skip" -> SkipValue(s, i, read)
    [] rule = "values" -> Values(s, i, read)
    [] rule = "pairs" -> Pairs(s, i, read)

Reading(s, m) ==
  LET Read[p \in Rules \X Nat] == Step(m, s, p[1], p[2], Read)
  IN {r.value : r \in {r \in Read[<<"node", 1>>] : r.at > Len(s)}}

Init ==
  /\ original \in Trees
  /\ tree = {original}
  /\ mode = "none"
  /\ text = << >>
  /\ used = << >>

(* Bound: what a reader makes of a text that its projection does not       *)
(* carry is written again only if it is one of the trees.                  *)
Writable == Trees

Write(m) ==
  /\ mode = "none"
  /\ Len(used) < MaxWrites
  /\ \E t \in tree \cap Writable : text' = Written(t, m)
  /\ mode' = m
  /\ used' = Append(used, m)
  /\ UNCHANGED <<original, tree>>

Read ==
  /\ mode # "none"
  /\ tree' = Reading(text, mode)
  /\ mode' = "none"
  /\ text' = << >>
  /\ UNCHANGED <<original, used>>

(* Another program passes the object on, with a member of its own.         *)

Extra == Member("span", <<"[", "1", Comma, Open, Shut, Comma, "null", "]">>)

PassOn ==
  /\ mode = "object"
  /\ text[2] # Quoted("span")
  /\ text' = <<Open>> \o Extra \o <<Comma>> \o Tail(text)
  /\ UNCHANGED <<original, tree, mode, used>>

Next ==
  \/ \E m \in Modes : Write(m)
  \/ Read
  \/ PassOn

Spec == Init /\ [][Next]_vars

-----------------------------------------------------------------------------

(* What a projection does not carry: core and strict have no rationals, no *)
(* name that is not one token, no integer with two signs; core reads an    *)
(* escaped control character as a letter; strict leaves every escape as it *)
(* is written, and takes the dot at the end of a real for another piece.   *)
(* No node of an object has an empty head.                                 *)
Has(word, chars) == \E k \in 1 .. Len(word) : Char(word, k) \in chars

NameChars ==
  LET letters == "_?\\abcdefghijklmnopqrstuvwxyzABCDEFGHIJKLMNOPQRSTUVWXYZ"
  IN {Char(letters, k) : k \in 1 .. Len(letters)}

OperatorNames ==
  {"===", "...?", "...", ":=", "~>", "~=", "=>", "|->", "|>", "->", "..", ">=", "<=",
   "!=", "+", "-", "*", "/", "^", "=", ">", "<", "@"}

IsName(word) ==
  \/ word \in OperatorNames
  \/ /\ Len(word) > 0 /\ Char(word, 1) \in NameChars
     /\ Only(word, NameChars \cup Digits)

Lost(t, m) ==
  CASE t.tag = "Compound" -> t.text = NoPiece \/ (m # "object" /\ ~IsName(t.text))
    [] t.tag # "Compound" /\ m = "object" -> FALSE
    [] t.tag = "Str" /\ m # "object" ->
         Has(t.text, IF m = "core" THEN {"\n"} ELSE {"\n", "\\", "\""})
    [] t.tag = "Int" /\ m # "object" ->
         ~(IsInteger(t.text) /\ Only(Rest(t.text, 2), Digits))
    [] t.tag = "Real" /\ m # "object" ->
         \/ ~(IsInteger(t.text) /\ Only(Rest(t.text, 2), Digits \cup {"."}))
         \/ Cardinality(PlaceOf(".", t.text)) # 1
         \/ m = "strict" /\ EndsInDot(t.text)
    [] t.tag = "Sym" /\ m # "object" -> ~IsName(t.text)
    [] OTHER -> TRUE

(* The nodes of a tree. *)
NodesOf[t \in Trees] == {t} \cup UNION {NodesOf[u] : u \in PartsOf(t)}

Carries(m, t) == \A u \in NodesOf[t] : ~Lost(u, m)

-----------------------------------------------------------------------------

(* A tree is a leaf or a compound of trees that are lower; the keys are    *)
(* words, each of which is given once.                                     *)
ASSUME TreesAssumption ==
  /\ Keys \in Seq(STRING)
  /\ \A k \in DOMAIN Keys :
       IsWord(Keys[k]) /\ \A j \in DOMAIN Keys : Keys[j] = Keys[k] => j = k
  /\ Height \in [Trees -> Nat]
  /\ \A t \in Trees :
       /\ t.text \in STRING
       /\ t.tag # "Compound" =>
            /\ t = Leaf(t.tag, t.text) /\ t.tag \in DOMAIN AtomTags
            /\ t.tag = "Rat" => IsRatio(t.text)
       /\ t.tag = "Compound" =>
            /\ t = With(t.text, t.args, t.attrs) /\ t.args \in Seq(Trees)
            /\ t.attrs \in [DOMAIN t.attrs -> Trees]
            /\ DOMAIN t.attrs \subseteq {Keys[k] : k \in DOMAIN Keys}
            /\ \A u \in PartsOf(t) : Height[u] < Height[t]

(* The strings of an object. *)
Words ==
  {t.text : t \in Trees} \cup {Keys[k] : k \in DOMAIN Keys}
    \cup {AtomTags[tag] : tag \in DOMAIN AtomTags}
    \cup {"atom", "value", "head", "args", "attrs", "span"}

(* One piece, which is not a mark and which its reader takes for t. *)
ReadsAs(t, pieces, value, marks) ==
  Len(pieces) = 1 /\ pieces[1] \notin marks /\ LeafOf(pieces[1], value) = t

(* What is said of the characters of strings, each for itself: a leaf that *)
(* is carried is one piece that is read back, no escape is lost in an      *)
(* object, and the marks are not taken for strings or numbers.             *)
ASSUME PiecesAssumption ==
  /\ \A t \in Trees :
       IF t.tag = "Compound" THEN ~Lost(t, "strict") => t.text # ")"
       ELSE /\ Pieces(t) \in Seq(STRING) /\ StrictPieces(t) \in Seq(STRING)
            /\ ~Lost(t, "core") =>
                 ReadsAs(t, Pieces(t), Bare(Inside(Pieces(t)[1])), {NoPiece, "(", ")", ":"})
            /\ ~Lost(t, "strict") =>
                 ReadsAs(t, StrictPieces(t), Inside(StrictPieces(t)[1]),
                         {NoPiece, "(", ")", Comma})
  /\ \A w \in Words :
       Quoted(w) \in STRING /\ IsQuoted(Quoted(w)) /\ Unescape(Inside(Quoted(w))) = w
  /\ \A mark \in {NoPiece, Open, Shut} : ~IsQuoted(mark) /\ ~IsInteger(mark)
  /\ IsInteger("1") /\ ~IsWord(")")

-----------------------------------------------------------------------------

(* A tree comes through any chain of projections that carry it as the same *)
(* tree (README.md, "Lossless round-trips"), whatever other programs add   *)
(* to an object.                                                           *)
ConversionsKeepTheTree ==
  mode = "none" /\ (\A k \in DOMAIN used : Carries(used[k], original)) =>
    tree = {original}

=============================================================================
