------------------------------- MODULE Arena -------------------------------
(***************************************************************************)
(* The hash-consing arena every reader builds its tree in (src/ast.cpp,    *)
(* class Arena).  A reference is the position of its node in nodes_.  The  *)
(* hash of a node is made from its own words and from the hashes of its    *)
(* children, so two different nodes may share it; what mixing gives is the *)
(* constant operator Mix, of which nothing is assumed.                     *)
(***************************************************************************)
EXTENDS Naturals, Sequences

CONSTANTS
  Names,          \* texts of symbols, integers, reals and strings
  Heads,          \* heads of compounds
  Keys,           \* attribute keys, numbered in the order of std::string
  Numerals,       \* texts offered as parts of a rational
  Digits,         \* those that decimal_digits accepts
  Zeroes,         \* those that all_zeroes accepts
  Mix(_),         \* hash_string and hash_mix over the content of a node
  MaxNodes,       \* bound: nodes in the arena
  MaxArgs,        \* bound: arguments of a compound
  MaxAttrs        \* bound: attributes of a compound

ASSUME ArenaAssumption ==
  /\ Keys \subseteq Nat
  /\ Zeroes \subseteq Digits
  /\ {MaxNodes, MaxArgs, MaxAttrs} \subseteq Nat

VARIABLES
  nodes,   \* nodes_: the nodes, in the order they were made
  index,   \* index_: from a hash to the references that have it
  tree,    \* ghost: the whole tree below each node, attributes as a map
  last     \* what the last call gave its caller

vars == <<nodes, index, tree, last>>

Tags == {"Sym", "Int", "Rat", "Real", "Str", "Compound"}
AtomTags == {"Sym", "Int", "Real", "Str"}
Refs == 1 .. Len(nodes)
Hashes == DOMAIN index

NoCall == [ok |-> TRUE]
Refused == [ok |-> FALSE]
Answer(t, r) == [ok |-> TRUE, want |-> t, got |-> r]

-----------------------------------------------------------------------------

(* What a node says of itself; its children are references.  The text is   *)
(* the sequence of the strings the code joins: <<name>>, <<num, den>>.     *)
Node(tag, text, args, attrs) ==
  [tag |-> tag, text |-> text, args |-> args, attrs |-> attrs]

(* The hash of a node: its tag and text, the hashes of its arguments and,  *)
(* for an attribute, its key and the hash of its value.                    *)
HashOf(n) ==
  Mix([tag |-> n.tag, text |-> n.text,
       args |-> [i \in DOMAIN n.args |-> nodes[n.args[i]].hash],
       attrs |-> [i \in DOMAIN n.attrs |->
                    <<n.attrs[i][1], nodes[n.attrs[i][2]].hash>>]])

(* The tree a node stands for.  Attributes are a key-to-value map: their   *)
(* order in the request is no part of the tree.                            *)
TreeOf(n) ==
  [tag |-> n.tag, text |-> n.text,
   args |-> [i \in DOMAIN n.args |-> tree[n.args[i]]],
   attrs |-> {<<n.attrs[i][1], tree[n.attrs[i][2]]>> : i \in DOMAIN n.attrs}]

(* Mutants of SameTree: candidates told apart by their shape alone, and    *)
(* with the keys of their attributes left out.                             *)
SameShape(lhs, rhs) == lhs.tag = rhs.tag /\ Len(lhs.args) = Len(rhs.args)

SameButKeys(lhs, rhs) ==
  /\ lhs.tag = rhs.tag
  /\ lhs.text = rhs.text
  /\ Len(lhs.args) = Len(rhs.args)
  /\ Len(lhs.attrs) = Len(rhs.attrs)
  /\ \A i \in 1 .. Len(lhs.args) : tree[lhs.args[i]] = tree[rhs.args[i]]
  /\ \A i \in 1 .. Len(lhs.attrs) :
       tree[lhs.attrs[i][2]] = tree[rhs.attrs[i][2]]

(* same_tree of a candidate of the bucket and the node being interned.     *)
(* Below the first level it compares whole trees.                          *)
SameTree(lhs, rhs) ==
  /\ lhs.tag = rhs.tag
  /\ lhs.text = rhs.text
  /\ Len(lhs.args) = Len(rhs.args)
  /\ Len(lhs.attrs) = Len(rhs.attrs)
  /\ \A i \in 1 .. Len(lhs.args) : tree[lhs.args[i]] = tree[rhs.args[i]]
  /\ \A i \in 1 .. Len(lhs.attrs) :
       /\ lhs.attrs[i][1] = rhs.attrs[i][1]
       /\ tree[lhs.attrs[i][2]] = tree[rhs.attrs[i][2]]

Bucket(h) == IF h \in Hashes THEN index[h] ELSE << >>

(* The bucket is read from its front: the first candidate with the hash    *)
(* and the tree of n.                                                      *)
Candidates(n) ==
  LET h == HashOf(n)
      b == Bucket(h)
  IN  {i \in 1 .. Len(b) : nodes[b[i]].hash = h /\ SameTree(nodes[b[i]], n)}

(* Mutants of Remember: the bucket is overwritten, and the position is one *)
(* too high.                                                               *)
RememberLast(h, ref) ==
  index' = [g \in Hashes \cup {h} |-> IF g = h THEN <<ref>> ELSE index[g]]

RememberNext(h, ref) ==
  index' = [g \in Hashes \cup {h} |->
              IF g = h THEN Append(Bucket(h), ref + 1) ELSE index[g]]

(* The reference joins the bucket of its hash. *)
Remember(h, ref) ==
  index' = [g \in Hashes \cup {h} |->
              IF g = h THEN Append(Bucket(h), ref) ELSE index[g]]

(* The node is appended with its hash. *)
Push(n) ==
  LET ref == Len(nodes) + 1 IN
  /\ Len(nodes) < MaxNodes
  /\ nodes' = Append(nodes, [tag |-> n.tag, text |-> n.text, args |-> n.args,
                             attrs |-> n.attrs, hash |-> HashOf(n)])
  /\ tree' = [r \in 1 .. ref |-> IF r = ref THEN TreeOf(n) ELSE tree[r]]
  /\ Remember(HashOf(n), ref)
  /\ last' = Answer(TreeOf(n), ref)

(* Arena::intern: an equal node is handed out again, else one is made. *)
Intern(n) ==
  LET found == Candidates(n)
      b == Bucket(HashOf(n))
  IN  \/ /\ found # {}
         /\ \E i \in found :
              /\ \A j \in found : i <= j
              /\ last' = Answer(TreeOf(n), b[i])
         /\ UNCHANGED <<nodes, index, tree>>
      \/ /\ found = {}
         /\ Push(n)

(* An Error is thrown before intern is reached. *)
Reject ==
  /\ last' = Refused
  /\ UNCHANGED <<nodes, index, tree>>

-----------------------------------------------------------------------------

(* sym, integer, real and string take any text. *)
Atom(tag, name) == Intern(Node(tag, <<name>>, << >>, << >>))

Rational(num, den) ==
  IF num \notin Digits \/ den \notin Digits \/ den \in Zeroes
  THEN Reject
  ELSE Intern(Node("Rat", <<num, den>>, << >>, << >>))

(* A mutant of Sorted: the attributes stay in the order of the request. *)
Unsorted(attrs) == {attrs}

(* The arrangements std::sort may leave the attributes in: by key, equal   *)
(* keys in either order.                                                   *)
Sorted(attrs) ==
  LET n == Len(attrs)
      Orders == {p \in [1 .. n -> 1 .. n] :
                   /\ \A i, j \in 1 .. n : p[i] = p[j] => i = j
                   /\ \A i, j \in 1 .. n :
                        i < j => attrs[p[i]][1] <= attrs[p[j]][1]}
  IN  {[i \in 1 .. n |-> attrs[p[i]]] : p \in Orders}

HasDuplicate(sorted) ==
  \E i \in 2 .. Len(sorted) : sorted[i - 1][1] = sorted[i][1]

(* The caller holds references the arena gave it before. *)
Compound(head, args, attrs) ==
  \E sorted \in Sorted(attrs) :
    IF HasDuplicate(sorted)
    THEN Reject
    ELSE Intern(Node("Compound", <<head>>, args, sorted))

-----------------------------------------------------------------------------

Init ==
  /\ nodes = << >>
  /\ index = << >>
  /\ tree = << >>
  /\ last = NoCall

UpTo(n, S) == UNION {[1 .. k -> S] : k \in 0 .. n}

Next ==
  \/ \E tag \in AtomTags, name \in Names : Atom(tag, name)
  \/ \E num, den \in Numerals : Rational(num, den)
  \/ \E head \in Heads, args \in UpTo(MaxArgs, Refs),
        attrs \in UpTo(MaxAttrs, Keys \X Refs) : Compound(head, args, attrs)

Spec == Init /\ [][Next]_vars

-----------------------------------------------------------------------------

(* The nodes are well formed and every child was made before its parent,   *)
(* so same_tree and every printer reach the leaves.                        *)
TypeOK ==
  /\ nodes \in Seq([tag : Tags, text : Seq(Names \cup Heads \cup Numerals),
                    args : Seq(Nat), attrs : Seq(Keys \X Nat),
                    hash : Hashes])
  /\ \A r \in Refs :
       /\ \A i \in 1 .. Len(nodes[r].args) : nodes[r].args[i] \in 1 .. r - 1
       /\ \A i \in 1 .. Len(nodes[r].attrs) :
            nodes[r].attrs[i][2] \in 1 .. r - 1
  /\ DOMAIN tree = Refs
  /\ \A h \in Hashes : index[h] \in Seq(Refs)
  /\ last.ok \in BOOLEAN

(* Structural equality is pointer equality (docs/spec.md section 3.3): two *)
(* references of one arena never stand for the same tree, whatever hashes  *)
(* collide and in whatever order the attributes were given.                *)
HashConsed == \A r, s \in Refs : tree[r] = tree[s] => r = s

(* The hash index can be trusted by the next call: a node is in the bucket *)
(* of its hash, once, and in no other.                                     *)
IndexExact ==
  /\ \A r \in Refs : \E i \in 1 .. Len(Bucket(nodes[r].hash)) :
                        Bucket(nodes[r].hash)[i] = r
  /\ \A h \in Hashes : \A i, j \in 1 .. Len(index[h]) :
       /\ nodes[index[h][i]].hash = h
       /\ index[h][i] = index[h][j] => i = j

(* A call that returns gives a reference to the very tree that was asked   *)
(* for: a collision in the bucket never hands out another tree.            *)
AnswersTheRequest ==
  "got" \in DOMAIN last => last.got \in Refs /\ tree[last.got] = last.want

(* The arena implements the interner, each tree mapped to its node. *)
Table == [t \in {tree[r] : r \in Refs} |-> CHOOSE r \in Refs : tree[r] = t]
ABS == INSTANCE Interner WITH table <- Table, last <- last
InternerSpec == ABS!Spec

=============================================================================
