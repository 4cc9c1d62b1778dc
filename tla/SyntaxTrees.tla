----------------------------- MODULE SyntaxTrees -----------------------------
(***************************************************************************)
(* The trees of Facet (src/ast.cpp) and the tokens of their leaves.        *)
(*                                                                         *)
(* Nodes are hash-consed (module Arena), so here a node is the tree under  *)
(* it.  Its attributes are a function: the arena sorts them by key and     *)
(* refuses a key that is given twice.  Only symbols and integers are       *)
(* leaves, except to the projections (module Projections): whatever else   *)
(* is modelled treats a real as an integer.                                *)
(***************************************************************************)
EXTENDS Integers, Sequences, FiniteSets, TLC

NoAttrs == << >>

Sym(name) == [tag |-> "Sym", text |-> name, args |-> << >>, attrs |-> NoAttrs]

Num(value) == [tag |-> "Int", text |-> value, args |-> << >>, attrs |-> NoAttrs]

With(head, args, attrs) ==
  [tag |-> "Compound", text |-> head, args |-> args, attrs |-> attrs]

Compound(head, args) == With(head, args, NoAttrs)

IsCompound(t, head) == t.tag = "Compound" /\ t.text = head

Unary(t, head) == IsCompound(t, head) /\ Len(t.args) = 1
Binary(t, head) == IsCompound(t, head) /\ Len(t.args) = 2

(* The arguments and the attributes of a tree. *)
PartsOf(t) ==
  {t.args[k] : k \in DOMAIN t.args} \cup {t.attrs[k] : k \in DOMAIN t.attrs}

(* The keys of attributes, in the order they are kept and printed in. *)
AttrKeys ==
  <<"assume", "kind", "need", "render", "step", "style", "via", "view", "when">>

-----------------------------------------------------------------------------

Char(token, k) == SubSeq(token, k, k)
Rest(token, k) == SubSeq(token, k, Len(token))

Digits == {"0", "1", "2", "3", "4", "5", "6", "7", "8", "9"}
Punctuation ==
  {"(", ")", "[", "]", "{", "}", ",", ";", ":", "|", "+", "-", "*", "/", "^",
   "@", "=", "<", ">", ".", "~", "!"}

IsNumeral(token) == Len(token) > 0 /\ Char(token, 1) \in Digits
IsWord(token) ==
  Len(token) > 0 /\ Char(token, 1) \notin Digits \cup Punctuation
IsNegative(token) == Len(token) > 1 /\ Char(token, 1) = "-"
                       /\ Char(token, 2) \in Digits

(* is_int_token *)
IsInteger(token) == IsNumeral(token) \/ IsNegative(token)

(* The tokens of a leaf: the reader makes "--1" of two signs. *)
Spelled(word) ==
  LET signs == {k \in 1 .. Len(word) - 2 : \A n \in 1 .. k + 1 : Char(word, n) = "-"}
  IN [k \in signs |-> "-"] \o <<Rest(word, Cardinality(signs) + 1)>>

=============================================================================
