------------------------------ MODULE Interner ------------------------------
(***************************************************************************)
(* What Arena promises its callers (facet.hpp, class Arena; docs/spec.md   *)
(* section 3.3): a growing table from trees to references in which a tree  *)
(* has one reference for ever.  Asking for a tree that is known gives the  *)
(* reference it has; asking for a new one gives a reference nobody holds.  *)
(* A refused request changes nothing.                                      *)
(***************************************************************************)
VARIABLES
  table,   \* the trees asked for so far, each with its reference
  last     \* the answer of the last call, NoCall before the first

vars == <<table, last>>

NoCall == [ok |-> TRUE]
Refused == [ok |-> FALSE]
Answer(t, r) == [ok |-> TRUE, want |-> t, got |-> r]

Init ==
  /\ table = << >>
  /\ last = NoCall

(* The tree is known: its reference is handed out again. *)
Find ==
  /\ UNCHANGED table
  /\ \E t \in DOMAIN table : last' = Answer(t, table[t])

(* The tree is new: a reference that stands for no other tree is added. *)
Make ==
  \E t \in DOMAIN table' \ DOMAIN table :
    /\ DOMAIN table' = DOMAIN table \cup {t}
    /\ \A u \in DOMAIN table : table'[u] = table[u]
    /\ \A u \in DOMAIN table : table[u] # table'[t]
    /\ last' = Answer(t, table'[t])

(* The call throws. *)
Refuse ==
  /\ UNCHANGED table
  /\ last' = Refused

Next == Find \/ Make \/ Refuse

Spec == Init /\ [][Next]_vars

=============================================================================
