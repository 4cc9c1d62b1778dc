---------------------------- MODULE MCKernelServer ----------------------------
(* Two clients and requests of every kind.  The names are one that SymPy  *)
(* knows, one that only the server knows, and one that is free or in the   *)
(* session; a session entry may also hide a name that SymPy knows.  What   *)
(* an expression assumes is of a free name, of one the session hides, or   *)
(* of one that SymPy knows.                                                *)
EXTENDS KernelServer

MCKnown == {"pi", "E"}

Assuming(names) == [n \in names |-> {"positive"}]

Post(form, fate, names, session, assumed) ==
  [method |-> "POST", form |-> form, fate |-> fate, names |-> names,
   session |-> session, assumed |-> Assuming(assumed)]

Sessions ==
  {Empty, [n \in {"a"} |-> "entry"], [n \in {"a"} |-> "broken"],
   [n \in {"a", "pi"} |-> IF n = "a" THEN "entry" ELSE "other"],
   [n \in {"pi"} |-> "broken"]}

MCRequests ==
  {[method |-> "GET"], Post("garbled", "value", {}, Empty, {}),
   Post("bad", "value", {}, Empty, {}), Post("good", "diverges", {"a"}, Empty, {}),
   Post("good", "raises", {"a"}, Empty, {"a"}),
   Post("good", "value", {"a", "E"}, Empty, {}),
   Post("good", "value", {"a"}, Empty, {"a"}),
   Post("good", "value", {"a", "pi"}, [n \in {"a"} |-> "entry"], {"a", "pi"})}
    \cup {Post("good", "value", {"a", "pi"}, session, {}) : session \in Sessions}

=============================================================================
