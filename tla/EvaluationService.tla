-------------------------- MODULE EvaluationService --------------------------
(***************************************************************************)
(* What nbs/kernel_server.py promises its clients: each answer is computed *)
(* from the request it answers and from nothing else.  A name of the       *)
(* source means the value the session gives it if that can be read, else   *)
(* what SymPy means by it, else itself, a new symbol.                      *)
(***************************************************************************)
EXTENDS Naturals

CONSTANTS
  Clients,      \* connections, each with one request
  Requests,     \* the requests they may send
  Known,        \* the names SymPy gives a meaning to
  Unreadable    \* the session entries that cannot be evaluated

VARIABLES
  asked,   \* the request of each client
  answer   \* what each client has got

None == [kind |-> "none"]
Error == [kind |-> "error"]
Health == [kind |-> "health"]
Closed == [kind |-> "closed"]     \* the connection was closed without a response
Value(v) == [kind |-> "value", value |-> v]

FromSymPy(name) == [of |-> "sympy", text |-> name]
FromSession(entry) == [of |-> "session", text |-> entry]
Symbol(name) == [of |-> "symbol", text |-> name]

Given(r, name) == name \in DOMAIN r.session /\ r.session[name] \notin Unreadable

Means(r, name) ==
  CASE Given(r, name) -> FromSession(r.session[name])
    [] ~Given(r, name) /\ name \in Known -> FromSymPy(name)
    [] ~Given(r, name) /\ name \notin Known -> Symbol(name)

(* A request without a length that can be read is answered by closing the  *)
(* connection; a client that hangs up is owed nothing.                     *)
Owed(r) ==
  CASE r.method = "GET" -> Health
    [] r.method = "POST" /\ r.form = "garbled" -> Closed
    [] r.method = "POST" /\ r.form = "good" /\ r.fate = "value" ->
         Value([n \in r.names |-> Means(r, n)])
    [] OTHER -> Error

-----------------------------------------------------------------------------

Init ==
  /\ asked = [c \in Clients |-> None]
  /\ answer = [c \in Clients |-> None]

Ask(c, r) ==
  /\ asked[c] = None
  /\ asked' = [asked EXCEPT ![c] = r]
  /\ UNCHANGED answer

Answer(c) ==
  /\ asked[c] # None
  /\ answer[c] = None
  /\ answer' = [answer EXCEPT ![c] = Owed(asked[c])]
  /\ UNCHANGED asked

Next ==
  \E c \in Clients : (\E r \in Requests : Ask(c, r)) \/ Answer(c)

Spec == Init /\ [][Next]_<<asked, answer>>

=============================================================================
