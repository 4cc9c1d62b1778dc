----------------------------- MODULE KernelServer -----------------------------
(***************************************************************************)
(* The notebook kernel server (nbs/kernel_server.py) and its clients.  The *)
(* server is Python's HTTPServer: one thread that takes a connection from  *)
(* the backlog, reads its request, evaluates it and writes the response    *)
(* before it takes the next.  A client may stall or hang up at any time.   *)
(*                                                                         *)
(* A source is the set of its names, and its value what they are bound to. *)
(* Its fate says whether eval returns a value, raises, or never returns.   *)
(* What the expression assumes of its names stays behind: it is not in the *)
(* source, and no field of a request is sent for it.                       *)
(***************************************************************************)
EXTENDS Naturals, Sequences

CONSTANTS Clients, Requests, Known, Unreadable

ASSUME RequestsAssumption ==
  \A r \in Requests :
    /\ r # [kind |-> "none"]
    /\ \/ r.method = "GET"
       \/ /\ r.method = "POST"
          /\ r.form \in {"good", "bad", "garbled"}
          /\ r.fate \in {"value", "raises", "diverges"}
          /\ \A n \in DOMAIN r.assumed : r.assumed[n] # {}

VARIABLES
  asked,     \* the clients: the request of each
  line,      \* the clients: "away", "sending", "sent", "cut" or "gone"
  backlog,   \* connections the server has not accepted
  pc,        \* the server: what it does with its connection
  current,   \* the connection it serves, a set of at most one client
  env,       \* env: the dictionary the request is evaluated in
  unread,    \* the session entries still to be evaluated
  result,    \* result: what will be written
  answer     \* what each client has got

clients == <<asked, line>>
server == <<pc, current, env, unread, result>>
vars == <<clients, backlog, server, answer>>

Service == INSTANCE EvaluationService

None == [kind |-> "none"]
Empty == [n \in {} |-> None]

-----------------------------------------------------------------------------
(* The clients. *)

(* The connection is made and the request line sent, but not all of it.  A *)
(* client that then hangs up leaves its request "cut", else it is "gone".  *)
Connect(c, r) ==
  /\ line[c] = "away"
  /\ asked' = [asked EXCEPT ![c] = r]
  /\ line' = [line EXCEPT ![c] = "sending"]
  /\ backlog' = Append(backlog, c)
  /\ UNCHANGED <<server, answer>>

Finish(c) ==
  /\ line[c] = "sending"
  /\ line' = [line EXCEPT ![c] = "sent"]
  /\ UNCHANGED <<asked, backlog, server, answer>>

HangUp(c) ==
  /\ line[c] \in {"sending", "sent"}
  /\ answer[c] = None
  /\ line' = [line EXCEPT ![c] = IF @ = "sending" THEN "cut" ELSE "gone"]
  /\ UNCHANGED <<asked, backlog, server, answer>>

Client(c) == (\E r \in Requests : Connect(c, r)) \/ Finish(c) \/ HangUp(c)

-----------------------------------------------------------------------------
(* The server. *)

Accept ==
  /\ pc = "idle"
  /\ backlog # << >>
  /\ current' = {Head(backlog)}
  /\ backlog' = Tail(backlog)
  /\ pc' = "reading"
  /\ UNCHANGED <<clients, env, unread, result, answer>>

Write(r) == result' = r /\ pc' = "writing" /\ UNCHANGED <<env, unread>>

(* A mutant of Fresh: env is known itself, to which each request adds. *)
Reused == IF env = Empty THEN [n \in Known |-> Service!FromSymPy(n)] ELSE env

(* env = dict(known): the dictionary of the module is copied. *)
Fresh == [n \in Known |-> Service!FromSymPy(n)]

(* rfile.read waits for the whole body or for the end of the connection,   *)
(* and what came before the end is then no JSON.  int() of a garbled       *)
(* length raises outside the try: the library closes the connection.       *)
Read(c) ==
  LET r == asked[c]
  IN /\ pc = "reading"
     /\ line[c] # "sending"
     /\ \/ line[c] = "cut" /\ Write(Service!Error)
        \/ line[c] # "cut" /\ r.method = "GET" /\ Write(Service!Health)
        \/ /\ line[c] # "cut" /\ r.method = "POST"
           /\ \/ r.form = "garbled" /\ Write(Service!Closed)
              \/ r.form = "bad" /\ Write(Service!Error)
              \/ /\ r.form = "good"
                 /\ env' = Fresh
                 /\ unread' = DOMAIN r.session
                 /\ pc' = "session"
                 /\ UNCHANGED result
     /\ UNCHANGED <<clients, backlog, current, answer>>

(* A mutant of Bind: what is bound already is kept. *)
BindNew(e, name, value) ==
  [n \in DOMAIN e \cup {name} |-> IF n \in DOMAIN e THEN e[n] ELSE value]

Bind(e, name, value) ==
  [n \in DOMAIN e \cup {name} |-> IF n = name THEN value ELSE e[n]]

(* An entry that cannot be evaluated is passed over. *)
ReadEntry(c, name) ==
  LET entry == asked[c].session[name]
  IN /\ pc = "session"
     /\ name \in unread
     /\ unread' = unread \ {name}
     /\ env' = IF entry \in Unreadable THEN env
               ELSE Bind(env, name, Service!FromSession(entry))
     /\ UNCHANGED <<clients, backlog, pc, current, result, answer>>

(* The names that are still unknown become symbols, and eval is called: a  *)
(* source that diverges keeps the server here for good.                    *)
WithSymbols(e, names) ==
  [n \in DOMAIN e \cup names |-> IF n \in DOMAIN e THEN e[n] ELSE Service!Symbol(n)]

Evaluate(c) ==
  LET r == asked[c]
      full == WithSymbols(env, r.names)
  IN /\ pc = "session"
     /\ unread = {}
     /\ r.fate # "diverges"
     /\ result' = IF r.fate = "raises" THEN Service!Error
                  ELSE Service!Value([n \in r.names |-> full[n]])
     /\ env' = full
     /\ pc' = "writing"
     /\ UNCHANGED <<clients, backlog, current, unread, answer>>

(* A mutant of Deliver: the error of a write to a closed connection ends   *)
(* the loop.                                                               *)
DeliverOrStop(c) ==
  line[c] \notin {"cut", "gone"} /\ answer' = [answer EXCEPT ![c] = result]

(* A write to a connection that is gone raises in the library, which goes  *)
(* on with the next.                                                       *)
Deliver(c) ==
  answer' = IF line[c] \in {"cut", "gone"} THEN answer
            ELSE [answer EXCEPT ![c] = result]

(* One request per connection (HTTP/1.0). *)
Respond(c) ==
  /\ pc = "writing"
  /\ Deliver(c)
  /\ pc' = "idle"
  /\ current' = {}
  /\ UNCHANGED <<clients, backlog, env, unread, result>>

Serve(c) ==
  \/ Read(c)
  \/ \E name \in unread : ReadEntry(c, name)
  \/ Evaluate(c)
  \/ Respond(c)

Server == Accept \/ \E c \in current : Serve(c)

-----------------------------------------------------------------------------

Init ==
  /\ asked = [c \in Clients |-> None]
  /\ line = [c \in Clients |-> "away"]
  /\ backlog = << >>
  /\ pc = "idle"
  /\ current = {}
  /\ env = Empty
  /\ unread = {}
  /\ result = None
  /\ answer = [c \in Clients |-> None]

Next == (\E c \in Clients : Client(c)) \/ Server

(* The one thread of the server goes on whenever it can; nothing is        *)
(* assumed of the clients.                                                 *)
Fairness == WF_vars(Server)

Spec == Init /\ [][Next]_vars /\ Fairness

-----------------------------------------------------------------------------
(* The other place the same request can be evaluated: the program the      *)
(* bridge builds and runs for each expression (sympy.cpp,                  *)
(* build_eval_code).  It does not know E, an entry that cannot be          *)
(* evaluated fails it, and a free name becomes a symbol of which is known  *)
(* what the expression assumes.                                            *)

LocalKnown == Known \ {"E"}

LocalSymbol(r, name) ==
  IF name \in DOMAIN r.assumed
  THEN [of |-> "symbol", text |-> name, kwargs |-> r.assumed[name]]
  ELSE Service!Symbol(name)

LocalEnv(r) ==
  [n \in LocalKnown \cup DOMAIN r.session \cup r.names |->
     CASE n \in DOMAIN r.session -> Service!FromSession(r.session[n])
       [] n \in LocalKnown \ DOMAIN r.session -> Service!FromSymPy(n)
       [] OTHER -> LocalSymbol(r, n)]

ReadsSession(r) == \A n \in DOMAIN r.session : r.session[n] \notin Unreadable

LocalResult(r) ==
  IF r.fate = "raises" \/ ~ReadsSession(r)
  THEN Service!Error
  ELSE Service!Value([n \in r.names |-> LocalEnv(r)[n]])

-----------------------------------------------------------------------------
(* Properties. *)

TypeOK ==
  /\ asked \in [Clients -> Requests \cup {None}]
  /\ line \in [Clients -> {"away", "sending", "sent", "cut", "gone"}]
  /\ backlog \in Seq(Clients)
  /\ pc \in {"idle", "reading", "session", "writing"}
  /\ current \in {{}} \cup {{c} : c \in Clients}
  /\ (current = {}) <=> (pc = "idle")

(* No answer depends on what other clients asked before or meanwhile, on   *)
(* the order the session's entries are read in, or on what the server did  *)
(* for a client that left: the dictionary of SymPy's names is shared, and  *)
(* the session and the symbols of a request are added to a copy of it.     *)
ServiceSpec == Service!Spec

(* The names of a source the two places bind to different things: E, and   *)
(* a free name that something is assumed of.                               *)
ToldApart(r) ==
  {n \in r.names \ DOMAIN r.session :
     IF n \in Known THEN n = "E" ELSE n \in DOMAIN r.assumed}

SameInBoth(r) ==
  \/ r.fate = "raises"
  \/ ReadsSession(r) /\ ToldApart(r) = {}

(* An expression means the same on the remote kernel as through the local  *)
(* bridge, and raises in both, just if every session entry can be read (an *)
(* unreadable one only the local bridge reports), E is not used as it is,  *)
(* and nothing is assumed of the free names of the source.                 *)
LocalAgreesWithRemote ==
  \A c \in Clients :
    LET r == asked[c]
    IN answer[c] # None /\ r.method = "POST" /\ r.form = "good" =>
         (answer[c] = LocalResult(r) <=> SameInBoth(r))

(* Nobody who has sent his request waits for ever, unless the one thread   *)
(* is held by a client that never sends the rest of its own, or by an      *)
(* evaluation that does not end.                                           *)
Waiting(c) == line[c] = "sent" /\ answer[c] = None

Held ==
  \E c \in current :
    \/ pc = "reading" /\ line[c] = "sending"
    \/ pc = "session" /\ unread = {} /\ asked[c].fate = "diverges"

EveryoneIsServed ==
  []<>~Held => \A c \in Clients : Waiting(c) ~> ~Waiting(c)

=============================================================================
