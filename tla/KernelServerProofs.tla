-------------------------- MODULE KernelServerProofs --------------------------
(***************************************************************************)
(* Proofs about the kernel server: for any clients, requests, names and    *)
(* sessions, each client that is answered is answered from its own request *)
(* (ServiceSpec), as the local bridge would evaluate it                    *)
(* (LocalAgreesWithRemote).                                                *)
(***************************************************************************)
EXTENDS KernelServer, SequenceTheorems, TLAPS

Good(r) == r.method = "POST" /\ r.form = "good"

(* A connection is waited for by one at most of the backlog and the        *)
(* server, once, and has no answer as long as it is.                       *)
Queued ==
  /\ \A i, j \in 1 .. Len(backlog) : backlog[i] = backlog[j] => i = j
  /\ \A i \in 1 .. Len(backlog) :
       /\ backlog[i] \notin current
       /\ answer[backlog[i]] = None
       /\ line[backlog[i]] # "away"
  /\ \A c \in current : answer[c] = None /\ line[c] # "away"

Asked ==
  \A c \in Clients :
    /\ asked[c] = None <=> line[c] = "away"
    /\ asked[c] = None => answer[c] = None

(* The entries that were read. *)
Bound(c) ==
  {n \in DOMAIN asked[c].session \ unread : asked[c].session[n] \notin Unreadable}

(* While a session is read, a name is bound to what the session gives it   *)
(* if its entry was read, and else to what SymPy means by it.              *)
Reading ==
  pc = "session" =>
    \A c \in current :
      /\ Good(asked[c])
      /\ unread \subseteq DOMAIN asked[c].session
      /\ DOMAIN env = Known \cup Bound(c)
      /\ \A n \in DOMAIN env :
           env[n] = IF n \in Bound(c) THEN Service!FromSession(asked[c].session[n])
                    ELSE Service!FromSymPy(n)

(* A request whose evaluation does not end is not answered. *)
Ends(r) == Good(r) => r.fate # "diverges"

(* What is to be written is what is owed, but to one who has hung up. *)
Writing ==
  pc = "writing" =>
    \A c \in current :
      line[c] # "cut" => result = Service!Owed(asked[c]) /\ Ends(asked[c])

Answered ==
  /\ DOMAIN answer = Clients
  /\ \A c \in Clients :
       answer[c] # None => answer[c] = Service!Owed(asked[c]) /\ Ends(asked[c])

IInv == TypeOK /\ Queued /\ Asked /\ Reading /\ Writing /\ Answered

-----------------------------------------------------------------------------

LEMMA InitIsGood == Init => IInv
  <1> SUFFICES ASSUME Init PROVE IInv
    OBVIOUS
  <1> USE DEF Init
  <1>1. TypeOK
    BY DEF TypeOK
  <1>2. Queued
    BY DEF Queued
  <1>3. Asked
    BY DEF Asked
  <1>4. Reading /\ Writing /\ Answered
    BY DEF Reading, Writing, Answered
  <1> QED BY <1>1, <1>2, <1>3, <1>4 DEF IInv

(* Who is served has sent a request. *)
LEMMA ServedHasAsked ==
  ASSUME TypeOK, Queued, Asked, NEW c \in current
  PROVE  /\ c \in Clients
         /\ asked[c] \in Requests
         /\ current = {c}
         /\ answer[c] = None
         /\ line[c] # "away"
  BY DEF TypeOK, Queued, Asked

LEMMA ConnectKeepsIInv ==
  ASSUME IInv, NEW c \in Clients, NEW r \in Requests, Connect(c, r)
  PROVE  IInv'
  <1> USE DEF IInv, Connect, server, clients
  <1>1. r # None
    BY RequestsAssumption DEF None
  <1>2. c \notin current /\ answer[c] = None /\ \A i \in 1 .. Len(backlog) : backlog[i] # c
    <2>1. asked[c] = None /\ c \in DOMAIN answer
      BY DEF Asked, Answered
    <2> QED BY <2>1 DEF Queued, Asked, Answered
  <1>3. TypeOK'
    BY AppendProperties DEF TypeOK
  <1>4. Queued'
    BY <1>2, AppendProperties DEF Queued, TypeOK
  <1>5. Asked'
    BY <1>1 DEF Asked, TypeOK
  <1>6. \A d \in current : asked'[d] = asked[d] /\ line'[d] = line[d]
    BY <1>2 DEF TypeOK
  <1>7. Reading'
    <2>1. \A d \in current : Bound(d)' = Bound(d)
      BY <1>6 DEF Bound
    <2>2. UNCHANGED <<pc, current, unread, env>>
      OBVIOUS
    <2> SUFFICES ASSUME pc = "session", NEW d \in current
                 PROVE  /\ Good(asked'[d])
                        /\ unread \subseteq DOMAIN asked'[d].session
                        /\ DOMAIN env = Known \cup Bound(d)'
                        /\ \A n \in DOMAIN env :
                             env[n] = IF n \in Bound(d)'
                                      THEN Service!FromSession(asked'[d].session[n])
                                      ELSE Service!FromSymPy(n)
      BY <2>2 DEF Reading
    <2>3. asked'[d] = asked[d] /\ Bound(d)' = Bound(d)
      BY <1>6, <2>1
    <2>4. /\ Good(asked[d])
          /\ unread \subseteq DOMAIN asked[d].session
          /\ DOMAIN env = Known \cup Bound(d)
          /\ \A n \in DOMAIN env :
               env[n] = IF n \in Bound(d) THEN Service!FromSession(asked[d].session[n])
                        ELSE Service!FromSymPy(n)
      BY DEF Reading
    <2> HIDE DEF IInv, Connect, server, clients
    <2> QED BY <2>3, <2>4
  <1>8. Writing'
    BY <1>6 DEF Writing
  <1>9. Answered'
    BY <1>2 DEF Answered, TypeOK
  <1> QED BY <1>3, <1>4, <1>5, <1>7, <1>8, <1>9

LEMMA FinishKeepsIInv ==
  ASSUME IInv, NEW c \in Clients, Finish(c)
  PROVE  IInv'
  <1> USE DEF IInv, Finish, server
  <1>1. TypeOK' /\ Queued' /\ Asked'
    BY DEF TypeOK, Queued, Asked
  <1>2. Reading' /\ Answered'
    BY DEF Reading, Answered, Bound
  <1>3. \A d \in Clients : line'[d] # "cut" => line[d] # "cut"
    BY DEF TypeOK
  <1>4. Writing'
    BY <1>3 DEF Writing, TypeOK
  <1> QED BY <1>1, <1>2, <1>4

LEMMA HangUpKeepsIInv ==
  ASSUME IInv, NEW c \in Clients, HangUp(c)
  PROVE  IInv'
  <1> USE DEF IInv, HangUp, server
  <1>1. TypeOK' /\ Queued' /\ Asked'
    BY DEF TypeOK, Queued, Asked
  <1>2. Reading' /\ Answered'
    BY DEF Reading, Answered, Bound
  <1>3. \A d \in Clients : line'[d] # "cut" => line[d] # "cut"
    BY DEF TypeOK
  <1>4. Writing'
    BY <1>3 DEF Writing, TypeOK
  <1> QED BY <1>1, <1>2, <1>4

LEMMA AcceptKeepsIInv ==
  ASSUME IInv, Accept
  PROVE  IInv'
  <1> USE DEF IInv, Accept, clients
  <1>1. /\ backlog \in Seq(Clients) /\ backlog # << >>
        /\ Head(backlog) = backlog[1] /\ Len(backlog) > 0
        /\ Tail(backlog) \in Seq(Clients)
        /\ Len(Tail(backlog)) = Len(backlog) - 1
        /\ \A i \in 1 .. Len(Tail(backlog)) : Tail(backlog)[i] = backlog[i + 1]
    BY HeadTailProperties DEF TypeOK
  <1>2. backlog[1] \in Clients
    BY <1>1, ElementOfSeq
  <1>3. current' \in {{}} \cup {{c} : c \in Clients} /\ current' # {}
    BY <1>1, <1>2
  <1>4. TypeOK'
    BY <1>1, <1>3 DEF TypeOK
  <1>5. Queued'
    BY <1>1 DEF Queued
  <1>6. Asked' /\ Reading' /\ Writing' /\ Answered'
    BY DEF Asked, Reading, Writing, Answered
  <1> QED BY <1>4, <1>5, <1>6

(* What is owed, by what is asked. *)
LEMMA OwedBy ==
  ASSUME NEW r \in Requests
  PROVE  /\ r.method = "GET" => Service!Owed(r) = Service!Health
         /\ r.method = "POST" /\ r.form = "garbled" => Service!Owed(r) = Service!Closed
         /\ r.method = "POST" /\ r.form = "bad" => Service!Owed(r) = Service!Error
         /\ Good(r) /\ r.fate # "value" => Service!Owed(r) = Service!Error
         /\ Good(r) /\ r.fate = "value" =>
              Service!Owed(r) = Service!Value([n \in r.names |-> Service!Means(r, n)])
  BY RequestsAssumption DEF Good, Service!Owed

LEMMA ReadKeepsIInv ==
  ASSUME IInv, NEW c \in current, Read(c)
  PROVE  IInv'
  <1> USE DEF IInv, clients
  <1>1. /\ c \in Clients /\ asked[c] \in Requests /\ current = {c}
        /\ answer[c] = None /\ line[c] # "away"
    BY ServedHasAsked
  <1>2. UNCHANGED <<asked, line, backlog, current, answer>>
    BY DEF Read
  <1>3. Queued' /\ Asked' /\ Answered'
    BY <1>2 DEF Queued, Asked, Answered
  <1>4. pc' \in {"session", "writing"}
    BY DEF Read, Write
  <1>5. TypeOK'
    BY <1>1, <1>2, <1>4 DEF TypeOK
  <1>6. Writing'
    <2> SUFFICES ASSUME pc' = "writing", line[c] # "cut"
                 PROVE  result' = Service!Owed(asked[c]) /\ Ends(asked[c])
      BY <1>1, <1>2 DEF Writing
    <2>1. CASE asked[c].method = "GET"
      BY <2>1, <1>1, OwedBy DEF Read, Write, Ends, Good
    <2>2. CASE asked[c].method = "POST" /\ asked[c].form = "garbled"
      BY <2>2, <1>1, OwedBy DEF Read, Write, Ends, Good
    <2>3. CASE asked[c].method = "POST" /\ asked[c].form = "bad"
      BY <2>3, <1>1, OwedBy DEF Read, Write, Ends, Good
    <2> QED BY <2>1, <2>2, <2>3, <1>1, RequestsAssumption DEF Read
  <1>7. Reading'
    <2> SUFFICES ASSUME pc' = "session"
                 PROVE  Reading'
      BY DEF Reading
    <2>1. /\ Good(asked[c])
          /\ env' = Fresh
          /\ unread' = DOMAIN asked[c].session
      BY DEF Read, Write, Good
    <2>2. Bound(c)' = {}
      BY <2>1, <1>2 DEF Bound
    <2> QED BY <2>1, <2>2, <1>1, <1>2 DEF Reading, Fresh
  <1> QED BY <1>3, <1>5, <1>6, <1>7

LEMMA ReadEntryKeepsIInv ==
  ASSUME IInv, NEW c \in current, NEW name \in unread, ReadEntry(c, name)
  PROVE  IInv'
  <1> USE DEF IInv, clients
  <1>1. c \in Clients /\ asked[c] \in Requests /\ current = {c}
    BY ServedHasAsked
  <1>2. UNCHANGED <<asked, line, backlog, pc, current, result, answer>> /\ pc = "session"
    BY DEF ReadEntry
  <1>3. Queued' /\ Asked' /\ Answered' /\ Writing' /\ TypeOK'
    BY <1>2 DEF Queued, Asked, Answered, Writing, TypeOK
  <1>4. Reading'
    <2> DEFINE entry == asked[c].session[name]
    <2>1. /\ Good(asked[c])
          /\ name \in DOMAIN asked[c].session
          /\ unread \subseteq DOMAIN asked[c].session
          /\ DOMAIN env = Known \cup Bound(c)
          /\ \A n \in DOMAIN env :
               env[n] = IF n \in Bound(c) THEN Service!FromSession(asked[c].session[n])
                        ELSE Service!FromSymPy(n)
      BY <1>2 DEF Reading
    <2>2. unread' = unread \ {name}
      BY DEF ReadEntry
    <2>3. CASE entry \in Unreadable
      <3>1. env' = env
        BY <2>3 DEF ReadEntry
      <3>2. Bound(c)' = Bound(c)
        BY <2>2, <2>3, <1>2 DEF Bound
      <3> QED BY <2>1, <2>2, <3>1, <3>2, <1>1, <1>2 DEF Reading
    <2>4. CASE entry \notin Unreadable
      <3>1. env' = Bind(env, name, Service!FromSession(entry))
        BY <2>4 DEF ReadEntry
      <3>2. Bound(c)' = Bound(c) \cup {name}
        BY <2>1, <2>2, <2>4, <1>2 DEF Bound
      <3>3. /\ DOMAIN env' = Known \cup Bound(c)'
            /\ \A n \in DOMAIN env' :
                 env'[n] = IF n \in Bound(c)'
                           THEN Service!FromSession(asked[c].session[n])
                           ELSE Service!FromSymPy(n)
        BY <2>1, <3>1, <3>2 DEF Bind
      <3> QED BY <2>1, <2>2, <3>3, <1>1, <1>2 DEF Reading
    <2> QED BY <2>3, <2>4
  <1> QED BY <1>3, <1>4

LEMMA EvaluateKeepsIInv ==
  ASSUME IInv, NEW c \in current, Evaluate(c)
  PROVE  IInv'
  <1> USE DEF IInv, clients
  <1>1. c \in Clients /\ asked[c] \in Requests /\ current = {c}
    BY ServedHasAsked
  <1>2. UNCHANGED <<asked, line, backlog, current, answer>> /\ pc' = "writing"
    BY DEF Evaluate
  <1>3. Queued' /\ Asked' /\ Answered' /\ Reading' /\ TypeOK'
    BY <1>1, <1>2 DEF Queued, Asked, Answered, Reading, TypeOK
  <1>4. /\ Good(asked[c])
        /\ DOMAIN env = Known \cup Bound(c)
        /\ \A n \in DOMAIN env :
             env[n] = IF n \in Bound(c) THEN Service!FromSession(asked[c].session[n])
                      ELSE Service!FromSymPy(n)
    BY DEF Reading, Evaluate
  <1>5. asked[c].fate # "diverges" /\ unread = {}
    BY DEF Evaluate
  <1>6. result' = Service!Owed(asked[c])
    <2>1. CASE asked[c].fate = "raises"
      BY <2>1, <1>1, <1>4, OwedBy DEF Evaluate
    <2>2. CASE asked[c].fate # "raises"
      <3>1. asked[c].fate = "value"
        BY <2>2, <1>1, <1>4, <1>5, RequestsAssumption DEF Good
      <3>2. ASSUME NEW n \in asked[c].names
            PROVE  WithSymbols(env, asked[c].names)[n] = Service!Means(asked[c], n)
        BY <1>4, <1>5 DEF WithSymbols, Bound, Service!Means, Service!Given
      <3>3. result' = Service!Value([n \in asked[c].names |->
                                      WithSymbols(env, asked[c].names)[n]])
        BY <3>1 DEF Evaluate
      <3> QED BY <3>1, <3>2, <3>3, <1>1, <1>4, OwedBy
    <2> QED BY <2>1, <2>2
  <1>7. Writing'
    BY <1>1, <1>2, <1>5, <1>6 DEF Writing, Ends
  <1> QED BY <1>3, <1>7

LEMMA RespondKeepsIInv ==
  ASSUME IInv, NEW c \in current, Respond(c)
  PROVE  IInv'
  <1> USE DEF IInv, clients
  <1>1. c \in Clients /\ asked[c] \in Requests /\ current = {c} /\ line[c] # "away"
    BY ServedHasAsked
  <1>2. /\ UNCHANGED <<asked, line, backlog, unread, env>>
        /\ pc = "writing" /\ pc' = "idle" /\ current' = {}
    BY DEF Respond
  <1>3. TypeOK' /\ Reading' /\ Writing'
    BY <1>2 DEF TypeOK, Reading, Writing
  <1>4. /\ DOMAIN answer' = Clients
        /\ \A d \in Clients \ {c} : answer'[d] = answer[d]
        /\ answer'[c] # answer[c] => answer'[c] = result /\ line[c] # "cut"
    BY <1>1 DEF Respond, Deliver, Answered
  <1>5. Queued'
    <2>1. \A i \in 1 .. Len(backlog) : backlog[i] \in Clients
      BY ElementOfSeq DEF TypeOK
    <2> QED BY <1>1, <1>2, <1>4, <2>1 DEF Queued
  <1>6. Asked'
    BY <1>1, <1>2, <1>4 DEF Asked
  <1>7. Answered'
    BY <1>1, <1>2, <1>4 DEF Answered, Writing
  <1> QED BY <1>3, <1>5, <1>6, <1>7

-----------------------------------------------------------------------------

LEMMA NextKeepsIInv == IInv /\ [Next]_vars => IInv'
  <1> SUFFICES ASSUME IInv, [Next]_vars PROVE IInv'
    OBVIOUS
  <1>1. ASSUME NEW c \in Clients, Client(c) PROVE IInv'
    BY <1>1, ConnectKeepsIInv, FinishKeepsIInv, HangUpKeepsIInv DEF Client
  <1>2. CASE Accept
    BY <1>2, AcceptKeepsIInv
  <1>3. ASSUME NEW c \in current, Serve(c) PROVE IInv'
    BY <1>3, ReadKeepsIInv, ReadEntryKeepsIInv, EvaluateKeepsIInv, RespondKeepsIInv
       DEF Serve
  <1>4. CASE UNCHANGED vars
    <2> USE <1>4 DEF vars, clients, server
    <2>1. TypeOK' /\ Queued' /\ Asked'
      BY DEF IInv, TypeOK, Queued, Asked
    <2>2. Reading' /\ Writing' /\ Answered'
      BY DEF IInv, Reading, Writing, Answered, Bound
    <2> QED BY <2>1, <2>2 DEF IInv
  <1> QED BY <1>1, <1>2, <1>3, <1>4 DEF Next, Server

(* In every state of the server each connection waits once and is owed an  *)
(* answer, the dictionary of a request holds what its own session gives    *)
(* and what SymPy knows and nothing of other requests, and each answer is  *)
(* the one that is owed (evaluate and Handler of kernel_server.py).        *)
THEOREM KernelServerInvariant == Spec => []IInv
  BY InitIsGood, NextKeepsIInv, PTL DEF Spec

(* The types of the server's state, with at most one connection served and *)
(* only clients in the backlog (serve_forever).                            *)
THEOREM KernelServerTypeOK == Spec => []TypeOK
  BY KernelServerInvariant, PTL DEF IInv

-----------------------------------------------------------------------------

(* The value the program of the local bridge binds a name to is the one    *)
(* the server finds, just if the name is not told apart.                   *)
LEMMA LocalMeans ==
  ASSUME NEW r, ReadsSession(r), NEW n \in r.names
  PROVE  LocalEnv(r)[n] = Service!Means(r, n) <=> n \notin ToldApart(r)
  <1> USE DEF LocalEnv, Service!Means, Service!Given, ToldApart
  <1>1. CASE n \in DOMAIN r.session
    BY <1>1 DEF ReadsSession
  <1>2. CASE n \notin DOMAIN r.session /\ n \in LocalKnown
    BY <1>2 DEF LocalKnown
  <1>3. CASE n \notin DOMAIN r.session /\ n \notin LocalKnown
    <2>1. LocalEnv(r)[n] = LocalSymbol(r, n)
      BY <1>3
    <2>2. CASE n \in Known
      <3>1. Service!Means(r, n) = Service!FromSymPy(n) /\ n \in ToldApart(r)
        BY <1>3, <2>2 DEF LocalKnown
      <3>2. LocalSymbol(r, n).of = "symbol" /\ Service!FromSymPy(n).of = "sympy"
        BY DEF LocalSymbol, Service!Symbol, Service!FromSymPy
      <3> QED BY <2>1, <3>1, <3>2
    <2>3. CASE n \notin Known
      <3>1. Service!Means(r, n) = Service!Symbol(n)
        BY <1>3, <2>3
      <3>2. n \in ToldApart(r) <=> n \in DOMAIN r.assumed
        BY <1>3, <2>3
      <3>3. n \in DOMAIN r.assumed => LocalSymbol(r, n) # Service!Symbol(n)
        <4>1. DOMAIN Service!Symbol(n) = {"of", "text"}
          BY DEF Service!Symbol
        <4>2. n \in DOMAIN r.assumed => DOMAIN LocalSymbol(r, n) = {"of", "text", "kwargs"}
          BY DEF LocalSymbol
        <4> QED BY <4>1, <4>2
      <3>4. n \notin DOMAIN r.assumed => LocalSymbol(r, n) = Service!Symbol(n)
        BY DEF LocalSymbol
      <3> QED BY <2>1, <3>1, <3>2, <3>3, <3>4
    <2> QED BY <2>2, <2>3
  <1> QED BY <1>1, <1>2, <1>3

(* What is owed is what the local bridge finds, just if nothing is told    *)
(* apart.                                                                  *)
LEMMA LocalOwes ==
  ASSUME NEW r \in Requests, Good(r), Ends(r)
  PROVE  Service!Owed(r) = LocalResult(r) <=> SameInBoth(r)
  <1> USE DEF SameInBoth
  <1> DEFINE means == [n \in r.names |-> Service!Means(r, n)]
             local == [n \in r.names |-> LocalEnv(r)[n]]
  <1>1. CASE r.fate = "raises"
    BY <1>1, OwedBy DEF LocalResult
  <1>2. CASE r.fate # "raises"
    <2>1. r.fate = "value"
      BY <1>2, RequestsAssumption DEF Good, Ends
    <2>2. Service!Owed(r) = Service!Value(means)
      BY <2>1, OwedBy
    <2>3. CASE ~ReadsSession(r)
      <3>1. LocalResult(r) = Service!Error
        BY <2>3 DEF LocalResult
      <3>2. Service!Value(means) # Service!Error
        <4>1. Service!Value(means).kind = "value" /\ Service!Error.kind = "error"
          BY DEF Service!Value, Service!Error
        <4> QED BY <4>1
      <3> QED BY <1>2, <2>2, <2>3, <3>1, <3>2
    <2>4. CASE ReadsSession(r)
      <3>1. LocalResult(r) = Service!Value(local)
        BY <1>2, <2>4 DEF LocalResult
      <3>2. Service!Value(means) = Service!Value(local) <=> means = local
        <4> HIDE DEF means, local
        <4>1. Service!Value(means).value = means /\ Service!Value(local).value = local
          BY DEF Service!Value
        <4> QED BY <4>1
      <3>3. means = local <=> \A n \in r.names : Service!Means(r, n) = LocalEnv(r)[n]
        <4>1. ASSUME means = local, NEW n \in r.names
              PROVE  Service!Means(r, n) = LocalEnv(r)[n]
          <5>1. means[n] = Service!Means(r, n) /\ local[n] = LocalEnv(r)[n]
            OBVIOUS
          <5> QED BY <4>1, <5>1
        <4> QED BY <4>1
      <3>4. (\A n \in r.names : Service!Means(r, n) = LocalEnv(r)[n]) <=> ToldApart(r) = {}
        <4>1. ToldApart(r) \subseteq r.names
          BY DEF ToldApart
        <4>2. \A n \in r.names : LocalEnv(r)[n] = Service!Means(r, n) <=> n \notin ToldApart(r)
          BY <2>4, LocalMeans
        <4> QED BY <4>1, <4>2
      <3> HIDE DEF means, local
      <3> QED BY <1>2, <2>2, <2>4, <3>1, <3>2, <3>3, <3>4
    <2> QED BY <2>3, <2>4
  <1> QED BY <1>1, <1>2

LEMMA IInvAgrees == IInv => LocalAgreesWithRemote
  <1> SUFFICES ASSUME IInv, NEW c \in Clients, answer[c] # None, Good(asked[c])
               PROVE  answer[c] = LocalResult(asked[c]) <=> SameInBoth(asked[c])
    BY DEF LocalAgreesWithRemote, Good
  <1>1. answer[c] = Service!Owed(asked[c]) /\ Ends(asked[c])
    BY DEF IInv, Answered
  <1>2. asked[c] \in Requests
    BY DEF IInv, TypeOK, Asked
  <1> QED BY <1>1, <1>2, LocalOwes

(* For any sessions, sources and assumptions, what the remote kernel       *)
(* answers is what the local bridge would have (evaluate of                *)
(* kernel_server.py against build_eval_code of sympy.cpp), just if the     *)
(* source raises, or the session can be read and neither E nor a free name *)
(* that something is assumed of is used.                                   *)
THEOREM RemoteIsLocal == Spec => []LocalAgreesWithRemote
  BY KernelServerInvariant, IInvAgrees, PTL

-----------------------------------------------------------------------------

LEMMA StepServes ==
  ASSUME IInv, [Next]_vars
  PROVE  [Service!Next]_<<asked, answer>>
  <1>1. ASSUME NEW c \in Clients, Client(c)
        PROVE  [Service!Next]_<<asked, answer>>
    <2>1. CASE \E r \in Requests : Connect(c, r)
      <3>1. asked[c] = Service!None
        BY <2>1 DEF IInv, Asked, Connect, None, Service!None
      <3> QED BY <2>1, <3>1 DEF Connect, Service!Next, Service!Ask
    <2>2. CASE Finish(c) \/ HangUp(c)
      BY <2>2 DEF Finish, HangUp
    <2> QED BY <1>1, <2>1, <2>2 DEF Client
  <1>2. CASE Accept
    BY <1>2 DEF Accept, clients
  <1>3. ASSUME NEW c \in current, Serve(c)
        PROVE  [Service!Next]_<<asked, answer>>
    <2>1. CASE Respond(c)
      <3>1. /\ c \in Clients /\ asked[c] \in Requests /\ asked[c] # None
            /\ answer[c] = None /\ pc = "writing"
        BY <2>1, ServedHasAsked DEF IInv, Asked, Respond
      <3>2. UNCHANGED asked
        BY <2>1 DEF Respond, clients
      <3>3. CASE line[c] \in {"cut", "gone"}
        BY <2>1, <3>2, <3>3 DEF Respond, Deliver
      <3>4. CASE line[c] \notin {"cut", "gone"}
        <4>1. result = Service!Owed(asked[c])
          BY <3>1, <3>4 DEF IInv, Writing
        <4>2. answer' = [answer EXCEPT ![c] = Service!Owed(asked[c])]
          BY <2>1, <3>4, <4>1 DEF Respond, Deliver
        <4> QED BY <3>1, <3>2, <4>2 DEF Service!Next, Service!Answer, None, Service!None
      <3> QED BY <3>3, <3>4
    <2>2. CASE Read(c)
      BY <2>2 DEF Read, clients
    <2>3. CASE (\E name \in unread : ReadEntry(c, name)) \/ Evaluate(c)
      BY <2>3 DEF ReadEntry, Evaluate, clients
    <2> QED BY <1>3, <2>1, <2>2, <2>3 DEF Serve
  <1>4. CASE UNCHANGED vars
    BY <1>4 DEF vars, clients
  <1> QED BY <1>1, <1>2, <1>3, <1>4 DEF Next, Server

(* The server implements the service: whatever clients stall, hang up and  *)
(* share the line, each answer is computed from the request it answers and *)
(* from nothing else (kernel_server.py).                                   *)
THEOREM KernelServerImplementsService == Spec => ServiceSpec
  <1>1. Init => Service!Init
    BY DEF Init, Service!Init, None, Service!None
  <1> QED BY <1>1, KernelServerInvariant, StepServes, PTL DEF Spec, ServiceSpec, Service!Spec

=============================================================================
