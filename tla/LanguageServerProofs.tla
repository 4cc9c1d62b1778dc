------------------------- MODULE LanguageServerProofs -------------------------
(***************************************************************************)
(* Proofs about the language server and its editor: for any documents,     *)
(* texts and edits, of ranges or of whole texts, no edit is lost or        *)
(* overtaken (EditsArrive), the answers are those of the editor's          *)
(* requests, in their order (AnswersFit), and the server implements the    *)
(* service (LanguageService), fairness aside.                              *)
(***************************************************************************)
EXTENDS LanguageServer, LeastProofs, SequenceTheorems

Methods ==
  TextMethods \cup OtherMethods
    \cup {"didOpen", "didChange", "didClose", "$/cancelRequest"}

Messages == [method : Methods, id : Nat, uri : Uris \cup {NoUri}, text : Texts]

IsSync(m, uri) == m.uri = uri /\ m.method \in {"didOpen", "didChange"}

-----------------------------------------------------------------------------
(* TextAfter as a function of the mail and of the text held now. *)

SyncsOf(q, uri, k) == {i \in 1 .. k : IsSync(q[i], uri)}

After(q, base, uri, k) ==
  IF SyncsOf(q, uri, k) = {} THEN base
  ELSE q[CHOOSE i \in SyncsOf(q, uri, k) : \A j \in SyncsOf(q, uri, k) : j <= i].text

(* A finite set of places has a last one. *)
LEMMA LatestExists ==
  ASSUME NEW k \in Nat, NEW S \in SUBSET (1 .. k), S # {}
  PROVE  \E i \in S : \A j \in S : j <= i
<1> DEFINE T == {d \in Nat : \E i \in S : d = k - i}
<1>1. PICK i \in S : TRUE
  OBVIOUS
<1>2. k - i \in T
  BY <1>1
<1>3. PICK d \in T : \A e \in T : d <= e
  <2>1. T \in SUBSET Nat /\ T # {}
    BY <1>2
  <2> HIDE DEF T
  <2> QED BY <2>1, LeastElement
<1>4. PICK l \in S : d = k - l
  BY <1>3
<1>5. ASSUME NEW j \in S PROVE j <= l
  <2>1. k - j \in T  OBVIOUS
  <2>2. k - l <= k - j  BY <2>1, <1>3, <1>4
  <2> QED BY <2>2
<1> QED BY <1>5

(* What After is, without a choice. *)
LEMMA AfterNone ==
  ASSUME NEW q, NEW base, NEW uri, NEW k \in Nat, \A i \in 1 .. k : ~IsSync(q[i], uri)
  PROVE  After(q, base, uri, k) = base
BY DEF After, SyncsOf

LEMMA AfterLast ==
  ASSUME NEW q, NEW base, NEW uri, NEW k \in Nat,
         NEW i \in 1 .. k, IsSync(q[i], uri),
         \A j \in 1 .. k : IsSync(q[j], uri) => j <= i
  PROVE  After(q, base, uri, k) = q[i].text
<1> DEFINE S == SyncsOf(q, uri, k)
           c == CHOOSE l \in S : \A j \in S : j <= l
<1>1. i \in S /\ \A j \in S : j <= i
  BY DEF SyncsOf
<1>2. S \subseteq 1 .. k
  BY DEF SyncsOf
<1>3. c \in S /\ \A j \in S : j <= c
  <2> HIDE DEF S
  <2> QED BY <1>1
<1>4. c <= i /\ i <= c
  BY <1>1, <1>3
<1>5. c \in Nat
  BY <1>2, <1>3
<1>6. c = i
  <2> HIDE DEF c, S
  <2> QED BY <1>4, <1>5
<1>7. After(q, base, uri, k) = q[c].text
  BY <1>1 DEF After
<1> HIDE DEF c, S
<1> QED BY <1>6, <1>7

LEMMA NoneOrLast ==
  ASSUME NEW q, NEW uri, NEW k \in Nat
  PROVE  \/ \A i \in 1 .. k : ~IsSync(q[i], uri)
         \/ \E i \in 1 .. k : /\ IsSync(q[i], uri)
                              /\ \A j \in 1 .. k : IsSync(q[j], uri) => j <= i
<1> DEFINE S == SyncsOf(q, uri, k)
<1>1. S \in SUBSET (1 .. k)
  BY DEF SyncsOf
<1>2. CASE S = {}
  BY <1>2 DEF SyncsOf
<1>3. CASE S # {}
  <2>1. PICK i \in S : \A j \in S : j <= i
    <3> HIDE DEF S
    <3> QED BY <1>1, <1>3, LatestExists
  <2> QED BY <2>1 DEF SyncsOf
<1> QED BY <1>2, <1>3

(* A message at the end changes nothing of what is known before it. *)
LEMMA AppendKeeps ==
  ASSUME NEW q \in Seq(Messages), NEW m \in Messages, NEW base, NEW uri,
         NEW k \in 0 .. Len(q)
  PROVE  After(Append(q, m), base, uri, k) = After(q, base, uri, k)
<1> DEFINE qm == Append(q, m)
<1>0. k \in Nat
  BY LenProperties
<1>1. \A i \in 1 .. k : qm[i] = q[i]
  BY AppendProperties, LenProperties
<1> HIDE DEF qm
<1>2. CASE \A i \in 1 .. k : ~IsSync(q[i], uri)
  <2>1. After(q, base, uri, k) = base
    BY <1>0, <1>2, AfterNone
  <2>2. After(qm, base, uri, k) = base
    <3>1. \A i \in 1 .. k : ~IsSync(qm[i], uri)
      BY <1>1, <1>2
    <3> QED BY <1>0, <3>1, AfterNone
  <2> QED BY <2>1, <2>2 DEF qm
<1>3. CASE \E i \in 1 .. k : /\ IsSync(q[i], uri)
                             /\ \A j \in 1 .. k : IsSync(q[j], uri) => j <= i
  <2>1. PICK i \in 1 .. k : IsSync(q[i], uri)
                            /\ \A j \in 1 .. k : IsSync(q[j], uri) => j <= i
    BY <1>3
  <2>2. After(q, base, uri, k) = q[i].text
    BY <1>0, <2>1, AfterLast
  <2>3. After(qm, base, uri, k) = qm[i].text
    BY <1>0, <1>1, <2>1, AfterLast
  <2> QED BY <1>1, <2>2, <2>3 DEF qm
<1> QED BY <1>0, <1>2, <1>3, NoneOrLast DEF qm

(* The last message decides if it is about the document. *)
LEMMA AppendDecides ==
  ASSUME NEW q \in Seq(Messages), NEW m \in Messages, NEW base, NEW uri
  PROVE  After(Append(q, m), base, uri, Len(q) + 1)
           = IF IsSync(m, uri) THEN m.text ELSE After(q, base, uri, Len(q))
<1> DEFINE qm == Append(q, m)
           n == Len(q)
<1>0. n \in Nat
  BY LenProperties
<1>1. (\A i \in 1 .. n : qm[i] = q[i]) /\ qm[n + 1] = m
  BY AppendProperties
<1> HIDE DEF qm, n
<1>2. CASE IsSync(m, uri)
  <2>1. IsSync(qm[n + 1], uri) /\ \A j \in 1 .. n + 1 : IsSync(qm[j], uri) => j <= n + 1
    BY <1>0, <1>1, <1>2
  <2>2. After(qm, base, uri, n + 1) = qm[n + 1].text
    BY <1>0, <2>1, AfterLast
  <2> QED BY <1>1, <1>2, <2>2 DEF qm, n
<1>3. CASE ~IsSync(m, uri)
  <2>0. \A i \in 1 .. n + 1 : i \in 1 .. n \/ i = n + 1
    BY <1>0
  <2>1. CASE \A i \in 1 .. n : ~IsSync(q[i], uri)
    <3>1. \A i \in 1 .. n + 1 : ~IsSync(qm[i], uri)
      BY <1>1, <1>3, <2>0, <2>1
    <3>2. After(qm, base, uri, n + 1) = base /\ After(q, base, uri, n) = base
      BY <1>0, <2>1, <3>1, AfterNone
    <3> QED BY <1>3, <3>2 DEF qm, n
  <2>2. CASE \E i \in 1 .. n : /\ IsSync(q[i], uri)
                               /\ \A j \in 1 .. n : IsSync(q[j], uri) => j <= i
    <3>1. PICK i \in 1 .. n : IsSync(q[i], uri)
                              /\ \A j \in 1 .. n : IsSync(q[j], uri) => j <= i
      BY <2>2
    <3>2. After(q, base, uri, n) = q[i].text
      BY <1>0, <3>1, AfterLast
    <3>3. IsSync(qm[i], uri) /\ \A j \in 1 .. n + 1 : IsSync(qm[j], uri) => j <= i
      BY <1>1, <1>3, <2>0, <3>1
    <3>4. After(qm, base, uri, n + 1) = qm[i].text
      BY <1>0, <3>3, AfterLast
    <3> QED BY <1>1, <1>3, <3>2, <3>4 DEF qm, n
  <2> QED BY <1>0, <2>1, <2>2, NoneOrLast
<1> QED BY <1>2, <1>3

(* Taking the first message out and heeding it leaves what will be. *)
LEMMA TailShifts ==
  ASSUME NEW q \in Seq(Messages), q # << >>, NEW base, NEW uri,
         NEW k \in 0 .. Len(q) - 1
  PROVE  After(Tail(q), IF IsSync(Head(q), uri) THEN Head(q).text ELSE base, uri, k)
           = After(q, base, uri, k + 1)
<1> DEFINE t == Tail(q)
           b == IF IsSync(Head(q), uri) THEN Head(q).text ELSE base
<1>0. k \in Nat /\ Head(q) = q[1]
  BY LenProperties
<1>1. \A i \in 1 .. k : t[i] = q[i + 1]
  BY HeadTailProperties, LenProperties
<1> HIDE DEF t
<1>2. CASE \A i \in 1 .. k : ~IsSync(t[i], uri)
  <2>1. After(t, b, uri, k) = b
    BY <1>0, <1>2, AfterNone
  <2>2. \A j \in 1 .. k + 1 : IsSync(q[j], uri) => j = 1
    <3> SUFFICES ASSUME NEW j \in 1 .. k + 1, IsSync(q[j], uri), j # 1 PROVE FALSE
      OBVIOUS
    <3>1. j - 1 \in 1 .. k /\ (j - 1) + 1 = j
      BY <1>0
    <3> QED BY <1>1, <1>2, <3>1
  <2>3. CASE IsSync(q[1], uri)
    <3>1. After(q, base, uri, k + 1) = q[1].text
      BY <1>0, <2>2, <2>3, AfterLast
    <3> QED BY <1>0, <2>1, <2>3, <3>1 DEF t
  <2>4. CASE ~IsSync(q[1], uri)
    <3>1. After(q, base, uri, k + 1) = base
      BY <1>0, <2>2, <2>4, AfterNone
    <3> QED BY <1>0, <2>1, <2>4, <3>1 DEF t
  <2> QED BY <2>3, <2>4
<1>3. CASE \E i \in 1 .. k : /\ IsSync(t[i], uri)
                             /\ \A j \in 1 .. k : IsSync(t[j], uri) => j <= i
  <2>1. PICK i \in 1 .. k : IsSync(t[i], uri)
                            /\ \A j \in 1 .. k : IsSync(t[j], uri) => j <= i
    BY <1>3
  <2>2. After(t, b, uri, k) = t[i].text
    BY <1>0, <2>1, AfterLast
  <2>3. i + 1 \in 1 .. k + 1 /\ IsSync(q[i + 1], uri)
    BY <1>0, <1>1, <2>1
  <2>4. ASSUME NEW j \in 1 .. k + 1, IsSync(q[j], uri) PROVE j <= i + 1
    <3>1. CASE j = 1
      BY <3>1, <1>0
    <3>2. CASE j # 1
      <4>1. j - 1 \in 1 .. k /\ (j - 1) + 1 = j
        BY <1>0, <3>2
      <4>2. j - 1 <= i
        BY <1>1, <2>1, <2>4, <4>1
      <4> QED BY <4>2, <1>0
    <3> QED BY <3>1, <3>2
  <2>5. After(q, base, uri, k + 1) = q[i + 1].text
    BY <1>0, <2>3, <2>4, AfterLast
  <2> QED BY <1>1, <2>1, <2>2, <2>5 DEF t
<1> QED BY <1>0, <1>2, <1>3, NoneOrLast DEF t

-----------------------------------------------------------------------------
(* The inductive invariant. *)

Responses == [id : Nat, to : Methods, result : {Result(m, t) : m \in Methods, t \in Texts}]

Typed ==
  /\ TypeOK
  /\ mail \in Seq(Messages)
  /\ asked \in Seq([id : Nat, method : Methods, text : Texts])
  /\ written \in Seq(Responses)

(* Each message on its way belongs to a request that was made, requests    *)
(* are numbered in their order, and a text comes with its document.        *)
Numbered ==
  /\ \A i \in 1 .. Len(asked) : asked[i].id = i
  /\ \A i \in 1 .. Len(mail) :
       /\ mail[i].id \in 0 .. Len(asked)
       /\ mail[i].method \in TextMethods => mail[i].id # 0
       /\ mail[i].method \in {"didOpen", "didChange"} => mail[i].uri # NoUri

(* The edits in the mail, said with After. *)
CatchUp ==
  /\ \A uri \in DOMAIN told : After(mail, TextOf(uri), uri, Len(mail)) = told[uri]
  /\ \A i \in 1 .. Len(mail) :
       mail[i].method \in TextMethods =>
         After(mail, TextOf(mail[i].uri), mail[i].uri, i - 1) = asked[mail[i].id].text

(* What was told of a document is its text if all of it was sent last. *)
Agreed ==
  /\ DOMAIN mine \subseteq DOMAIN told
  /\ \A uri \in DOMAIN mine : mine[uri] \in Texts
  /\ whole \subseteq DOMAIN told
  /\ \A uri \in DOMAIN mine \cap whole : told[uri] = mine[uri]

IInv == Typed /\ Numbered /\ CatchUp /\ Agreed

LEMMA EditsArriveFollows ==
  ASSUME CatchUp, Agreed
  PROVE  EditsArrive
<1>1. \A uri, k : After(mail, TextOf(uri), uri, k) = TextAfter(uri, k)
  BY Zenon DEF After, TextAfter, SyncsOf, Syncs, IsSync
<1>2. \A uri \in DOMAIN told : TextAfter(uri, Len(mail)) = told[uri]
  BY <1>1, Zenon DEF CatchUp
<1>3. \A uri \in DOMAIN mine \cap whole : TextAfter(uri, Len(mail)) = mine[uri]
  BY <1>2 DEF Agreed
<1> QED BY <1>1, <1>2, <1>3, Zenon DEF CatchUp, EditsArrive

-----------------------------------------------------------------------------
(* The editor sends. *)

LEMMA EmptyIsText == << >> \in Texts
<1>1. << >> = [i \in 1 .. 0 |-> CHOOSE c \in Chunks : TRUE]
  OBVIOUS
<1>2. 0 \in 0 .. MaxText
  BY ServerAssumption
<1> QED BY <1>2 DEF Texts

LEMMA TextsAreSequences ==
  /\ Texts \subseteq Seq(Chunks)
  /\ \A t \in Seq(Chunks) : Len(t) <= MaxText => t \in Texts
<1>1. Texts \subseteq Seq(Chunks)
  BY DEF Texts
<1>2. ASSUME NEW t \in Seq(Chunks), Len(t) <= MaxText PROVE t \in Texts
  <2>1. t \in [1 .. Len(t) -> Chunks] /\ Len(t) \in 0 .. MaxText
    BY <1>2, LenProperties, ServerAssumption
  <2> QED BY <2>1 DEF Texts
<1> QED BY <1>1, <1>2

(* What is common to all messages: the server's texts stay, a message is   *)
(* added at the end, and with it perhaps a request.                        *)
Asking(m) ==
  /\ mail' = Append(mail, m)
  /\ UNCHANGED documents
  /\ \/ asked' = asked
     \/ /\ m.method \in Methods
        /\ asked' = Append(asked, [id |-> Len(asked) + 1, method |-> m.method,
                                   text |-> asked'[Len(asked) + 1].text])
        /\ asked'[Len(asked) + 1].text \in Texts

LEMMA AskingKeepsRequests ==
  ASSUME Typed, NEW m \in Messages, Asking(m)
  PROVE  /\ asked' \in Seq([id : Nat, method : Methods, text : Texts])
         /\ Len(asked) \in Nat /\ Len(asked') \in Nat /\ Len(asked) <= Len(asked')
         /\ \A i \in 1 .. Len(asked) : asked'[i] = asked[i]
         /\ \A i \in 1 .. Len(asked') : i \in 1 .. Len(asked) \/ asked'[i].id = i
<1> DEFINE Asks == [id : Nat, method : Methods, text : Texts]
<1>1. asked \in Seq(Asks) /\ Len(asked) \in Nat
  BY LenProperties DEF Typed
<1>2. CASE asked' = asked
  BY <1>1, <1>2
<1>3. CASE asked' # asked
  <2> DEFINE r == [id |-> Len(asked) + 1, method |-> m.method,
                   text |-> asked'[Len(asked) + 1].text]
  <2>1. r \in Asks /\ asked' = Append(asked, r) /\ r.id = Len(asked) + 1
    BY <1>1, <1>3 DEF Asking
  <2> HIDE DEF r
  <2>2. /\ Append(asked, r) \in Seq(Asks)
        /\ Len(Append(asked, r)) = Len(asked) + 1
        /\ \A i \in 1 .. Len(asked) : Append(asked, r)[i] = asked[i]
        /\ Append(asked, r)[Len(asked) + 1] = r
    BY <1>1, <2>1, AppendProperties
  <2> QED BY <1>1, <2>1, <2>2
<1> QED BY <1>2, <1>3

LEMMA AskingKeepsNumbers ==
  ASSUME Typed, Numbered, NEW m \in Messages, Asking(m),
         m.id \in 0 .. Len(asked'),
         m.method \in TextMethods => m.id # 0,
         m.method \in {"didOpen", "didChange"} => m.uri # NoUri
  PROVE  Numbered'
<1>1. /\ Len(asked) \in Nat /\ Len(asked') \in Nat /\ Len(asked) <= Len(asked')
      /\ \A i \in 1 .. Len(asked) : asked'[i] = asked[i]
      /\ \A i \in 1 .. Len(asked') : i \in 1 .. Len(asked) \/ asked'[i].id = i
  BY AskingKeepsRequests
<1>2. \A i \in 1 .. Len(asked') : asked'[i].id = i
  BY <1>1 DEF Numbered
<1>3. /\ mail \in Seq(Messages) /\ Len(mail) \in Nat
      /\ Len(mail') = Len(mail) + 1
      /\ \A i \in 1 .. Len(mail) : mail'[i] = mail[i]
      /\ mail'[Len(mail) + 1] = m
  BY AppendProperties, LenProperties DEF Typed, Asking
<1>4. ASSUME NEW i \in 1 .. Len(mail')
      PROVE  /\ mail'[i].id \in 0 .. Len(asked')
             /\ mail'[i].method \in TextMethods => mail'[i].id # 0
             /\ mail'[i].method \in {"didOpen", "didChange"} => mail'[i].uri # NoUri
  <2>1. CASE i \in 1 .. Len(mail)
    <3>1. mail'[i] = mail[i]
      BY <1>3, <2>1
    <3>2. /\ mail[i].id \in 0 .. Len(asked)
          /\ mail[i].method \in TextMethods => mail[i].id # 0
          /\ mail[i].method \in {"didOpen", "didChange"} => mail[i].uri # NoUri
      BY <2>1 DEF Numbered
    <3>3. 0 .. Len(asked) \subseteq 0 .. Len(asked')
      BY <1>1
    <3> QED BY <3>1, <3>2, <3>3
  <2>2. CASE i = Len(mail) + 1
    BY <1>3, <2>2
  <2> QED BY <1>3, <2>1, <2>2
<1> QED BY <1>2, <1>4, Zenon DEF Numbered

LEMMA AskingKeepsCatchUp ==
  ASSUME Typed, Numbered, CatchUp, NEW m \in Messages, Asking(m),
         \A uri \in DOMAIN told' :
           told'[uri] = IF IsSync(m, uri) THEN m.text
                        ELSE After(mail, TextOf(uri), uri, Len(mail)),
         m.method \in TextMethods =>
           After(mail, TextOf(m.uri), m.uri, Len(mail)) = asked'[m.id].text
  PROVE  CatchUp'
<1>1. /\ mail \in Seq(Messages) /\ Len(mail) \in Nat
      /\ mail' = Append(mail, m)
      /\ Len(mail') = Len(mail) + 1
      /\ \A i \in 1 .. Len(mail) : mail'[i] = mail[i]
      /\ mail'[Len(mail) + 1] = m
  BY AppendProperties, LenProperties DEF Typed, Asking
<1>2. \A uri : TextOf(uri)' = TextOf(uri)
  BY DEF Asking, TextOf
<1>3. \A i \in 1 .. Len(asked) : asked'[i] = asked[i]
  BY AskingKeepsRequests
<1>4. ASSUME NEW uri \in DOMAIN told'
      PROVE  After(mail', TextOf(uri)', uri, Len(mail')) = told'[uri]
  <2>1. After(Append(mail, m), TextOf(uri), uri, Len(mail) + 1)
          = IF IsSync(m, uri) THEN m.text ELSE After(mail, TextOf(uri), uri, Len(mail))
    BY <1>1, AppendDecides
  <2> QED BY <1>1, <1>2, <2>1
<1>5. ASSUME NEW i \in 1 .. Len(mail'), mail'[i].method \in TextMethods
      PROVE  (After(mail, TextOf(mail[i].uri), mail[i].uri, i - 1) = asked[mail[i].id].text)'
  <2>0. i - 1 \in 0 .. Len(mail)
    BY <1>1
  <2>1. \A base, uri : After(mail', base, uri, i - 1) = After(mail, base, uri, i - 1)
    BY <1>1, <2>0, AppendKeeps
  <2>2. CASE i \in 1 .. Len(mail)
    <3>1. mail'[i] = mail[i]
      BY <1>1, <2>2
    <3>2. After(mail, TextOf(mail[i].uri), mail[i].uri, i - 1) = asked[mail[i].id].text
      BY <1>5, <2>2, <3>1 DEF CatchUp
    <3>3. mail[i].id \in 1 .. Len(asked)
      <4>1. mail[i].id \in 0 .. Len(asked) /\ mail[i].id # 0
        BY <1>5, <2>2, <3>1 DEF Numbered
      <4> QED BY <4>1
    <3>4. asked'[mail[i].id] = asked[mail[i].id]
      BY <1>3, <3>3
    <3>5. TextOf(mail[i].uri)' = TextOf(mail[i].uri)
      BY <3>1 DEF Asking, TextOf
    <3> QED BY <2>1, <3>1, <3>2, <3>4, <3>5
  <2>3. CASE i = Len(mail) + 1
    <3>1. mail'[i] = m /\ i - 1 = Len(mail)
      BY <1>1, <2>3
    <3>2. After(mail, TextOf(m.uri), m.uri, Len(mail)) = asked'[m.id].text
      BY <1>5, <3>1
    <3>3. TextOf(mail[i].uri)' = TextOf(m.uri)
      BY <3>1 DEF Asking, TextOf
    <3> QED BY <2>1, <3>1, <3>2, <3>3
  <2> QED BY <1>1, <2>2, <2>3
<1> QED BY <1>4, <1>5, Zenon DEF CatchUp

LEMMA SendKeepsIInv ==
  ASSUME IInv, NEW m \in Messages, Send(m), Asking(m),
         m.id \in 0 .. Len(asked'),
         m.method \in TextMethods => m.id # 0,
         m.method \in {"didOpen", "didChange"} => m.uri # NoUri,
         DOMAIN told' \subseteq Uris,
         \A uri \in DOMAIN told' :
           \/ IsSync(m, uri) /\ told'[uri] = m.text
           \/ ~IsSync(m, uri) /\ uri \in DOMAIN told /\ told'[uri] = told[uri],
         m.method \in TextMethods =>
           m.uri \in DOMAIN told /\ asked'[m.id].text = told[m.uri],
         Agreed'
  PROVE  IInv'
<1>1. Numbered'
  BY AskingKeepsNumbers DEF IInv
<1>2. CatchUp'
  <2>1. \A uri \in DOMAIN told :
          After(mail, TextOf(uri), uri, Len(mail)) = told[uri]
    BY DEF IInv, CatchUp
  <2>2. \A uri \in DOMAIN told' :
          told'[uri] = IF IsSync(m, uri) THEN m.text
                       ELSE After(mail, TextOf(uri), uri, Len(mail))
    BY <2>1
  <2>3. m.method \in TextMethods =>
          After(mail, TextOf(m.uri), m.uri, Len(mail)) = asked'[m.id].text
    BY <2>1
  <2> QED BY <2>2, <2>3, AskingKeepsCatchUp DEF IInv
<1>3. Typed'
  <2>1. /\ asked' \in Seq([id : Nat, method : Methods, text : Texts])
        /\ Len(asked) \in Nat /\ Len(asked') \in Nat /\ Len(asked) <= Len(asked')
    BY AskingKeepsRequests DEF IInv
  <2>2. mail' \in Seq(Messages)
    BY AppendProperties DEF IInv, Typed, Send
  <2>3. written' \in Seq(Responses)
    BY DEF IInv, Typed, Send, server
  <2>4. TypeOK'
    <3>1. /\ DOMAIN told' \subseteq Uris /\ \A uri \in DOMAIN told' : told'[uri] \in Texts
          /\ DOMAIN mine' \subseteq DOMAIN told' /\ DOMAIN mine' \subseteq Uris
          /\ \A uri \in DOMAIN mine' : mine'[uri] \in Texts
          /\ whole' \subseteq DOMAIN told'
      BY DEF IInv, Typed, TypeOK, Messages, Agreed
    <3>2. /\ DOMAIN documents' \subseteq Uris \cup {NoUri}
          /\ \A uri \in DOMAIN documents' : documents'[uri] \in Texts
      BY DEF IInv, Typed, TypeOK, Send, server
    <3>3. sent' \in 0 .. MaxSent
      BY ServerAssumption DEF IInv, Typed, TypeOK, Send
    <3>4. hung' \in BOOLEAN /\ status' \in {"running", "returned", "terminated"}
      BY DEF IInv, Typed, TypeOK, Send, server
    <3>5. \A i \in 1 .. Len(written') : written'[i].id \in 1 .. Len(asked')
      <4>1. \A i \in 1 .. Len(written) : written[i].id \in 1 .. Len(asked)
        BY DEF IInv, Typed, TypeOK
      <4>2. written' = written /\ 1 .. Len(asked) \subseteq 1 .. Len(asked')
        BY <2>1 DEF Send, server
      <4> QED BY <4>1, <4>2
    <3> QED BY <3>1, <3>2, <3>3, <3>4, <3>5 DEF TypeOK
  <2> QED BY <2>1, <2>2, <2>3, <2>4 DEF Typed
<1> QED BY <1>1, <1>2, <1>3 DEF IInv

(* A change makes a text of a text, and all of it is the text it sends. *)
LEMMA ChangedText ==
  ASSUME NEW text \in Texts, NEW change \in Changes(text)
  PROVE  /\ change.text \in Texts
         /\ change.whole => Apply(text, change) = change.text
         /\ Len(Apply(text, change)) <= MaxText => Apply(text, change) \in Texts
<1>1. CASE \E ins \in Texts : change = Whole(ins)
  <2>1. PICK ins \in Texts : change = Whole(ins)
    BY <1>1
  <2>2. change.whole /\ change.text = ins
    BY <2>1, Zenon DEF Whole
  <2> QED BY <2>2, Zenon DEF Apply
<1>2. CASE change \in Parts(text)
  <2>1. PICK range \in Ranges(text), ins \in Texts : change = Part(range[1], range[2], ins)
    BY <1>2 DEF Parts
  <2> DEFINE from == range[1]
             to == range[2]
  <2>2. ~change.whole /\ change.text = ins /\ change.from = from /\ change.to = to
    BY <2>1, Zenon DEF Part
  <2>3. text \in Seq(Chunks) /\ ins \in Seq(Chunks) /\ Len(text) \in Nat
    BY TextsAreSequences, LenProperties
  <2>4. from \in 0 .. Len(text) /\ to \in 0 .. Len(text)
    BY DEF Ranges
  <2> HIDE DEF from, to
  <2>5. SubSeq(text, 1, from) \in Seq(Chunks)
    <3>1. \A i \in 1 .. from : text[i] \in Chunks
      BY <2>3, <2>4, ElementOfSeq
    <3> QED BY <2>3, <2>4, <3>1, SubSeqProperties
  <2>6. SubSeq(text, to + 1, Len(text)) \in Seq(Chunks)
    <3>1. \A i \in to + 1 .. Len(text) : text[i] \in Chunks
      BY <2>3, <2>4, ElementOfSeq
    <3> QED BY <2>3, <2>4, <3>1, SubSeqProperties
  <2>7. SubSeq(text, 1, from) \o ins \in Seq(Chunks)
    BY <2>3, <2>5, ConcatProperties
  <2>8. (SubSeq(text, 1, from) \o ins) \o SubSeq(text, to + 1, Len(text)) \in Seq(Chunks)
    BY <2>6, <2>7, ConcatProperties
  <2>9. Apply(text, change)
          = (SubSeq(text, 1, from) \o ins) \o SubSeq(text, to + 1, Len(text))
    BY <2>2, Zenon DEF Apply
  <2> QED BY <2>2, <2>8, <2>9, TextsAreSequences
<1> QED BY <1>1, <1>2 DEF Changes

(* An edit tells the server the text it sends, and the ghosts agree. *)
LEMMA TellAgrees ==
  ASSUME Typed, Agreed, NEW uri \in Uris, NEW change, NEW text \in Texts,
         change.text \in Texts, change.whole => text = change.text,
         Tell(uri, change),
         DOMAIN mine' = DOMAIN mine \cup {uri},
         \A u \in DOMAIN mine' : mine'[u] = IF u = uri THEN text ELSE mine[u]
  PROVE  /\ Agreed'
         /\ DOMAIN told' \subseteq Uris
         /\ \A u \in DOMAIN told' :
              \/ u = uri /\ told'[u] = change.text
              \/ u # uri /\ u \in DOMAIN told /\ told'[u] = told[u]
<1>1. /\ told' = [u \in DOMAIN told \cup {uri} |-> IF u = uri THEN change.text ELSE told[u]]
      /\ whole' = IF change.whole THEN whole \cup {uri} ELSE whole \ {uri}
  BY DEF Tell
<1>2. /\ DOMAIN told' = DOMAIN told \cup {uri}
      /\ told'[uri] = change.text
      /\ \A u \in DOMAIN told \ {uri} : told'[u] = told[u]
  BY <1>1
<1>3. DOMAIN told \subseteq Uris
  BY DEF Typed, TypeOK
<1>4. \A u \in whole' \ {uri} : u \in whole
  BY <1>1
<1>5. whole' \subseteq DOMAIN told' /\ (uri \in whole' => change.whole)
  BY <1>1, <1>2 DEF Agreed
<1>6. \A u \in DOMAIN mine' \cap whole' : told'[u] = mine'[u]
  <2> SUFFICES ASSUME NEW u \in DOMAIN mine' \cap whole' PROVE told'[u] = mine'[u]
    OBVIOUS
  <2>1. CASE u = uri
    BY <1>2, <1>5, <2>1
  <2>2. CASE u # uri
    <3>1. u \in DOMAIN mine /\ u \in whole /\ u \in DOMAIN told
      BY <1>4, <2>2 DEF Agreed
    <3> QED BY <1>2, <2>2, <3>1 DEF Agreed
  <2> QED BY <2>1, <2>2
<1>7. Agreed'
  <2>1. DOMAIN mine' \subseteq DOMAIN told'
    BY <1>2 DEF Agreed
  <2>2. \A u \in DOMAIN mine' : mine'[u] \in Texts
    BY DEF Agreed
  <2> QED BY <1>5, <1>6, <2>1, <2>2 DEF Agreed
<1> QED BY <1>2, <1>3, <1>7

LEMMA OpenKeepsIInv ==
  ASSUME IInv, NEW uri \in Uris, NEW text \in Texts, Open(uri, text)
  PROVE  IInv'
<1> DEFINE m == Message("didOpen", 0, uri, text)
           c == Whole(text)
<1>1. /\ m \in Messages /\ m.id = 0 /\ m.method = "didOpen"
      /\ m.uri = uri /\ m.text = text
  BY DEF Message, Messages, Methods
<1>2. Send(m) /\ Asking(m) /\ asked' = asked /\ Tell(uri, c)
  BY DEF Open, Send, Asking, server
<1>3. mine' = [u \in DOMAIN mine \cup {uri} |-> IF u = uri THEN text ELSE mine[u]]
  BY DEF Open
<1>4. Len(asked') \in Nat /\ uri # NoUri
  BY <1>2, LenProperties, ServerAssumption DEF IInv, Typed
<1>5. c.text = text
  BY DEF Whole
<1> HIDE DEF m, c
<1>6. /\ Agreed'
      /\ DOMAIN told' \subseteq Uris
      /\ \A u \in DOMAIN told' :
           \/ u = uri /\ told'[u] = c.text
           \/ u # uri /\ u \in DOMAIN told /\ told'[u] = told[u]
  BY <1>2, <1>3, <1>5, TellAgrees DEF IInv
<1>7. \A u \in DOMAIN told' :
        \/ IsSync(m, u) /\ told'[u] = m.text
        \/ ~IsSync(m, u) /\ u \in DOMAIN told /\ told'[u] = told[u]
  BY <1>1, <1>5, <1>6 DEF IsSync
<1>8. m.method \notin TextMethods
  BY <1>1 DEF TextMethods
<1> QED BY <1>1, <1>2, <1>4, <1>6, <1>7, <1>8, SendKeepsIInv

LEMMA ChangeKeepsIInv ==
  ASSUME IInv,
         NEW uri \in DOMAIN mine, NEW change \in Changes(mine[uri]), Change(uri, change)
  PROVE  IInv'
<1> DEFINE m == Message("didChange", 0, uri, change.text)
           text == Apply(mine[uri], change)
<1>0. /\ uri \in Uris /\ mine[uri] \in Texts /\ change.text \in Texts
      /\ change.whole => text = change.text
      /\ text \in Texts
  BY ChangedText DEF IInv, Typed, TypeOK, Change
<1>1. /\ m \in Messages /\ m.id = 0 /\ m.method = "didChange"
      /\ m.uri = uri /\ m.text = change.text
  BY <1>0 DEF Message, Messages, Methods
<1>2. Send(m) /\ Asking(m) /\ asked' = asked /\ Tell(uri, change)
  BY DEF Change, Send, Asking, server
<1>3. mine' = [mine EXCEPT ![uri] = text]
  BY DEF Change
<1>4. Len(asked') \in Nat /\ uri # NoUri
  BY <1>0, <1>2, LenProperties, ServerAssumption DEF IInv, Typed
<1> HIDE DEF m, text
<1>5. /\ DOMAIN mine' = DOMAIN mine \cup {uri}
      /\ \A u \in DOMAIN mine' : mine'[u] = IF u = uri THEN text ELSE mine[u]
  BY <1>3
<1>6. /\ Agreed'
      /\ DOMAIN told' \subseteq Uris
      /\ \A u \in DOMAIN told' :
           \/ u = uri /\ told'[u] = change.text
           \/ u # uri /\ u \in DOMAIN told /\ told'[u] = told[u]
  BY <1>0, <1>2, <1>5, TellAgrees DEF IInv
<1>7. \A u \in DOMAIN told' :
        \/ IsSync(m, u) /\ told'[u] = m.text
        \/ ~IsSync(m, u) /\ u \in DOMAIN told /\ told'[u] = told[u]
  BY <1>1, <1>6 DEF IsSync
<1>8. m.method \notin TextMethods
  BY <1>1 DEF TextMethods
<1> QED BY <1>1, <1>2, <1>4, <1>6, <1>7, <1>8, SendKeepsIInv

LEMMA CloseKeepsIInv ==
  ASSUME IInv, NEW uri \in DOMAIN mine, CloseDocument(uri)
  PROVE  IInv'
<1> DEFINE m == Message("didClose", 0, uri, << >>)
<1>1. /\ m \in Messages /\ m.id = 0 /\ m.method = "didClose" /\ m.uri = uri
  BY EmptyIsText DEF Message, Messages, Methods, IInv, Typed, TypeOK
<1>2. Send(m) /\ Asking(m) /\ asked' = asked /\ told' = told /\ whole' = whole
  BY DEF CloseDocument, Send, Asking, server
<1>3. mine' = [u \in DOMAIN mine \ {uri} |-> mine[u]]
  BY DEF CloseDocument
<1>4. Len(asked') \in Nat
  BY <1>2, LenProperties DEF IInv, Typed
<1>5. DOMAIN told' \subseteq Uris /\ Agreed'
  BY <1>2, <1>3 DEF IInv, Typed, TypeOK, Agreed
<1> HIDE DEF m
<1>6. \A u \in DOMAIN told' : ~IsSync(m, u) /\ u \in DOMAIN told /\ told'[u] = told[u]
  BY <1>1, <1>2 DEF IsSync
<1>7. m.method \notin TextMethods \cup {"didOpen", "didChange"}
  BY <1>1 DEF TextMethods
<1> QED BY <1>1, <1>2, <1>4, <1>5, <1>6, <1>7, SendKeepsIInv

LEMMA RequestKeepsIInv ==
  ASSUME IInv, NEW method \in TextMethods \cup OtherMethods, NEW uri, NEW text \in Texts,
         \/ method \in TextMethods /\ uri \in DOMAIN told /\ text = told[uri]
         \/ method \in OtherMethods /\ uri = NoUri,
         Request(method, uri, text)
  PROVE  IInv'
<1> DEFINE n == Len(asked) + 1
           m == Message(method, n, uri, << >>)
           r == [id |-> n, method |-> method, text |-> text]
<1>0. asked \in Seq([id : Nat, method : Methods, text : Texts]) /\ Len(asked) \in Nat
  BY LenProperties DEF IInv, Typed
<1>1. /\ m \in Messages /\ m.id = n /\ m.method = method /\ m.uri = uri
  BY <1>0, EmptyIsText DEF Message, Messages, Methods, IInv, Typed, TypeOK
<1>2. r \in [id : Nat, method : Methods, text : Texts] /\ r.text = text
  BY <1>0 DEF Methods
<1>3. Send(m) /\ mine' = mine /\ told' = told /\ whole' = whole /\ asked' = Append(asked, r)
  BY DEF Request
<1> HIDE DEF r
<1>4. /\ Len(asked') = n /\ asked'[n] = r
  BY <1>0, <1>2, <1>3, AppendProperties
<1>5. Asking(m)
  <2>1. asked'[Len(asked) + 1].text = text
    BY <1>2, <1>4
  <2> QED BY <1>1, <1>3, <2>1 DEF Asking, Send, server, r, Methods
<1>6. m.method \notin {"didOpen", "didChange"}
  BY <1>1 DEF TextMethods, OtherMethods
<1>7. DOMAIN told' \subseteq Uris /\ Agreed'
  BY <1>3 DEF IInv, Typed, TypeOK, Agreed
<1>8. m.method \in TextMethods => m.uri \in DOMAIN told /\ asked'[m.id].text = told[m.uri]
  BY <1>1, <1>2, <1>4 DEF TextMethods, OtherMethods
<1>9. m.id \in 0 .. Len(asked') /\ m.id # 0
  BY <1>0, <1>1, <1>4
<1>10. \A u \in DOMAIN told' : ~IsSync(m, u) /\ u \in DOMAIN told /\ told'[u] = told[u]
  BY <1>3, <1>6 DEF IsSync
<1> HIDE DEF m
<1> QED BY <1>1, <1>3, <1>5, <1>6, <1>7, <1>8, <1>9, <1>10, SendKeepsIInv

LEMMA CancelKeepsIInv ==
  ASSUME IInv, NEW i \in 1 .. Len(asked), Cancel(asked[i].id)
  PROVE  IInv'
<1> DEFINE m == Message("$/cancelRequest", i, NoUri, << >>)
<1>0. asked[i].id = i /\ Len(asked) \in Nat
  BY LenProperties DEF IInv, Numbered, Typed
<1>1. /\ m \in Messages /\ m.id = i /\ m.method = "$/cancelRequest"
  BY <1>0, EmptyIsText DEF Message, Messages, Methods
<1>2. Send(m) /\ Asking(m) /\ asked' = asked
      /\ mine' = mine /\ told' = told /\ whole' = whole
  BY <1>0 DEF Cancel, Send, Asking, server
<1>3. m.id \in 0 .. Len(asked')
  BY <1>0, <1>1, <1>2
<1>4. m.method \notin TextMethods \cup {"didOpen", "didChange"}
  BY <1>1 DEF TextMethods
<1>5. DOMAIN told' \subseteq Uris /\ Agreed'
  BY <1>2 DEF IInv, Typed, TypeOK, Agreed
<1> HIDE DEF m
<1>6. \A u \in DOMAIN told' : ~IsSync(m, u) /\ u \in DOMAIN told /\ told'[u] = told[u]
  BY <1>2, <1>4 DEF IsSync
<1> QED BY <1>1, <1>2, <1>3, <1>4, <1>5, <1>6, SendKeepsIInv

-----------------------------------------------------------------------------
(* The server reads. *)

Heeded(m) ==
  \A uri \in Uris \cup {NoUri} :
    TextOf(uri)' = IF IsSync(m, uri) THEN m.text ELSE TextOf(uri)

LEMMA MailShrinks ==
  ASSUME Typed, mail # << >>, mail' = Tail(mail)
  PROVE  /\ mail \in Seq(Messages) /\ mail' \in Seq(Messages)
         /\ Len(mail) \in Nat /\ Len(mail') = Len(mail) - 1
         /\ Head(mail) = mail[1] /\ 1 \in 1 .. Len(mail) /\ Head(mail) \in Messages
         /\ \A i \in 1 .. Len(mail') : i + 1 \in 1 .. Len(mail) /\ mail'[i] = mail[i + 1]
<1>1. mail \in Seq(Messages)
  BY DEF Typed
<1>2. Len(mail) \in Nat /\ Len(mail) # 0
  BY <1>1, LenProperties, EmptySeq
<1>3. /\ Head(mail) \in Messages /\ Tail(mail) \in Seq(Messages)
      /\ Len(Tail(mail)) = Len(mail) - 1
      /\ \A i \in 1 .. Len(Tail(mail)) : Tail(mail)[i] = mail[i + 1]
  BY <1>1, HeadTailProperties
<1>4. Head(mail) = mail[1]
  BY <1>1
<1> QED BY <1>1, <1>2, <1>3, <1>4

LEMMA ReadKeepsCatchUp ==
  ASSUME Typed, Numbered, CatchUp, Agreed, mail # << >>, mail' = Tail(mail),
         UNCHANGED <<mine, told, whole>>, asked' = asked, Heeded(Head(mail))
  PROVE  Numbered' /\ CatchUp' /\ Agreed'
<1>1. /\ mail \in Seq(Messages) /\ mail' \in Seq(Messages)
      /\ Len(mail) \in Nat /\ Len(mail') = Len(mail) - 1
      /\ \A i \in 1 .. Len(mail') : i + 1 \in 1 .. Len(mail) /\ mail'[i] = mail[i + 1]
  BY MailShrinks
<1>2. Numbered'
  BY <1>1 DEF Numbered
<1>3. \A uri \in Uris \cup {NoUri}, k \in 0 .. Len(mail') :
        After(mail', TextOf(uri)', uri, k) = After(mail, TextOf(uri), uri, k + 1)
  <2> SUFFICES ASSUME NEW uri \in Uris \cup {NoUri}, NEW k \in 0 .. Len(mail')
               PROVE  After(mail', TextOf(uri)', uri, k) = After(mail, TextOf(uri), uri, k + 1)
    OBVIOUS
  <2>1. TextOf(uri)' = IF IsSync(Head(mail), uri) THEN Head(mail).text ELSE TextOf(uri)
    BY DEF Heeded
  <2>2. k \in 0 .. Len(mail) - 1
    BY <1>1
  <2> QED BY <1>1, <2>1, <2>2, TailShifts
<1>4. ASSUME NEW uri \in DOMAIN told'
      PROVE  After(mail', TextOf(uri)', uri, Len(mail')) = told'[uri]
  <2>1. uri \in Uris /\ Len(mail') \in 0 .. Len(mail')
    BY <1>1, LenProperties DEF Typed, TypeOK
  <2>2. After(mail', TextOf(uri)', uri, Len(mail'))
          = After(mail, TextOf(uri), uri, Len(mail') + 1)
    BY <1>3, <2>1
  <2>3. Len(mail') + 1 = Len(mail)
    BY <1>1
  <2> QED BY <2>2, <2>3 DEF CatchUp
<1>5. ASSUME NEW i \in 1 .. Len(mail'), mail'[i].method \in TextMethods
      PROVE  (After(mail, TextOf(mail[i].uri), mail[i].uri, i - 1) = asked[mail[i].id].text)'
  <2> DEFINE u == mail[i + 1].uri
  <2>1. i + 1 \in 1 .. Len(mail) /\ mail'[i] = mail[i + 1] /\ u \in Uris \cup {NoUri}
    <3>1. i + 1 \in 1 .. Len(mail) /\ mail'[i] = mail[i + 1]
      BY <1>1
    <3>2. mail[i + 1] \in Messages
      BY <1>1, <3>1, ElementOfSeq
    <3> QED BY <3>1, <3>2 DEF Messages
  <2>2. After(mail, TextOf(u), u, (i + 1) - 1) = asked[mail[i + 1].id].text
    BY <1>5, <2>1 DEF CatchUp
  <2>3. i - 1 \in 0 .. Len(mail') /\ (i - 1) + 1 = (i + 1) - 1
    BY <1>1
  <2>4. (After(mail, TextOf(mail[i].uri), mail[i].uri, i - 1)
           = After(mail, TextOf(mail[i].uri), mail[i].uri, i - 1))'
    OBVIOUS
  <2>5. \A v \in Uris \cup {NoUri} :
          After(mail', TextOf(v)', v, i - 1) = After(mail, TextOf(v), v, (i + 1) - 1)
    BY <1>3, <2>3
  <2>6. TextOf(mail[i].uri)' = IF IsSync(Head(mail), u) THEN Head(mail).text ELSE TextOf(u)
    <3>1. \A v \in Uris \cup {NoUri} : mail'[i].uri = v =>
            TextOf(mail[i].uri)' = (IF v \in DOMAIN documents' THEN documents'[v] ELSE << >>)
      BY DEF TextOf
    <3>2. \A v \in Uris \cup {NoUri} :
            TextOf(v)' = (IF v \in DOMAIN documents' THEN documents'[v] ELSE << >>)
      BY DEF TextOf
    <3> QED BY <2>1, <3>1, <3>2 DEF Heeded
  <2>7. After(mail', TextOf(mail[i].uri)', u, i - 1) = After(mail, TextOf(u), u, (i + 1) - 1)
    <3> HIDE DEF u
    <3>1. \A base : base = TextOf(mail[i].uri)' =>
            base = IF IsSync(Head(mail), u) THEN Head(mail).text ELSE TextOf(u)
      BY <2>6
    <3>2. i - 1 \in 0 .. Len(mail) - 1
      BY <1>1
    <3>3. After(mail', IF IsSync(Head(mail), u) THEN Head(mail).text ELSE TextOf(u), u, i - 1)
            = After(mail, TextOf(u), u, (i - 1) + 1)
      BY <1>1, <3>2, TailShifts
    <3> QED BY <2>3, <2>6, <3>3
  <2> QED BY <2>1, <2>2, <2>7
<1>6. Agreed'
  BY DEF Agreed
<1> QED BY <1>2, <1>4, <1>5, <1>6, Zenon DEF CatchUp

(* What the server changes by itself. *)
LEMMA ReadKeepsTyped ==
  ASSUME Typed, mail # << >>, mail' = Tail(mail), UNCHANGED <<mine, told, whole, sent, asked, hung>>,
         DOMAIN documents' \subseteq Uris \cup {NoUri},
         \A uri \in DOMAIN documents' : documents'[uri] \in Texts,
         status' \in {"running", "returned", "terminated"},
         \/ written' = written
         \/ \E w \in Responses : w.id \in 1 .. Len(asked) /\ written' = Append(written, w)
  PROVE  Typed'
<1>1. mail' \in Seq(Messages)
  BY MailShrinks
<1>2. /\ written' \in Seq(Responses)
      /\ \A i \in 1 .. Len(written') : written'[i].id \in 1 .. Len(asked')
  <2>1. CASE written' = written
    BY <2>1 DEF Typed, TypeOK
  <2>2. CASE \E w \in Responses : w.id \in 1 .. Len(asked) /\ written' = Append(written, w)
    <3>1. PICK w \in Responses : w.id \in 1 .. Len(asked) /\ written' = Append(written, w)
      BY <2>2
    <3>2. /\ written \in Seq(Responses) /\ Len(written) \in Nat
          /\ \A i \in 1 .. Len(written) : written[i].id \in 1 .. Len(asked)
      BY LenProperties DEF Typed, TypeOK
    <3>3. /\ written' \in Seq(Responses)
          /\ Len(written') = Len(written) + 1
          /\ \A i \in 1 .. Len(written) : written'[i] = written[i]
          /\ written'[Len(written) + 1] = w
      BY <3>1, <3>2, AppendProperties
    <3>4. \A i \in 1 .. Len(written') : i \in 1 .. Len(written) \/ i = Len(written) + 1
      BY <3>2, <3>3
    <3> QED BY <3>1, <3>2, <3>3, <3>4
  <2> QED BY <2>1, <2>2
<1>3. TypeOK'
  BY <1>2 DEF Typed, TypeOK
<1>4. asked' \in Seq([id : Nat, method : Methods, text : Texts])
  BY DEF Typed
<1> QED BY <1>1, <1>2, <1>3, <1>4 DEF Typed

LEMMA ResponseIsTyped ==
  ASSUME IInv, NEW m \in Messages, m.id \in 0 .. Len(asked), NEW text \in Texts,
         Respond(m.id, m.method, Result(m.method, text))
  PROVE  \/ written' = written
         \/ \E w \in Responses : w.id \in 1 .. Len(asked) /\ written' = Append(written, w)
<1> DEFINE w == [id |-> m.id, to |-> m.method, result |-> Result(m.method, text)]
<1>1. CASE m.id = 0
  BY <1>1 DEF Respond
<1>2. CASE m.id # 0
  <2>1. w \in Responses
    <3>1. m.id \in Nat /\ m.method \in Methods
      BY DEF Messages
    <3> QED BY <3>1 DEF Responses
  <2>2. w.id \in 1 .. Len(asked)
    <3>1. m.id \in 1 .. Len(asked)
      BY <1>2, LenProperties DEF IInv, Typed
    <3> QED BY <3>1
  <2>3. written' = Append(written, w)
    BY <1>2 DEF Respond
  <2> QED BY <2>1, <2>2, <2>3
<1> QED BY <1>1, <1>2

(* The message the server reads. *)
LEMMA HeadIsNumbered ==
  ASSUME IInv, mail # << >>
  PROVE  /\ Head(mail) \in Messages
         /\ Head(mail).id \in 0 .. Len(asked)
         /\ Head(mail).method \in {"didOpen", "didChange"} => Head(mail).uri # NoUri
<1>1. mail \in Seq(Messages)
  BY DEF IInv, Typed
<1>2. Head(mail) = mail[1] /\ 1 \in 1 .. Len(mail) /\ Head(mail) \in Messages
  BY <1>1, LenProperties, EmptySeq, HeadTailProperties
<1> QED BY <1>2 DEF IInv, Numbered

LEMMA InitializeKeepsIInv ==
  ASSUME IInv, mail # << >>, Initialize
  PROVE  IInv'
<1> DEFINE m == Head(mail)
<1>1. /\ mail' = Tail(mail) /\ UNCHANGED <<mine, told, whole, sent, asked, hung>>
      /\ UNCHANGED <<documents, status>>
      /\ m.method = "initialize"
      /\ Respond(m.id, m.method, Result(m.method, << >>))
  BY DEF Initialize, Read, editor
<1>2. m \in Messages /\ m.id \in 0 .. Len(asked)
  BY HeadIsNumbered
<1>3. Heeded(m)
  BY <1>1 DEF Heeded, IsSync, TextOf
<1>4. Numbered' /\ CatchUp' /\ Agreed'
  BY <1>1, <1>3, ReadKeepsCatchUp DEF IInv
<1>5. \/ written' = written
      \/ \E w \in Responses : w.id \in 1 .. Len(asked) /\ written' = Append(written, w)
  <2> HIDE DEF m
  <2> QED BY <1>1, <1>2, EmptyIsText, ResponseIsTyped
<1>6. Typed'
  BY <1>1, <1>5, ReadKeepsTyped DEF IInv, Typed, TypeOK
<1> QED BY <1>4, <1>6 DEF IInv

LEMMA StoreIsHeeded ==
  ASSUME Typed, NEW uri \in Uris \cup {NoUri}, NEW text \in Texts, Store(uri, text)
  PROVE  /\ \A u \in Uris \cup {NoUri} :
              TextOf(u)' = IF u = uri THEN text ELSE TextOf(u)
         /\ DOMAIN documents' \subseteq Uris \cup {NoUri}
         /\ \A u \in DOMAIN documents' : documents'[u] \in Texts
<1>1. documents' = [u \in DOMAIN documents \cup {uri} |->
                      IF u = uri THEN text ELSE documents[u]]
  BY DEF Store
<1>2. \A u \in Uris \cup {NoUri} :
        TextOf(u)' = (IF u \in DOMAIN documents' THEN documents'[u] ELSE << >>)
  BY DEF TextOf
<1> QED BY <1>1, <1>2 DEF TextOf, Typed, TypeOK

LEMMA SynchroniseKeepsIInv ==
  ASSUME IInv, mail # << >>, Synchronise
  PROVE  IInv'
<1> DEFINE m == Head(mail)
<1>1. /\ mail' = Tail(mail) /\ UNCHANGED <<mine, told, whole, sent, asked, hung>>
      /\ UNCHANGED <<written, status>>
      /\ m.method \in {"didOpen", "didChange"}
      /\ IF m.uri = NoUri THEN UNCHANGED documents ELSE Store(m.uri, m.text)
  BY DEF Synchronise, Read, editor
<1>2. m \in Messages /\ m.uri # NoUri
  BY <1>1, HeadIsNumbered
<1>3. m.uri \in Uris \cup {NoUri} /\ m.text \in Texts
  BY <1>2 DEF Messages
<1>4. /\ \A u \in Uris \cup {NoUri} : TextOf(u)' = IF u = m.uri THEN m.text ELSE TextOf(u)
      /\ DOMAIN documents' \subseteq Uris \cup {NoUri}
      /\ \A u \in DOMAIN documents' : documents'[u] \in Texts
  BY <1>1, <1>2, <1>3, StoreIsHeeded DEF IInv
<1>5. Heeded(m)
  BY <1>1, <1>4 DEF Heeded, IsSync
<1>6. Numbered' /\ CatchUp' /\ Agreed'
  BY <1>1, <1>5, ReadKeepsCatchUp DEF IInv
<1>7. Typed'
  BY <1>1, <1>4, ReadKeepsTyped DEF IInv, Typed, TypeOK
<1> QED BY <1>6, <1>7 DEF IInv

LEMMA HandleKeepsIInv ==
  ASSUME IInv, mail # << >>, Handle
  PROVE  IInv'
<1> DEFINE m == Head(mail)
<1>1. /\ mail' = Tail(mail) /\ UNCHANGED <<mine, told, whole, sent, asked, hung>>
      /\ m.method \notin {"initialize", "didOpen", "didChange"}
      /\ Store(m.uri, TextOf(m.uri))
      /\ IF Throws(m.method, TextOf(m.uri))
         THEN status' = "terminated" /\ UNCHANGED written
         ELSE /\ Respond(m.id, m.method, Result(m.method, TextOf(m.uri)))
              /\ UNCHANGED status
  BY DEF Handle, Read, editor
<1>2. m \in Messages /\ m.id \in 0 .. Len(asked)
  BY HeadIsNumbered
<1>3. m.uri \in Uris \cup {NoUri} /\ TextOf(m.uri) \in Texts
  BY <1>2, EmptyIsText DEF Messages, TextOf, IInv, Typed, TypeOK
<1>4. /\ \A u \in Uris \cup {NoUri} :
           TextOf(u)' = IF u = m.uri THEN TextOf(m.uri) ELSE TextOf(u)
      /\ DOMAIN documents' \subseteq Uris \cup {NoUri}
      /\ \A u \in DOMAIN documents' : documents'[u] \in Texts
  BY <1>1, <1>3, StoreIsHeeded DEF IInv
<1>5. Heeded(m)
  BY <1>1, <1>4 DEF Heeded, IsSync
<1>6. Numbered' /\ CatchUp' /\ Agreed'
  BY <1>1, <1>5, ReadKeepsCatchUp DEF IInv
<1>7. \/ written' = written
      \/ \E w \in Responses : w.id \in 1 .. Len(asked) /\ written' = Append(written, w)
  <2>1. CASE Throws(m.method, TextOf(m.uri))
    BY <1>1, <2>1
  <2>2. CASE ~Throws(m.method, TextOf(m.uri))
    <3> HIDE DEF m
    <3>1. Respond(m.id, m.method, Result(m.method, TextOf(m.uri)))
      BY <1>1, <2>2
    <3> QED BY <1>2, <1>3, <3>1, ResponseIsTyped
  <2> QED BY <2>1, <2>2
<1>8. status' \in {"running", "returned", "terminated"}
  BY <1>1 DEF IInv, Typed, TypeOK
<1>9. Typed'
  BY <1>1, <1>4, <1>7, <1>8, ReadKeepsTyped DEF IInv
<1> QED BY <1>6, <1>9 DEF IInv

(* A step that touches neither texts nor mail nor responses. *)
LEMMA QuietStepKeepsIInv ==
  ASSUME IInv, UNCHANGED <<mine, told, whole, sent, asked, mail, documents, written>>,
         hung' \in BOOLEAN, status' \in {"running", "returned", "terminated"}
  PROVE  IInv'
<1>1. \A u : TextOf(u)' = TextOf(u)
  BY DEF TextOf
<1>2. Typed'
  BY DEF IInv, Typed, TypeOK
<1>3. Numbered'
  BY DEF IInv, Numbered
<1>4. CatchUp'
  <2>1. CatchUp
    BY DEF IInv
  <2> QED BY <2>1 DEF CatchUp, TextOf
<1>5. Agreed'
  BY DEF IInv, Agreed
<1> QED BY <1>2, <1>3, <1>4, <1>5 DEF IInv

-----------------------------------------------------------------------------
(* Answers.  A request is in the mail or answered as long as the server    *)
(* runs, and the requests in the mail come after those that are answered.  *)

IsRequest(m) == m.method \in TextMethods \cup OtherMethods

Pending ==
  \A i \in 1 .. Len(mail) :
    /\ IsRequest(mail[i]) =>
         mail[i].id # 0 /\ mail[i].method = asked[mail[i].id].method
    /\ mail[i].id # 0 => IsRequest(mail[i]) \/ mail[i].method = "$/cancelRequest"

InOrder ==
  /\ \A i, j \in 1 .. Len(mail) :
       i < j /\ IsRequest(mail[i]) /\ IsRequest(mail[j]) => mail[i].id < mail[j].id
  /\ \A i \in 1 .. Len(written), j \in 1 .. Len(mail) :
       IsAnswer(written[i]) /\ IsRequest(mail[j]) => written[i].id < mail[j].id

IsAnswered(n) == \E i \in 1 .. Len(written) : IsAnswer(written[i]) /\ written[i].id = n

NoneIsLost ==
  status = "running" =>
    \A n \in 1 .. Len(asked) :
      \/ IsAnswered(n)
      \/ \E j \in 1 .. Len(mail) : IsRequest(mail[j]) /\ mail[j].id = n

AInv == Pending /\ InOrder /\ NoneIsLost /\ AnswersFit

LEMMA SendKeepsAInv ==
  ASSUME IInv, AInv, NEW m \in Messages, Send(m), Asking(m),
         \/ /\ IsRequest(m) /\ m.id = Len(asked) + 1 /\ Len(asked') = m.id
            /\ asked'[m.id].method = m.method
         \/ /\ ~IsRequest(m) /\ asked' = asked
            /\ m.id # 0 => m.method = "$/cancelRequest"
  PROVE  AInv'
<1>1. /\ Len(asked) \in Nat /\ Len(asked') \in Nat
      /\ \A i \in 1 .. Len(asked) : asked'[i] = asked[i]
  BY AskingKeepsRequests DEF IInv
<1>2. /\ mail \in Seq(Messages) /\ Len(mail) \in Nat
      /\ Len(mail') = Len(mail) + 1
      /\ \A i \in 1 .. Len(mail) : mail'[i] = mail[i]
      /\ mail'[Len(mail) + 1] = m
  BY AppendProperties, LenProperties DEF IInv, Typed, Send
<1>3. \A i \in 1 .. Len(mail') : i \in 1 .. Len(mail) \/ i = Len(mail) + 1
  BY <1>2
<1>4. \A i \in 1 .. Len(mail) : mail[i].id \in Nat /\ mail[i].id <= Len(asked)
  BY <1>1 DEF IInv, Numbered
<1>5. /\ written' = written /\ status' = status
      /\ \A i \in 1 .. Len(written) : written[i].id \in 1 .. Len(asked)
  BY DEF Send, server, IInv, Typed, TypeOK
<1>6. m.id # 0 => IsRequest(m) \/ m.method = "$/cancelRequest"
  OBVIOUS
<1>7. IsRequest(m) => /\ m.id = Len(asked) + 1
                      /\ m.method = asked'[m.id].method
  OBVIOUS
<1>8. Pending'
  <2> SUFFICES ASSUME NEW i \in 1 .. Len(mail')
               PROVE  /\ IsRequest(mail'[i]) =>
                           mail'[i].id # 0 /\ mail'[i].method = asked'[mail'[i].id].method
                      /\ mail'[i].id # 0 =>
                           IsRequest(mail'[i]) \/ mail'[i].method = "$/cancelRequest"
    BY Zenon DEF Pending, IsRequest
  <2>1. CASE i \in 1 .. Len(mail)
    <3>1. mail'[i] = mail[i]
      BY <1>2, <2>1
    <3>2. /\ IsRequest(mail[i]) =>
               mail[i].id # 0 /\ mail[i].method = asked[mail[i].id].method
          /\ mail[i].id # 0 => IsRequest(mail[i]) \/ mail[i].method = "$/cancelRequest"
      BY <2>1 DEF AInv, Pending
    <3>3. mail[i].id # 0 => asked'[mail[i].id] = asked[mail[i].id]
      BY <1>1, <1>4, <2>1
    <3> QED BY <3>1, <3>2, <3>3
  <2>2. CASE i = Len(mail) + 1
    BY <1>1, <1>2, <1>6, <1>7, <2>2
  <2> QED BY <1>3, <2>1, <2>2
<1>9. InOrder'
  <2>1. ASSUME NEW i \in 1 .. Len(mail'), NEW j \in 1 .. Len(mail'), i < j,
               IsRequest(mail'[i]), IsRequest(mail'[j])
        PROVE  mail'[i].id < mail'[j].id
    <3>1. i \in 1 .. Len(mail) /\ mail'[i] = mail[i]
      BY <1>2, <2>1
    <3>2. CASE j \in 1 .. Len(mail)
      BY <1>2, <2>1, <3>1, <3>2 DEF AInv, InOrder
    <3>3. CASE j = Len(mail) + 1
      BY <1>1, <1>2, <1>4, <1>7, <2>1, <3>1, <3>3
    <3> QED BY <1>3, <3>2, <3>3
  <2>2. ASSUME NEW i \in 1 .. Len(written), NEW j \in 1 .. Len(mail'),
               IsAnswer(written[i]), IsRequest(mail'[j])
        PROVE  written[i].id < mail'[j].id
    <3>1. CASE j \in 1 .. Len(mail)
      BY <1>2, <2>2, <3>1 DEF AInv, InOrder
    <3>2. CASE j = Len(mail) + 1
      BY <1>1, <1>2, <1>5, <1>7, <2>2, <3>2
    <3> QED BY <1>3, <3>1, <3>2
  <2> QED BY <1>5, <2>1, <2>2, Zenon DEF InOrder, IsRequest, IsAnswer
<1>10. NoneIsLost'
  <2> SUFFICES ASSUME status = "running", NEW n \in 1 .. Len(asked')
               PROVE  \/ IsAnswered(n)
                      \/ \E j \in 1 .. Len(mail') : IsRequest(mail'[j]) /\ mail'[j].id = n
    BY <1>5, Zenon DEF NoneIsLost, IsAnswered, IsRequest, IsAnswer
  <2>1. CASE n \in 1 .. Len(asked)
    <3>1. IsAnswered(n) \/ \E j \in 1 .. Len(mail) : IsRequest(mail[j]) /\ mail[j].id = n
      BY <2>1 DEF AInv, NoneIsLost
    <3>2. ASSUME NEW j \in 1 .. Len(mail), IsRequest(mail[j]), mail[j].id = n
          PROVE  \E k \in 1 .. Len(mail') : IsRequest(mail'[k]) /\ mail'[k].id = n
      <4>1. j \in 1 .. Len(mail') /\ mail'[j] = mail[j]
        BY <1>2
      <4> QED BY <3>2, <4>1
    <3> QED BY <3>1, <3>2
  <2>2. CASE n \notin 1 .. Len(asked)
    <3>1. IsRequest(m) /\ m.id = n
      BY <1>1, <2>2
    <3>2. Len(mail) + 1 \in 1 .. Len(mail')
      BY <1>2
    <3> QED BY <1>2, <3>1, <3>2
  <2> QED BY <2>1, <2>2
<1>11. AnswersFit'
  <2>1. \A i \in 1 .. Len(written) : asked'[written[i].id] = asked[written[i].id]
    BY <1>1, <1>5
  <2>2. AnswersFit
    BY DEF AInv
  <2>3. ASSUME NEW i \in 1 .. Len(written), IsAnswer(written[i])
        PROVE  /\ written[i].to = asked'[written[i].id].method
               /\ written[i].result = Result(written[i].to, asked'[written[i].id].text)
    <3>1. asked'[written[i].id] = asked[written[i].id]
      BY <2>1
    <3>2. /\ written[i].to = asked[written[i].id].method
          /\ written[i].result = Result(written[i].to, asked[written[i].id].text)
      BY <2>2, <2>3, Zenon DEF AnswersFit
    <3> QED BY <3>1, <3>2
  <2>4. /\ \A i \in 1 .. Len(written) :
             IsAnswer(written[i]) =>
               \A n \in 1 .. written[i].id :
                 \E j \in 1 .. Len(written) : IsAnswer(written[j]) /\ written[j].id = n
        /\ \A i, j \in 1 .. Len(written) :
             i < j /\ IsAnswer(written[i]) /\ IsAnswer(written[j])
               => written[i].id < written[j].id
    BY <2>2, Zenon DEF AnswersFit
  <2>5. written' = written
    BY <1>5
  <2> QED BY <2>3, <2>4, <2>5, Zenon DEF AnswersFit, IsAnswer
<1> QED BY <1>8, <1>9, <1>10, <1>11 DEF AInv

(* What both kinds of reading do to the requests in the mail. *)
LEMMA ReadKeepsPending ==
  ASSUME IInv, AInv, mail # << >>, mail' = Tail(mail), asked' = asked
  PROVE  /\ Pending'
         /\ \A i, j \in 1 .. Len(mail') :
              i < j /\ IsRequest(mail'[i]) /\ IsRequest(mail'[j])
                => mail'[i].id < mail'[j].id
         /\ \A n \in 1 .. Len(asked), j \in 1 .. Len(mail) :
              IsRequest(mail[j]) /\ mail[j].id = n =>
                \/ j = 1
                \/ \E k \in 1 .. Len(mail') : IsRequest(mail'[k]) /\ mail'[k].id = n
<1>1. /\ Len(mail) \in Nat /\ Len(mail') = Len(mail) - 1
      /\ \A i \in 1 .. Len(mail') : i + 1 \in 1 .. Len(mail) /\ mail'[i] = mail[i + 1]
  BY MailShrinks DEF IInv
<1>2. Pending'
  BY <1>1 DEF AInv, Pending, IsRequest
<1>3. ASSUME NEW i \in 1 .. Len(mail'), NEW j \in 1 .. Len(mail'), i < j,
             IsRequest(mail'[i]), IsRequest(mail'[j])
      PROVE  mail'[i].id < mail'[j].id
  <2>1. /\ i + 1 \in 1 .. Len(mail) /\ mail'[i] = mail[i + 1]
        /\ j + 1 \in 1 .. Len(mail) /\ mail'[j] = mail[j + 1]
    BY <1>1
  <2>2. i + 1 < j + 1
    BY <1>1, <1>3
  <2> QED BY <1>3, <2>1, <2>2 DEF AInv, InOrder
<1>4. ASSUME NEW n \in 1 .. Len(asked), NEW j \in 1 .. Len(mail), j # 1,
             IsRequest(mail[j]), mail[j].id = n
      PROVE  \E k \in 1 .. Len(mail') : IsRequest(mail'[k]) /\ mail'[k].id = n
  <2>1. j - 1 \in 1 .. Len(mail') /\ (j - 1) + 1 = j
    BY <1>1, <1>4
  <2>2. mail'[j - 1] = mail[j]
    BY <1>1, <2>1
  <2> QED BY <1>4, <2>1, <2>2
<1> QED BY <1>2, <1>3, <1>4

(* A message that needs no answer is read, or a request that ends the      *)
(* server.                                                                 *)
LEMMA PassingKeepsAInv ==
  ASSUME IInv, AInv, mail # << >>, mail' = Tail(mail), asked' = asked,
         written' = written,
         status' = "running" => status = "running" /\ ~IsRequest(Head(mail))
  PROVE  AInv'
<1>1. /\ Len(mail) \in Nat /\ Len(mail') = Len(mail) - 1 /\ Head(mail) = mail[1]
      /\ \A i \in 1 .. Len(mail') : i + 1 \in 1 .. Len(mail) /\ mail'[i] = mail[i + 1]
  BY MailShrinks DEF IInv
<1>2. Pending'
  BY ReadKeepsPending
<1>3. InOrder'
  <2>1. \A i \in 1 .. Len(written), j \in 1 .. Len(mail') :
          IsAnswer(written[i]) /\ IsRequest(mail'[j]) => written[i].id < mail'[j].id
    BY <1>1 DEF AInv, InOrder
  <2> QED BY <2>1, ReadKeepsPending, Zenon DEF InOrder, IsRequest, IsAnswer
<1>4. NoneIsLost'
  <2> SUFFICES ASSUME status' = "running", NEW n \in 1 .. Len(asked)
               PROVE  \/ IsAnswered(n)
                      \/ \E j \in 1 .. Len(mail') : IsRequest(mail'[j]) /\ mail'[j].id = n
    BY Zenon DEF NoneIsLost, IsAnswered, IsRequest, IsAnswer
  <2>1. IsAnswered(n) \/ \E j \in 1 .. Len(mail) : IsRequest(mail[j]) /\ mail[j].id = n
    BY DEF AInv, NoneIsLost
  <2>2. ASSUME NEW j \in 1 .. Len(mail), IsRequest(mail[j]), mail[j].id = n
        PROVE  \E k \in 1 .. Len(mail') : IsRequest(mail'[k]) /\ mail'[k].id = n
    <3>1. j # 1
      BY <1>1, <2>2
    <3> QED BY <2>2, <3>1, ReadKeepsPending
  <2> QED BY <2>1, <2>2
<1>5. AnswersFit'
  <2>1. AnswersFit
    BY DEF AInv
  <2> QED BY <2>1, Zenon DEF AnswersFit, IsAnswer
<1> QED BY <1>2, <1>3, <1>4, <1>5 DEF AInv

(* A message is read and its response written. *)
LEMMA AnsweringKeepsAInv ==
  ASSUME IInv, AInv, mail # << >>, mail' = Tail(mail), asked' = asked,
         NEW w \in Responses, written' = Append(written, w),
         Head(mail).id # 0, w.id = Head(mail).id, w.to = Head(mail).method,
         IsRequest(Head(mail)) => w.result = Result(w.to, asked[w.id].text),
         status = "running"
  PROVE  AInv'
<1>1. /\ Len(mail) \in Nat /\ Len(mail') = Len(mail) - 1
      /\ Head(mail) = mail[1] /\ 1 \in 1 .. Len(mail)
      /\ \A i \in 1 .. Len(mail') : i + 1 \in 1 .. Len(mail) /\ mail'[i] = mail[i + 1]
  BY MailShrinks DEF IInv
<1>2. /\ written \in Seq(Responses) /\ Len(written) \in Nat
      /\ Len(written') = Len(written) + 1
      /\ \A i \in 1 .. Len(written) : written'[i] = written[i]
      /\ written'[Len(written) + 1] = w
  BY AppendProperties, LenProperties DEF IInv, Typed
<1>3. \A i \in 1 .. Len(written') : i \in 1 .. Len(written) \/ i = Len(written) + 1
  BY <1>2
<1>4. \A i \in 1 .. Len(written) : written[i].id \in 1 .. Len(asked)
  BY DEF IInv, Typed, TypeOK
<1>5. w.id \in 1 .. Len(asked) /\ Len(asked) \in Nat
  BY HeadIsNumbered, LenProperties DEF IInv, Typed
<1>6. IsAnswer(w) <=> IsRequest(mail[1])
  <2>1. IsRequest(mail[1]) \/ mail[1].method = "$/cancelRequest"
    BY <1>1 DEF AInv, Pending
  <2>2. "$/cancelRequest" \notin TextMethods \cup OtherMethods
    BY DEF TextMethods, OtherMethods
  <2> QED BY <1>1, <2>1, <2>2 DEF IsAnswer, IsRequest
<1>7. Pending'
  BY ReadKeepsPending
<1>8. \A n : IsAnswered(n) => IsAnswered(n)'
  <2> SUFFICES ASSUME NEW n, NEW i \in 1 .. Len(written), IsAnswer(written[i]),
                      written[i].id = n
               PROVE  IsAnswered(n)'
    BY DEF IsAnswered
  <2>1. i \in 1 .. Len(written') /\ written'[i] = written[i]
    BY <1>2
  <2> QED BY <2>1 DEF IsAnswered, IsAnswer
<1>9. IsRequest(mail[1]) => IsAnswered(w.id)'
  <2> SUFFICES ASSUME IsRequest(mail[1]) PROVE IsAnswered(w.id)'
    OBVIOUS
  <2>1. Len(written) + 1 \in 1 .. Len(written') /\ IsAnswer(written'[Len(written) + 1])
    BY <1>2, <1>6
  <2> QED BY <1>2, <2>1 DEF IsAnswered, IsAnswer
<1>10. InOrder'
  <2>1. ASSUME NEW i \in 1 .. Len(written'), NEW j \in 1 .. Len(mail'),
               IsAnswer(written'[i]), IsRequest(mail'[j])
        PROVE  written'[i].id < mail'[j].id
    <3>1. j + 1 \in 1 .. Len(mail) /\ mail'[j] = mail[j + 1] /\ 1 < j + 1
      BY <1>1
    <3>2. CASE i \in 1 .. Len(written)
      BY <1>2, <2>1, <3>1, <3>2 DEF AInv, InOrder
    <3>3. CASE i = Len(written) + 1
      <4>1. IsRequest(mail[1]) /\ written'[i].id = mail[1].id
        BY <1>1, <1>2, <1>6, <2>1, <3>3
      <4>2. mail[1].id < mail[j + 1].id
        BY <1>1, <2>1, <3>1, <4>1 DEF AInv, InOrder
      <4> QED BY <3>1, <4>1, <4>2
    <3> QED BY <1>3, <3>2, <3>3
  <2> QED BY <2>1, ReadKeepsPending, Zenon DEF InOrder, IsRequest, IsAnswer
<1>11. NoneIsLost'
  <2> SUFFICES ASSUME NEW n \in 1 .. Len(asked)
               PROVE  \/ IsAnswered(n)'
                      \/ \E j \in 1 .. Len(mail') : IsRequest(mail'[j]) /\ mail'[j].id = n
    BY Zenon DEF NoneIsLost, IsRequest
  <2>1. IsAnswered(n) \/ \E j \in 1 .. Len(mail) : IsRequest(mail[j]) /\ mail[j].id = n
    BY DEF AInv, NoneIsLost
  <2>2. ASSUME NEW j \in 1 .. Len(mail), IsRequest(mail[j]), mail[j].id = n
        PROVE  \/ IsAnswered(n)'
               \/ \E k \in 1 .. Len(mail') : IsRequest(mail'[k]) /\ mail'[k].id = n
    <3>1. CASE j = 1
      BY <1>1, <1>9, <2>2, <3>1
    <3>2. CASE j # 1
      BY <2>2, <3>2, ReadKeepsPending
    <3> QED BY <3>1, <3>2
  <2> QED BY <1>8, <2>1, <2>2
<1>12. AnswersFit'
  <2>1. ASSUME NEW i \in 1 .. Len(written'), IsAnswer(written'[i])
        PROVE  /\ written'[i].to = asked[written'[i].id].method
               /\ written'[i].result = Result(written'[i].to, asked[written'[i].id].text)
               /\ \A n \in 1 .. written'[i].id : IsAnswered(n)'
    <3>1. CASE i \in 1 .. Len(written)
      <4>1. written'[i] = written[i]
        BY <1>2, <3>1
      <4>2. /\ written[i].to = asked[written[i].id].method
            /\ written[i].result = Result(written[i].to, asked[written[i].id].text)
            /\ \A n \in 1 .. written[i].id : IsAnswered(n)
        BY <2>1, <3>1, <4>1 DEF AInv, AnswersFit, IsAnswered
      <4> QED BY <1>8, <4>1, <4>2
    <3>2. CASE i = Len(written) + 1
      <4>1. written'[i] = w /\ IsRequest(mail[1])
        BY <1>2, <1>6, <2>1, <3>2
      <4>2. w.to = asked[w.id].method
        BY <1>1, <4>1 DEF AInv, Pending
      <4>3. w.result = Result(w.to, asked[w.id].text)
        BY <1>1, <4>1
      <4>4. ASSUME NEW n \in 1 .. w.id PROVE IsAnswered(n)'
        <5>1. n \in 1 .. Len(asked) /\ (n = w.id \/ n < w.id)
          BY <1>5
        <5>2. CASE n = w.id
          BY <1>9, <4>1, <5>2
        <5>3. CASE n < w.id
          <6>1. ~ \E j \in 1 .. Len(mail) : IsRequest(mail[j]) /\ mail[j].id = n
            <7> SUFFICES ASSUME NEW j \in 1 .. Len(mail), IsRequest(mail[j]), mail[j].id = n
                         PROVE  FALSE
              OBVIOUS
            <7>1. CASE j = 1
              BY <1>1, <1>5, <5>3, <7>1
            <7>2. CASE j # 1
              <8>1. 1 < j
                BY <7>2
              <8>2. w.id < n
                BY <1>1, <4>1, <8>1 DEF AInv, InOrder
              <8> QED BY <1>5, <5>1, <5>3, <8>2
            <7> QED BY <7>1, <7>2
          <6>2. IsAnswered(n)
            BY <5>1, <6>1 DEF AInv, NoneIsLost
          <6> QED BY <1>8, <6>2
        <5> QED BY <5>1, <5>2, <5>3
      <4> QED BY <4>1, <4>2, <4>3, <4>4
    <3> QED BY <1>3, <3>1, <3>2
  <2>2. ASSUME NEW i \in 1 .. Len(written'), NEW j \in 1 .. Len(written'), i < j,
               IsAnswer(written'[i]), IsAnswer(written'[j])
        PROVE  written'[i].id < written'[j].id
    <3>1. i \in 1 .. Len(written) /\ written'[i] = written[i]
      BY <1>2, <2>2
    <3>2. CASE j \in 1 .. Len(written)
      BY <1>2, <2>2, <3>1, <3>2 DEF AInv, AnswersFit
    <3>3. CASE j = Len(written) + 1
      <4>1. IsRequest(mail[1]) /\ written'[j].id = mail[1].id
        BY <1>1, <1>2, <1>6, <2>2, <3>3
      <4>2. written[i].id < mail[1].id
        BY <1>1, <2>2, <3>1, <4>1 DEF AInv, InOrder
      <4> QED BY <3>1, <4>1, <4>2
    <3> QED BY <1>3, <3>2, <3>3
  <2> QED BY <2>1, <2>2, Zenon DEF AnswersFit, IsAnswered, IsAnswer
<1> QED BY <1>7, <1>10, <1>11, <1>12 DEF AInv

LEMMA EditorKeepsAInv ==
  ASSUME IInv, AInv, Editor
  PROVE  AInv'
<1>1. asked \in Seq([id : Nat, method : Methods, text : Texts]) /\ Len(asked) \in Nat
  BY LenProperties DEF IInv, Typed
<1>2. ASSUME NEW method \in {"didOpen", "didChange", "didClose"}, NEW uri \in Uris,
             NEW text \in Texts, Send(Message(method, 0, uri, text)), asked' = asked
      PROVE  AInv'
  <2> DEFINE m == Message(method, 0, uri, text)
  <2>1. m \in Messages /\ m.id = 0 /\ m.method = method
    BY DEF Message, Messages, Methods
  <2>2. ~IsRequest(m)
    BY <2>1 DEF IsRequest, TextMethods, OtherMethods
  <2>3. Send(m) /\ Asking(m)
    BY <1>2 DEF Asking, Send, server
  <2> HIDE DEF m
  <2> QED BY <1>2, <2>1, <2>2, <2>3, SendKeepsAInv
<1>3. ASSUME NEW method \in TextMethods \cup OtherMethods, NEW uri \in Uris \cup {NoUri},
             NEW text \in Texts, Request(method, uri, text)
      PROVE  AInv'
  <2> DEFINE n == Len(asked) + 1
             m == Message(method, n, uri, << >>)
             r == [id |-> n, method |-> method, text |-> text]
  <2>1. m \in Messages /\ m.id = n /\ m.method = method
    BY <1>1, EmptyIsText DEF Message, Messages, Methods
  <2>2. r \in [id : Nat, method : Methods, text : Texts] /\ r.text = text /\ r.method = method
    BY <1>1 DEF Methods
  <2>3. Send(m) /\ asked' = Append(asked, r)
    BY <1>3 DEF Request
  <2> HIDE DEF r
  <2>4. Len(asked') = n /\ asked'[n] = r
    BY <1>1, <2>2, <2>3, AppendProperties
  <2>5. Asking(m)
    <3>1. asked'[Len(asked) + 1].text = text
      BY <2>2, <2>4
    <3> QED BY <2>1, <2>3, <3>1 DEF Asking, Send, server, r, Methods
  <2>6. IsRequest(m) /\ m.id = Len(asked) + 1 /\ Len(asked') = m.id
          /\ asked'[m.id].method = m.method
    BY <2>1, <2>2, <2>4 DEF IsRequest
  <2> HIDE DEF m
  <2> QED BY <2>1, <2>3, <2>5, <2>6, SendKeepsAInv
<1>4. ASSUME NEW i \in 1 .. Len(asked), Cancel(asked[i].id)
      PROVE  AInv'
  <2> DEFINE m == Message("$/cancelRequest", i, NoUri, << >>)
  <2>1. m \in Messages /\ m.method = "$/cancelRequest"
    BY <1>1, EmptyIsText DEF Message, Messages, Methods
  <2>2. Send(m) /\ Asking(m) /\ asked' = asked
    BY <1>4 DEF Cancel, Send, Asking, server, IInv, Numbered
  <2>3. ~IsRequest(m)
    BY <2>1 DEF IsRequest, TextMethods, OtherMethods
  <2> HIDE DEF m
  <2> QED BY <2>1, <2>2, <2>3, SendKeepsAInv
<1>5. /\ DOMAIN mine \subseteq Uris /\ \A uri \in DOMAIN mine : mine[uri] \in Texts
      /\ DOMAIN mine \subseteq DOMAIN told /\ \A uri \in DOMAIN told : told[uri] \in Texts
  BY DEF IInv, Typed, TypeOK
<1>6. ASSUME NEW uri \in Uris, NEW text \in Texts, Open(uri, text) PROVE AInv'
  BY <1>2, <1>6 DEF Open
<1>7. ASSUME NEW uri \in DOMAIN mine, NEW change \in Changes(mine[uri]), Change(uri, change)
      PROVE  AInv'
  <2>1. uri \in Uris /\ change.text \in Texts
    BY <1>5, ChangedText
  <2> QED BY <1>2, <1>7, <2>1 DEF Change
<1>8. ASSUME NEW uri \in DOMAIN mine, CloseDocument(uri) PROVE AInv'
  <2>1. uri \in Uris
    BY <1>5
  <2> QED BY <1>2, <1>8, <2>1, EmptyIsText DEF CloseDocument
<1>9. CASE HangUp
  BY <1>9 DEF HangUp, server, AInv, Pending, InOrder, NoneIsLost, IsAnswered, AnswersFit
<1>10. ASSUME NEW uri \in DOMAIN mine, NEW method \in TextMethods,
              Request(method, uri, told[uri])
       PROVE  AInv'
  BY <1>3, <1>5, <1>10
<1>11. ASSUME NEW method \in OtherMethods, Request(method, NoUri, << >>) PROVE AInv'
  BY <1>3, <1>11, EmptyIsText
<1> QED BY <1>4, <1>6, <1>7, <1>8, <1>9, <1>10, <1>11, Zenon DEF Editor

(* The response the server writes, as a member of what was written. *)
LEMMA RespondKeepsAInv ==
  ASSUME IInv, AInv, mail # << >>, mail' = Tail(mail), asked' = asked,
         NEW text \in Texts, status' = status, status = "running",
         Respond(Head(mail).id, Head(mail).method, Result(Head(mail).method, text)),
         IsRequest(Head(mail)) =>
           Result(Head(mail).method, text)
             = Result(Head(mail).method, asked[Head(mail).id].text)
  PROVE  AInv'
<1> DEFINE m == Head(mail)
           w == [id |-> m.id, to |-> m.method, result |-> Result(m.method, text)]
<1>1. m \in Messages /\ m.id \in Nat /\ m.method \in Methods
  BY HeadIsNumbered DEF Messages
<1>2. CASE m.id = 0
  <2>1. ~IsRequest(m)
    <3>1. m = mail[1] /\ 1 \in 1 .. Len(mail)
      BY MailShrinks DEF IInv
    <3> HIDE DEF m
    <3> QED BY <1>2, <3>1 DEF AInv, Pending
  <2>2. written' = written
    BY <1>2 DEF Respond
  <2> QED BY <2>1, <2>2, PassingKeepsAInv
<1>3. CASE m.id # 0
  <2>1. w \in Responses
    BY <1>1 DEF Responses
  <2>2. w.id = m.id /\ w.to = m.method /\ w.result = Result(m.method, text)
    OBVIOUS
  <2>3. written' = Append(written, w)
    BY <1>3 DEF Respond
  <2> HIDE DEF w
  <2> QED BY <1>3, <2>1, <2>2, <2>3, AnsweringKeepsAInv
<1> QED BY <1>2, <1>3

LEMMA ServerKeepsAInv ==
  ASSUME IInv, AInv, Server
  PROVE  AInv'
<1> DEFINE m == Head(mail)
<1>1. CASE mail # << >> /\ Initialize
  <2>1. /\ mail' = Tail(mail) /\ asked' = asked /\ status' = status /\ status = "running"
        /\ m.method = "initialize"
        /\ Respond(m.id, m.method, Result(m.method, << >>))
    BY <1>1 DEF Initialize, Read, editor
  <2>2. \A t : Result(m.method, t) = <<"capabilities">>
    BY <2>1 DEF Result
  <2> QED BY <1>1, <2>1, <2>2, EmptyIsText, RespondKeepsAInv
<1>2. CASE mail # << >> /\ Synchronise
  <2>1. /\ mail' = Tail(mail) /\ asked' = asked /\ status' = status /\ status = "running"
        /\ m.method \in {"didOpen", "didChange"} /\ written' = written
    BY <1>2 DEF Synchronise, Read, editor
  <2>2. ~IsRequest(m)
    BY <2>1 DEF IsRequest, TextMethods, OtherMethods
  <2> QED BY <1>2, <2>1, <2>2, PassingKeepsAInv
<1>3. CASE mail # << >> /\ Handle
  <2>1. /\ mail' = Tail(mail) /\ asked' = asked /\ status = "running"
        /\ m.method # "initialize"
        /\ IF Throws(m.method, TextOf(m.uri))
           THEN status' = "terminated" /\ written' = written
           ELSE /\ Respond(m.id, m.method, Result(m.method, TextOf(m.uri)))
                /\ status' = status
    BY <1>3 DEF Handle, Read, editor
  <2>2. CASE Throws(m.method, TextOf(m.uri))
    BY <1>3, <2>1, <2>2, PassingKeepsAInv
  <2>3. CASE ~Throws(m.method, TextOf(m.uri))
    <3>1. m.uri \in Uris \cup {NoUri} /\ TextOf(m.uri) \in Texts
      BY <1>3, HeadIsNumbered, EmptyIsText DEF Messages, TextOf, IInv, Typed, TypeOK
    <3>2. m = mail[1] /\ 1 \in 1 .. Len(mail)
      BY <1>3, MailShrinks DEF IInv
    <3>3. IsRequest(m) => Result(m.method, TextOf(m.uri)) = Result(m.method, asked[m.id].text)
      <4>1. CASE m.method \in TextMethods
        <5> HIDE DEF m
        <5>1. After(mail, TextOf(m.uri), m.uri, 1 - 1) = asked[m.id].text
          BY <3>2, <4>1 DEF IInv, CatchUp
        <5>2. After(mail, TextOf(m.uri), m.uri, 0) = TextOf(m.uri)
          BY AfterNone
        <5> QED BY <5>1, <5>2
      <4>2. CASE m.method \in OtherMethods
        <5>1. m.method = "shutdown"
          BY <2>1, <4>2 DEF OtherMethods
        <5>2. \A t : Result("shutdown", t) = <<"null">>
          BY DEF Result
        <5> QED BY <5>1, <5>2
      <4> QED BY <4>1, <4>2 DEF IsRequest
    <3> QED BY <1>3, <2>1, <2>3, <3>1, <3>3, RespondKeepsAInv
  <2> QED BY <2>2, <2>3
<1>4. CASE Return
  BY <1>4 DEF Return, editor, AInv, Pending, InOrder, NoneIsLost, IsAnswered, AnswersFit
<1> QED BY <1>1, <1>2, <1>3, <1>4 DEF Server

-----------------------------------------------------------------------------

(* The bound of the messages sent is a number. *)
LEMMA ServerBounds ==
  MaxSent \in Nat
BY ServerAssumption, Zenon DEF ServerAssumption

LEMMA InitIsIInv ==
  ASSUME Init
  PROVE  IInv /\ AInv
<1>1. mail = << >> /\ asked = << >> /\ written = << >> /\ Len(mail) = 0 /\ Len(written) = 0
      /\ Len(asked) = 0
  BY EmptySeq DEF Init
<1>2. DOMAIN mine = {} /\ DOMAIN told = {} /\ whole = {} /\ DOMAIN documents = {}
  BY DEF Init
<1>3. Typed
  <2>1. TypeOK
    <3>1. sent \in 0 .. MaxSent
      BY ServerBounds DEF Init
    <3>2. hung \in BOOLEAN
      BY Zenon DEF Init
    <3>3. status \in {"running", "returned", "terminated"}
      BY Zenon DEF Init
    <3>4. \A i \in 1 .. Len(written) : written[i].id \in 1 .. Len(asked)
      BY <1>1
    <3>5. /\ DOMAIN mine \subseteq Uris
          /\ \A uri \in DOMAIN mine : mine[uri] \in Texts
          /\ DOMAIN mine \subseteq DOMAIN told /\ DOMAIN told \subseteq Uris
          /\ \A uri \in DOMAIN told : told[uri] \in Texts
          /\ whole \subseteq DOMAIN told
          /\ DOMAIN documents \subseteq Uris \cup {NoUri}
          /\ \A uri \in DOMAIN documents : documents[uri] \in Texts
      BY <1>2
    <3> QED BY <3>1, <3>2, <3>3, <3>4, <3>5, Zenon DEF TypeOK
  <2>2. mail \in Seq(Messages) /\ written \in Seq(Responses)
        /\ asked \in Seq([id : Nat, method : Methods, text : Texts])
    BY <1>1, EmptySeq, Zenon
  <2> QED BY <2>1, <2>2 DEF Typed
<1>4. Numbered /\ CatchUp /\ Agreed
  BY <1>1, <1>2 DEF Numbered, CatchUp, Agreed
<1>5. AInv
  BY <1>1 DEF AInv, Pending, InOrder, NoneIsLost, AnswersFit
<1> QED BY <1>3, <1>4, <1>5 DEF IInv

LEMMA NextKeepsIInv ==
  ASSUME IInv, [Next]_vars
  PROVE  IInv'
<1>1. /\ DOMAIN mine \subseteq Uris /\ \A uri \in DOMAIN mine : mine[uri] \in Texts
      /\ DOMAIN mine \subseteq DOMAIN told /\ \A uri \in DOMAIN told : told[uri] \in Texts
  BY DEF IInv, Typed, TypeOK
<1>2. CASE Editor
  <2>1. ASSUME NEW uri \in DOMAIN mine, NEW method \in TextMethods,
               Request(method, uri, told[uri])
        PROVE  IInv'
    BY <1>1, <2>1, RequestKeepsIInv
  <2>2. ASSUME NEW method \in OtherMethods, Request(method, NoUri, << >>)
        PROVE  IInv'
    BY <2>2, EmptyIsText, RequestKeepsIInv
  <2>3. CASE HangUp
    BY <2>3, QuietStepKeepsIInv DEF HangUp, server, IInv, Typed, TypeOK
  <2> QED BY <1>2, <2>1, <2>2, <2>3, OpenKeepsIInv, ChangeKeepsIInv, CloseKeepsIInv,
             CancelKeepsIInv, Zenon DEF Editor
<1>3. CASE Server
  <2>1. CASE Return
    BY <2>1, QuietStepKeepsIInv DEF Return, editor, IInv, Typed, TypeOK
  <2> QED BY <1>3, <2>1, InitializeKeepsIInv, SynchroniseKeepsIInv, HandleKeepsIInv,
             Zenon DEF Server
<1>4. CASE UNCHANGED vars
  BY <1>4, QuietStepKeepsIInv DEF vars, editor, server, IInv, Typed, TypeOK
<1> QED BY <1>2, <1>3, <1>4 DEF Next

LEMMA NextKeepsAInv ==
  ASSUME IInv, AInv, [Next]_vars
  PROVE  AInv'
<1>1. CASE Next
  BY <1>1, EditorKeepsAInv, ServerKeepsAInv DEF Next
<1>2. CASE UNCHANGED vars
  BY <1>2 DEF vars, editor, server, AInv, Pending, InOrder, NoneIsLost, IsAnswered,
              AnswersFit
<1> QED BY <1>1, <1>2

(* The invariants together, whatever the editor sends. *)
THEOREM LanguageServerInvariant ==
  Spec => [](IInv /\ AInv)
<1>1. Init => IInv /\ AInv
  BY InitIsIInv
<1>2. IInv /\ AInv /\ [Next]_vars => (IInv /\ AInv)'
  BY NextKeepsIInv, NextKeepsAInv
<1> QED BY <1>1, <1>2, PTL DEF Spec

(* Once the server has read its mail it holds the text of the last edit    *)
(* sent of each document, which is the document's if all of it was sent,   *)
(* and each request on its way finds the last edit before it (run_lsp).    *)
THEOREM NoEditIsLost ==
  Spec => []EditsArrive
<1>1. IInv /\ AInv => EditsArrive
  BY EditsArriveFollows DEF IInv
<1> QED BY <1>1, LanguageServerInvariant, PTL

(* Requests are answered in their order, none twice and none passed over,  *)
(* each from the last edit of its document before it (run_lsp).            *)
THEOREM RequestsAreAnswered ==
  Spec => []AnswersFit
<1>1. IInv /\ AInv => AnswersFit
  BY DEF AInv
<1> QED BY <1>1, LanguageServerInvariant, PTL

(* The server and its editor keep their types. *)
THEOREM LanguageServerTypeOK ==
  Spec => []TypeOK
<1>1. IInv /\ AInv => TypeOK
  BY DEF IInv, Typed
<1> QED BY <1>1, LanguageServerInvariant, PTL

-----------------------------------------------------------------------------
(* The service.  What is answered are the responses that are no answers   *)
(* to cancellations, picked from what is written, one by one.              *)

(* One step of Replies, over any responses. *)
Picking(f, s, n) ==
  CASE n = 0 -> << >>
    [] n > 0 /\ IsAnswer(s[n]) -> Append(f[n - 1], s[n])
    [] OTHER -> f[n - 1]

Picked(s) == CHOOSE f : f = [n \in 0 .. Len(s) |-> Picking(f, s, n)]

LEMMA RepliesArePicked == Replies = Picked(written) /\ Replies' = Picked(written')
BY Zenon DEF Replies, Picked, Picking, IsAnswer

LEMMA PickingCases ==
  ASSUME NEW f, NEW s, NEW n \in Nat
  PROVE  /\ n = 0 => Picking(f, s, n) = << >>
         /\ n # 0 /\ IsAnswer(s[n]) => Picking(f, s, n) = Append(f[n - 1], s[n])
         /\ n # 0 /\ ~IsAnswer(s[n]) => Picking(f, s, n) = f[n - 1]
<1>1. n = 0 <=> ~(n > 0)
  OBVIOUS
<1> QED BY <1>1, Zenon DEF Picking

LEMMA PickedUnfolds ==
  ASSUME NEW s \in Seq(Responses)
  PROVE  /\ \A n \in 0 .. Len(s) : Picked(s)[n] \in Seq(Responses)
         /\ \A n \in 0 .. Len(s) : Picked(s)[n] = Picking(Picked(s), s, n)
<1> DEFINE D == 0 .. Len(s)
           S == Seq(Responses)
           step == [n \in D |-> [f \in [D -> S] |-> Picking(f, s, n)]]
           rank == [n \in D |-> n]
<1>0. Len(s) \in Nat /\ \A n \in 1 .. Len(s) : s[n] \in Responses
  OBVIOUS
<1>1. \A n \in D : n \in Nat /\ (n # 0 => n - 1 \in D /\ n - 1 < n /\ s[n] \in Responses)
  BY <1>0
<1>2. ASSUME NEW n \in D, NEW f, n # 0 => f[n - 1] \in S PROVE Picking(f, s, n) \in S
  <2>1. CASE n = 0
    <3>1. Picking(f, s, n) = << >>  BY <1>1, <2>1, PickingCases
    <3> QED BY <3>1
  <2>2. CASE n # 0
    <3>1. Picking(f, s, n) \in {f[n - 1], Append(f[n - 1], s[n])}  BY <1>1, <2>2, PickingCases
    <3>2. \A u \in S, w \in Responses : Append(u, w) \in S  OBVIOUS
    <3> QED BY <1>1, <1>2, <2>2, <3>1, <3>2
  <2> QED BY <2>1, <2>2
<1>3. LooksDown(D, S, Len(s), rank, step)
  <2>1. step \in [D -> [[D -> S] -> S]]
    <3>1. \A n \in D : \A f \in [D -> S] : Picking(f, s, n) \in S
      <4> HIDE DEF D, S
      <4> QED BY <1>1, <1>2
    <3> HIDE DEF D, S
    <3> QED BY <3>1
  <2>2. ASSUME NEW n \in D, NEW f \in [D -> S], NEW g \in [D -> S],
               \A j \in D : rank[j] < rank[n] => f[j] = g[j]
        PROVE  step[n][f] = step[n][g]
    <3>1. n # 0 => f[n - 1] = g[n - 1]
      <4> HIDE DEF D
      <4> QED BY <1>1, <2>2
    <3>2. Picking(f, s, n) = Picking(g, s, n)
      <4> HIDE DEF D, S
      <4>1. n \in Nat  BY <1>1
      <4> QED BY <3>1, <4>1, PickingCases
    <3> HIDE DEF D, S
    <3> QED BY <3>2
  <2>3. << >> \in S  OBVIOUS
  <2>4. rank \in [D -> 0 .. Len(s)]  OBVIOUS
  <2> HIDE DEF D, S, step, rank
  <2> QED BY <1>0, <2>1, <2>2, <2>3, <2>4 DEF LooksDown
<1>4. PICK h \in [D -> S] : \A n \in D : h[n] = step[n][h]
  <2> HIDE DEF D, S, step, rank
  <2> QED BY <1>3, Recursion
<1>5. h = [n \in D |-> Picking(h, s, n)]
  <2> HIDE DEF D, S
  <2> QED BY <1>4
<1>6. Picked(s) = [n \in D |-> Picking(Picked(s), s, n)]
  BY <1>5, Zenon DEF Picked
<1> DEFINE P == Picked(s)
           Good == {n \in D : P[n] \in S}
<1> HIDE DEF P
<1>7. ASSUME NEW n \in D, \A j \in D : rank[j] < rank[n] => j \in Good
      PROVE  n \in Good
  <2> HIDE DEF D, S
  <2>1. n # 0 => P[n - 1] \in S  BY <1>1, <1>7
  <2>2. P[n] = Picking(P, s, n)  BY <1>6 DEF P
  <2> QED BY <1>2, <2>1, <2>2
<1>8. \A n \in D : n \in Good
  <2>1. rank \in [D -> Nat]  BY <1>1
  <2> HIDE DEF D, Good, rank
  <2> QED BY <1>7, <2>1, RankInduction
<1>9. \A n \in D : P[n] \in S
  BY <1>8
<1>10. \A n \in D : P[n] = Picking(P, s, n)
  <2> HIDE DEF D
  <2> QED BY <1>6 DEF P
<1> QED BY <1>9, <1>10 DEF P

LEMMA PickedGrows ==
  ASSUME NEW s \in Seq(Responses), NEW w \in Responses, NEW t, t = Append(s, w)
  PROVE  /\ Picked(s)[Len(s)] \in Seq(Responses)
         /\ Picked(t)[Len(t)] = IF IsAnswer(w) THEN Append(Picked(s)[Len(s)], w)
                                ELSE Picked(s)[Len(s)]
<1> DEFINE n == Len(s)
           P == Picked(s)
           Q == Picked(t)
           D == 0 .. n
           rank == [k \in D |-> k]
           Good == {k \in D : Q[k] = P[k]}
<1>1. /\ n \in Nat /\ t \in Seq(Responses) /\ Len(t) = n + 1
      /\ t[n + 1] = w /\ \A k \in 1 .. n : t[k] = s[k]
  OBVIOUS
<1>2. /\ \A k \in 0 .. n : P[k] = Picking(P, s, k)
      /\ \A k \in 0 .. Len(t) : Q[k] = Picking(Q, t, k)
      /\ \A k \in 0 .. n : P[k] \in Seq(Responses)
  BY <1>1, PickedUnfolds
<1> HIDE DEF n, P, Q
<1>3. \A k \in D : /\ k \in Nat /\ k \in 0 .. Len(t)
                   /\ k # 0 => k - 1 \in D /\ k - 1 < k /\ t[k] = s[k]
  BY <1>1
<1>4. ASSUME NEW k \in D, \A j \in D : rank[j] < rank[k] => j \in Good
      PROVE  k \in Good
  <2>1. P[k] = Picking(P, s, k) /\ Q[k] = Picking(Q, t, k)  BY <1>2, <1>3
  <2>2. k # 0 => Q[k - 1] = P[k - 1] /\ t[k] = s[k]
    <3> HIDE DEF D
    <3> QED BY <1>3, <1>4
  <2>3. Q[k] = P[k]
    <3>1. CASE k = 0
      BY <1>3, <2>1, <3>1, PickingCases
    <3>2. CASE k # 0 /\ IsAnswer(s[k])
      <4>1. Picking(P, s, k) = Append(P[k - 1], s[k])  BY <1>3, <3>2, PickingCases
      <4>2. Picking(Q, t, k) = Append(Q[k - 1], t[k])
        <5>1. k \in Nat /\ IsAnswer(t[k])  BY <1>3, <2>2, <3>2
        <5> QED BY <3>2, <5>1, PickingCases
      <4> QED BY <2>1, <2>2, <3>2, <4>1, <4>2
    <3>3. CASE k # 0 /\ ~IsAnswer(s[k])
      <4>1. Picking(P, s, k) = P[k - 1]  BY <1>3, <3>3, PickingCases
      <4>2. Picking(Q, t, k) = Q[k - 1]
        <5>1. k \in Nat /\ ~IsAnswer(t[k])  BY <1>3, <2>2, <3>3
        <5> QED BY <3>3, <5>1, PickingCases
      <4> QED BY <2>1, <2>2, <3>3, <4>1, <4>2
    <3> QED BY <3>1, <3>2, <3>3
  <2> QED BY <2>3
<1>5. \A k \in D : k \in Good
  <2>1. rank \in [D -> Nat]  BY <1>3
  <2> HIDE DEF D, Good, rank
  <2> QED BY <1>4, <2>1, RankInduction
<1>6. Q[n] = P[n]
  <2>1. n \in D  BY <1>1
  <2> QED BY <1>5, <2>1
<1>7. Q[n + 1] = IF IsAnswer(w) THEN Append(P[n], w) ELSE P[n]
  <2> DEFINE m == n + 1
  <2>1. m \in Nat /\ m # 0 /\ m - 1 = n /\ m \in 0 .. Len(t) /\ t[m] = w  BY <1>1
  <2> HIDE DEF m
  <2>2. Q[m] = Picking(Q, t, m)  BY <1>2, <2>1
  <2>3. IsAnswer(t[m]) => Picking(Q, t, m) = Append(Q[m - 1], t[m])  BY <2>1, PickingCases
  <2>4. ~IsAnswer(t[m]) => Picking(Q, t, m) = Q[m - 1]  BY <2>1, PickingCases
  <2>5. Q[m] = IF IsAnswer(w) THEN Append(P[n], w) ELSE P[n]
    BY <1>6, <2>1, <2>2, <2>3, <2>4, Zenon
  <2> QED BY <2>5 DEF m
<1>8. P[n] \in Seq(Responses)
  <2>1. n \in 0 .. n  BY <1>1
  <2> QED BY <1>2, <2>1
<1> QED BY <1>1, <1>7, <1>8 DEF n, P, Q

(* What is written is picked or passed over. *)
LEMMA ToRequestsGrow ==
  ASSUME written \in Seq(Responses), NEW w \in Responses, written' = Append(written, w)
  PROVE  /\ ToRequests \in Seq(Responses)
         /\ IsAnswer(w) => ToRequests' = Append(ToRequests, w)
         /\ ~IsAnswer(w) => ToRequests' = ToRequests
<1>1. ToRequests = Picked(written)[Len(written)]
  BY RepliesArePicked, Zenon DEF ToRequests
<1>2. ToRequests' = Picked(written')[Len(written')]
  BY RepliesArePicked, Zenon DEF ToRequests
<1> QED BY <1>1, <1>2, PickedGrows

LEMMA ToRequestsTyped ==
  ASSUME written \in Seq(Responses)
  PROVE  ToRequests \in Seq(Responses) /\ (written = << >> => ToRequests = << >>)
<1>1. ToRequests = Picked(written)[Len(written)]
  BY RepliesArePicked, Zenon DEF ToRequests
<1>2. Len(written) \in 0 .. Len(written) /\ (written = << >> => Len(written) = 0)
  OBVIOUS
<1>3. Picked(written)[Len(written)] \in Seq(Responses)
        /\ Picked(written)[Len(written)] = Picking(Picked(written), written, Len(written))
  BY <1>2, PickedUnfolds
<1>4. Len(written) = 0 => Picking(Picked(written), written, Len(written)) = << >>
  BY PickingCases
<1> QED BY <1>1, <1>2, <1>3, <1>4

-----------------------------------------------------------------------------
(* Requests are answered in their order: those answered come first. *)
Ranked ==
  /\ Len(asked) <= sent
  /\ Len(ToRequests) <= Len(asked)
  /\ \A n \in 1 .. Len(asked) : IsAnswered(n) <=> n <= Len(ToRequests)

LEMMA Sizes ==
  ASSUME IInv
  PROVE  /\ Len(asked) \in Nat /\ Len(mail) \in Nat /\ Len(written) \in Nat
         /\ written \in Seq(Responses) /\ mail \in Seq(Messages)
         /\ asked \in Seq([id : Nat, method : Methods, text : Texts])
         /\ ToRequests \in Seq(Responses) /\ Len(ToRequests) \in Nat
         /\ sent \in Nat /\ sent <= MaxSent
         /\ \A i \in 1 .. Len(written) : written[i].id \in 1 .. Len(asked)
<1>1. /\ written \in Seq(Responses) /\ mail \in Seq(Messages)
      /\ asked \in Seq([id : Nat, method : Methods, text : Texts])
  BY DEF IInv, Typed
<1>2. ToRequests \in Seq(Responses)
  BY <1>1, ToRequestsTyped
<1>3. /\ sent \in 0 .. MaxSent
      /\ \A i \in 1 .. Len(written) : written[i].id \in 1 .. Len(asked)
  BY DEF IInv, Typed, TypeOK
<1> QED BY <1>1, <1>2, <1>3, ServerBounds

(* The request at the head of the mail is the first that is not answered. *)
LEMMA HeadIsNext ==
  ASSUME IInv, AInv, Ranked, status = "running", mail # << >>, IsRequest(Head(mail))
  PROVE  /\ Head(mail).id = Len(ToRequests) + 1
         /\ Len(ToRequests) < Len(asked)
         /\ asked[Len(ToRequests) + 1].id = Head(mail).id
         /\ asked[Len(ToRequests) + 1].method = Head(mail).method
<1> DEFINE m == Head(mail)
           k == Len(ToRequests)
<1>1. k \in Nat /\ Len(asked) \in Nat /\ Len(mail) \in Nat /\ mail \in Seq(Messages)
  BY Sizes
<1>2. m = mail[1] /\ 1 \in 1 .. Len(mail)
  BY MailShrinks DEF IInv
<1>3. m.id \in 1 .. Len(asked) /\ m.method = asked[m.id].method
  <2> HIDE DEF m
  <2>1. m.id \in 0 .. Len(asked)  BY <1>2 DEF IInv, Numbered
  <2>2. m.id # 0 /\ m.method = asked[m.id].method
    BY <1>2 DEF AInv, Pending, m
  <2> QED BY <1>1, <2>1, <2>2
<1>4. k < m.id
  <2>1. CASE k = 0
    <3> HIDE DEF m, k
    <3> QED BY <1>3, <2>1
  <2>2. CASE k # 0
    <3>1. k \in 1 .. Len(asked) /\ k <= k
      <4> HIDE DEF k
      <4>1. k <= Len(asked)  BY DEF Ranked, k
      <4> QED BY <1>1, <2>2, <4>1
    <3>2. IsAnswered(k)
      BY <3>1 DEF Ranked
    <3> HIDE DEF k
    <3>3. PICK i \in 1 .. Len(written) : IsAnswer(written[i]) /\ written[i].id = k
      BY <3>2 DEF IsAnswered
    <3>4. written[i].id < mail[1].id
      BY <1>2, <3>3 DEF AInv, InOrder
    <3> QED BY <1>2, <3>3, <3>4
  <2> QED BY <2>1, <2>2
<1>5. ~(k + 1 < m.id)
  <2> SUFFICES ASSUME k + 1 < m.id PROVE FALSE
    OBVIOUS
  <2> DEFINE n == k + 1
  <2>1. n \in 1 .. Len(asked) /\ ~(n <= k) /\ n < m.id
    <3> HIDE DEF m, k
    <3> QED BY <1>1, <1>3
  <2> HIDE DEF n
  <2>2. ~IsAnswered(n)
    BY <2>1 DEF Ranked
  <2>3. PICK j \in 1 .. Len(mail) : IsRequest(mail[j]) /\ mail[j].id = n
    BY <2>1, <2>2 DEF AInv, NoneIsLost
  <2>4. mail[1].id = m.id
    BY <1>2
  <2> HIDE DEF m, k
  <2>5. CASE j = 1
    BY <1>3, <2>1, <2>3, <2>4, <2>5
  <2>6. CASE j # 1
    <3>1. 1 < j  BY <2>6
    <3>2. mail[1].id < mail[j].id
      BY <1>2, <2>3, <3>1 DEF AInv, InOrder, m
    <3> QED BY <1>3, <2>1, <2>3, <2>4, <3>2
  <2> QED BY <2>5, <2>6
<1>6. m.id = k + 1 /\ k < Len(asked)
  <2> HIDE DEF m, k
  <2> QED BY <1>1, <1>3, <1>4, <1>5
<1>7. asked[k + 1].id = m.id
  <2> HIDE DEF m, k
  <2> QED BY <1>3, <1>6 DEF IInv, Numbered
<1> QED BY <1>3, <1>6, <1>7

(* The text a request is answered from. *)
LEMMA HeadFindsItsText ==
  ASSUME IInv, mail # << >>, Head(mail).method \in TextMethods
  PROVE  TextOf(Head(mail).uri) = asked[Head(mail).id].text
<1> DEFINE m == Head(mail)
<1>1. m = mail[1] /\ 1 \in 1 .. Len(mail)
  BY MailShrinks DEF IInv
<1>2. After(mail, TextOf(m.uri), m.uri, 1 - 1) = asked[m.id].text
  <2> HIDE DEF m
  <2>1. m.method \in TextMethods  BY DEF m
  <2> QED BY <1>1, <2>1 DEF IInv, CatchUp
<1>3. After(mail, TextOf(m.uri), m.uri, 0) = TextOf(m.uri)
  BY AfterNone
<1> QED BY <1>2, <1>3

(* Nothing that is answered changes, and the editor asks no more than it   *)
(* sends.                                                                  *)
LEMMA QuietKeepsRanked ==
  ASSUME IInv, Ranked, written' = written, asked' = asked, sent' \in Nat, sent <= sent'
  PROVE  Ranked' /\ ToRequests' = ToRequests
<1>1. ToRequests' = ToRequests
  BY RepliesArePicked, Zenon DEF ToRequests
<1>2. Len(asked) \in Nat /\ sent \in Nat
  BY Sizes
<1>3. \A n : IsAnswered(n)' <=> IsAnswered(n)
  BY DEF IsAnswered
<1> QED BY <1>1, <1>2, <1>3 DEF Ranked

LEMMA RequestIsAsk ==
  ASSUME IInv, Ranked, NEW method \in TextMethods \cup OtherMethods,
         NEW uri \in Uris \cup {NoUri}, NEW text \in Texts, Request(method, uri, text)
  PROVE  Ranked' /\ SRV!Ask
<1> DEFINE n == Len(asked) + 1
           r == [id |-> n, method |-> method, text |-> text]
           k == Len(ToRequests)
<1>1. /\ sent < MaxSent /\ sent' = sent + 1 /\ written' = written /\ status' = status
      /\ asked' = Append(asked, r)
  BY DEF Request, Send, server
<1>2. /\ Len(asked) \in Nat /\ k \in Nat /\ sent \in Nat /\ MaxSent \in Nat
      /\ asked \in Seq([id : Nat, method : Methods, text : Texts])
      /\ \A i \in 1 .. Len(written) : written[i].id \in 1 .. Len(asked)
  BY Sizes, ServerBounds
<1>3. ToRequests' = ToRequests
  BY <1>1, RepliesArePicked, Zenon DEF ToRequests
<1>4. Len(asked') = n
  <2>1. r \in [id : Nat, method : Methods, text : Texts]
    BY <1>2 DEF Methods
  <2> HIDE DEF r
  <2> QED BY <1>1, <1>2, <2>1, AppendProperties
<1>5. Len(asked) <= sent /\ k <= Len(asked)
  BY DEF Ranked
<1>6. \A i \in 1 .. n : IsAnswered(i)' <=> i <= k
  <2> SUFFICES ASSUME NEW i \in 1 .. n PROVE IsAnswered(i)' <=> i <= k
    OBVIOUS
  <2>1. IsAnswered(i)' <=> IsAnswered(i)
    BY <1>1 DEF IsAnswered
  <2>2. CASE i \in 1 .. Len(asked)
    BY <2>1, <2>2 DEF Ranked
  <2>3. CASE i \notin 1 .. Len(asked)
    <3> HIDE DEF k
    <3>1. ~IsAnswered(i)
      BY <1>2, <2>3 DEF IsAnswered
    <3>2. ~(i <= k)
      BY <1>2, <1>5, <2>3
    <3> QED BY <2>1, <3>1, <3>2
  <2> QED BY <2>2, <2>3
<1>7. Ranked'
  <2>1. Len(asked') <= sent' /\ k <= Len(asked')
    <3> HIDE DEF k
    <3> QED BY <1>1, <1>2, <1>4, <1>5
  <2>2. \A i \in 1 .. Len(asked') : IsAnswered(i)' <=> i <= Len(ToRequests')
    BY <1>3, <1>4, <1>6
  <2> QED BY <1>3, <2>1, <2>2, Zenon DEF Ranked, IsAnswered
<1>8. n \in 1 .. MaxSent
  BY <1>1, <1>2, <1>5
<1>9. r \in [id : 1 .. MaxSent, method : TextMethods \cup OtherMethods, text : Texts]
  BY <1>8
<1>10. SRV!Ask
  <2> HIDE DEF r
  <2> QED BY <1>1, <1>3, <1>9 DEF SRV!Ask
<1> QED BY <1>7, <1>10

(* A message that is not answered: a cancellation's response is not        *)
(* counted.                                                                *)
LEMMA PassingKeepsRanked ==
  ASSUME IInv, Ranked, asked' = asked, sent' = sent,
         \/ written' = written
         \/ \E w \in Responses : ~IsAnswer(w) /\ written' = Append(written, w)
  PROVE  Ranked' /\ ToRequests' = ToRequests
<1>1. /\ written \in Seq(Responses) /\ sent \in Nat /\ sent <= sent
      /\ Len(written) \in Nat
  BY Sizes
<1>2. CASE written' = written
  BY <1>1, <1>2, QuietKeepsRanked
<1>3. CASE \E w \in Responses : ~IsAnswer(w) /\ written' = Append(written, w)
  <2>1. PICK w \in Responses : ~IsAnswer(w) /\ written' = Append(written, w)
    BY <1>3
  <2>2. ToRequests' = ToRequests
    BY <1>1, <2>1, ToRequestsGrow
  <2>3. /\ Len(written') = Len(written) + 1 /\ written'[Len(written) + 1] = w
        /\ \A i \in 1 .. Len(written) : written'[i] = written[i]
    BY <1>1, <2>1, AppendProperties
  <2>4. \A i \in 1 .. Len(written') : i \in 1 .. Len(written) \/ i = Len(written) + 1
    BY <1>1, <2>3
  <2>5. 1 .. Len(written) \subseteq 1 .. Len(written')
    BY <1>1, <2>3
  <2>6. \A n : IsAnswered(n)' <=> IsAnswered(n)
    BY <2>1, <2>3, <2>4, <2>5 DEF IsAnswered, IsAnswer
  <2> QED BY <2>2, <2>6 DEF Ranked
<1> QED BY <1>2, <1>3

(* The answer to the next request is the service's answer. *)
LEMMA AnsweringIsReply ==
  ASSUME IInv, AInv, Ranked, AInv', mail # << >>, IsRequest(Head(mail)), asked' = asked,
         sent' = sent, status = "running", status' = status, NEW w \in Responses,
         written' = Append(written, w), w.id = Head(mail).id, w.to = Head(mail).method,
         ~Throws(w.to, asked[w.id].text),
         w = [id |-> w.id, to |-> w.to, result |-> w.result]
  PROVE  Ranked' /\ SRV!Reply
<1> DEFINE k == Len(ToRequests)
           r == asked[k + 1]
<1>1. /\ w.id = k + 1 /\ k < Len(asked) /\ r.id = w.id /\ r.method = w.to
  BY HeadIsNext
<1>2. k \in Nat /\ Len(asked) \in Nat /\ written \in Seq(Responses) /\ Len(written) \in Nat
        /\ ToRequests \in Seq(Responses)
  BY Sizes
<1>3. IsAnswer(w)
  BY DEF IsAnswer, IsRequest, TextMethods, OtherMethods
<1>4. ToRequests' = Append(ToRequests, w)
  BY <1>2, <1>3, ToRequestsGrow
<1>5. /\ Len(written') = Len(written) + 1 /\ written'[Len(written) + 1] = w
      /\ \A i \in 1 .. Len(written) : written'[i] = written[i]
  BY <1>2, AppendProperties
<1>6. \A i \in 1 .. Len(written') : i \in 1 .. Len(written) \/ i = Len(written) + 1
  BY <1>2, <1>5
<1>7. 1 .. Len(written) \subseteq 1 .. Len(written') /\ Len(written) + 1 \in 1 .. Len(written')
  BY <1>2, <1>5
<1>8. \A n : IsAnswered(n)' <=> IsAnswered(n) \/ n = w.id
  <2> SUFFICES ASSUME NEW n PROVE IsAnswered(n)' <=> IsAnswered(n) \/ n = w.id
    OBVIOUS
  <2>1. ASSUME IsAnswered(n)' PROVE IsAnswered(n) \/ n = w.id
    <3>1. PICK i \in 1 .. Len(written') : IsAnswer(written'[i]) /\ written'[i].id = n
      BY <2>1, Zenon DEF IsAnswered, IsAnswer
    <3> QED BY <1>5, <1>6, <3>1 DEF IsAnswered
  <2>2. ASSUME IsAnswered(n) \/ n = w.id PROVE IsAnswered(n)'
    <3>1. \E i \in 1 .. Len(written') : IsAnswer(written'[i]) /\ written'[i].id = n
      BY <1>3, <1>5, <1>7, <2>2 DEF IsAnswered
    <3> QED BY <3>1, Zenon DEF IsAnswered, IsAnswer
  <2> QED BY <2>1, <2>2
<1>9. Len(ToRequests') = k + 1
  BY <1>2, <1>4
<1>10. Ranked'
  <2>1. \A n \in 1 .. Len(asked) : IsAnswered(n)' <=> n <= k + 1
    <3> SUFFICES ASSUME NEW n \in 1 .. Len(asked) PROVE IsAnswered(n)' <=> n <= k + 1
      OBVIOUS
    <3>1. IsAnswered(n) <=> n <= k
      BY DEF Ranked
    <3>2. IsAnswered(n)' <=> n <= k \/ n = k + 1
      BY <1>1, <1>8, <3>1
    <3> HIDE DEF k
    <3> QED BY <1>2, <3>2
  <2>2. k + 1 <= Len(asked)
    <3> HIDE DEF k, r
    <3> QED BY <1>1, <1>2
  <2>3. Len(asked') <= sent' /\ Len(ToRequests') <= Len(asked')
    BY <1>9, <2>2 DEF Ranked
  <2>4. \A n \in 1 .. Len(asked') : IsAnswered(n)' <=> n <= Len(ToRequests')
    BY <1>9, <2>1
  <2> QED BY <2>3, <2>4, Zenon DEF Ranked, IsAnswered
<1>11. w.result = Result(r.method, r.text)
  <2>1. AnswersFit'
    BY DEF AInv
  <2>2. w.result = Result(w.to, asked'[w.id].text)
    <3> DEFINE n == Len(written) + 1
    <3>1. n \in 1 .. Len(written') /\ written'[n] = w
      BY <1>5, <1>7
    <3> HIDE DEF n
    <3>2. IsAnswer(written'[n]) =>
            written'[n].result = Result(written'[n].to, asked'[written'[n].id].text)
      BY <2>1, <3>1, Zenon DEF AnswersFit, IsAnswer
    <3> QED BY <1>3, <3>1, <3>2
  <2> QED BY <1>1, <2>2
<1>12. w = [id |-> r.id, to |-> r.method, result |-> Result(r.method, r.text)]
  BY <1>1, <1>11
<1>13. ~Throws(r.method, r.text)
  BY <1>1
<1>14. SRV!Reply
  <2>1. asked[Len(ToRequests) + 1] = r
    OBVIOUS
  <2>2. Len(ToRequests) < Len(asked)
    BY <1>1
  <2> HIDE DEF r, k
  <2> QED BY <1>4, <1>12, <1>13, <2>1, <2>2 DEF SRV!Reply, SRV!Next1
<1> QED BY <1>10, <1>14

(* A response to the head of the mail replies to it, or is not counted. *)
LEMMA RespondServes ==
  ASSUME IInv, AInv, Ranked, AInv', mail # << >>, asked' = asked, sent' = sent,
         status = "running", status' = status, NEW text \in Texts,
         Respond(Head(mail).id, Head(mail).method, Result(Head(mail).method, text)),
         ~Throws(Head(mail).method, text),
         Head(mail).method = "diagnostic" => text = asked[Head(mail).id].text
  PROVE  Ranked' /\ (SRV!Reply \/ ToRequests' = ToRequests)
<1> DEFINE m == Head(mail)
           w == [id |-> m.id, to |-> m.method, result |-> Result(m.method, text)]
<1>1. m \in Messages /\ m.id \in Nat /\ m.method \in Methods
  BY HeadIsNumbered DEF Messages
<1>2. CASE m.id = 0
  <2>1. written' = written
    BY <1>2 DEF Respond
  <2> QED BY <2>1, PassingKeepsRanked
<1>3. CASE m.id # 0
  <2>1. w \in Responses
    BY <1>1 DEF Responses
  <2>2. w.id = m.id /\ w.to = m.method /\ w = [id |-> w.id, to |-> w.to, result |-> w.result]
    OBVIOUS
  <2>3. written' = Append(written, w)
    BY <1>3 DEF Respond
  <2>4. IsRequest(m) \/ m.method = "$/cancelRequest"
    <3>1. m = mail[1] /\ 1 \in 1 .. Len(mail)
      BY MailShrinks DEF IInv
    <3> HIDE DEF m
    <3> QED BY <1>3, <3>1 DEF AInv, Pending
  <2>5. ~Throws(w.to, asked[w.id].text)
    <3>1. ~Throws(m.method, asked[m.id].text)
      BY DEF Throws
    <3> HIDE DEF w
    <3> QED BY <2>2, <3>1
  <2> HIDE DEF w
  <2>6. CASE IsRequest(m)
    BY <2>1, <2>2, <2>3, <2>5, <2>6, AnsweringIsReply
  <2>7. CASE m.method = "$/cancelRequest"
    <3>1. ~IsAnswer(w)
      BY <2>2, <2>7 DEF IsAnswer
    <3> QED BY <2>1, <2>3, <3>1, PassingKeepsRanked
  <2> QED BY <2>4, <2>6, <2>7
<1> QED BY <1>2, <1>3

(* The end of the server is the end of the service, and nothing else is. *)
LEMMA ReturnIsLeave ==
  ASSUME IInv, AInv, Ranked, Return
  PROVE  Ranked' /\ SRV!Leave
<1>1. /\ asked' = asked /\ sent' = sent /\ written' = written /\ mail = << >>
      /\ status = "running" /\ status' = "returned"
  BY DEF Return, editor
<1>2. Ranked' /\ ToRequests' = ToRequests
  BY <1>1, PassingKeepsRanked
<1>3. Len(asked) \in Nat /\ Len(ToRequests) \in Nat /\ Len(ToRequests) <= Len(asked)
  BY Sizes DEF Ranked
<1>4. Len(ToRequests) = Len(asked)
  <2>1. CASE Len(asked) = 0
    BY <1>3, <2>1
  <2>2. CASE Len(asked) # 0
    <3> DEFINE n == Len(asked)
    <3>1. n \in 1 .. Len(asked)
      BY <1>3, <2>2
    <3>2. ~\E j \in 1 .. Len(mail) : IsRequest(mail[j]) /\ mail[j].id = n
      BY <1>1
    <3>3. IsAnswered(n)
      BY <1>1, <3>1, <3>2, Zenon DEF AInv, NoneIsLost
    <3>4. n <= Len(ToRequests)
      BY <3>1, <3>3 DEF Ranked
    <3> QED BY <1>3, <3>4
  <2> QED BY <2>1, <2>2
<1>5. SRV!Leave
  BY <1>1, <1>2, <1>4 DEF SRV!Leave
<1> QED BY <1>2, <1>5

LEMMA ServerServes ==
  ASSUME IInv, AInv, Ranked, AInv', Server
  PROVE  Ranked' /\ (SRV!Next \/ UNCHANGED SRV!vars)
<1> DEFINE m == Head(mail)
<1>1. CASE mail # << >> /\ Initialize
  <2>1. /\ asked' = asked /\ sent' = sent /\ status' = status /\ status = "running"
        /\ m.method = "initialize" /\ Respond(m.id, m.method, Result(m.method, << >>))
    BY <1>1 DEF Initialize, Read, editor
  <2>2. ~Throws(m.method, << >>)
    BY <2>1 DEF Throws
  <2>3. Ranked' /\ (SRV!Reply \/ ToRequests' = ToRequests)
    BY <1>1, <2>1, <2>2, EmptyIsText, RespondServes
  <2> QED BY <2>1, <2>3 DEF SRV!Next, SRV!vars
<1>2. CASE mail # << >> /\ Synchronise
  <2>1. asked' = asked /\ sent' = sent /\ status' = status /\ written' = written
    BY <1>2 DEF Synchronise, Read, editor
  <2>2. Ranked' /\ ToRequests' = ToRequests
    BY <2>1, PassingKeepsRanked
  <2> QED BY <2>1, <2>2 DEF SRV!vars
<1>3. CASE mail # << >> /\ Handle
  <2>1. /\ asked' = asked /\ sent' = sent /\ status = "running"
        /\ IF Throws(m.method, TextOf(m.uri))
           THEN status' = "terminated" /\ written' = written
           ELSE /\ Respond(m.id, m.method, Result(m.method, TextOf(m.uri)))
                /\ status' = status
    BY <1>3 DEF Handle, Read, editor
  <2>2. m.method = "diagnostic" => TextOf(m.uri) = asked[m.id].text
    BY <1>3, HeadFindsItsText DEF TextMethods
  <2>3. CASE Throws(m.method, TextOf(m.uri))
    <3>1. m.method = "diagnostic" /\ IsRequest(m)
      BY <2>3 DEF Throws, IsRequest, TextMethods
    <3>2. /\ m.id = Len(ToRequests) + 1 /\ Len(ToRequests) < Len(asked)
          /\ asked[Len(ToRequests) + 1].method = m.method
      BY <1>3, <2>1, <3>1, HeadIsNext
    <3>3. Throws(asked[Len(ToRequests) + 1].method, asked[Len(ToRequests) + 1].text)
      <4> HIDE DEF m
      <4> QED BY <2>2, <2>3, <3>1, <3>2
    <3>4. Ranked' /\ ToRequests' = ToRequests
      BY <2>1, <2>3, PassingKeepsRanked
    <3>5. SRV!End
      BY <2>1, <2>3, <3>2, <3>3, <3>4 DEF SRV!End, SRV!Next1
    <3> QED BY <3>4, <3>5 DEF SRV!Next
  <2>4. CASE ~Throws(m.method, TextOf(m.uri))
    <3>1. TextOf(m.uri) \in Texts
      BY <1>3, HeadIsNumbered, EmptyIsText DEF Messages, TextOf, IInv, Typed, TypeOK
    <3>2. Ranked' /\ (SRV!Reply \/ ToRequests' = ToRequests)
      BY <1>3, <2>1, <2>2, <2>4, <3>1, RespondServes
    <3> QED BY <2>1, <2>4, <3>2 DEF SRV!Next, SRV!vars
  <2> QED BY <2>3, <2>4
<1>4. CASE Return
  BY <1>4, ReturnIsLeave DEF SRV!Next
<1> QED BY <1>1, <1>2, <1>3, <1>4 DEF Server

LEMMA EditorServes ==
  ASSUME IInv, Ranked, Editor
  PROVE  Ranked' /\ (SRV!Next \/ UNCHANGED SRV!vars)
<1>1. /\ DOMAIN mine \subseteq Uris /\ \A uri \in DOMAIN mine : mine[uri] \in Texts
      /\ DOMAIN mine \subseteq DOMAIN told /\ \A uri \in DOMAIN told : told[uri] \in Texts
  BY DEF IInv, Typed, TypeOK
<1>2. sent \in Nat
  BY Sizes
<1>3. ASSUME NEW u, Send(u), asked' = asked
      PROVE  Ranked' /\ (SRV!Next \/ UNCHANGED SRV!vars)
  <2>1. sent' = sent + 1 /\ written' = written /\ status' = status
    BY <1>3 DEF Send, server
  <2>2. Ranked' /\ ToRequests' = ToRequests
    BY <1>2, <1>3, <2>1, QuietKeepsRanked
  <2> QED BY <1>3, <2>1, <2>2 DEF SRV!vars
<1>4. ASSUME NEW uri \in Uris, NEW text \in Texts, Open(uri, text)
      PROVE  Ranked' /\ (SRV!Next \/ UNCHANGED SRV!vars)
  BY <1>3, <1>4 DEF Open
<1>5. ASSUME NEW uri \in DOMAIN mine, NEW change \in Changes(mine[uri]), Change(uri, change)
      PROVE  Ranked' /\ (SRV!Next \/ UNCHANGED SRV!vars)
  BY <1>3, <1>5 DEF Change
<1>6. ASSUME NEW uri \in DOMAIN mine, CloseDocument(uri)
      PROVE  Ranked' /\ (SRV!Next \/ UNCHANGED SRV!vars)
  BY <1>3, <1>6 DEF CloseDocument
<1>7. ASSUME NEW i \in 1 .. Len(asked), Cancel(asked[i].id)
      PROVE  Ranked' /\ (SRV!Next \/ UNCHANGED SRV!vars)
  BY <1>3, <1>7 DEF Cancel
<1>8. CASE HangUp
  <2>1. /\ asked' = asked /\ written' = written /\ status' = status /\ sent' = sent
    BY <1>8 DEF HangUp, server
  <2>2. Ranked' /\ ToRequests' = ToRequests
    BY <2>1, PassingKeepsRanked
  <2> QED BY <2>1, <2>2 DEF SRV!vars
<1>9. ASSUME NEW uri \in DOMAIN mine, NEW method \in TextMethods,
             Request(method, uri, told[uri])
      PROVE  Ranked' /\ (SRV!Next \/ UNCHANGED SRV!vars)
  BY <1>1, <1>9, RequestIsAsk DEF SRV!Next
<1>10. ASSUME NEW method \in OtherMethods, Request(method, NoUri, << >>)
       PROVE  Ranked' /\ (SRV!Next \/ UNCHANGED SRV!vars)
  BY <1>10, EmptyIsText, RequestIsAsk DEF SRV!Next
<1> QED BY <1>4, <1>5, <1>6, <1>7, <1>8, <1>9, <1>10, Zenon DEF Editor

LEMMA InitServes ==
  ASSUME Init
  PROVE  Ranked /\ SRV!Init
<1>1. written = << >> /\ asked = << >> /\ sent = 0 /\ status = "running"
  BY DEF Init
<1>2. ToRequests = << >>
  <2>1. << >> \in Seq(Responses)
    OBVIOUS
  <2> QED BY <1>1, <2>1, ToRequestsTyped
<1>3. Len(asked) = 0 /\ Len(ToRequests) = 0
  BY <1>1, <1>2
<1>4. Ranked
  BY <1>1, <1>3 DEF Ranked
<1> QED BY <1>1, <1>2, <1>4 DEF SRV!Init

(* The server implements the service (LanguageService), its fairness       *)
(* aside: a step of run_lsp answers the first request that has no answer   *)
(* with the answer of its own text, ends on a diagnostic of an unlexable   *)
(* text, leaves when nothing is unanswered, or does nothing the editor's   *)
(* requests can tell.                                                      *)
THEOREM LanguageServerImplementsService ==
  Spec => SRV!Init /\ [][SRV!Next]_(SRV!vars)
<1>1. Init => IInv /\ AInv /\ Ranked /\ SRV!Init
  BY InitIsIInv, InitServes
<1>2. IInv /\ AInv /\ Ranked /\ [Next]_vars
        => (IInv /\ AInv /\ Ranked)' /\ [SRV!Next]_(SRV!vars)
  <2> SUFFICES ASSUME IInv, AInv, Ranked, [Next]_vars
               PROVE  IInv' /\ AInv' /\ Ranked' /\ (SRV!Next \/ UNCHANGED SRV!vars)
    OBVIOUS
  <2>1. IInv'
    BY NextKeepsIInv
  <2>2. AInv'
    BY NextKeepsAInv
  <2>3. Ranked' /\ (SRV!Next \/ UNCHANGED SRV!vars)
    <3>1. CASE Next
      BY <2>2, <3>1, EditorServes, ServerServes DEF Next
    <3>2. CASE UNCHANGED vars
      <4>1. asked' = asked /\ written' = written /\ status' = status /\ sent' = sent
        BY <3>2 DEF vars, editor, server
      <4>2. Ranked' /\ ToRequests' = ToRequests
        BY <4>1, PassingKeepsRanked
      <4> QED BY <4>1, <4>2 DEF SRV!vars
    <3> QED BY <3>1, <3>2
  <2> QED BY <2>1, <2>2, <2>3
<1> QED BY <1>1, <1>2, PTL DEF Spec

=============================================================================
