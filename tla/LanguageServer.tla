--------------------------- MODULE LanguageServer ---------------------------
(***************************************************************************)
(* facet --lsp (src/facet_cli.cpp, run_lsp) and the editor it serves: two  *)
(* processes joined by the server's stdin and stdout.  The server is one   *)
(* loop that reads a message, handles it and writes its response before it *)
(* reads the next; the editor does not wait for it.                        *)
(*                                                                         *)
(* A text is a sequence of chunks.  A quote opens a string and the next    *)
(* one closes it; a string that is left open makes the lexer throw.        *)
(***************************************************************************)
EXTENDS Naturals, Sequences, FiniteSets

CONSTANTS
  Uris,          \* the documents of the editor
  Chunks,        \* pieces of text
  Quotes,        \* those that open and close a string
  Cancels,       \* whether the editor cancels requests
  MaxText,       \* bound: chunks of a text
  MaxSent        \* bound: messages the editor sends

(* The uri json_string_field finds in a message that has none.             *)
NoUri == ""

ASSUME ServerAssumption ==
  /\ Quotes \subseteq Chunks
  /\ NoUri \notin Uris
  /\ Cancels \in BOOLEAN
  /\ {MaxText, MaxSent} \subseteq Nat

VARIABLES
  mine,       \* the editor: its open documents and their texts
  told,       \* a ghost: the text of the last edit sent of each document
  whole,      \* a ghost: the documents whose last edit was all of the text
  sent,       \* the editor: how many messages it has sent
  asked,      \* the editor: its requests, each with the text told before it
  hung,       \* the editor has closed the pipe
  mail,       \* stdin: messages the server has not read
  documents,  \* documents: the texts the server holds, by uri
  written,    \* stdout: the responses, in the order they were written
  status      \* the server: "running", "returned" or "terminated"

editor == <<mine, told, whole, sent, asked, hung>>
server == <<documents, written, status>>
vars == <<editor, mail, server>>

Texts == UNION {[1 .. n -> Chunks] : n \in 0 .. MaxText}
Unlexable(text) == Cardinality({i \in 1 .. Len(text) : text[i] \in Quotes}) % 2 = 1

(* The requests whose answer is computed from the text, and two that are   *)
(* not.                                                                    *)
TextMethods == {"semanticTokens", "completion", "hover", "diagnostic"}
OtherMethods == {"initialize", "shutdown"}

(* A change of a text: a range of it is replaced, as the server asks for   *)
(* (textDocumentSync 2), by something or something by nothing.  A change   *)
(* without a range replaces all of it.                                     *)
Whole(text) == [whole |-> TRUE, from |-> 0, to |-> 0, text |-> text]
Part(from, to, text) ==
  [whole |-> FALSE, from |-> from, to |-> to, text |-> text]

Apply(text, change) ==
  IF change.whole
  THEN change.text
  ELSE SubSeq(text, 1, change.from) \o change.text
         \o SubSeq(text, change.to + 1, Len(text))

Ranges(text) == {r \in (0 .. Len(text)) \X (0 .. Len(text)) : r[1] <= r[2]}

Parts(text) == {Part(r[1], r[2], ins) : r \in Ranges(text), ins \in Texts}

Changes(text) ==
  {Whole(ins) : ins \in Texts}
    \cup {part \in Parts(text) : part.from < part.to \/ part.text # << >>}

(* What the server reads of a message by searching its JSON for "method",  *)
(* "id", "uri" and "text"; 0 stands for no id, NoUri for no uri.           *)
Message(method, id, uri, text) ==
  [method |-> method, id |-> id, uri |-> uri, text |-> text]

-----------------------------------------------------------------------------
(* The editor. *)

Send(m) ==
  /\ ~hung
  /\ sent < MaxSent
  /\ sent' = sent + 1
  /\ mail' = Append(mail, m)
  /\ UNCHANGED <<hung, server>>

(* What the ghosts record of an edit. *)
Tell(uri, change) ==
  /\ told' = [u \in DOMAIN told \cup {uri} |->
                IF u = uri THEN change.text ELSE told[u]]
  /\ whole' = IF change.whole THEN whole \cup {uri} ELSE whole \ {uri}

Open(uri, text) ==
  /\ uri \notin DOMAIN mine
  /\ mine' = [u \in DOMAIN mine \cup {uri} |->
                IF u = uri THEN text ELSE mine[u]]
  /\ Tell(uri, Whole(text))
  /\ Send(Message("didOpen", 0, uri, text))
  /\ UNCHANGED asked

Change(uri, change) ==
  /\ Len(Apply(mine[uri], change)) <= MaxText
  /\ mine' = [mine EXCEPT ![uri] = Apply(@, change)]
  /\ Tell(uri, change)
  /\ Send(Message("didChange", 0, uri, change.text))
  /\ UNCHANGED asked

CloseDocument(uri) ==
  /\ mine' = [u \in DOMAIN mine \ {uri} |-> mine[u]]
  /\ Send(Message("didClose", 0, uri, << >>))
  /\ UNCHANGED <<told, whole, asked>>

(* Requests are numbered from 1; a request about no document has no uri. *)
Request(method, uri, text) ==
  /\ asked' = Append(asked, [id |-> Len(asked) + 1, method |-> method,
                             text |-> text])
  /\ Send(Message(method, Len(asked) + 1, uri, << >>))
  /\ UNCHANGED <<mine, told, whole>>

(* A notification whose parameters hold the id of the request. *)
Cancel(id) ==
  /\ Cancels
  /\ \A i \in 1 .. Len(written) : written[i].id # id
  /\ Send(Message("$/cancelRequest", id, NoUri, << >>))
  /\ UNCHANGED <<mine, told, whole, asked>>

HangUp ==
  /\ ~hung
  /\ hung' = TRUE
  /\ UNCHANGED <<mine, told, whole, sent, asked, mail, server>>

Editor ==
  \/ \E uri \in Uris, text \in Texts : Open(uri, text)
  \/ \E uri \in DOMAIN mine : \E change \in Changes(mine[uri]) :
       Change(uri, change)
  \/ \E uri \in DOMAIN mine : CloseDocument(uri)
  \/ \E uri \in DOMAIN mine, method \in TextMethods :
       Request(method, uri, told[uri])
  \/ \E method \in OtherMethods : Request(method, NoUri, << >>)
  \/ \E i \in 1 .. Len(asked) : Cancel(asked[i].id)
  \/ HangUp

-----------------------------------------------------------------------------
(* The server. *)

(* documents[uri]: an absent entry is made, with an empty text. *)
TextOf(uri) == IF uri \in DOMAIN documents THEN documents[uri] ELSE << >>

(* A mutant of Store: an entry that exists is kept. *)
StoreOnce(uri, text) ==
  documents' = [u \in DOMAIN documents \cup {uri} |->
                  IF u \in DOMAIN documents THEN documents[u] ELSE text]

Store(uri, text) ==
  documents' = [u \in DOMAIN documents \cup {uri} |->
                  IF u = uri THEN text ELSE documents[u]]

(* The result of a method for a text.  The Errors of the lexer are caught  *)
(* by every handler, except where lsp_diagnostics asks whether the text is *)
(* a directive; completion does not lex.  A method that is not known has   *)
(* the result null.                                                        *)
Result(method, text) ==
  CASE method = "initialize" -> <<"capabilities">>
    [] method = "completion" -> <<method, text>>
    [] method \in {"semanticTokens", "hover", "diagnostic"} ->
         IF Unlexable(text) THEN <<method, "nothing">> ELSE <<method, text>>
    [] OTHER -> <<"null">>

Throws(method, text) == method = "diagnostic" /\ Unlexable(text)

(* A mutant of Respond: a result that was the last one written is not      *)
(* written again.                                                          *)
RespondIfNew(id, method, result) ==
  written' = IF \/ id = 0
                \/ written # << >> /\ written[Len(written)].result = result
             THEN written
             ELSE Append(written, [id |-> id, to |-> method, result |-> result])

(* The response is written if the message has an id.  A ghost: the method  *)
(* of the message.                                                         *)
Respond(id, method, result) ==
  written' = IF id = 0
             THEN written
             ELSE Append(written, [id |-> id, to |-> method, result |-> result])

Read(m) ==
  /\ status = "running"
  /\ mail # << >>
  /\ m = Head(mail)
  /\ mail' = Tail(mail)
  /\ UNCHANGED editor

Initialize ==
  \E m \in {Head(mail)} :
    /\ Read(m)
    /\ m.method = "initialize"
    /\ Respond(m.id, m.method, Result(m.method, << >>))
    /\ UNCHANGED <<documents, status>>

(* The text of the message is held as the text of the document. *)
Synchronise ==
  \E m \in {Head(mail)} :
    /\ Read(m)
    /\ m.method \in {"didOpen", "didChange"}
    /\ IF m.uri = NoUri THEN UNCHANGED documents ELSE Store(m.uri, m.text)
    /\ UNCHANGED <<written, status>>

(* Every other message, the notifications among them, is handled as a      *)
(* request about a document.  An Error that is not caught ends the process *)
(* before the response is written.                                         *)
Handle ==
  \E m \in {Head(mail)} :
    /\ Read(m)
    /\ m.method \notin {"initialize", "didOpen", "didChange"}
    /\ Store(m.uri, TextOf(m.uri))
    /\ IF Throws(m.method, TextOf(m.uri))
       THEN /\ status' = "terminated"
            /\ UNCHANGED written
       ELSE /\ Respond(m.id, m.method, Result(m.method, TextOf(m.uri)))
            /\ UNCHANGED status

(* Mutants of Return: the loop waits for a shutdown, and it ends with mail *)
(* unread.                                                                 *)
ReturnAfterShutdown ==
  /\ status = "running"
  /\ mail = << >>
  /\ hung
  /\ \E i \in 1 .. Len(written) : written[i].result = <<"null">>
  /\ status' = "returned"
  /\ UNCHANGED <<editor, mail, documents, written>>

ReturnAtOnce ==
  /\ status = "running"
  /\ hung
  /\ status' = "returned"
  /\ UNCHANGED <<editor, mail, documents, written>>

(* The end of stdin ends the loop. *)
Return ==
  /\ status = "running"
  /\ mail = << >>
  /\ hung
  /\ status' = "returned"
  /\ UNCHANGED <<editor, mail, documents, written>>

Server ==
  \/ mail # << >> /\ (Initialize \/ Synchronise \/ Handle)
  \/ Return

-----------------------------------------------------------------------------

Init ==
  /\ mine = << >>
  /\ told = << >>
  /\ whole = {}
  /\ sent = 0
  /\ asked = << >>
  /\ hung = FALSE
  /\ mail = << >>
  /\ documents = << >>
  /\ written = << >>
  /\ status = "running"

Next == Editor \/ Server

(* The server runs: its loop is never paused for ever between messages.    *)
Fairness == WF_vars(Server)

Spec == Init /\ [][Next]_vars /\ Fairness

-----------------------------------------------------------------------------

TypeOK ==
  /\ DOMAIN mine \subseteq Uris
  /\ \A uri \in DOMAIN mine : mine[uri] \in Texts
  /\ DOMAIN mine \subseteq DOMAIN told /\ DOMAIN told \subseteq Uris
  /\ \A uri \in DOMAIN told : told[uri] \in Texts
  /\ whole \subseteq DOMAIN told
  /\ DOMAIN documents \subseteq Uris \cup {NoUri}
  /\ \A uri \in DOMAIN documents : documents[uri] \in Texts
  /\ sent \in 0 .. MaxSent
  /\ hung \in BOOLEAN
  /\ status \in {"running", "returned", "terminated"}
  /\ \A i \in 1 .. Len(written) : written[i].id \in 1 .. Len(asked)

(* The text the server will hold of a document once it has read k messages *)
(* of its mail.                                                            *)
Syncs(uri, k) ==
  {i \in 1 .. k : mail[i].uri = uri /\ mail[i].method \in {"didOpen", "didChange"}}

TextAfter(uri, k) ==
  IF Syncs(uri, k) = {}
  THEN TextOf(uri)
  ELSE mail[CHOOSE i \in Syncs(uri, k) :
              \A j \in Syncs(uri, k) : j <= i].text

(* What the plan of the server says, that it caches the current source     *)
(* text of each document: once it has read its mail it holds the text of   *)
(* every document the editor has open.  The code asks for changes of       *)
(* ranges and takes the text of each for the whole document.               *)
CacheCatchesUp ==
  \A uri \in DOMAIN mine : TextAfter(uri, Len(mail)) = mine[uri]

(* No edit is lost or overtaken.  Once the server has read its mail it     *)
(* holds the text of the last edit sent of every document, closed ones     *)
(* too, and that is the text of the document whose last edit was all of    *)
(* it, whatever ranges were sent before; and each request on its way will  *)
(* meet the text of the last edit sent before it.                          *)
EditsArrive ==
  /\ \A uri \in DOMAIN told : TextAfter(uri, Len(mail)) = told[uri]
  /\ \A uri \in DOMAIN mine \cap whole : TextAfter(uri, Len(mail)) = mine[uri]
  /\ \A i \in 1 .. Len(mail) :
       mail[i].method \in TextMethods =>
         TextAfter(mail[i].uri, i - 1) = asked[mail[i].id].text

(* Requests are answered in the order they were made, none is passed over, *)
(* none is answered twice, and each answer is made of the text of the last *)
(* edit of the document sent before the request, whatever was edited,      *)
(* closed or cancelled meanwhile.                                          *)
IsAnswer(w) == w.to # "$/cancelRequest"

AnswersFit ==
  /\ \A i \in 1 .. Len(written) :
       IsAnswer(written[i]) =>
         /\ written[i].to = asked[written[i].id].method
         /\ written[i].result = Result(written[i].to, asked[written[i].id].text)
         /\ \A n \in 1 .. written[i].id :
              \E j \in 1 .. Len(written) : IsAnswer(written[j]) /\ written[j].id = n
  /\ \A i, j \in 1 .. Len(written) :
       i < j /\ IsAnswer(written[i]) /\ IsAnswer(written[j])
         => written[i].id < written[j].id

(* The end of the editor is the end of the server: it answers what is in   *)
(* its mail and leaves, without waiting for shutdown and exit.             *)
ServerLeaves == hung ~> status # "running"

(* What is written, without the responses to cancellations: of its first n *)
(* responses, and of all.                                                  *)
Replies[n \in 0 .. Len(written)] ==
  CASE n = 0 -> << >>
    [] n > 0 /\ IsAnswer(written[n]) -> Append(Replies[n - 1], written[n])
    [] OTHER -> Replies[n - 1]

ToRequests == Replies[Len(written)]

(* The server implements the service, if the responses to cancellations    *)
(* are not counted: each request is answered once, in order and from the   *)
(* last edit sent before it, until a diagnostic of an unlexable text.      *)
SRV == INSTANCE LanguageService WITH
         asked <- asked, answered <- ToRequests, up <- status = "running",
         Requests <- [id : 1 .. MaxSent, method : TextMethods \cup OtherMethods,
                      text : Texts],
         AnswerTo <- LAMBDA r : [id |-> r.id, to |-> r.method,
                                 result |-> Result(r.method, r.text)],
         Ends <- LAMBDA r : Throws(r.method, r.text)
ServiceSpec == SRV!Spec

=============================================================================
