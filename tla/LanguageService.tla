-------------------------- MODULE LanguageService --------------------------
(***************************************************************************)
(* What an editor has of facet --lsp: each request is answered once, in    *)
(* the order of the requests, from the text of the last edit the editor    *)
(* sent of the document before it.  Asked and answered hold the requests   *)
(* made and the answers given.  One request is known to end the service:   *)
(* the one that Ends.                                                      *)
(***************************************************************************)
EXTENDS Naturals, Sequences

CONSTANTS
  Requests,     \* the requests that can be made, each with its text
  AnswerTo(_),  \* the answer a request must be given
  Ends(_)       \* whether a request ends the service unanswered

VARIABLES asked, answered, up

vars == <<asked, answered, up>>

Next1 == asked[Len(answered) + 1]

Init ==
  /\ asked = << >>
  /\ answered = << >>
  /\ up = TRUE

Ask ==
  /\ \E r \in Requests : asked' = Append(asked, r)
  /\ UNCHANGED <<answered, up>>

Reply ==
  /\ up
  /\ Len(answered) < Len(asked)
  /\ ~Ends(Next1)
  /\ answered' = Append(answered, AnswerTo(Next1))
  /\ UNCHANGED <<asked, up>>

End ==
  /\ up
  /\ Len(answered) < Len(asked)
  /\ Ends(Next1)
  /\ up' = FALSE
  /\ UNCHANGED <<asked, answered>>

(* The editor has no more to ask. *)
Leave ==
  /\ up
  /\ Len(answered) = Len(asked)
  /\ up' = FALSE
  /\ UNCHANGED <<asked, answered>>

Next == Ask \/ Reply \/ End \/ Leave

Spec == Init /\ [][Next]_vars /\ WF_vars(Reply) /\ WF_vars(End)

=============================================================================
