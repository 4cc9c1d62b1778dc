------------------------------- MODULE Agreement -------------------------------
(***************************************************************************)
(* What a comparison promises (docs/spec.md, 10.3): a verdict, and that it *)
(* follows from the evidence of its mode.  The evidence of simplify is     *)
(* what the kernel returned for the two sides, that of numeric the values  *)
(* of both sides at every sample.                                          *)
(***************************************************************************)
EXTENDS Integers, Sequences, FiniteSetsExt

CONSTANTS
  Trees,          \* what is compared
  Modes,          \* the modes that are asked for
  Valueless,      \* trees that have no numeric value
  Finite(_, _),   \* whether both sides of a question are finite at a sample
  Apart(_, _)     \* whether they differ there by more than its tolerance

VARIABLES
  question,    \* the two sides and the mode
  kernel,      \* what the kernel has returned for the sides, left first
  verdict      \* the answer

None == [status |-> "none"]
Verdict(status, detail) == [status |-> status, detail |-> detail]
Refusal == Verdict("Error", "")

Witness(sample) == [status |-> "Fail", detail |-> "numeric_witness", sample |-> sample]

(* What the kernel may return for a tree: a tree, a subprocess that failed, *)
(* or an Error of the bridge, in which there is no verdict.                 *)
Returned(t) == [kind |-> "tree", tree |-> t]
Failed == [kind |-> "failed"]
Refused_ == [kind |-> "refused"]

Questions == [lhs : Trees, rhs : Trees, by : Modes]

FiniteSamples(q) == {s \in 0 .. q.by.samples - 1 : Finite(q, s)}
Differing(q) == {s \in FiniteSamples(q) : Apart(q, s)}

(* A mode whose options are understood, and in their ranges. *)
Legible(by) == by.items = "read" /\ by.samples > 0 /\ by.tol >= 0

Numeric(q) ==
  CASE ~Legible(q.by) -> Refusal
    [] Legible(q.by) /\ {q.lhs, q.rhs} \cap Valueless # {} ->
         Verdict("Unknown", "error")
    [] OTHER ->
         IF Differing(q) # {} THEN Witness(Min(Differing(q)))
         ELSE IF FiniteSamples(q) = {} THEN Verdict("Unknown", "numeric_no_finite_samples")
         ELSE Verdict("Ok", "numeric_samples")

Simplified ==
  CASE \E k \in 1 .. Len(kernel) : kernel[k].kind = "refused" -> Refusal
    [] \E k \in 1 .. Len(kernel) : kernel[k].kind = "failed" ->
         Verdict("Unknown", "sympy_unavailable")
    [] OTHER -> IF kernel[1].tree = kernel[2].tree
                THEN Verdict("Ok", "sympy_same_tree")
                ELSE Verdict("Fail", "sympy_diff_tree")

-----------------------------------------------------------------------------

Init ==
  /\ question \in Questions
  /\ kernel = << >>
  /\ verdict = None

(* The kernel is asked about one side, then about the other, unless they   *)
(* are the same tree or it had nothing to say about the first.             *)
Consult ==
  /\ verdict = None
  /\ question.by.mode = "simplify"
  /\ question.lhs # question.rhs
  /\ kernel = << >> \/ (Len(kernel) = 1 /\ kernel[1].kind = "tree")
  /\ \E r \in {Returned(t) : t \in Trees} \cup {Failed, Refused_} :
       kernel' = Append(kernel, r)
  /\ UNCHANGED <<question, verdict>>

Conclude ==
  LET same == question.lhs = question.rhs
  IN /\ verdict = None
     /\ CASE question.by.mode = "structural" ->
               verdict' = IF same THEN Verdict("Ok", "same_tree")
                                  ELSE Verdict("Fail", "different_tree")
          [] question.by.mode = "simplify" ->
               \/ same /\ verdict' = Verdict("Ok", "same_tree_precheck")
               \/ /\ ~same /\ kernel # << >>
                  /\ Len(kernel) = 2 \/ kernel[1].kind # "tree"
                  /\ verdict' = Simplified
          [] question.by.mode = "numeric" -> verdict' = Numeric(question)
          [] OTHER -> verdict' = Refusal
     /\ UNCHANGED <<question, kernel>>

Next == Consult \/ Conclude

Spec == Init /\ [][Next]_<<question, kernel, verdict>>

=============================================================================
