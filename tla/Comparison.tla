------------------------------- MODULE Comparison -------------------------------
(***************************************************************************)
(* compare (src/sympy.cpp): one call, with the subprocess it waits for and *)
(* the loop over samples.                                                  *)
(*                                                                         *)
(* What SymPy makes of a tree is the constant Normal.  The subprocess may  *)
(* fail at any call (no Python, no SymPy, an exception: the exit status is *)
(* not zero), or not start at all.                                         *)
(***************************************************************************)
EXTENDS Sampling

CONSTANTS
  Trees, Modes,
  Normal,       \* what SymPy makes of a tree
  Unwritable    \* trees the bridge cannot write, or whose result it cannot read

ASSUME ComparisonAssumption ==
  /\ Trees \subseteq Terms
  /\ Modes \subseteq [mode : STRING, items : {"read", "refused"}, samples : Int, tol : Int]
  /\ Normal \in [Trees -> Trees]

VARIABLES
  question,     \* lhs, rhs and by
  kernel,       \* what evaluate_sympy returned for each side
  verdict,      \* result
  pc,           \* "start", "evaluate" or "sample", and "end"
  sample,       \* sample
  finite        \* finite_samples

vars == <<question, kernel, verdict, pc, sample, finite>>

(* The evidence of a numeric comparison: both sides at one point. *)
Sides(q, s) ==
  LET point == Point(s, Symbols[q.lhs] \cup Symbols[q.rhs])
  IN <<ValueAt(q.lhs, point), ValueAt(q.rhs, point)>>
FiniteAt(q, s) == IsFinite(Sides(q, s)[1]) /\ IsFinite(Sides(q, s)[2])
ApartAt(q, s) == Differ(Sides(q, s)[1], Sides(q, s)[2], q.by.tol)

(* What SymPy takes for equal is equal as a number, to any tolerance. *)
EqualTreesAgree ==
  \A l, r \in Trees, m \in Modes :
    Normal[l] = Normal[r] /\ m.tol > 0 /\ ~Refused[l] /\ ~Refused[r] =>
      LET q == [lhs |-> l, rhs |-> r, by |-> m]
      IN \A s \in 0 .. m.samples - 1 : FiniteAt(q, s) => ~ApartAt(q, s)

A == INSTANCE Agreement WITH
       Valueless <- {t \in Trees : Refused[t]},
       Finite <- FiniteAt,
       Apart <- ApartAt

lhs == question.lhs
rhs == question.rhs
by == question.by

End(v) == verdict' = v /\ pc' = "end"

Goto(label) == verdict' = verdict /\ pc' = label

-----------------------------------------------------------------------------

Structural ==
  /\ pc = "start"
  /\ by.mode = "structural"
  /\ End(IF lhs = rhs THEN A!Verdict("Ok", "same_tree")
                      ELSE A!Verdict("Fail", "different_tree"))
  /\ UNCHANGED <<question, kernel, sample, finite>>

Precheck ==
  /\ pc = "start"
  /\ by.mode = "simplify"
  /\ IF lhs = rhs THEN End(A!Verdict("Ok", "same_tree_precheck"))
                  ELSE Goto("evaluate")
  /\ UNCHANGED <<question, kernel, sample, finite>>

(* evaluate_sympy for one side.  *)
Outcomes(t) ==
  IF t \in Unwritable THEN {A!Refused_}
  ELSE {A!Returned(Normal[t]), A!Failed, A!Refused_}

Last == kernel[Len(kernel)].kind

Evaluate ==
  /\ pc = "evaluate"
  /\ kernel = << >> \/ (Len(kernel) = 1 /\ Last = "tree")
  /\ \E outcome \in Outcomes(IF kernel = << >> THEN lhs ELSE rhs) :
       kernel' = Append(kernel, outcome)
  /\ UNCHANGED <<question, verdict, pc, sample, finite>>

(* A mutant of Catch: every Error is taken for a failed subprocess. *)
CatchAll ==
  /\ pc = "evaluate"
  /\ kernel # << >>
  /\ Last # "tree"
  /\ End(A!Verdict("Unknown", "sympy_unavailable"))
  /\ UNCHANGED <<question, kernel, sample, finite>>

(* An Error of the bridge itself, or of popen, is thrown on; only a         *)
(* subprocess that ran and failed makes a verdict.                          *)
Catch ==
  /\ pc = "evaluate"
  /\ kernel # << >>
  /\ \/ Last = "failed" /\ End(A!Verdict("Unknown", "sympy_unavailable"))
     \/ Last = "refused" /\ End(A!Refusal)
  /\ UNCHANGED <<question, kernel, sample, finite>>

SameResult ==
  /\ pc = "evaluate"
  /\ Len(kernel) = 2
  /\ Last = "tree"
  /\ End(IF kernel[1] = kernel[2] THEN A!Verdict("Ok", "sympy_same_tree")
                                  ELSE A!Verdict("Fail", "sympy_diff_tree"))
  /\ UNCHANGED <<question, kernel, sample, finite>>

-----------------------------------------------------------------------------

(* parse_numeric_options: the items of a mode are refused where one is not *)
(* key=value or has an unknown key; what is read must be in its range.     *)
Options ==
  /\ pc = "start"
  /\ by.mode = "numeric"
  /\ IF by.items = "refused" \/ by.samples <= 0 \/ by.tol < 0
     THEN End(A!Refusal) ELSE Goto("sample")
  /\ UNCHANGED <<question, kernel, sample, finite>>

(* A mutant of Names: each side numbers its own symbols. *)
OwnNames(t, other) == Symbols[t]

(* vars: the symbols of both sides, sorted. *)
Names(t, other) == Symbols[t] \cup Symbols[other]

(* env and eval_numeric_compare: t at a sample of its comparison with other. *)
Values ==
  [t \in {u \in Trees : ~Refused[u]} |->
     [other \in Trees |->
        [s \in UNION {0 .. m.samples - 1 : m \in Modes} |->
           ValueAt(t, Point(s, Names(t, other)))]]]

(* A mutant of Advance: a sample that is not finite is tried again. *)
AdvanceIfFinite(isFinite) ==
  /\ finite' = finite + (IF isFinite THEN 1 ELSE 0)
  /\ sample' = sample + (IF isFinite THEN 1 ELSE 0)

Advance(isFinite) ==
  /\ finite' = finite + (IF isFinite THEN 1 ELSE 0)
  /\ sample' = sample + 1

Sample ==
  /\ pc = "sample"
  /\ sample < by.samples
  /\ IF Refused[lhs] \/ Refused[rhs]
     THEN End(A!Verdict("Unknown", "error")) /\ UNCHANGED <<sample, finite>>
     ELSE LET l == Values[lhs][rhs][sample]
              r == Values[rhs][lhs][sample]
              both == IsFinite(l) /\ IsFinite(r)
          IN /\ Advance(both)
             /\ IF both /\ Differ(l, r, by.tol)
                THEN End(A!Witness(sample)) ELSE Goto("sample")
  /\ UNCHANGED <<question, kernel>>

AllSamples ==
  /\ pc = "sample"
  /\ sample = by.samples
  /\ End(IF finite = 0 THEN A!Verdict("Unknown", "numeric_no_finite_samples")
                       ELSE A!Verdict("Ok", "numeric_samples"))
  /\ UNCHANGED <<question, kernel, sample, finite>>

UnknownMode ==
  /\ pc = "start"
  /\ by.mode \notin {"structural", "simplify", "numeric"}
  /\ End(A!Refusal)
  /\ UNCHANGED <<question, kernel, sample, finite>>

-----------------------------------------------------------------------------

Init ==
  /\ question \in A!Questions
  /\ kernel = << >>
  /\ verdict = A!None
  /\ pc = "start"
  /\ sample = 0
  /\ finite = 0

Next ==
  \/ Structural \/ Precheck \/ Evaluate \/ Catch \/ SameResult
  \/ Options \/ Sample \/ AllSamples \/ UnknownMode

(* The thread of the call runs on, and its subprocess returns. *)
Spec == Init /\ [][Next]_vars /\ WF_vars(Next)

-----------------------------------------------------------------------------
(* Properties. *)

(* The verdict is the one its mode's evidence gives: Unknown only if the    *)
(* subprocess failed, a side has no numeric value or no sample is finite,   *)
(* Fail with the first sample that tells the sides apart, Ok only if all    *)
(* finite samples agree and there are some, and no verdict on an Error.     *)
EvidenceDecides == A!Spec

(* Numeric comparison never refutes an identity SymPy knows, for any        *)
(* tolerance rounding stays within: both sides are evaluated at one point,  *)
(* with one value for each symbol, and a sample at which either is not      *)
(* finite says nothing.                                                     *)
FailMeansDifferent ==
  verdict.status = "Fail" /\ by.mode = "numeric" /\ by.tol > 0 =>
    Normal[lhs] # Normal[rhs]

(* Two different symbols are never taken for equal, by however few samples:  *)
(* at the first sample their values are 37 thousandths apart or more.        *)
SymbolsAreToldApart ==
  /\ verdict.status = "Ok"
  /\ by.mode = "numeric"
  /\ by.tol < 37
  /\ lhs.tag = "Sym"
  /\ rhs.tag = "Sym"
  => lhs = rhs

(* Every comparison ends, whatever samples are passed over. *)
ComparisonEnds == <>(pc = "end")

=============================================================================
