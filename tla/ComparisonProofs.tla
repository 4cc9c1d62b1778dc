--------------------------- MODULE ComparisonProofs ---------------------------
(***************************************************************************)
(* Proofs about Comparison: a verdict follows from its evidence, for every *)
(* set of trees, whatever their values, and every number of samples.       *)
(***************************************************************************)
EXTENDS Comparison, LeastProofs, FiniteSetTheorems, TLAPS

(* The state of the call.  *)
TypeOK ==
  /\ question \in A!Questions
  /\ pc \in {"start", "evaluate", "sample", "end"}
  /\ sample \in Nat
  /\ finite \in Nat

(* What the kernel has said: a tree first, if it was asked twice. *)
KernelInv ==
  /\ kernel \in Seq({A!Returned(t) : t \in Trees} \cup {A!Failed, A!Refused_})
  /\ Len(kernel) <= 2
  /\ Len(kernel) = 2 => kernel[1].kind = "tree"
  /\ pc \in {"start", "sample"} => kernel = << >>

(* Where the call is in the branch of its mode: nothing is counted before   *)
(* the loop, and there is no verdict before the end.                        *)
BranchInv ==
  /\ pc = "start" => sample = 0 /\ finite = 0
  /\ pc = "evaluate" => by.mode = "simplify" /\ lhs # rhs
  /\ pc = "sample" => by.mode = "numeric" /\ A!Legible(by)
  /\ pc = "end" \/ verdict = A!None

(* The loop: no sample so far tells the sides apart, and finite_samples    *)
(* is zero as long as none was finite.                                     *)
LoopInv ==
  pc = "sample" =>
    /\ sample <= by.samples
    /\ sample > 0 => ~Refused[lhs] /\ ~Refused[rhs]
    /\ \A s \in 0 .. sample - 1 : FiniteAt(question, s) => ~ApartAt(question, s)
    /\ finite = 0 <=> \A s \in 0 .. sample - 1 : ~FiniteAt(question, s)

(* A refutation by numbers has a witness. *)
WitnessInv ==
  verdict.status = "Fail" /\ by.mode = "numeric" =>
    /\ ~Refused[lhs] /\ ~Refused[rhs]
    /\ \E s \in 0 .. by.samples - 1 : FiniteAt(question, s) /\ ApartAt(question, s)

IInv == TypeOK /\ KernelInv /\ BranchInv /\ LoopInv /\ WitnessInv

-----------------------------------------------------------------------------

(* The values of the loop are those of the evidence: both sides at a point  *)
(* over the symbols of both (Names does not look at their order).           *)
LEMMA OnePoint ==
  ASSUME TypeOK, BranchInv, pc = "sample", sample < by.samples,
         ~Refused[lhs], ~Refused[rhs]
  PROVE  /\ Values[lhs][rhs][sample] = Sides(question, sample)[1]
         /\ Values[rhs][lhs][sample] = Sides(question, sample)[2]
<1> DEFINE Range_ == UNION {0 .. m.samples - 1 : m \in Modes}
           Point_(t, u) == Point(sample, Symbols[t] \cup Symbols[u])
<1>1. lhs \in Trees /\ rhs \in Trees /\ by \in Modes
  BY DEF TypeOK, A!Questions, lhs, rhs, by
<1>2. by.samples \in Int
  BY <1>1, ComparisonAssumption
<1>3. sample \in 0 .. by.samples - 1
  BY <1>2 DEF TypeOK
<1>4. sample \in Range_
  BY <1>1, <1>3
<1>5. Values[lhs][rhs][sample] = ValueAt(lhs, Point_(lhs, rhs))
  BY <1>1, <1>4 DEF Values, Names
<1>6. Values[rhs][lhs][sample] = ValueAt(rhs, Point_(rhs, lhs))
  BY <1>1, <1>4 DEF Values, Names
<1>7. Point_(rhs, lhs) = Point_(lhs, rhs)
  <2>1. Symbols[rhs] \cup Symbols[lhs] = Symbols[lhs] \cup Symbols[rhs]
    OBVIOUS
  <2>2. QED
    BY <2>1, Zenon
<1>8. Sides(question, sample) =
        <<ValueAt(lhs, Point_(lhs, rhs)), ValueAt(rhs, Point_(lhs, rhs))>>
  BY DEF Sides, lhs, rhs
<1> HIDE DEF Point_
<1>9. QED
  BY <1>5, <1>6, <1>7, <1>8

(* A step of the loop that reads values reads the evidence. *)
LEMMA LoopReadsTheEvidence ==
  ASSUME IInv, Sample, ~Refused[lhs], ~Refused[rhs]
  PROVE  /\ sample' = sample + 1
         /\ finite' = finite + (IF FiniteAt(question, sample) THEN 1 ELSE 0)
         /\ IF FiniteAt(question, sample) /\ ApartAt(question, sample)
            THEN End(A!Witness(sample)) ELSE Goto("sample")
<1>1. /\ Values[lhs][rhs][sample] = Sides(question, sample)[1]
      /\ Values[rhs][lhs][sample] = Sides(question, sample)[2]
  BY OnePoint DEF IInv, Sample
<1>2. (IsFinite(Values[lhs][rhs][sample]) /\ IsFinite(Values[rhs][lhs][sample]))
        <=> FiniteAt(question, sample)
  BY <1>1 DEF FiniteAt
<1>3. Differ(Values[lhs][rhs][sample], Values[rhs][lhs][sample], by.tol)
        <=> ApartAt(question, sample)
  BY <1>1 DEF ApartAt, by
<1>4. QED
  BY <1>2, <1>3 DEF Sample, Advance

-----------------------------------------------------------------------------

LEMMA InitIInv ==
  Init => IInv
<1> SUFFICES ASSUME Init PROVE IInv
  OBVIOUS
<1>1. TypeOK /\ BranchInv /\ LoopInv
  BY DEF Init, TypeOK, BranchInv, LoopInv
<1>2. KernelInv
  BY DEF Init, KernelInv
<1>3. WitnessInv
  BY DEF Init, WitnessInv, A!None
<1>4. QED
  BY <1>1, <1>2, <1>3 DEF IInv

(* A step that ends the call and refutes nothing by numbers. *)
LEMMA EndKeepsIInv ==
  ASSUME IInv, NEW v, End(v), UNCHANGED <<question, kernel>>,
         sample' \in Nat, finite' \in Nat,
         v.status = "Fail" => by.mode # "numeric"
  PROVE  IInv'
<1>1. TypeOK'
  BY DEF IInv, TypeOK, End
<1>2. KernelInv'
  BY DEF IInv, KernelInv, End
<1>3. BranchInv' /\ LoopInv'
  BY DEF BranchInv, LoopInv, End
<1>4. WitnessInv'
  BY DEF WitnessInv, End, by
<1>5. QED
  BY <1>1, <1>2, <1>3, <1>4 DEF IInv

LEMMA SampleKeepsIInv ==
  ASSUME IInv, Sample
  PROVE  IInv'
<1>1. CASE Refused[lhs] \/ Refused[rhs]
  <2>1. End(A!Verdict("Unknown", "error")) /\ UNCHANGED <<question, kernel, sample, finite>>
    BY <1>1 DEF Sample
  <2>2. A!Verdict("Unknown", "error").status # "Fail"
    BY DEF A!Verdict
  <2>3. QED
    BY <2>1, <2>2, EndKeepsIInv DEF IInv, TypeOK
<1>2. CASE ~Refused[lhs] /\ ~Refused[rhs]
  <2> DEFINE F(s) == FiniteAt(question, s)
             P(s) == ApartAt(question, s)
  <2>1. /\ sample' = sample + 1
        /\ finite' = finite + (IF F(sample) THEN 1 ELSE 0)
        /\ IF F(sample) /\ P(sample) THEN End(A!Witness(sample)) ELSE Goto("sample")
    BY <1>2, LoopReadsTheEvidence
  <2>2. /\ UNCHANGED <<question, kernel>>
        /\ pc = "sample" /\ sample < by.samples /\ kernel = << >> /\ verdict = A!None
        /\ by.mode = "numeric" /\ A!Legible(by)
        /\ sample \in Nat /\ finite \in Nat /\ by.samples \in Int
    BY ComparisonAssumption
    DEF Sample, IInv, TypeOK, KernelInv, BranchInv, A!Questions, by
  <2>3. sample' \in Nat /\ finite' \in Nat
    BY <2>1, <2>2
  <2>4. LoopInv
    BY DEF IInv
  <2>5. CASE F(sample) /\ P(sample)
    <3>1. pc' = "end" /\ verdict' = A!Witness(sample)
      BY <2>1, <2>5 DEF End
    <3>2. TypeOK' /\ BranchInv' /\ LoopInv'
      BY <2>2, <2>3, <3>1 DEF IInv, TypeOK, BranchInv, LoopInv
    <3>3. KernelInv'
      BY <2>2, <3>1 DEF IInv, KernelInv
    <3>4. sample \in 0 .. by.samples - 1
      BY <2>2
    <3>5. WitnessInv'
      BY <1>2, <2>2, <2>5, <3>4 DEF WitnessInv, lhs, rhs, by
    <3>6. QED
      BY <3>2, <3>3, <3>5 DEF IInv
  <2>6. CASE ~(F(sample) /\ P(sample))
    <3>1. pc' = "sample" /\ verdict' = verdict
      BY <2>1, <2>6 DEF Goto
    <3>2. TypeOK' /\ BranchInv' /\ KernelInv'
      BY <2>2, <2>3, <3>1 DEF IInv, TypeOK, BranchInv, KernelInv, lhs, rhs, by
    <3>3. 0 .. sample' - 1 = (0 .. sample - 1) \cup {sample}
      BY <2>1, <2>2
    <3>4. \A s \in 0 .. sample' - 1 : F(s) => ~P(s)
      BY <2>2, <2>4, <2>6, <3>3 DEF LoopInv
    <3>5. finite' = 0 <=> \A s \in 0 .. sample' - 1 : ~F(s)
      BY <2>1, <2>2, <2>4, <3>3 DEF LoopInv
    <3>6. LoopInv'
      BY <1>2, <2>1, <2>2, <3>1, <3>4, <3>5 DEF LoopInv, lhs, rhs, by
    <3>7. WitnessInv'
      BY <2>2, <3>1 DEF WitnessInv, A!None
    <3>8. QED
      BY <3>2, <3>6, <3>7 DEF IInv
  <2>7. QED
    BY <2>5, <2>6
<1>3. QED
  BY <1>1, <1>2

LEMMA EvaluateKeepsIInv ==
  ASSUME IInv, Evaluate
  PROVE  IInv'
<1>1. PICK outcome \in Outcomes(IF kernel = << >> THEN lhs ELSE rhs) :
        kernel' = Append(kernel, outcome)
  BY DEF Evaluate
<1>2. lhs \in Trees /\ rhs \in Trees
  BY DEF IInv, TypeOK, A!Questions, lhs, rhs
<1>3. outcome \in {A!Returned(t) : t \in Trees} \cup {A!Failed, A!Refused_}
  BY <1>2, ComparisonAssumption DEF Outcomes
<1>4. pc = "evaluate" /\ UNCHANGED <<question, verdict, pc, sample, finite>>
  BY DEF Evaluate
<1>5. KernelInv'
  <2>1. kernel = << >> \/ (Len(kernel) = 1 /\ kernel[Len(kernel)].kind = "tree")
    BY DEF Evaluate, Last
  <2>2. QED
    BY <1>1, <1>3, <1>4, <2>1 DEF IInv, KernelInv
<1>6. TypeOK' /\ BranchInv'
  BY <1>4 DEF IInv, TypeOK, BranchInv, lhs, rhs, by
<1>7. LoopInv'
  BY <1>4 DEF LoopInv
<1>8. WitnessInv'
  BY <1>4 DEF IInv, WitnessInv, lhs, rhs, by
<1>9. QED
  BY <1>5, <1>6, <1>7, <1>8 DEF IInv

(* The options are refused just if the evidence asks for a refusal.        *)
LEMMA OptionsRead ==
  ASSUME TypeOK, Options
  PROVE  IF A!Legible(by) THEN Goto("sample") ELSE End(A!Refusal)
<1>1. by.items \in {"read", "refused"} /\ by.samples \in Int /\ by.tol \in Int
  BY ComparisonAssumption DEF TypeOK, A!Questions, by
<1>2. A!Legible(by) <=> ~(by.items = "refused" \/ by.samples <= 0 \/ by.tol < 0)
  BY <1>1 DEF A!Legible
<1> QED BY <1>2 DEF Options

(* Precheck and Options, where they go on. *)
LEMMA GotoKeepsIInv ==
  ASSUME IInv, NEW label, Goto(label), UNCHANGED <<question, kernel, sample, finite>>,
         pc = "start",
         \/ label = "evaluate" /\ by.mode = "simplify" /\ lhs # rhs
         \/ label = "sample" /\ by.mode = "numeric" /\ A!Legible(by)
  PROVE  IInv'
<1>1. pc' = label /\ verdict' = verdict
  BY DEF Goto
<1>2. by \in Modes /\ by.samples \in Int
  BY ComparisonAssumption DEF IInv, TypeOK, A!Questions, by
<1>3. TypeOK' /\ KernelInv' /\ BranchInv'
  BY <1>1 DEF IInv, TypeOK, KernelInv, BranchInv, lhs, rhs, by
<1>4. LoopInv'
  <2>1. CASE label = "evaluate"
    BY <1>1, <2>1 DEF LoopInv
  <2>2. CASE label = "sample"
    <3>1. sample = 0 /\ finite = 0 /\ by.samples > 0
      BY <2>2 DEF IInv, BranchInv, A!Legible
    <3>2. 0 .. sample' - 1 = {}
      BY <3>1
    <3>3. QED
      BY <1>1, <1>2, <3>1, <3>2 DEF LoopInv, by
  <2>3. QED
    BY <2>1, <2>2
<1>5. WitnessInv'
  BY <1>1 DEF IInv, WitnessInv, lhs, rhs, by
<1>6. QED
  BY <1>3, <1>4, <1>5 DEF IInv

LEMMA NextKeepsIInv ==
  ASSUME IInv, [Next]_vars
  PROVE  IInv'
<1>1. TypeOK
  BY DEF IInv
<1>2. CASE Structural
  BY <1>1, <1>2, EndKeepsIInv DEF Structural, TypeOK
<1>3. CASE Precheck
  <2>1. CASE lhs = rhs
    BY <1>1, <1>3, <2>1, EndKeepsIInv DEF Precheck, TypeOK
  <2>2. CASE lhs # rhs
    BY <1>3, <2>2, GotoKeepsIInv DEF Precheck
  <2>3. QED
    BY <2>1, <2>2
<1>4. CASE Evaluate
  BY <1>4, EvaluateKeepsIInv
<1>5. CASE Catch
  <2>1. by.mode = "simplify"
    BY <1>5 DEF IInv, BranchInv, Catch
  <2>2. QED
    BY <1>1, <1>5, <2>1, EndKeepsIInv DEF Catch, TypeOK
<1>6. CASE SameResult
  <2>1. by.mode = "simplify"
    BY <1>6 DEF IInv, BranchInv, SameResult
  <2>2. QED
    BY <1>1, <1>6, <2>1, EndKeepsIInv DEF SameResult, TypeOK
<1>7. CASE Options
  <2>1. IF A!Legible(by) THEN Goto("sample") ELSE End(A!Refusal)
    BY <1>1, <1>7, OptionsRead
  <2>2. CASE ~A!Legible(by)
    BY <1>1, <1>7, <2>1, <2>2, EndKeepsIInv DEF Options, TypeOK, A!Refusal, A!Verdict
  <2>3. CASE A!Legible(by)
    BY <1>7, <2>1, <2>3, GotoKeepsIInv DEF Options
  <2>4. QED
    BY <2>2, <2>3
<1>8. CASE Sample
  BY <1>8, SampleKeepsIInv
<1>9. CASE AllSamples
  <2>1. IF finite = 0 THEN End(A!Verdict("Unknown", "numeric_no_finite_samples"))
                      ELSE End(A!Verdict("Ok", "numeric_samples"))
    BY <1>9 DEF AllSamples
  <2>2. QED
    BY <1>1, <1>9, <2>1, EndKeepsIInv DEF AllSamples, TypeOK, A!Verdict
<1>10. CASE UnknownMode
  BY <1>1, <1>10, EndKeepsIInv DEF UnknownMode, TypeOK, A!Refusal, A!Verdict
<1>11. CASE UNCHANGED vars
  <2>1. TypeOK' /\ BranchInv'
    BY <1>11 DEF vars, IInv, TypeOK, BranchInv, lhs, rhs, by
  <2>2. KernelInv'
    BY <1>11 DEF vars, IInv, KernelInv
  <2>3. LoopInv'
    BY <1>11 DEF vars, IInv, LoopInv, lhs, rhs, by
  <2>4. WitnessInv'
    BY <1>11 DEF vars, IInv, WitnessInv, lhs, rhs, by
  <2>5. QED
    BY <2>1, <2>2, <2>3, <2>4 DEF IInv
<1>12. QED
  BY <1>2, <1>3, <1>4, <1>5, <1>6, <1>7, <1>8, <1>9, <1>10, <1>11 DEF Next

(* Every state of a call is typed, in the branch of its mode, and has found *)
(* no difference in the samples it has taken (compare).                     *)
THEOREM ComparisonInvariant == Spec => []IInv
<1>1. Init => IInv
  BY InitIInv
<1>2. IInv /\ [Next]_vars => IInv'
  BY NextKeepsIInv
<1>3. QED
  BY <1>1, <1>2, PTL DEF Spec

(* No numeric comparison refutes what SymPy takes for equal, if that is     *)
(* equal as a number wherever both sides are finite (compare, numeric).     *)
THEOREM NoIdentityIsRefuted ==
  ASSUME EqualTreesAgree
  PROVE  Spec => []FailMeansDifferent
<1>1. IInv => FailMeansDifferent
  <2> SUFFICES ASSUME IInv, verdict.status = "Fail", by.mode = "numeric", by.tol > 0,
                      Normal[lhs] = Normal[rhs]
               PROVE  FALSE
    BY DEF FailMeansDifferent
  <2>1. lhs \in Trees /\ rhs \in Trees /\ by \in Modes
    BY DEF IInv, TypeOK, A!Questions, lhs, rhs, by
  <2>2. question = [lhs |-> lhs, rhs |-> rhs, by |-> by]
    BY DEF IInv, TypeOK, A!Questions, lhs, rhs, by
  <2>3. ~Refused[lhs] /\ ~Refused[rhs]
    BY DEF IInv, WitnessInv
  <2>4. PICK s \in 0 .. by.samples - 1 : FiniteAt(question, s) /\ ApartAt(question, s)
    BY DEF IInv, WitnessInv
  <2>5. \A n \in 0 .. by.samples - 1 : FiniteAt(question, n) => ~ApartAt(question, n)
    BY <2>1, <2>2, <2>3, EqualTreesAgree DEF EqualTreesAgree
  <2>6. QED
    BY <2>4, <2>5
<1>2. QED
  BY <1>1, ComparisonInvariant, PTL

-----------------------------------------------------------------------------
(* The refinement of Agreement. *)

LEMMA FirstIsMin ==
  ASSUME NEW S, S \subseteq Nat, NEW k \in S, \A n \in S : k <= n
  PROVE  A!Min(S) = k
<1>1. PICK m \in S : m = A!Min(S) /\ \A n \in S : m <= n
  BY Zenon DEF A!Min
<1>2. m <= k /\ k <= m /\ m \in Nat /\ k \in Nat
  BY <1>1
<1>3. QED
  BY <1>1, <1>2

(* What the loop has found when it ends is what the samples say together.  *)
LEMMA NumericVerdict ==
  ASSUME IInv, pc = "sample", sample < by.samples, ~Refused[lhs], ~Refused[rhs],
         FiniteAt(question, sample), ApartAt(question, sample)
  PROVE  A!Numeric(question) = A!Witness(sample)
<1>1. /\ lhs \in Trees /\ rhs \in Trees /\ by \in Modes
      /\ A!Legible(by) /\ by.samples \in Int /\ by.samples > 0 /\ sample \in Nat
  BY ComparisonAssumption
  DEF IInv, TypeOK, BranchInv, A!Questions, A!Legible, lhs, rhs, by
<1>2. sample \in A!Differing(question)
  BY <1>1 DEF by, A!Differing, A!FiniteSamples
<1>3. \A s \in A!Differing(question) : s \in Nat /\ sample <= s
  BY <1>1 DEF IInv, LoopInv, by, A!Differing, A!FiniteSamples
<1>4. A!Min(A!Differing(question)) = sample
  BY <1>2, <1>3, FirstIsMin
<1>5. {question.lhs, question.rhs} \cap {t \in Trees : Refused[t]} = {}
  BY <1>1 DEF lhs, rhs
<1>6. A!Differing(question) # {}
  BY <1>2
<1>7. QED
  BY <1>1, <1>4, <1>5, <1>6 DEF A!Numeric, by

LEMMA RefusedVerdict ==
  ASSUME IInv, pc = "sample", Refused[lhs] \/ Refused[rhs]
  PROVE  A!Numeric(question) = A!Verdict("Unknown", "error")
<1>1. /\ lhs \in Trees /\ rhs \in Trees /\ by \in Modes
      /\ A!Legible(by)
  BY ComparisonAssumption DEF IInv, TypeOK, BranchInv, A!Questions, lhs, rhs, by
<1>2. {question.lhs, question.rhs} \cap {t \in Trees : Refused[t]} # {}
  BY <1>1 DEF lhs, rhs
<1>3. QED
  BY <1>1, <1>2 DEF A!Numeric, by

LEMMA AllSamplesVerdict ==
  ASSUME IInv, pc = "sample", sample = by.samples
  PROVE  A!Numeric(question) =
           IF finite = 0 THEN A!Verdict("Unknown", "numeric_no_finite_samples")
                         ELSE A!Verdict("Ok", "numeric_samples")
<1>1. /\ lhs \in Trees /\ rhs \in Trees /\ by \in Modes
      /\ A!Legible(by) /\ by.samples \in Int /\ by.samples > 0 /\ sample \in Nat
      /\ ~Refused[lhs] /\ ~Refused[rhs]
  BY ComparisonAssumption
  DEF IInv, TypeOK, BranchInv, LoopInv, A!Questions, A!Legible, lhs, rhs, by
<1>2. A!Differing(question) = {}
  BY <1>1 DEF IInv, LoopInv, by, A!Differing, A!FiniteSamples
<1>3. A!FiniteSamples(question) = {} <=> finite = 0
  BY <1>1 DEF IInv, LoopInv, by, A!FiniteSamples
<1>4. {question.lhs, question.rhs} \cap {t \in Trees : Refused[t]} = {}
  BY <1>1 DEF lhs, rhs
<1>5. QED
  BY <1>1, <1>2, <1>3, <1>4 DEF A!Numeric, by

LEMMA SampleRefines ==
  ASSUME IInv, Sample
  PROVE  A!Next \/ UNCHANGED <<question, kernel, verdict>>
<1>1. /\ pc = "sample" /\ sample < by.samples
      /\ question.by.mode = "numeric" /\ verdict = A!None
      /\ UNCHANGED <<question, kernel>>
  BY DEF Sample, IInv, BranchInv, by
<1>2. CASE Refused[lhs] \/ Refused[rhs]
  <2>1. verdict' = A!Verdict("Unknown", "error")
    BY <1>2 DEF Sample, End
  <2>2. QED
    BY <1>1, <1>2, <2>1, RefusedVerdict DEF A!Next, A!Conclude
<1>3. CASE ~Refused[lhs] /\ ~Refused[rhs]
  <2>1. CASE FiniteAt(question, sample) /\ ApartAt(question, sample)
    <3>1. verdict' = A!Witness(sample)
      BY <1>3, <2>1, LoopReadsTheEvidence DEF End
    <3>2. QED
      BY <1>1, <1>3, <2>1, <3>1, NumericVerdict DEF A!Next, A!Conclude
  <2>2. CASE ~(FiniteAt(question, sample) /\ ApartAt(question, sample))
    BY <1>1, <1>3, <2>2, LoopReadsTheEvidence DEF Goto
  <2>3. QED
    BY <2>1, <2>2
<1>4. QED
  BY <1>2, <1>3

LEMMA EvaluateRefines ==
  ASSUME IInv, Evaluate
  PROVE  A!Next
<1>1. PICK outcome \in Outcomes(IF kernel = << >> THEN lhs ELSE rhs) :
        kernel' = Append(kernel, outcome)
  BY DEF Evaluate
<1>2. lhs \in Trees /\ rhs \in Trees
  BY DEF IInv, TypeOK, A!Questions, lhs, rhs
<1>3. outcome \in {A!Returned(t) : t \in Trees} \cup {A!Failed, A!Refused_}
  BY <1>2, ComparisonAssumption DEF Outcomes
<1>4. kernel = << >> \/ (Len(kernel) = 1 /\ kernel[1].kind = "tree")
  BY DEF Evaluate, Last
<1>5. /\ verdict = A!None /\ question.by.mode = "simplify" /\ question.lhs # question.rhs
      /\ UNCHANGED <<question, verdict>>
  BY DEF Evaluate, IInv, BranchInv, lhs, rhs, by
<1>6. A!Consult
  BY <1>1, <1>3, <1>4, <1>5 DEF A!Consult
<1>7. QED
  BY <1>6 DEF A!Next

(* Both ends of the branch of simplify. *)
LEMMA SimplifyRefines ==
  ASSUME IInv, Catch \/ SameResult
  PROVE  A!Next
<1> DEFINE Answers == {A!Returned(t) : t \in Trees} \cup {A!Failed, A!Refused_}
<1>1. /\ verdict = A!None /\ question.by.mode = "simplify" /\ question.lhs # question.rhs
      /\ UNCHANGED <<question, kernel>>
  BY DEF Catch, SameResult, IInv, BranchInv, lhs, rhs, by
<1>2. /\ kernel \in Seq(Answers) /\ kernel # << >> /\ Len(kernel) <= 2
      /\ Len(kernel) = 2 => kernel[1].kind = "tree"
  BY DEF Catch, SameResult, IInv, KernelInv
<1> HIDE DEF Answers
<1>3. Len(kernel) \in {1, 2} /\ \A k \in 1 .. Len(kernel) : kernel[k] \in Answers
  <2>1. Len(kernel) \in Nat /\ Len(kernel) # 0
    BY <1>2
  <2>2. Len(kernel) \in {1, 2}
    <3>1. \A n \in Nat : n # 0 /\ n <= 2 => n \in {1, 2}
      OBVIOUS
    <3>2. QED
      BY <1>2, <2>1, <3>1, Zenon
  <2>3. \A k \in 1 .. Len(kernel) : kernel[k] \in Answers
    BY <1>2
  <2>4. QED
    BY <2>2, <2>3
<1>4. \A a \in Answers : /\ a.kind \in {"tree", "failed", "refused"}
                         /\ a.kind = "tree" => a = A!Returned(a.tree)
  BY DEF Answers, A!Returned, A!Failed, A!Refused_
<1>5. CASE Catch
  <2>1. kernel[Len(kernel)].kind \in {"failed", "refused"}
    BY <1>5 DEF Catch, Last
  <2>2. Len(kernel) = 2 \/ kernel[1].kind # "tree"
    BY <1>3, <2>1
  <2>3. \A k \in 1 .. Len(kernel) : k = Len(kernel) \/ kernel[k].kind = "tree"
    BY <1>2, <1>3
  <2>4. verdict' = A!Simplified
    <3>1. CASE kernel[Len(kernel)].kind = "refused"
      <4>1. \E k \in 1 .. Len(kernel) : kernel[k].kind = "refused"
        BY <1>3, <3>1
      <4>2. verdict' = A!Refusal
        BY <1>5, <3>1 DEF Catch, Last, End
      <4>3. \A k \in 1 .. Len(kernel) : kernel[k].kind # "failed"
        BY <2>3, <3>1
      <4>4. QED
        BY <4>1, <4>2, <4>3 DEF A!Simplified
    <3>2. CASE kernel[Len(kernel)].kind = "failed"
      BY <1>3, <1>5, <2>3, <3>2 DEF Catch, Last, End, A!Simplified
    <3>3. QED
      BY <2>1, <3>1, <3>2
  <2>5. QED
    BY <1>1, <1>2, <2>2, <2>4 DEF A!Next, A!Conclude
<1>6. CASE SameResult
  <2>1. Len(kernel) = 2 /\ kernel[1].kind = "tree" /\ kernel[2].kind = "tree"
    BY <1>2, <1>6 DEF SameResult, Last
  <2>2. kernel[1] = A!Returned(kernel[1].tree) /\ kernel[2] = A!Returned(kernel[2].tree)
    BY <1>3, <1>4, <2>1
  <2>3. kernel[1] = kernel[2] <=> kernel[1].tree = kernel[2].tree
    BY <2>2
  <2>4. \A k \in 1 .. Len(kernel) : kernel[k].kind = "tree"
    BY <2>1
  <2>5. verdict' = A!Simplified
    BY <1>6, <2>3, <2>4 DEF SameResult, End, A!Simplified
  <2>6. QED
    BY <1>1, <1>2, <2>1, <2>5 DEF A!Next, A!Conclude
<1>7. QED
  BY <1>5, <1>6

LEMMA NextRefines ==
  ASSUME IInv, [Next]_vars
  PROVE  [A!Next]_<<question, kernel, verdict>>
<1> DEFINE Mapped == [A!Next]_<<question, kernel, verdict>>
<1>1. by \in Modes /\ by.samples \in Int
  BY ComparisonAssumption DEF IInv, TypeOK, A!Questions, by
<1>2. pc = "start" => kernel = << >> /\ verdict = A!None
  BY DEF IInv, KernelInv, BranchInv
<1>3. CASE Structural
  BY <1>2, <1>3 DEF Structural, End, A!Next, A!Conclude, lhs, rhs, by
<1>4. CASE Precheck
  <2>1. CASE lhs = rhs
    BY <1>2, <1>4, <2>1 DEF Precheck, End, A!Next, A!Conclude, lhs, rhs, by
  <2>2. CASE lhs # rhs
    BY <1>4, <2>2 DEF Precheck, Goto
  <2>3. QED
    BY <2>1, <2>2
<1>5. CASE Evaluate
  BY <1>5, EvaluateRefines
<1>6. CASE Catch \/ SameResult
  BY <1>6, SimplifyRefines
<1>7. CASE Options
  <2>1. IF A!Legible(by) THEN Goto("sample") ELSE End(A!Refusal)
    BY <1>7, OptionsRead DEF IInv
  <2>2. CASE ~A!Legible(by)
    <3>1. A!Numeric(question) = A!Refusal
      BY <2>2 DEF A!Numeric, by
    <3>2. QED
      BY <1>2, <1>7, <2>1, <2>2, <3>1 DEF Options, End, A!Next, A!Conclude, by
  <2>3. CASE A!Legible(by)
    BY <1>7, <2>1, <2>3 DEF Options, Goto
  <2>4. QED
    BY <2>2, <2>3
<1>8. CASE Sample
  BY <1>8, SampleRefines
<1>9. CASE AllSamples
  <2>1. /\ verdict' = A!Numeric(question) /\ UNCHANGED <<question, kernel>>
    BY <1>9, AllSamplesVerdict DEF AllSamples, End
  <2>2. verdict = A!None /\ question.by.mode = "numeric"
    BY <1>9 DEF AllSamples, IInv, BranchInv, by
  <2>3. QED
    BY <2>1, <2>2 DEF A!Next, A!Conclude
<1>10. CASE UnknownMode
  BY <1>2, <1>10 DEF UnknownMode, End, A!Next, A!Conclude, by
<1>11. CASE UNCHANGED vars
  BY <1>11 DEF vars
<1>12. QED
  BY <1>3, <1>4, <1>5, <1>6, <1>7, <1>8, <1>9, <1>10, <1>11 DEF Next

(* Every comparison implements Agreement: its verdict is the one that the   *)
(* evidence of its mode gives, and evidence that is missing gives none      *)
(* (compare).                                                               *)
THEOREM ComparisonImplementsAgreement == Spec => EvidenceDecides
<1>1. Init => A!Init
  BY DEF Init, A!Init
<1>2. IInv /\ [Next]_vars => [A!Next]_<<question, kernel, verdict>>
  BY NextRefines
<1>3. QED
  BY <1>1, <1>2, ComparisonInvariant, PTL DEF Spec, EvidenceDecides, A!Spec

-----------------------------------------------------------------------------
(* Fractions: Gcd is a recursive function, and so has to be shown to exist. *)

(* The greatest common divisor is defined for all numbers, and is a        *)
(* positive number unless both are zero.                                   *)
GcdBy(f, p) == IF p[2] = 0 THEN p[1] ELSE f[<<p[2], p[1] % p[2]>>]

LEMMA GcdIsChosen == Gcd = CHOOSE f : f = [p \in Nat \X Nat |-> GcdBy(f, p)]
BY Zenon DEF Gcd, GcdBy

LEMMA GcdUnfolds == \A p \in Nat \X Nat : Gcd[p] \in Nat /\ Gcd[p] = GcdBy(Gcd, p)
<1> DEFINE D == Nat \X Nat
           rank == [p \in D |-> p[2]]
           step == [p \in D |-> [f \in [D -> Nat] |-> GcdBy(f, p)]]
<1>1. \A p \in D : /\ p[1] \in Nat /\ p[2] \in Nat
                   /\ p[2] # 0 => <<p[2], p[1] % p[2]>> \in D /\ p[1] % p[2] < p[2]
  OBVIOUS
<1>2. rank \in [D -> Nat]
  OBVIOUS
<1>3. step \in [D -> [[D -> Nat] -> Nat]]
  <2>1. \A p \in D, f \in [D -> Nat] : GcdBy(f, p) \in Nat
    <3> HIDE DEF D
    <3> QED BY <1>1 DEF GcdBy
  <2> HIDE DEF D
  <2> QED BY <2>1
<1>4. ASSUME NEW p \in D, NEW f \in [D -> Nat], NEW g \in [D -> Nat],
             \A q \in D : rank[q] < rank[p] => f[q] = g[q]
      PROVE  step[p][f] = step[p][g]
  <2>1. GcdBy(f, p) = GcdBy(g, p)
    <3>1. CASE p[2] = 0
      BY <3>1 DEF GcdBy
    <3>2. CASE p[2] # 0
      <4> DEFINE q == <<p[2], p[1] % p[2]>>
      <4>1. q \in D /\ q[2] < p[2]  BY <1>1, <3>2
      <4> HIDE DEF D, q
      <4>2. rank[q] < rank[p]  BY <4>1
      <4>3. f[q] = g[q]
        <5> HIDE DEF rank
        <5> QED BY <1>4, <4>1, <4>2
      <4> QED BY <3>2, <4>3 DEF GcdBy, q
    <3> QED BY <3>1, <3>2
  <2> HIDE DEF D
  <2> QED BY <2>1
<1>5. PICK h \in [D -> Nat] : \A p \in D : h[p] = step[p][h]
  <2>1. Nat # {}
    OBVIOUS
  <2> HIDE DEF D, rank, step
  <2>2. Descends(D, Nat, rank, step)
    BY <1>2, <1>3, <1>4, <2>1 DEF Descends
  <2> QED BY <2>2, UnboundedRecursion
<1>6. h = [p \in D |-> GcdBy(h, p)]
  <2> HIDE DEF D
  <2> QED BY <1>5
<1>7. Gcd = [p \in D |-> GcdBy(Gcd, p)]
  BY <1>6, GcdIsChosen, Zenon
<1>8. ASSUME NEW p \in D, \A q \in D : rank[q] < rank[p] => q \in {r \in D : Gcd[r] \in Nat}
      PROVE  p \in {r \in D : Gcd[r] \in Nat}
  <2>1. Gcd[p] = GcdBy(Gcd, p)
    <3> HIDE DEF D
    <3> QED BY <1>7
  <2>2. CASE p[2] = 0
    BY <1>1, <2>1, <2>2 DEF GcdBy
  <2>3. CASE p[2] # 0
    <3> DEFINE q == <<p[2], p[1] % p[2]>>
    <3>1. q \in D /\ q[2] < p[2]  BY <1>1, <2>3
    <3>2. GcdBy(Gcd, p) = Gcd[q]  BY <2>3 DEF GcdBy
    <3> HIDE DEF D, q
    <3>3. rank[q] < rank[p]  BY <3>1
    <3>4. Gcd[q] \in Nat
      <4> HIDE DEF rank
      <4> QED BY <1>8, <3>1, <3>3
    <3> QED BY <2>1, <3>2, <3>4
  <2> QED BY <2>2, <2>3
<1>9. \A p \in D : p \in {r \in D : Gcd[r] \in Nat}
  <2> DEFINE Good == {r \in D : Gcd[r] \in Nat}
  <2> HIDE DEF D, rank, Good
  <2>1. ASSUME NEW p \in D, \A q \in D : rank[q] < rank[p] => q \in Good PROVE p \in Good
    BY <1>8, <2>1 DEF Good
  <2>2. \A p \in D : p \in Good
    BY <1>2, <2>1, RankInduction
  <2> QED BY <2>2 DEF Good
<1>10. \A p \in D : Gcd[p] = GcdBy(Gcd, p)
  <2> HIDE DEF D
  <2> QED BY <1>7
<1> QED BY <1>9, <1>10

LEMMA GcdOfZero ==
  ASSUME NEW a \in Nat
  PROVE  Gcd[<<a, 0>>] = a
BY GcdUnfolds DEF GcdBy

LEMMA GcdDown ==
  ASSUME NEW a \in Nat, NEW b \in Nat, b # 0
  PROVE  Gcd[<<a, b>>] = Gcd[<<b, a % b>>]
BY GcdUnfolds DEF GcdBy

LEMMA GcdType ==
  ASSUME NEW a \in Nat, NEW b \in Nat
  PROVE  Gcd[<<a, b>>] \in Nat /\ (a # 0 \/ b # 0 => Gcd[<<a, b>>] > 0)
<1> DEFINE D == Nat \X Nat
           rank == [p \in D |-> p[2]]
           Good == {p \in D : p[1] # 0 \/ p[2] # 0 => Gcd[p] > 0}
<1>1. ASSUME NEW p \in D, \A q \in D : rank[q] < rank[p] => q \in Good
      PROVE  p \in Good
  <2> SUFFICES ASSUME p[1] # 0 \/ p[2] # 0 PROVE Gcd[p] > 0
    OBVIOUS
  <2>0. p[1] \in Nat /\ p[2] \in Nat /\ p = <<p[1], p[2]>>
    OBVIOUS
  <2>1. CASE p[2] = 0
    <3>1. Gcd[<<p[1], 0>>] = p[1]  BY <2>0, GcdOfZero
    <3> QED BY <2>0, <2>1, <3>1
  <2>2. CASE p[2] # 0
    <3> DEFINE q == <<p[2], p[1] % p[2]>>
    <3>1. q \in D /\ q[2] < p[2] /\ q[1] # 0  BY <2>0, <2>2
    <3>2. Gcd[p] = Gcd[q]  BY <2>0, <2>2, GcdDown
    <3> HIDE DEF q
    <3>3. rank[q] < rank[p]  BY <3>1
    <3>4. q \in Good
      <4> HIDE DEF D, rank, Good
      <4> QED BY <1>1, <3>1, <3>3
    <3> QED BY <3>1, <3>2, <3>4
  <2> QED BY <2>1, <2>2
<1>2. rank \in [D -> Nat]
  OBVIOUS
<1>3. \A p \in D : p \in Good
  <2> HIDE DEF D, rank, Good
  <2> QED BY <1>1, <1>2, RankInduction
<1>4. <<a, b>> \in D
  OBVIOUS
<1> QED BY <1>3, <1>4, GcdUnfolds

(* A fraction in lowest terms is a number. *)
LEMMA FractionType ==
  ASSUME NEW n \in Int, NEW d \in Int
  PROVE  Fraction[<<n, d>>] \in Numbers
<1> DEFINE g == Gcd[<<Size(n), Size(d)>>]
<1>1. Size(n) \in Nat /\ Size(d) \in Nat
  BY DEF Size
<1>2. g \in Nat
  BY <1>1, GcdType
<1>3. Fraction[<<n, d>>] =
        IF g = 0 THEN [n |-> 0, d |-> 0]
        ELSE [n |-> IF d < 0 THEN (-n) \div g ELSE n \div g,
              d |-> IF d < 0 THEN (-d) \div g ELSE d \div g]
  BY DEF Fraction
<1> HIDE DEF g
<1>4. CASE g = 0
  BY <1>3, <1>4 DEF Numbers
<1>5. CASE g # 0
  <2>1. \A k \in Int : k \div g \in Int /\ (k >= 0 => k \div g >= 0)
    BY <1>2, <1>5
  <2> QED BY <1>3, <1>5, <2>1 DEF Numbers
<1> QED BY <1>4, <1>5

(* Euclid's algorithm: each number is what remains of the one two places   *)
(* before it.                                                              *)
Remainders(s, n) ==
  /\ \A k \in 1 .. n : s[k] \in Nat
  /\ \A k \in 1 .. n - 2 : s[k + 1] # 0 /\ s[k + 2] = s[k] % s[k + 1]
  /\ s[n] = 0

LEMMA Euclid ==
  ASSUME NEW s, NEW n \in Nat, n >= 2, Remainders(s, n)
  PROVE  Gcd[<<s[1], s[2]>>] = s[n - 1]
<1> DEFINE D == 1 .. n - 1
           rank == [k \in D |-> n - k]
           Good == {k \in D : Gcd[<<s[k], s[k + 1]>>] = s[n - 1]}
<1>1. rank \in [D -> Nat]
  OBVIOUS
<1>2. ASSUME NEW k \in D, \A j \in D : rank[j] < rank[k] => j \in Good
      PROVE  k \in Good
  <2>1. s[k] \in Nat /\ s[k + 1] \in Nat
    BY DEF Remainders
  <2>2. CASE k = n - 1
    <3>1. s[k + 1] = 0  BY <2>2 DEF Remainders
    <3> QED BY <2>1, <2>2, <3>1, GcdOfZero
  <2>3. CASE k # n - 1
    <3>1. k \in 1 .. n - 2 /\ k + 1 \in D  BY <2>3
    <3>2. s[k + 1] # 0 /\ s[k + 2] = s[k] % s[k + 1]  BY <3>1 DEF Remainders
    <3>3. Gcd[<<s[k], s[k + 1]>>] = Gcd[<<s[k + 1], s[k + 2]>>]
      BY <2>1, <3>2, GcdDown
    <3> DEFINE q == k + 1
    <3>4. q \in D /\ rank[q] < rank[k] /\ q + 1 = k + 2  BY <3>1
    <3> HIDE DEF D, rank, q
    <3>5. q \in Good
      <4> HIDE DEF Good
      <4> QED BY <1>2, <3>4
    <3>6. Gcd[<<s[q], s[k + 2]>>] = s[n - 1]  BY <3>4, <3>5
    <3> QED BY <3>3, <3>6 DEF q
  <2> QED BY <2>2, <2>3
<1>3. \A k \in D : k \in Good
  <2> HIDE DEF D, rank, Good
  <2> QED BY <1>1, <1>2, RankInduction
<1>4. 1 \in D /\ 1 + 1 = 2
  OBVIOUS
<1> QED BY <1>3, <1>4

(* The root of a number lies where it is looked for. *)
LEMMA RootExists ==
  ASSUME NEW square \in Nat
  PROVE  RootOf[square] \in Nat
<1> DEFINE Above == {r \in Nat : square < (r + 1) * (r + 1)}
<1>1. square \in Above
  OBVIOUS
<1>2. PICK r \in Above : \A m \in Above : r <= m
  <2>1. Above \in SUBSET Nat  OBVIOUS
  <2> HIDE DEF Above
  <2> QED BY <1>1, <2>1, LeastElement
<1>3. r \in Nat /\ square < (r + 1) * (r + 1)
  OBVIOUS
<1>4. r * r <= square
  <2>1. CASE r = 0
    BY <2>1
  <2>2. CASE r # 0
    <3> DEFINE m == r - 1
    <3>1. m \in Nat /\ m + 1 = r /\ ~(r <= m)
      BY <1>3, <2>2
    <3>2. m \notin Above
      <4> HIDE DEF m, Above
      <4> QED BY <1>2, <3>1
    <3>3. ~(square < (m + 1) * (m + 1))
      <4> HIDE DEF m
      <4> QED BY <3>1, <3>2
    <3>4. ~(square < r * r) /\ r * r \in Nat
      BY <1>3, <3>1, <3>3
    <3> QED BY <3>4
  <2> QED BY <2>1, <2>2
<1>5. r \in 0 .. 1000 + square \div 1000
  <2>1. CASE r <= 1000
    BY <1>3, <2>1
  <2>2. CASE r > 1000
    <3>1. r * 1000 <= r * r
      BY <1>3, <2>2
    <3>2. r * 1000 <= square
      <4>1. \A x, y \in Nat : r * 1000 <= x /\ x <= y => r * 1000 <= y  BY <1>3
      <4>2. r * r \in Nat  BY <1>3
      <4> QED BY <1>4, <3>1, <4>1, <4>2
    <3>3. r <= square \div 1000
      BY <1>3, <3>2
    <3> QED BY <1>3, <3>3
  <2> QED BY <1>3, <2>1, <2>2
<1>6. RootOf[square] \in 0 .. 1000 + square \div 1000
  <2> DEFINE Root == CHOOSE q \in 0 .. 1000 + square \div 1000 :
                       q * q <= square /\ square < (q + 1) * (q + 1)
  <2>1. Root \in 0 .. 1000 + square \div 1000
    <3> DEFINE Places == 0 .. 1000 + square \div 1000
               Is(q) == q * q <= square /\ square < (q + 1) * (q + 1)
    <3>1. r \in Places /\ Is(r)
      BY <1>3, <1>4, <1>5
    <3> HIDE DEF Places, Is
    <3>2. (CHOOSE q \in Places : Is(q)) \in Places
      BY <3>1, Zenon
    <3> QED BY <3>2 DEF Places, Is
  <2>2. RootOf[square] = Root
    BY DEF RootOf
  <2> QED BY <2>1, <2>2
<1> QED BY <1>6

(* The results of arithmetic are numbers. *)
LEMMA NotANumberIs == NotANumber = [n |-> 0, d |-> 0]
<1>1. Gcd[<<0, 0>>] = 0
  BY GcdOfZero
<1> QED BY <1>1 DEF NotANumber, Fraction, Size

LEMMA NotANumberType == NotANumber \in Numbers
BY NotANumberIs DEF Numbers

LEMMA NegateType ==
  ASSUME NEW v \in Numbers
  PROVE  Negate[v] \in Numbers /\ Negate[v] = Fraction[<<-(v.n), v.d>>]
<1>1. v.n \in Int /\ v.d \in Int /\ -(v.n) \in Int
  BY DEF Numbers
<1>2. Negate[v] = Fraction[<<-(v.n), v.d>>]
  BY DEF Negate
<1> QED BY <1>1, <1>2, FractionType

LEMMA PlusType ==
  ASSUME NEW v \in Numbers, NEW w \in Numbers
  PROVE  /\ Plus[<<v, w>>] \in Numbers
         /\ Plus[<<v, w>>] =
              IF v = NotANumber \/ w = NotANumber THEN NotANumber
              ELSE IF v.d = w.d THEN Fraction[<<v.n + w.n, v.d>>]
              ELSE Fraction[<<v.n * w.d + w.n * v.d, v.d * w.d>>]
<1>1. v.n \in Int /\ v.d \in Nat /\ w.n \in Int /\ w.d \in Nat
  BY DEF Numbers
<1>2. /\ v.n + w.n \in Int /\ v.n * w.d + w.n * v.d \in Int
      /\ v.d * w.d \in Int /\ v.d \in Int
  BY <1>1
<1>3. Plus[<<v, w>>] =
        IF v = NotANumber \/ w = NotANumber THEN NotANumber
        ELSE IF v.d = w.d THEN Fraction[<<v.n + w.n, v.d>>]
        ELSE Fraction[<<v.n * w.d + w.n * v.d, v.d * w.d>>]
  BY DEF Plus
<1> QED BY <1>2, <1>3, FractionType, NotANumberType

LEMMA TimesType ==
  ASSUME NEW v \in Numbers, NEW w \in Numbers
  PROVE  Times[<<v, w>>] \in Numbers
<1>1. v.n \in Int /\ v.d \in Nat /\ w.n \in Int /\ w.d \in Nat
  BY DEF Numbers
<1>2. v.n * w.n \in Int /\ v.d * w.d \in Int
  BY <1>1
<1>3. Times[<<v, w>>] = Fraction[<<v.n * w.n, v.d * w.d>>]
  BY DEF Times
<1> QED BY <1>2, <1>3, FractionType

LEMMA OverType ==
  ASSUME NEW v \in Numbers, NEW w \in Numbers
  PROVE  Over[<<v, w>>] \in Numbers
<1>1. v.n \in Int /\ v.d \in Nat /\ w.n \in Int /\ w.d \in Nat /\ Size(w.n) \in Int
  BY DEF Numbers, Size
<1>2. /\ -(v.n * w.d) \in Int /\ v.d * Size(w.n) \in Int
      /\ v.n * w.d \in Int /\ v.d * w.n \in Int
  BY <1>1
<1>3. Over[<<v, w>>] = IF w.n < 0 THEN Fraction[<<-(v.n * w.d), v.d * Size(w.n)>>]
                                  ELSE Fraction[<<v.n * w.d, v.d * w.n>>]
  BY DEF Over
<1> QED BY <1>2, <1>3, FractionType

LEMMA SquareRootType ==
  ASSUME NEW v \in Numbers
  PROVE  SquareRoot[v] \in Numbers
<1>1. v.n \in Int /\ v.d \in Nat
  BY DEF Numbers
<1> DEFINE square == (v.n * 1000 * 1000) \div v.d
           Body == CASE v.n < 0 \/ v = NotANumber -> NotANumber
                     [] v.n > 0 /\ ~IsFinite(v) -> v
                     [] v.n >= 0 /\ IsFinite(v) -> Fraction[<<RootOf[square], 1000>>]
<1>2. SquareRoot[v] = Body
  BY DEF SquareRoot
<1>3. v # NotANumber /\ v.n >= 0 /\ ~IsFinite(v) => v.n > 0
  <2>1. NotANumber = [n |-> 0, d |-> 0]
    BY NotANumberIs
  <2>2. v.n = 0 /\ v.d = 0 => v = [n |-> 0, d |-> 0]
    BY DEF Numbers
  <2> QED BY <1>1, <2>1, <2>2 DEF IsFinite
<1>4. v.n >= 0 /\ IsFinite(v) => Fraction[<<RootOf[square], 1000>>] \in Numbers
  <2> SUFFICES ASSUME v.n >= 0, IsFinite(v) PROVE Fraction[<<RootOf[square], 1000>>] \in Numbers
    OBVIOUS
  <2>1. square \in Nat
    <3>1. v.n * 1000 * 1000 \in Nat /\ v.d \in Nat /\ v.d > 0
      BY <1>1 DEF IsFinite
    <3>2. \A x, y \in Nat : y > 0 => x \div y \in Nat
      OBVIOUS
    <3> QED BY <3>1, <3>2
  <2> HIDE DEF square
  <2>2. RootOf[square] \in Int
    BY <2>1, RootExists
  <2> QED BY <2>2, FractionType
<1> HIDE DEF square
<1>5. CASE v.n < 0 \/ v = NotANumber
  <2>1. ~(v.n > 0 /\ ~IsFinite(v)) \/ v = NotANumber
    BY <1>1, <1>5
  <2>2. ~(v.n >= 0 /\ IsFinite(v))
    <3>1. v = NotANumber => ~IsFinite(v)
      BY NotANumberIs DEF IsFinite
    <3> QED BY <1>1, <1>5, <3>1
  <2>3. Body \in {NotANumber, v}
    BY <1>5, <2>1, <2>2
  <2> QED BY <1>2, <2>3, NotANumberType
<1>6. CASE ~(v.n < 0 \/ v = NotANumber)
  <2>1. v.n >= 0
    BY <1>1, <1>6
  <2>2. CASE IsFinite(v)
    <3>1. Body = Fraction[<<RootOf[square], 1000>>]
      BY <1>6, <2>1, <2>2
    <3> QED BY <1>2, <1>4, <2>1, <2>2, <3>1
  <2>3. CASE ~IsFinite(v)
    <3>1. Body = v
      BY <1>3, <1>6, <2>1, <2>3
    <3> QED BY <1>2, <3>1
  <2> QED BY <2>2, <2>3
<1> QED BY <1>5, <1>6

-----------------------------------------------------------------------------
(* The values of trees and their symbols, by recursion over their height.   *)

IsPoint(point) == \A n \in DOMAIN point : point[n] \in Numbers

LEMMA ConstantType ==
  ASSUME NEW name \in {"pi", "e"}
  PROVE  Constant(name) \in Numbers
<1>1. /\ name = "pi" => Constant(name) = Fraction[<<3142, 1000>>]
      /\ name = "e" => Constant(name) = Fraction[<<2718, 1000>>]
  BY DEF Constant
<1> QED BY <1>1, FractionType

(* The value of a node is a number and follows from those of its parts. *)
LEMMA ArgumentsAreParts ==
  ASSUME NEW t \in Terms
  PROVE  /\ Len(t.args) \in {1, 2} => t.args[1] \in PartsOf(t) /\ t.args[1] \in Terms
         /\ Len(t.args) = 2 => t.args[2] \in PartsOf(t) /\ t.args[2] \in Terms
<1>1. t.args \in Seq(Terms)
  BY SamplingAssumption
<1>2. DOMAIN t.args = 1 .. Len(t.args)
  BY <1>1
<1>3. \A k \in 1 .. Len(t.args) : t.args[k] \in PartsOf(t)
  BY <1>2 DEF PartsOf
<1>4. PartsOf(t) \subseteq Terms
  BY SamplingAssumption
<1> QED BY <1>3, <1>4

LEMMA NodeType ==
  ASSUME NEW f \in [Terms -> Numbers], NEW t \in Terms, NEW point, IsPoint(point)
  PROVE  ValueBy(f, t, point) \in Numbers
<1> DEFINE a == f[t.args[1]]
           b == f[t.args[2]]
<1>1. Len(t.args) \in {1, 2} => a \in Numbers
  BY ArgumentsAreParts
<1>2. Len(t.args) = 2 => b \in Numbers
  BY ArgumentsAreParts
<1>3. /\ Unary(t, "neg") => Negate[a] \in Numbers
      /\ Unary(t, "sqrt") => SquareRoot[a] \in Numbers
      /\ Binary(t, "+") => Plus[<<a, b>>] \in Numbers
      /\ Binary(t, "-") => Plus[<<a, Negate[b]>>] \in Numbers
      /\ Binary(t, "*") => Times[<<a, b>>] \in Numbers
      /\ Binary(t, "/") => Over[<<a, b>>] \in Numbers
  <2> HIDE DEF a, b
  <2> QED BY <1>1, <1>2, NegateType, SquareRootType, PlusType, TimesType, OverType
          DEF Unary, Binary
<1>4. t.tag = "Int" => Fraction[<<IntOf(t.text), 1>>] \in Numbers
  <2>1. t.tag = "Int" => IntOf(t.text) \in Int
    BY SamplingAssumption DEF IntOf
  <2> QED BY <2>1, FractionType
<1>5. /\ t.text \in {"pi", "e"} => Constant(t.text) \in Numbers
      /\ t.text \in DOMAIN point \ {"pi", "e"} => point[t.text] \in Numbers
  BY ConstantType DEF IsPoint
<1>6. NotANumber \in Numbers
  BY NotANumberType
<1> QED BY <1>3, <1>4, <1>5, <1>6, Zenon DEF ValueBy

LEMMA NodeIsLocal ==
  ASSUME NEW f, NEW g, NEW t \in Terms, NEW point,
         \A u \in PartsOf(t) : f[u] = g[u]
  PROVE  ValueBy(f, t, point) = ValueBy(g, t, point)
<1>1. /\ Len(t.args) \in {1, 2} => f[t.args[1]] = g[t.args[1]]
      /\ Len(t.args) = 2 => f[t.args[2]] = g[t.args[2]]
  BY ArgumentsAreParts
<1>2. /\ Unary(t, "neg") => f[t.args[1]] = g[t.args[1]]
      /\ Unary(t, "sqrt") => f[t.args[1]] = g[t.args[1]]
      /\ \A op : Binary(t, op) => f[t.args[1]] = g[t.args[1]] /\ f[t.args[2]] = g[t.args[2]]
  BY <1>1 DEF Unary, Binary
<1> QED BY <1>2 DEF ValueBy

LEMMA ValueUnfolds ==
  ASSUME NEW bound, NEW height, AreHeights(height, bound),
         NEW point, IsPoint(point), NEW tree \in Terms
  PROVE  ValueAt(tree, point) \in Numbers
         /\ \E f \in [Terms -> Numbers] : ValueAt(tree, point) = ValueBy(f, tree, point)
<1> DEFINE S == Numbers
           step == [t \in Terms |-> [f \in [Terms -> S] |-> ValueBy(f, t, point)]]
<1>1. S # {}
  BY NotANumberType
<1>2. bound \in Nat /\ height \in [Terms -> 0 .. bound]
  BY DEF AreHeights
<1>3. step \in [Terms -> [[Terms -> S] -> S]]
  BY NodeType
<1>4. ASSUME NEW t \in Terms, NEW f \in [Terms -> S], NEW g \in [Terms -> S],
             \A u \in Terms : height[u] < height[t] => f[u] = g[u]
      PROVE  step[t][f] = step[t][g]
  <2>1. \A u \in PartsOf(t) : u \in Terms /\ height[u] < height[t]
    BY SamplingAssumption DEF AreHeights
  <2>2. ValueBy(f, t, point) = ValueBy(g, t, point)
    BY <1>4, <2>1, NodeIsLocal
  <2> HIDE DEF S
  <2> QED BY <2>2
<1>5. PICK h \in [Terms -> S] : \A t \in Terms : h[t] = step[t][h]
  <2> HIDE DEF S, step
  <2>1. LooksDown(Terms, S, bound, height, step)
    BY <1>1, <1>2, <1>3, <1>4 DEF LooksDown
  <2> QED BY <2>1, Recursion
<1> DEFINE Found == CHOOSE f : f = [t \in Terms |-> ValueBy(f, t, point)]
<1>6. h = [t \in Terms |-> ValueBy(h, t, point)]
  <2> HIDE DEF S
  <2> QED BY <1>5
<1>7. Found = [t \in Terms |-> ValueBy(Found, t, point)]
  BY <1>6, Zenon
<1>8. ValueAt(tree, point) = Found[tree]
  BY Zenon DEF ValueAt
<1> DEFINE Good == {t \in Terms : Found[t] = h[t]}
<1> HIDE DEF Found
<1>9. ASSUME NEW t \in Terms, \A u \in Terms : height[u] < height[t] => u \in Good
      PROVE  t \in Good
  <2>1. \A u \in PartsOf(t) : u \in Terms /\ height[u] < height[t]
    BY SamplingAssumption DEF AreHeights
  <2>2. \A u \in PartsOf(t) : Found[u] = h[u]
    BY <1>9, <2>1
  <2>3. ValueBy(Found, t, point) = ValueBy(h, t, point)
    BY <2>2, NodeIsLocal
  <2>4. Found[t] = ValueBy(Found, t, point) /\ h[t] = ValueBy(h, t, point)
    <3> HIDE DEF S
    <3> QED BY <1>6, <1>7
  <2> QED BY <2>3, <2>4
<1>10. \A t \in Terms : t \in Good
  <2> HIDE DEF Good
  <2>1. height \in [Terms -> Nat]
    BY <1>2
  <2> QED BY <1>9, <2>1, RankInduction
<1>11. Found[tree] = h[tree] /\ h[tree] \in Numbers /\ h[tree] = ValueBy(h, tree, point)
  <2>1. h[tree] = ValueBy(h, tree, point)
    <3> HIDE DEF S
    <3> QED BY <1>6
  <2> QED BY <1>10, <2>1
<1> QED BY <1>8, <1>11

(* The value of a symbol is its own at the point, or that of its constant. *)
LEMMA SymbolValue ==
  ASSUME NEW bound, NEW height, AreHeights(height, bound),
         NEW point, IsPoint(point), NEW t \in Terms, t.tag = "Sym"
  PROVE  /\ t.text \in {"pi", "e"} => ValueAt(t, point) = Constant(t.text)
         /\ t.text \in DOMAIN point \ {"pi", "e"} => ValueAt(t, point) = point[t.text]
<1>1. PICK f \in [Terms -> Numbers] : ValueAt(t, point) = ValueBy(f, t, point)
  BY ValueUnfolds
<1>2. /\ t.text \in {"pi", "e"} => ValueBy(f, t, point) = Constant(t.text)
      /\ t.text \in DOMAIN point \ {"pi", "e"} => ValueBy(f, t, point) = point[t.text]
  BY DEF ValueBy, Unary, Binary, IsCompound
<1> QED BY <1>1, <1>2

(* The symbols of a symbol. *)
SymbolsBy(f, t) ==
  IF t.tag = "Sym" THEN {t.text} \ {"pi", "e"} ELSE UNION {f[u] : u \in PartsOf(t)}

LEMMA SymbolsOfASymbol ==
  ASSUME NEW bound, NEW height, AreHeights(height, bound), NEW t \in Terms, t.tag = "Sym"
  PROVE  Symbols[t] = {t.text} \ {"pi", "e"}
<1> DEFINE Texts == UNION {{u.text} : u \in Terms}
           S == SUBSET Texts
           step == [u \in Terms |-> [f \in [Terms -> S] |-> SymbolsBy(f, u)]]
<1>1. S # {}
  OBVIOUS
<1>2. bound \in Nat /\ height \in [Terms -> 0 .. bound]
  BY DEF AreHeights
<1>3. step \in [Terms -> [[Terms -> S] -> S]]
  <2>1. ASSUME NEW f \in [Terms -> S], NEW u \in Terms PROVE SymbolsBy(f, u) \in S
    <3>1. PartsOf(u) \subseteq Terms
      BY SamplingAssumption
    <3>2. u.text \in Texts
      OBVIOUS
    <3> HIDE DEF Texts
    <3>3. CASE u.tag = "Sym"
      BY <3>2, <3>3 DEF SymbolsBy
    <3>4. CASE u.tag # "Sym"
      <4>1. \A v \in PartsOf(u) : f[v] \subseteq Texts
        BY <3>1
      <4>2. UNION {f[v] : v \in PartsOf(u)} \subseteq Texts
        BY <4>1
      <4> QED BY <3>4, <4>2 DEF SymbolsBy
    <3> QED BY <3>3, <3>4
  <2> HIDE DEF S
  <2> QED BY <2>1
<1>4. ASSUME NEW u \in Terms, NEW f \in [Terms -> S], NEW g \in [Terms -> S],
             \A v \in Terms : height[v] < height[u] => f[v] = g[v]
      PROVE  step[u][f] = step[u][g]
  <2>1. \A v \in PartsOf(u) : v \in Terms /\ height[v] < height[u]
    BY SamplingAssumption DEF AreHeights
  <2>2. \A v \in PartsOf(u) : f[v] = g[v]
    BY <1>4, <2>1
  <2>3. {f[v] : v \in PartsOf(u)} = {g[v] : v \in PartsOf(u)}
    BY <2>2
  <2>4. SymbolsBy(f, u) = SymbolsBy(g, u)
    BY <2>3, Zenon DEF SymbolsBy
  <2> HIDE DEF S
  <2> QED BY <2>4
<1>5. PICK h \in [Terms -> S] : \A u \in Terms : h[u] = step[u][h]
  <2> HIDE DEF S, step
  <2>1. LooksDown(Terms, S, bound, height, step)
    BY <1>1, <1>2, <1>3, <1>4 DEF LooksDown
  <2> QED BY <2>1, Recursion
<1>6. h = [u \in Terms |-> SymbolsBy(h, u)]
  <2> HIDE DEF S
  <2> QED BY <1>5
<1>7. Symbols = CHOOSE f : f = [u \in Terms |-> SymbolsBy(f, u)]
  BY Zenon DEF Symbols, SymbolsBy
<1>8. Symbols = [u \in Terms |-> SymbolsBy(Symbols, u)]
  BY <1>6, <1>7, Zenon
<1>9. Symbols[t] = SymbolsBy(Symbols, t)
  BY <1>8
<1> QED BY <1>9 DEF SymbolsBy

-----------------------------------------------------------------------------
(* The first sample: the numbers symbols may have there, and their gaps.    *)

LEMMA DivideBack ==
  ASSUME NEW a \in Int, NEW g \in Nat, g # 0
  PROVE  (a * g) \div g = a
<1> DEFINE q == (a * g) \div g
<1>0. a * g \in Int /\ g > 0
  OBVIOUS
<1>1. \A k, m \in Int : m > 0 => /\ k \div m \in Int
                                 /\ m * (k \div m) <= k
                                 /\ k < m * (k \div m) + m
  OBVIOUS
<1>2. q \in Int /\ g * q <= a * g /\ a * g < g * q + g
  <2> HIDE DEF q
  <2>1. \A k, m \in Int : k = a * g /\ m = g /\ q = k \div m =>
          q \in Int /\ m * q <= k /\ k < m * q + m
    BY <1>0, <1>1
  <2> QED BY <1>0, <2>1 DEF q
<1> HIDE DEF q
<1>3. ~(q > a)
  <2>1. q >= a + 1 => g * q >= g * (a + 1)
    BY <1>0, <1>2
  <2> QED BY <1>0, <1>2, <2>1
<1>4. ~(q < a)
  <2>1. q + 1 <= a => g * (q + 1) <= g * a
    BY <1>0, <1>2
  <2> QED BY <1>0, <1>2, <2>1
<1> QED BY <1>2, <1>3, <1>4 DEF q

(* The value of a fraction whose divisor is known. *)
LEMMA Reduced ==
  ASSUME NEW n \in Int, NEW d \in Nat, NEW g \in Nat, g # 0,
         NEW a \in Int, NEW b \in Nat, n = a * g, d = b * g,
         Gcd[<<Size(n), d>>] = g
  PROVE  Fraction[<<n, d>>] = [n |-> a, d |-> b]
<1>1. (a * g) \div g = a /\ (b * g) \div g = b
  BY DivideBack
<1>2. n \div g = a /\ d \div g = b
  BY <1>1
<1>3. ~(d < 0) /\ Size(d) = d
  BY DEF Size
<1>4. Fraction[<<n, d>>] = [n |-> n \div g, d |-> d \div g]
  BY <1>3 DEF Fraction
<1> QED BY <1>2, <1>4

LEMMA Gcds ==
  /\ Gcd[<<3142, 1000>>] = 2
  /\ Gcd[<<2718, 1000>>] = 2
  /\ Gcd[<<889, 1000>>] = 1
  /\ Gcd[<<852, 1000>>] = 4
<1>1. Gcd[<<3142, 1000>>] = 2
  <2> DEFINE s == <<3142, 1000, 142, 6, 4, 2, 0>>
  <2>1. Remainders(s, 7)  BY DEF Remainders
  <2> QED BY <2>1, Euclid
<1>2. Gcd[<<2718, 1000>>] = 2
  <2> DEFINE s == <<2718, 1000, 718, 282, 154, 128, 26, 24, 2, 0>>
  <2>1. Remainders(s, 10)  BY DEF Remainders
  <2> QED BY <2>1, Euclid
<1>3. Gcd[<<889, 1000>>] = 1
  <2> DEFINE s == <<889, 1000, 889, 111, 1, 0>>
  <2>1. Remainders(s, 6)  BY DEF Remainders
  <2> QED BY <2>1, Euclid
<1>4. Gcd[<<852, 1000>>] = 4
  <2> DEFINE s == <<852, 1000, 852, 148, 112, 36, 4, 0>>
  <2>1. Remainders(s, 8)  BY DEF Remainders
  <2> QED BY <2>1, Euclid
<1> QED BY <1>1, <1>2, <1>3, <1>4

Number(n, d) == [n |-> n, d |-> d]

LEMMA FirstValues ==
  /\ Constant("pi") = Number(1571, 500)
  /\ Constant("e") = Number(1359, 500)
  /\ Fraction[<<SampleValue(0, 0), 1000>>] = Number(-889, 1000)
  /\ Fraction[<<SampleValue(0, 1), 1000>>] = Number(-213, 250)
<1>1. Constant("pi") = Number(1571, 500)
  <2>1. Constant("pi") = Fraction[<<3142, 1000>>]  BY DEF Constant
  <2>2. Size(3142) = 3142 /\ 3142 = 1571 * 2 /\ 1000 = 500 * 2  BY DEF Size
  <2>3. Fraction[<<3142, 1000>>] = [n |-> 1571, d |-> 500]
    BY <2>2, Gcds, Reduced
  <2> QED BY <2>1, <2>3 DEF Number
<1>2. Constant("e") = Number(1359, 500)
  <2>1. Constant("e") = Fraction[<<2718, 1000>>]  BY DEF Constant
  <2>2. Size(2718) = 2718 /\ 2718 = 1359 * 2 /\ 1000 = 500 * 2  BY DEF Size
  <2>3. Fraction[<<2718, 1000>>] = [n |-> 1359, d |-> 500]
    BY <2>2, Gcds, Reduced
  <2> QED BY <2>1, <2>3 DEF Number
<1>3. Fraction[<<SampleValue(0, 0), 1000>>] = Number(-889, 1000)
  <2>1. SampleValue(0, 0) = -889  BY DEF SampleValue
  <2> DEFINE n == -889
  <2>2. n \in Int /\ n < 0 /\ 889 + n = 0
    OBVIOUS
  <2>5. n = (-889) * 1 /\ 1000 = 1000 * 1
    OBVIOUS
  <2> HIDE DEF n
  <2>4. Size(n) = 889
    BY <2>2 DEF Size
  <2>3. Fraction[<<n, 1000>>] = [n |-> -889, d |-> 1000]
    BY <2>2, <2>4, <2>5, Gcds, Reduced
  <2> QED BY <2>1, <2>3 DEF Number, n
<1>4. Fraction[<<SampleValue(0, 1), 1000>>] = Number(-213, 250)
  <2>1. SampleValue(0, 1) = -852  BY DEF SampleValue
  <2> DEFINE n == -852
  <2>2. n \in Int /\ n < 0 /\ 852 + n = 0
    OBVIOUS
  <2>5. n = (-213) * 4 /\ 1000 = 250 * 4
    OBVIOUS
  <2> HIDE DEF n
  <2>4. Size(n) = 852
    BY <2>2 DEF Size
  <2>3. Fraction[<<n, 1000>>] = [n |-> -213, d |-> 250]
    BY <2>2, <2>4, <2>5, Gcds, Reduced
  <2> QED BY <2>1, <2>3 DEF Number, n
<1> QED BY <1>1, <1>2, <1>3, <1>4

(* The values at the first sample are in lowest terms. *)
LEMMA LowestTerms ==
  /\ Gcd[<<1571, 500>>] = 1
  /\ Gcd[<<1359, 500>>] = 1
  /\ Gcd[<<213, 250>>] = 1
  /\ Gcd[<<889, 1000>>] = 1
<1>1. Gcd[<<1571, 500>>] = 1
  <2> DEFINE s == <<1571, 500, 71, 3, 2, 1, 0>>
  <2>1. Remainders(s, 7)  BY DEF Remainders
  <2> QED BY <2>1, Euclid
<1>2. Gcd[<<1359, 500>>] = 1
  <2> DEFINE s == <<1359, 500, 359, 141, 77, 64, 13, 12, 1, 0>>
  <2>1. Remainders(s, 10)  BY DEF Remainders
  <2> QED BY <2>1, Euclid
<1>3. Gcd[<<213, 250>>] = 1
  <2> DEFINE s == <<213, 250, 213, 37, 28, 9, 1, 0>>
  <2>1. Remainders(s, 8)  BY DEF Remainders
  <2> QED BY <2>1, Euclid
<1>4. Gcd[<<889, 1000>>] = 1
  <2> DEFINE s == <<889, 1000, 889, 111, 1, 0>>
  <2>1. Remainders(s, 6)  BY DEF Remainders
  <2> QED BY <2>1, Euclid
<1> QED BY <1>1, <1>2, <1>3, <1>4

(* So are, after reduction, the gaps between them. *)
LEMMA GapsReduce ==
  /\ Gcd[<<212, 500>>] = 4
  /\ Gcd[<<499 * 1000 + 250, 125 * 1000>>] = 250
  /\ Gcd[<<2015 * 1000 + 500, 500 * 1000>>] = 500
  /\ Gcd[<<446 * 1000 + 250, 125 * 1000>>] = 1250
  /\ Gcd[<<1803 * 1000 + 500, 500 * 1000>>] = 500
  /\ Gcd[<<9250, 250 * 1000>>] = 250
<1>1. Gcd[<<212, 500>>] = 4
  <2> DEFINE s == <<212, 500, 212, 76, 60, 16, 12, 4, 0>>
  <2>1. Remainders(s, 9)  BY DEF Remainders
  <2> QED BY <2>1, Euclid
<1>2. Gcd[<<499 * 1000 + 250, 125 * 1000>>] = 250
  <2> DEFINE s == <<499 * 1000 + 250, 125 * 1000, 124 * 1000 + 250, 750, 500, 250, 0>>
  <2>1. Remainders(s, 7)  BY DEF Remainders
  <2> QED BY <2>1, Euclid
<1>3. Gcd[<<2015 * 1000 + 500, 500 * 1000>>] = 500
  <2> DEFINE s == <<2015 * 1000 + 500, 500 * 1000, 15 * 1000 + 500, 4000, 3500, 500, 0>>
  <2>1. Remainders(s, 7)  BY DEF Remainders
  <2> QED BY <2>1, Euclid
<1>4. Gcd[<<446 * 1000 + 250, 125 * 1000>>] = 1250
  <2> DEFINE s == <<446 * 1000 + 250, 125 * 1000, 71 * 1000 + 250, 53 * 1000 + 750, 17 * 1000 + 500, 1250, 0>>
  <2>1. Remainders(s, 7)  BY DEF Remainders
  <2> QED BY <2>1, Euclid
<1>5. Gcd[<<1803 * 1000 + 500, 500 * 1000>>] = 500
  <2> DEFINE s == <<1803 * 1000 + 500, 500 * 1000, 303 * 1000 + 500, 196 * 1000 + 500, 107 * 1000, 89 * 1000 + 500, 17 * 1000 + 500, 2000, 1500, 500, 0>>
  <2>1. Remainders(s, 11)  BY DEF Remainders
  <2> QED BY <2>1, Euclid
<1>6. Gcd[<<9250, 250 * 1000>>] = 250
  <2> DEFINE s == <<9250, 250 * 1000, 9250, 250, 0>>
  <2>1. Remainders(s, 5)  BY DEF Remainders
  <2> QED BY <2>1, Euclid
<1> QED BY <1>1, <1>2, <1>3, <1>4, <1>5, <1>6

(* Fractions: one in lowest terms, the difference of two, and one with its *)
(* divisor and what it is in lowest terms.                                  *)
IsLowest(n, d) == n \in Int /\ d \in Nat /\ d # 0 /\ Gcd[<<Size(n), d>>] = 1

IsGap(vn, vd, wn, wd, n, d) ==
  IF vd = wd THEN n = vn - wn /\ d = vd ELSE n = vn * wd - wn * vd /\ d = vd * wd

Reduces(n, d, g, a, b) ==
  /\ n \in Int /\ d \in Nat /\ g \in Nat /\ a \in Nat /\ b \in Nat
  /\ g # 0 /\ b # 0
  /\ Size(n) = a * g /\ d = b * g
  /\ Gcd[<<Size(n), d>>] = g

(* A difference, its sign aside, is above any tolerance below 37.  *)
LEMMA Spread ==
  ASSUME NEW n, NEW d, NEW g, NEW a, NEW b, Reduces(n, d, g, a, b),
         37 * b <= 1000 * a, NEW tol \in Nat, tol < 37
  PROVE  LET gap == Fraction[<<n, d>>] IN
           Size(gap.n) > (tol * gap.d) \div 1000
<1> USE DEF Reduces
<1>1. (tol * b) \div 1000 < a
  <2>1. tol * b <= 36 * b
    <3>1. \A x, y, z \in Nat : x <= y => x * z <= y * z  OBVIOUS
    <3> QED BY <3>1
  <2>2. tol * b \in Nat
    OBVIOUS
  <2> DEFINE m == tol * b
  <2>3. m \in Nat /\ m < 1000 * a
    BY <2>1, <2>2
  <2> HIDE DEF m
  <2>4. m \div 1000 < a
    BY <2>3
  <2> QED BY <2>4 DEF m
<1>2. CASE n < 0
  <2> DEFINE c == 0 - a
  <2>1. c \in Int /\ n = c * g
    BY <1>2 DEF Size
  <2> HIDE DEF c
  <2>2. Fraction[<<n, d>>] = [n |-> c, d |-> b]
    BY <2>1, Reduced
  <2>3. Size(c) = a
    BY DEF Size, c
  <2> QED BY <1>1, <2>2, <2>3
<1>3. CASE ~(n < 0)
  <2>1. n = a * g
    BY <1>3 DEF Size
  <2>2. Fraction[<<n, d>>] = [n |-> a, d |-> b]
    BY <2>1, Reduced
  <2>3. Size(a) = a
    BY DEF Size
  <2> QED BY <1>1, <2>2, <2>3
<1> QED BY <1>2, <1>3

LEMMA NumberType ==
  ASSUME NEW n \in Int, NEW d \in Nat
  PROVE  Number(n, d) \in Numbers /\ Number(n, d).n = n /\ Number(n, d).d = d
BY DEF Number, Numbers

(* The difference of two finite numbers in lowest terms. *)
LEMMA Difference ==
  ASSUME NEW vn, NEW vd, NEW wn, NEW wd, IsLowest(vn, vd), IsLowest(wn, wd),
         NEW n, NEW d, IsGap(vn, vd, wn, wd, n, d)
  PROVE  Plus[<<Number(vn, vd), Negate[Number(wn, wd)]>>] = Fraction[<<n, d>>]
<1> USE DEF IsLowest
<1> DEFINE m == -wn
<1>1. m \in Int /\ Size(m) = Size(wn) /\ m = 0 - wn
  BY DEF Size
<1>2. Negate[Number(wn, wd)] = Fraction[<<m, wd>>]
  BY NumberType, NegateType
<1> HIDE DEF m
<1>3. Fraction[<<m, wd>>] = [n |-> m, d |-> wd]
  BY <1>1, Reduced
<1>4. Negate[Number(wn, wd)] = Number(m, wd)
  BY <1>2, <1>3 DEF Number
<1>5. Number(vn, vd) # NotANumber /\ Number(m, wd) # NotANumber
  BY NotANumberIs DEF Number
<1>6. Plus[<<Number(vn, vd), Number(m, wd)>>] =
        IF vd = wd THEN Fraction[<<vn + m, vd>>]
                   ELSE Fraction[<<vn * wd + m * vd, vd * wd>>]
  <2> DEFINE v == Number(vn, vd)
             w == Number(m, wd)
  <2>1. /\ v \in Numbers /\ v.n = vn /\ v.d = vd /\ v # NotANumber
        /\ w \in Numbers /\ w.n = m /\ w.d = wd /\ w # NotANumber
    BY <1>1, <1>5, NumberType
  <2> HIDE DEF v, w
  <2>2. Plus[<<v, w>>] =
          IF v = NotANumber \/ w = NotANumber THEN NotANumber
          ELSE IF v.d = w.d THEN Fraction[<<v.n + w.n, v.d>>]
          ELSE Fraction[<<v.n * w.d + w.n * v.d, v.d * w.d>>]
    BY <2>1, PlusType
  <2>3. Plus[<<v, w>>] = IF vd = wd THEN Fraction[<<vn + m, vd>>]
                                    ELSE Fraction[<<vn * wd + m * vd, vd * wd>>]
    BY <2>1, <2>2
  <2> QED BY <2>3 DEF v, w
<1>7. vn + m = vn - wn /\ vn * wd + m * vd = vn * wd - wn * vd
  <2>1. m * vd = 0 - wn * vd
    BY <1>1
  <2>2. wn * vd \in Int /\ vn * wd \in Int
    OBVIOUS
  <2> QED BY <1>1, <2>1, <2>2
<1> QED BY <1>4, <1>6, <1>7 DEF IsGap

(* Two numbers whose difference is at least 37 thousandths differ. *)
LEMMA FarApart ==
  ASSUME NEW vn, NEW vd, NEW wn, NEW wd, IsLowest(vn, vd), IsLowest(wn, wd),
         NEW n, NEW d, NEW g, NEW a, NEW b,
         IsGap(vn, vd, wn, wd, n, d), Reduces(n, d, g, a, b), 37 * b <= 1000 * a,
         NEW tol \in Nat, tol < 37
  PROVE  /\ Differ(Number(vn, vd), Number(wn, wd), tol)
         /\ Differ(Number(wn, wd), Number(vn, vd), tol)
<1>1. Plus[<<Number(vn, vd), Negate[Number(wn, wd)]>>] = Fraction[<<n, d>>]
  BY Difference
<1>2. PICK m : m = 0 - n
  OBVIOUS
<1>3. IsGap(wn, wd, vn, vd, m, d)
  <2>1. /\ vn \in Int /\ vd \in Int /\ wn \in Int /\ wd \in Int
        /\ wn * vd \in Int /\ vn * wd \in Int /\ vd * wd = wd * vd
    BY DEF IsLowest
  <2> QED BY <1>2, <2>1 DEF IsGap
<1>4. Plus[<<Number(wn, wd), Negate[Number(vn, vd)]>>] = Fraction[<<m, d>>]
  BY <1>3, Difference
<1>5. Reduces(m, d, g, a, b)
  <2>1. m \in Int /\ Size(m) = Size(n)
    BY <1>2 DEF Reduces, Size
  <2> QED BY <2>1 DEF Reduces
<1>6. Size(Fraction[<<n, d>>].n) > (tol * Fraction[<<n, d>>].d) \div 1000
  BY Spread
<1>7. Size(Fraction[<<m, d>>].n) > (tol * Fraction[<<m, d>>].d) \div 1000
  BY <1>5, Spread
<1> QED BY <1>1, <1>4, <1>6, <1>7 DEF Differ

(* The values of symbols at the first sample. *)
FirstNumbers == {Number(1571, 500), Number(1359, 500), Number(-213, 250), Number(-889, 1000)}

LEMMA FirstNumbersDiffer ==
  ASSUME NEW v \in FirstNumbers, NEW w \in FirstNumbers, v # w, NEW tol \in Nat, tol < 37
  PROVE  Differ(v, w, tol)
<1> DEFINE Both(x, y) == Differ(x, y, tol) /\ Differ(y, x, tol)
           third == -213
           fourth == -889
<1>1. third \in Int /\ third = 0 - 213 /\ fourth \in Int /\ fourth = 0 - 889
  OBVIOUS
<1> HIDE DEF third, fourth
<1>2. Size(1571) = 1571 /\ Size(1359) = 1359
  BY DEF Size
<1>3. Size(third) = 213 /\ Size(fourth) = 889
  <2>1. \A n \in Int : n < 0 => Size(n) = 0 - n
    BY DEF Size
  <2> QED BY <1>1, <2>1
<1> DEFINE Lowest == /\ IsLowest(1571, 500) /\ IsLowest(1359, 500)
                     /\ IsLowest(third, 250) /\ IsLowest(fourth, 1000)
<1>0. Lowest
  BY <1>1, <1>2, <1>3, LowestTerms DEF IsLowest
<1>4. Both(Number(1571, 500), Number(1359, 500))
  <2> DEFINE n == 212
             d == 500
  <2>1. n \in Nat /\ d \in Nat /\ n = 53 * 4 /\ d = 125 * 4
    OBVIOUS
  <2>2. Gcd[<<n, d>>] = 4
    BY GapsReduce
  <2>3. IsGap(1571, 500, 1359, 500, n, d)
    BY <1>1 DEF IsGap
  <2> HIDE DEF n, d
  <2>4. Reduces(n, d, 4, 53, 125)
    BY <2>1, <2>2 DEF Reduces, Size
  <2> QED BY <1>0, <2>3, <2>4, FarApart
<1>5. Both(Number(1571, 500), Number(third, 250))
  <2> DEFINE n == 499 * 1000 + 250
             d == 125 * 1000
  <2>1. n \in Nat /\ d \in Nat /\ n = 1997 * 250 /\ d = 500 * 250
    OBVIOUS
  <2>2. Gcd[<<n, d>>] = 250
    BY GapsReduce
  <2>3. IsGap(1571, 500, third, 250, n, d)
    BY <1>1 DEF IsGap
  <2> HIDE DEF n, d
  <2>4. Reduces(n, d, 250, 1997, 500)
    BY <2>1, <2>2 DEF Reduces, Size
  <2> QED BY <1>0, <2>3, <2>4, FarApart
<1>6. Both(Number(1571, 500), Number(fourth, 1000))
  <2> DEFINE n == 2015 * 1000 + 500
             d == 500 * 1000
  <2>1. n \in Nat /\ d \in Nat /\ n = 4031 * 500 /\ d = 1000 * 500
    OBVIOUS
  <2>2. Gcd[<<n, d>>] = 500
    BY GapsReduce
  <2>3. IsGap(1571, 500, fourth, 1000, n, d)
    BY <1>1 DEF IsGap
  <2> HIDE DEF n, d
  <2>4. Reduces(n, d, 500, 4031, 1000)
    BY <2>1, <2>2 DEF Reduces, Size
  <2> QED BY <1>0, <2>3, <2>4, FarApart
<1>7. Both(Number(1359, 500), Number(third, 250))
  <2> DEFINE n == 446 * 1000 + 250
             d == 125 * 1000
  <2>1. n \in Nat /\ d \in Nat /\ n = 357 * 1250 /\ d = 100 * 1250
    OBVIOUS
  <2>2. Gcd[<<n, d>>] = 1250
    BY GapsReduce
  <2>3. IsGap(1359, 500, third, 250, n, d)
    BY <1>1 DEF IsGap
  <2> HIDE DEF n, d
  <2>4. Reduces(n, d, 1250, 357, 100)
    BY <2>1, <2>2 DEF Reduces, Size
  <2> QED BY <1>0, <2>3, <2>4, FarApart
<1>8. Both(Number(1359, 500), Number(fourth, 1000))
  <2> DEFINE n == 1803 * 1000 + 500
             d == 500 * 1000
  <2>1. n \in Nat /\ d \in Nat /\ n = 3607 * 500 /\ d = 1000 * 500
    OBVIOUS
  <2>2. Gcd[<<n, d>>] = 500
    BY GapsReduce
  <2>3. IsGap(1359, 500, fourth, 1000, n, d)
    BY <1>1 DEF IsGap
  <2> HIDE DEF n, d
  <2>4. Reduces(n, d, 500, 3607, 1000)
    BY <2>1, <2>2 DEF Reduces, Size
  <2> QED BY <1>0, <2>3, <2>4, FarApart
<1>9. Both(Number(third, 250), Number(fourth, 1000))
  <2> DEFINE n == 9250
             d == 250 * 1000
  <2>1. n \in Nat /\ d \in Nat /\ n = 37 * 250 /\ d = 1000 * 250
    OBVIOUS
  <2>2. Gcd[<<n, d>>] = 250
    BY GapsReduce
  <2>3. IsGap(third, 250, fourth, 1000, n, d)
    BY <1>1 DEF IsGap
  <2> HIDE DEF n, d
  <2>4. Reduces(n, d, 250, 37, 1000)
    BY <2>1, <2>2 DEF Reduces, Size
  <2> QED BY <1>0, <2>3, <2>4, FarApart
<1>10. FirstNumbers = {Number(1571, 500), Number(1359, 500), Number(third, 250), Number(fourth, 1000)}
  BY DEF FirstNumbers, third, fourth
<1> QED BY <1>4, <1>5, <1>6, <1>7, <1>8, <1>9, <1>10

-----------------------------------------------------------------------------
(* Different symbols have different numbers at the first sample.            *)

(* A symbol has a place of its own. *)
LEMMA PlaceOfASymbol ==
  ASSUME NEW t \in Terms, t.tag = "Sym"
  PROVE  Place(t.text) \in Int /\ Alphabet[Place(t.text)] = t.text /\ t = Sym(t.text)
<1>1. PICK k \in DOMAIN Alphabet : Alphabet[k] = t.text
  BY SamplingAssumption
<1>2. Alphabet \in Seq(STRING) /\ k \in 1 .. Len(Alphabet) /\ t = Sym(t.text)
  BY SamplingAssumption
<1>3. Place(t.text) \in 1 .. Len(Alphabet) /\ Alphabet[Place(t.text)] = t.text
  BY <1>1, <1>2, Zenon DEF Place
<1> QED BY <1>2, <1>3

LEMMA IndexAlone ==
  ASSUME NEW name, NEW names, \A n \in names : ~(Place(n) < Place(name))
  PROVE  Index(name, names) = 0
<1>1. {n \in names : Place(n) < Place(name)} = {}
  OBVIOUS
<1> QED BY <1>1, FS_EmptySet DEF Index

LEMMA IndexSecond ==
  ASSUME NEW name, NEW other, Place(other) < Place(name), ~(Place(name) < Place(name))
  PROVE  Index(name, {name, other}) = 1
<1>1. {n \in {name, other} : Place(n) < Place(name)} = {other}
  OBVIOUS
<1> QED BY <1>1, FS_Singleton DEF Index

(* At the first sample two different symbols have two of the first numbers. *)
LEMMA FirstSides ==
  ASSUME NEW bound, NEW height, AreHeights(height, bound),
         NEW l \in Terms, NEW r \in Terms, l.tag = "Sym", r.tag = "Sym", l # r,
         NEW point, point = Point(0, Symbols[l] \cup Symbols[r])
  PROVE  /\ ValueAt(l, point) \in FirstNumbers /\ ValueAt(r, point) \in FirstNumbers
         /\ ValueAt(l, point) # ValueAt(r, point)
<1> DEFINE names == ({l.text} \cup {r.text}) \ {"pi", "e"}
           At(n) == Fraction[<<SampleValue(0, Index(n, names)), 1000>>]
<1>1. Symbols[l] \cup Symbols[r] = names
  BY SymbolsOfASymbol
<1>2. l.text # r.text
  BY PlaceOfASymbol
<1>3. point = [n \in names |-> At(n)]
  BY <1>1 DEF Point
<1>4. \A n \in names : At(n) \in Numbers
  <2>1. \A n \in names : SampleValue(0, Index(n, names)) \in Int
    <3> SUFFICES ASSUME NEW n \in names PROVE SampleValue(0, Index(n, names)) \in Int
      OBVIOUS
    <3>1. IsFiniteSet({m \in names : Place(m) < Place(n)})
      <4>1. IsFiniteSet(names)
        BY FS_Singleton, FS_Union, FS_Difference
      <4> QED BY <4>1, FS_Subset
    <3>2. Index(n, names) \in Nat
      <4> HIDE DEF names
      <4> QED BY <3>1, FS_CardinalityType DEF Index
    <3> HIDE DEF names
    <3> QED BY <3>2 DEF SampleValue
  <2> QED BY <2>1, FractionType
<1>5. IsPoint(point)
  <2> HIDE DEF names, At
  <2> QED BY <1>3, <1>4 DEF IsPoint
<1>6. ASSUME NEW t \in {l, r}
      PROVE  /\ t.text \in {"pi", "e"} => ValueAt(t, point) = Constant(t.text)
             /\ t.text \notin {"pi", "e"} => ValueAt(t, point) = At(t.text)
  <2>1. t.text \notin {"pi", "e"} => t.text \in DOMAIN point \ {"pi", "e"} /\ point[t.text] = At(t.text)
    BY <1>3
  <2> HIDE DEF At
  <2> QED BY <1>5, <2>1, SymbolValue
<1>7. ASSUME NEW t \in {l, r}, NEW u \in {l, r}, t # u, t.text \notin {"pi", "e"},
             u.text \in {"pi", "e"} \/ Place(t.text) < Place(u.text)
      PROVE  Index(t.text, names) = 0
  <2>1. Place(t.text) \in Int /\ Place(u.text) \in Int
    BY PlaceOfASymbol
  <2>2. \A n \in names : ~(Place(n) < Place(t.text))
    <3>1. \A n \in names : n = t.text \/ (n = u.text /\ u.text \notin {"pi", "e"})
      <4>1. {l.text} \cup {r.text} = {t.text, u.text}
        BY <1>7
      <4> QED BY <4>1
    <3> HIDE DEF names
    <3> QED BY <1>7, <2>1, <3>1
  <2> QED BY <2>2, IndexAlone
<1>8. ASSUME NEW t \in {l, r}, NEW u \in {l, r}, t # u, t.text \notin {"pi", "e"},
             u.text \notin {"pi", "e"}, Place(t.text) < Place(u.text)
      PROVE  Index(u.text, names) = 1
  <2>1. Place(u.text) \in Int
    BY PlaceOfASymbol
  <2>2. names = {u.text, t.text}
    BY <1>8
  <2>3. ~(Place(u.text) < Place(u.text))
    BY <2>1
  <2> QED BY <1>8, <2>2, <2>3, IndexSecond
<1>9. Place(l.text) < Place(r.text) \/ Place(r.text) < Place(l.text)
  <2>1. Place(l.text) # Place(r.text)
    BY <1>2, PlaceOfASymbol
  <2> QED BY <2>1, PlaceOfASymbol
<1>10. /\ Constant("pi") = Number(1571, 500) /\ Constant("e") = Number(1359, 500)
       /\ \A n : Index(n, names) = 0 => At(n) = Number(-889, 1000)
       /\ \A n : Index(n, names) = 1 => At(n) = Number(-213, 250)
  BY FirstValues
<1> DEFINE C == {"pi", "e"}
           Ok(t, u) == /\ ValueAt(t, point) \in FirstNumbers
                       /\ ValueAt(u, point) \in FirstNumbers
                       /\ ValueAt(t, point) # ValueAt(u, point)
<1>11. /\ Number(1571, 500) # Number(1359, 500)
       /\ Number(1571, 500) # Number(-889, 1000) /\ Number(1359, 500) # Number(-889, 1000)
       /\ Number(-889, 1000) # Number(-213, 250)
  BY DEF Number
<1>12. ASSUME NEW t \in {l, r}, NEW u \in {l, r}, t # u,
              t.text \notin C, u.text \in C \/ Place(t.text) < Place(u.text)
       PROVE  Ok(t, u)
  <2>1. ValueAt(t, point) = Number(-889, 1000)
    BY <1>6, <1>7, <1>10, <1>12
  <2>2. CASE u.text \in C
    <3>1. ValueAt(u, point) \in {Number(1571, 500), Number(1359, 500)}
      BY <1>6, <1>10, <2>2
    <3> QED BY <1>11, <2>1, <3>1 DEF FirstNumbers
  <2>3. CASE u.text \notin C
    <3>1. ValueAt(u, point) = Number(-213, 250)
      BY <1>6, <1>8, <1>10, <1>12, <2>3
    <3> QED BY <1>11, <2>1, <3>1 DEF FirstNumbers
  <2> QED BY <2>2, <2>3
<1>13. CASE l.text \in C /\ r.text \in C
  <2>1. ValueAt(l, point) = Constant(l.text) /\ ValueAt(r, point) = Constant(r.text)
    BY <1>6, <1>13
  <2> QED BY <1>2, <1>10, <1>11, <1>13, <2>1 DEF FirstNumbers
<1>14. CASE l.text \notin C /\ (r.text \in C \/ Place(l.text) < Place(r.text))
  <2>1. Ok(l, r)
    <3> HIDE DEF Ok, C
    <3> QED BY <1>12, <1>14
  <2> QED BY <2>1
<1>15. CASE r.text \notin C /\ (l.text \in C \/ Place(r.text) < Place(l.text))
  <2>1. Ok(r, l)
    <3> HIDE DEF Ok, C
    <3> QED BY <1>12, <1>15
  <2> QED BY <2>1
<1> QED BY <1>9, <1>13, <1>14, <1>15

(* An agreement by numbers is one at every finite sample. *)
AgreeInv ==
  verdict.status = "Ok" /\ by.mode = "numeric" =>
    /\ A!Legible(by)
    /\ \A s \in 0 .. by.samples - 1 : FiniteAt(question, s) => ~ApartAt(question, s)

LEMMA NextKeepsAgreeInv ==
  ASSUME IInv, AgreeInv, [Next]_vars
  PROVE  AgreeInv'
<1> DEFINE Agreed == verdict'.status = "Ok" /\ by.mode = "numeric"
<1>1. CASE Structural \/ Precheck
  BY <1>1 DEF Structural, Precheck, End, Goto, AgreeInv, by
<1>2. CASE Evaluate
  BY <1>2 DEF Evaluate, AgreeInv, by
<1>3. CASE Catch \/ SameResult
  <2>1. by.mode = "simplify"
    BY <1>3 DEF IInv, BranchInv, Catch, SameResult
  <2> QED BY <1>3, <2>1 DEF Catch, SameResult, AgreeInv, by
<1>4. CASE Options
  <2>1. A!Refusal.status # "Ok"
    BY DEF A!Refusal, A!Verdict
  <2>2. question' = question /\ (verdict' = verdict \/ verdict' = A!Refusal)
    BY <1>4 DEF Options, End, Goto
  <2> QED BY <2>1, <2>2 DEF AgreeInv, by
<1>5. CASE Sample
  <2>1. verdict' = verdict \/ verdict'.status # "Ok"
    <3>1. A!Verdict("Unknown", "error").status # "Ok"
      BY DEF A!Verdict
    <3>2. A!Witness(sample).status # "Ok"
      BY DEF A!Witness
    <3> QED BY <1>5, <3>1, <3>2 DEF Sample, End, Goto
  <2>2. question' = question
    BY <1>5 DEF Sample
  <2> QED BY <2>1, <2>2 DEF AgreeInv, by
<1>6. CASE AllSamples
  <2>1. pc = "sample" /\ sample = by.samples /\ question' = question
    BY <1>6 DEF AllSamples
  <2> QED BY <2>1 DEF IInv, BranchInv, LoopInv, AgreeInv, by
<1>7. CASE UnknownMode
  BY <1>7 DEF UnknownMode, End, AgreeInv, by
<1>8. CASE UNCHANGED vars
  BY <1>8 DEF vars, AgreeInv, by
<1> QED BY <1>1, <1>2, <1>3, <1>4, <1>5, <1>6, <1>7, <1>8 DEF Next

(* Two different symbols are never taken for equal by a comparison whose   *)
(* tolerance is below 37 thousandths, for every alphabet and however few   *)
(* samples are taken (sample_value, Index and the loop of compare).        *)
THEOREM SymbolsAreDistinguished ==
  ASSUME NEW bound, NEW height, AreHeights(height, bound)
  PROVE  Spec => []SymbolsAreToldApart
<1>1. Init => AgreeInv
  BY DEF Init, AgreeInv, A!None
<1>2. IInv /\ AgreeInv => SymbolsAreToldApart
  <2> SUFFICES ASSUME IInv, AgreeInv, verdict.status = "Ok", by.mode = "numeric",
                      by.tol < 37, lhs.tag = "Sym", rhs.tag = "Sym", lhs # rhs
               PROVE  FALSE
    BY DEF SymbolsAreToldApart
  <2>1. lhs \in Terms /\ rhs \in Terms /\ by.tol \in Nat /\ by.samples \in Int
    BY ComparisonAssumption DEF IInv, TypeOK, AgreeInv, A!Questions, A!Legible, lhs, rhs, by
  <2>2. 0 \in 0 .. by.samples - 1
    BY <2>1 DEF AgreeInv, A!Legible
  <2>3. FiniteAt(question, 0) => ~ApartAt(question, 0)
    BY <2>2 DEF AgreeInv
  <2> DEFINE l == Sides(question, 0)[1]
             r == Sides(question, 0)[2]
  <2>4. l \in FirstNumbers /\ r \in FirstNumbers /\ l # r
    <3> DEFINE point == Point(0, Symbols[lhs] \cup Symbols[rhs])
    <3>1. l = ValueAt(lhs, point) /\ r = ValueAt(rhs, point)
      BY DEF Sides, lhs, rhs
    <3> HIDE DEF l, r
    <3> QED BY <2>1, <3>1, FirstSides
  <2>5. FiniteAt(question, 0)
    BY <2>4 DEF FiniteAt, IsFinite, FirstNumbers, Number
  <2>6. ApartAt(question, 0)
    BY <2>1, <2>4, FirstNumbersDiffer DEF ApartAt, by
  <2> QED BY <2>3, <2>5, <2>6
<1>3. IInv /\ AgreeInv /\ [Next]_vars => AgreeInv'
  BY NextKeepsAgreeInv
<1> QED BY <1>1, <1>2, <1>3, ComparisonInvariant, PTL DEF Spec

=============================================================================
