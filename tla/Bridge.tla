------------------------------- MODULE Bridge -------------------------------
(***************************************************************************)
(* The SymPy bridge (src/sympy.cpp): print_source, and evaluate_sympy with *)
(* the subprocess between its writer and its reader.  What was evaluated   *)
(* is evaluated again, as when cells use each other's results.             *)
(*                                                                         *)
(* SymPy may return any of Replies that equals what it was asked, or fail. *)
(***************************************************************************)
EXTENDS KernelSource, ComputerAlgebra

CONSTANTS
  Trees,      \* the trees that are sent
  MaxCalls    \* bound: answers of the subprocess in a chain

VARIABLES
  asked,      \* the tree the chain begins with
  given,      \* the tree of this call
  request,    \* "evaluate", or the kernel whose source is printed
  calls,      \* evaluations that returned
  pc,         \* "start", "kernel", "read", "end" and "error"
  source,     \* the text for Python
  assumed,    \* assumptions, as pairs of a name and a property
  reply,      \* what the subprocess printed
  result      \* what evaluate_sympy returned

vars == <<asked, given, request, calls, pc, source, assumed, reply, result>>

Kernel == IF request = "evaluate" THEN "sympy" ELSE request

-----------------------------------------------------------------------------

PropertyOf ==
  ">=" :> "nonnegative" @@ ">" :> "positive" @@ "<=" :> "nonpositive"
    @@ "<" :> "negative"

(* A mutant of PropertyOfZero: the sides are not exchanged. *)
PropertyOfZeroAsLeft == PropertyOf

(* With zero on the left. *)
PropertyOfZero ==
  "<=" :> "nonnegative" @@ "<" :> "positive" @@ ">=" :> "nonpositive"
    @@ ">" :> "negative"

Zero == Num("0")

(* collect_assumptions, for one condition and for a conjunction of them *)
AssumptionOf(c) ==
  IF c.tag # "Compound" \/ Len(c.args) # 2 \/ c.text \notin DOMAIN PropertyOf THEN {}
  ELSE LET lhs == c.args[1]
           rhs == c.args[2]
       IN CASE lhs.tag = "Sym" /\ rhs = Zero -> {<<lhs.text, PropertyOf[c.text]>>}
            [] lhs = Zero /\ rhs.tag = "Sym" -> {<<rhs.text, PropertyOfZero[c.text]>>}
            [] OTHER -> {}

Assumptions(c) ==
  IF IsCompound(c, "and") THEN UNION {AssumptionOf(c.args[k]) : k \in DOMAIN c.args}
  ELSE AssumptionOf(c)

AskedOf(t, kernel) ==
  /\ "via" \in DOMAIN t.attrs
  /\ t.attrs["via"] = Sym(kernel)

(* What is printed: the contexts go when the tree asks for SymPy. *)
Inner(t) ==
  IF request = "evaluate" /\ AskedOf(t, "sympy") THEN Compound(t.text, t.args) ELSE t

-----------------------------------------------------------------------------

(* print_source, or evaluate_sympy up to run_command *)
Send ==
  /\ pc = "start"
  /\ LET text == Source(Inner(given), Kernel)
     IN IF text = {} THEN pc' = "error" /\ source' = << >>
        ELSE /\ source' \in text
             /\ pc' = IF request = "evaluate" THEN "kernel" ELSE "end"
  /\ assumed' = IF request = "evaluate" /\ AskedOf(given, "sympy")
                     /\ "assume" \in DOMAIN given.attrs
                THEN Assumptions(given.attrs["assume"]) ELSE {}
  /\ UNCHANGED <<asked, given, request, calls, reply, result>>

Values == [Points -> 0 .. Prime - 1]

(* What SymPy may make of an expression with a value. *)
Equal[value \in Values] == {r \in Replies : ValueOf[r] = value}

(* The subprocess: Python evaluates the source and prints what SymPy makes *)
(* of it, or an exception.                                                 *)
Answer ==
  /\ pc = "kernel"
  /\ calls < MaxCalls
  /\ \/ /\ \E r \in Equal[Value(ReadPython(source))] : reply' = SreprTokens(r)
        /\ pc' = "read"
     \/ reply' = << >> /\ pc' = "error"
  /\ UNCHANGED <<asked, given, request, calls, source, assumed, result>>

(* read_sympy_srepr *)
ReadBack ==
  /\ pc = "read"
  /\ LET tree == FromSrepr(ParseSrepr(reply))
     IN IF tree = Nothing THEN pc' = "error" /\ UNCHANGED <<result, calls>>
        ELSE pc' = "end" /\ result' = tree /\ calls' = calls + 1
  /\ UNCHANGED <<asked, given, request, source, assumed, reply>>

(* The result is sent in its turn. *)
Again ==
  /\ pc = "end"
  /\ request = "evaluate"
  /\ given' = result
  /\ pc' = "start"
  /\ source' = << >>
  /\ assumed' = {}
  /\ reply' = << >>
  /\ UNCHANGED <<asked, request, calls, result>>

Init ==
  /\ asked \in Trees
  /\ given = asked
  /\ request \in {"evaluate", "sympy", "python"}
  /\ calls = 0
  /\ pc = "start"
  /\ source = << >>
  /\ assumed = {}
  /\ reply = << >>
  /\ result = Nothing

Next == Send \/ Answer \/ ReadBack \/ Again

Spec == Init /\ [][Next]_vars

-----------------------------------------------------------------------------

(* Trees whose text Python takes for another tree: a rational is written   *)
(* as a quotient without parentheses; in the python kernel so is a base    *)
(* with a sign, and a comparison that is compared is one of a chain; and   *)
(* the domain of a lambda is not written at all.                           *)
Misread(t, kernel) ==
  \E s \in Subtrees(t) :
    \/ s.tag = "Rat"
    \/ s.text = "lam" /\ Binds(s, "", 0) /\ s.args[1].args[2] # Sym("_")
    \/ /\ kernel = "python"
       /\ \/ /\ IsCompound(s, "^")
             /\ Unary(s.args[1], "neg") \/ IsNegative(s.args[1].text)
          \/ /\ s.text \in DOMAIN Relations.python
             /\ s.args[1].text \in DOMAIN Relations.python

(* The source of a tree, as Python reads it, means the tree: parentheses   *)
(* stand where Python's precedence and associativity differ from the shape *)
(* of the tree (print_sympy_prec and print_source_prec).                   *)
SourceMeansTheTree ==
  source # << >> /\ ~Misread(Inner(given), Kernel)
    => Value(ReadPython(source)) = Value(Inner(given))

(* Whatever form SymPy gives its answer in, the tree that is made of it    *)
(* has the value of the expression the chain began with (from_srepr).      *)
ResultKeepsTheValue ==
  calls > 0 /\ ~Misread(asked, "sympy")
    => Value(result) = Value(Inner(asked))

(* What a kernel returned can be sent to it again, but for four functions  *)
(* that from_srepr reads and the table of print_sympy lacks (erf, erfc,    *)
(* factorial and gamma): a result is refused if and only if SymPy put one  *)
(* of them in it.                                                          *)
ReadOnly == Called \ DOMAIN Functions.sympy

ResultsCanBeSent ==
  calls > 0 =>
    (Source(result, "sympy") = {}
       <=> \E s \in Subtrees(result) : s.tag = "Compound" /\ s.text \in ReadOnly)

(* A property that a symbol is given holds wherever the condition of       *)
(* assume does (collect_assumptions).                                      *)
Satisfied(c, point) ==
  LET side(t) == IF t.tag = "Int" THEN Literal[t.text] ELSE point[t.text]
  IN CASE IsCompound(c, "and") -> TRUE
       [] Binary(c, ">=") -> side(c.args[1]) >= side(c.args[2])
       [] Binary(c, ">") -> side(c.args[1]) > side(c.args[2])
       [] Binary(c, "<=") -> side(c.args[1]) <= side(c.args[2])
       [] Binary(c, "<") -> side(c.args[1]) < side(c.args[2])
       [] OTHER -> TRUE

SatisfiedAll(c, point) ==
  IF IsCompound(c, "and") THEN \A k \in DOMAIN c.args : Satisfied(c.args[k], point)
  ELSE Satisfied(c, point)

Has(property, value) ==
  CASE property = "nonnegative" -> value >= 0
    [] property = "positive" -> value > 0
    [] property = "nonpositive" -> value <= 0
    [] property = "negative" -> value < 0

AssumptionsFollow ==
  assumed # {} =>
    \A point \in [{"x", "y"} -> -1 .. 1] :
      SatisfiedAll(given.attrs["assume"], point)
        => \A a \in assumed : Has(a[2], point[a[1]])

(* The tree a path leads to. *)
RECURSIVE Follow(_, _)
Follow(t, path) ==
  IF path = << >> THEN t
  ELSE Follow((CHOOSE s \in Range(Steps(t)) : s.step = path[1]).tree, Tail(path))

(* An operator that is not given the operands it takes, or a binder that   *)
(* has no domain of its kind.                                              *)
Misshapen(t) ==
  \E s \in Subtrees(t) :
    /\ s.tag = "Compound"
    /\ CASE s.text \in DOMAIN Infix \cup DOMAIN Relations.sympy -> Len(s.args) # 2
         [] s.text = "neg" -> Len(s.args) # 1
         [] s.text = "diff" -> Len(s.args) < 2
         [] s.text \in DOMAIN Integrals -> ~Binds(s, "range", 2)
         [] s.text = "lim" -> ~Binds(s, "approach", 1)
         [] s.text = "lam" -> ~Binds(s, "", 0)
         [] OTHER -> FALSE

(* A range, an approach or a binder that stands where an expression is     *)
(* written, and not in the domain of an operator.  The trees are those     *)
(* that are not misshapen.                                                 *)
RECURSIVE Expressions(_)
Expressions(t) ==
  {t} \cup (IF t.tag = "Compound"
            THEN UNION {Expressions(s) : s \in Range(Operands(t))} ELSE {})

Stray(t) ==
  \E s \in Expressions(t) :
    s.tag = "Compound" /\ s.text \in {"binder", "range", "approach"}

Refused == pc = "error" /\ source = << >>
Gaps == Missing(Inner(given), Kernel, << >>)

(* Coverage names each node that is not mapped and the way to it, and the  *)
(* writer refuses a tree that is not misshapen exactly when there is a     *)
(* gap, or, in the sympy kernel, when a range, an approach or a binder is  *)
(* written as an expression, which coverage lets pass anywhere             *)
(* (coverage_walk and coverage_supports_head against print_source_prec).   *)
GapsAreReported ==
  /\ \A k \in DOMAIN Gaps :
       LET node == Follow(Inner(given), Gaps[k].path)
       IN Gaps[k].head = node.text \o (IF node.attrs = NoAttrs THEN "" ELSE ":attrs")
  /\ pc # "start" /\ ~Misshapen(Inner(given))
       => (Refused <=> \/ Gaps # << >>
                       \/ Kernel = "sympy" /\ Stray(Inner(given)))

=============================================================================
