# FacetIR in TLA+

A verification project for FacetIR: TLA+ modules of its arena, its readers and
writers, its layout pass and statement parser, its language server, its bridge
to SymPy, the comparison of expressions and the notebook kernel server; TLC runs
that check them on small instances; and TLAPS proofs about the arena, the layout
pass, the statement parser, the projections, the lexer, the language server, the
comparison and the kernel server for every instance.  Line numbers are those of
the sources this was written from.

Contents: [the system](#the-system), [modules](#the-modules),
[runs](#the-runs), [findings](#findings), [proofs](#the-proofs),
[what is only checked or not modelled](#what-is-only-checked-and-what-is-not-modelled),
[plan](#plan).

## The system

FacetIR is a C++ library (`src/src`), a command line program and language
server over it (`facet_cli.cpp`), and a small Python server (`nbs`).  It is
sequential code; concurrency appears between processes: an editor and the
server, facet and the SymPy subprocess, a notebook and its kernel server.

| Component | State | Operations | Interacts with |
|---|---|---|---|
| Arena (`ast.cpp`) | `nodes_`, a list that only grows; `index_`, from hash to nodes | `sym`, `integer`, `rational`, `real`, `string`, `compound`, `same_tree` | every reader makes its nodes here; every writer, comparison and validator reads them by reference |
| Registry (`registry.cpp`) | constant tables of operators and binders | `prec_of`, `right_assoc`, `is_binder_head` | surface reader and writer, LaTeX |
| Lexer (`lexer.cpp`) | text, position, one token | `next`, `take`, `expect` | core and surface readers, layout pass, editor features |
| Layout pass (`lexer.cpp`) | stack of columns, pending block, bracket depth, tokens so far | `lex_layout_for_test` | gives the tokens of `do` blocks to the statement parser |
| Statement parser (`facet.cpp`) | tokens and a position; its recursion | `statement`, `block`, `expression_until` | reads the layout tokens, calls the surface reader on token ranges |
| Surface reader and writer (`facet.cpp`) | tokens and a position | `expr`, `primary`, `atom_or_group`, `bracket_postfix`, `attach_context`, declarations; `print_surface_prec` | Lexer, registry, arena |
| Core, strict, object readers and writers (`facet.cpp`) | text and a position | `read_core`, `read_strict`, `read_object`, `print_*` | arena; pipes between facet programs, kernels |
| Language server (`facet_cli.cpp`) | `documents`, texts by uri | `run_lsp`: `initialize`, `didOpen`, `didChange`, the requests | the editor, over stdin and stdout |
| Validation, coverage, LaTeX, renderers (`facet.cpp`) | none | walks over a tree | command line, language server |
| Kernel directives (`facet.cpp`) | none | the reader of `%kernel` lines | a controller outside this repository |
| SymPy bridge (`sympy.cpp`) | a subprocess per call | `print_sympy*`, `read_sympy_srepr`, `evaluate_sympy` | Python, over a pipe |
| Comparison (`sympy.cpp`) | none | `compare`: structural, simplify, numeric | arena, SymPy bridge |
| Kernel server (`nbs/kernel_server.py`) | none between requests | `do_POST`: evaluate with a session | notebooks, over HTTP |

What is hard about it, and what makes each part correct:

* **Arena.** Structural equality must be reference equality, whatever collides
  in the hash and however attributes are ordered by the caller.
* **Layout.** The token stream must be the block structure of the columns over
  any sequence of lines, with brackets that suspend it, closers that match
  nothing and texts that end anywhere.
* **Statements.** Parser recursion and layout tokens must stay level; no line
  may be lost or be read as something it is not.
* **Surface syntax.** Precedence, implicit multiplication, `end` in brackets
  and attributes meet in every combination, and what the writer leaves out the
  reader must put back.
* **Projections.** Three readers undo the escapes of one writer function, and a
  tree must come back from each as it was, whatever it holds and whatever another
  program has added to an object.
* **Lexer.** The lexer, the semantic tokens and the mask before the layout pass
  each find the comments of a text for themselves, and an editor sees tokens
  only as differences of places.
* **Bridge.** A tree becomes Python source, Python's grammar decides what that
  source means, SymPy may answer with any equal expression or not at all, and
  its answer must be a tree that can be sent again.
* **Comparison.** A verdict rests on a subprocess that may fail at either side
  or on samples of which any may be passed over.
* **Kernel server.** One thread serves clients that stall and hang up; what one
  client sends must not reach the answer of another, and a remote evaluation
  must be the one the local bridge would have made.
* **Language server.** Edits and requests are pipelined; each request must be
  answered from the text it was made about, once, and the server must end with
  its editor and not before.

`PROJECT.json` lists the hazards, each at its line, and the properties that
would catch it going wrong.

## The modules

**`Interner`** is the promise of the arena: a table from trees to references
that only grows.  **`Arena`** is `ast.cpp`: `nodes` and `index` are `nodes_` and
`index_`; `Atom`, `Rational` and `Compound` are the calls (`Rational` and
`Compound` with their refusals, after the argument nodes exist), `Intern` looks
through the bucket of a hash and pushes a node when none is equal.  The mixing
function is a constant operator, so the model says nothing about which hashes
collide.  A ghost, `tree`, holds the tree each reference stands for.  Nodes are
added one call at a time, which is the granularity at which a caller can see
them.

**`Layout`** is `lex_layout_for_test`.  The loop over lines is split where its
state changes: a line starts (`ContinuationLine`, `DeeperLine`,
`ShallowerLine`), closes blocks (`Dedent`), gives its tokens one at a time
(`Token`, which counts brackets) and ends (`EndOfLine`); `EndOfInput` and
`Close` are the end of the text.  `Throw` is every `Error`.  A line is its
leading spaces and its tokens; comments are blanks by then.  Two ghosts of a
token say whether it is a layout token and how many blocks are open at it.

**`StatementParser`** extends `Layout`: once the pass is done, it reads the
tokens as class `StatementParser` does.  Its recursion is the sequence `open`
of blocks being read.  Which token sequences are expressions is a constant,
the place of the surface reader.  Tokens are compared by their text alone, as
in the code, so a word can be taken for a layout token.

**`LanguageService`** is the promise of the server: requests are answered once
and in order, until one ends the service.  **`LanguageServer`** is `run_lsp`
and an editor, joined by two pipes.  The editor opens, edits and closes
documents, asks, cancels and hangs up at any time and never waits; the server
reads a message, handles it and writes a response.  An edit replaces a range of
the editor's text, as the server asks for at `initialize`, or all of it; what
the server takes from the message is what is put in, and `Synchronise` holds
that as the whole text, as the code does.  So the editor and the server may have
different texts, and the service is stated for what the server was told: the
ghost `told` is the text of the last edit sent of each document, and `whole` the
documents for which that edit was all of the text.  A text is a sequence of
chunks; what a method computes from it is a value of the text, and the texts on
which the lexer throws are those with an odd number of quotes (a comment that
is never closed would be a second way).  The abstract service sees the responses
to requests; those to cancellations are projected away (the code answers a
cancellation with the id it finds in its parameters).

**`SyntaxTrees`** has the trees and the tokens of their leaves, **`Syntax`** the
registry and the surface tokens.  A tree is a record of tag, text, arguments and
attributes; hash consing makes nodes and trees the
same thing (that is what `Arena` shows), so the readers and writers build trees
directly.  **`SurfaceParser`** has one operator for each function of class
`SurfaceParser`: from the tokens and a place it gives a set with the tree and
the place after it, or the empty set for an `Error`.  **`SurfacePrinter`** is
`print_surface_prec`; it gives tokens, and `Glue` says what tokens two texts
written without a blank make.  **`Surface`** is `facet read=surface
emit=surface`: a text is typed token by token, read, written, and read again;
trees may also come from elsewhere (`GetTree`).

**`Projections`** has the core, strict and object readers and writers.  A chain
of programs writes a tree in one of them and reads it back; another program may
add members to an object on the way (`PassOn`).  A text is the sequence of
pieces that its reader takes at a time, a string being one piece with its
quotes and escapes; `Bare`, `Inside` and `Unescape` are what the three readers
make of it.  A reader is a function of a rule and a place (`Reading`): what the
rule makes of the text from there on, with the place after it.  There is one
operator for each function of the three classes (`CoreNode`, `StrictNode`,
`LooksLikeAttr`, `ObjectNode`, `Members`, `SkipValue`, ...), which gets the
function as `read` for its calls; `ObjectOf` and `Node` are the refusals of an
object without a head, of a rational over zero and of a key that is given twice.

**`Scanner`** is the readers of characters.  A text is the sequence of its
characters; the state is that of class `Lexer` (`input`, `pos`, `at`) and the
tokens of the loop around it, then the data of `semanticTokens/full` and the
answer to `signatureHelp`.  Three operators find the comments of a text, as
three functions of the program do.  A ghost of a token says where it ends.  The
branch for kernel directives and the classes of tokens are left out.

**`KernelSource`** is `print_source` and `missing`: the tables of the `sympy`
and `python` kernels, coverage, and the writer, whose text is a sequence of
Python tokens.  **`Srepr`** is `read_sympy_srepr` and the writer of its texts.
**`ComputerAlgebra`** is external: how Python groups an expression, how srepr
writes one, and when two expressions are equal.  An expression has a value at
each point, a residue modulo a prime; what is no sum, product, quotient or
small power is an unknown function, the same at each occurrence.  **`Bridge`**
is `evaluate_sympy`, and `print_source`: `Send` (the writer, with the assumptions
taken from the tree, or its refusal), the subprocess (`Answer`: any expression of
equal value, or an exception), `ReadBack`, and `Again`, the result of one call as
the input of the next.

**`Agreement`** is the promise of a comparison: a verdict is a function of what
was asked, of what the kernel returned and of whether both sides are finite and
apart at each sample, which are operators given to it; options that are no
`key=value` or have an unknown key, a number of samples below one or a negative
tolerance are refused before anything is evaluated.  **`Sampling`** is
`eval_numeric_compare` with exact fractions and infinities.  **`Comparison`** is
`compare`: `Structural`, `Simplify` with one evaluation for each side that may
fail, and the loop over samples one sample at a time, with its early ends.

**`EvaluationService`** is the promise of the kernel server: each request is
answered once, from itself alone.  **`KernelServer`** is `nbs/kernel_server.py`
and its clients: a backlog, one thread that accepts, reads, loads the entries
of the session into `env` one at a time, evaluates and writes, and clients that
send slowly, cut their request short or leave.  It also has the local
evaluation of the bridge, for the same expression (`LocalEnv`, `LocalResult`):
there a free name becomes a symbol with what the expression assumes of it
(`LocalSymbol`, `assumed`), and no request to the remote server says that.

`MC...` modules hold the lines, alphabets and trees that the runs use.
`LeastProofs`, `ArenaProofs`, `StatementParserProofs` (of the layout pass too),
`ProjectionsProofs`, `ScannerProofs`, `LanguageServerProofs`, `ComparisonProofs`
and `KernelServerProofs` hold the proofs.

Operators whose name ends in another word for a wrong behaviour, and whose
comment begins with "A mutant of", are not part of the models: each is a
plausible mistake in the definition that follows it, and `PROJECT.json` says
which property notices it.

## The runs

| Run | Question | Bounds |
|---|---|---|
| `arena` | Does the arena hash-cons, answer with the tree asked for and implement the interner? | three nodes, one name, one head, two keys, nodes with one argument and two attributes, numerals good and bad; a mixing function under which unequal nodes collide |
| `layout` | Are the layout tokens the block structure of the columns? | columns 0 to 2, all lines of seven kinds up to five tokens, and nested blocks up to nine |
| `statement_parser` | Is what is read the lines of the text in the blocks of its columns? | a line of each form, forms split over two lines, conditions and values that run on over the end of a line, a condition with a colon in its braces, a rule that ends in a colon: up to eleven tokens; headers and blocks up to eighteen |
| `language_server` | Does the server implement the service, does every edit arrive in its place, and does the server leave when the editor does? | two documents, texts of up to two quotes, changes of any range or of the whole text, four messages |
| `surface` | Do operators bind as the table says, is `end` bound, and does formatting keep the tree? | all texts of five tokens over three alphabets; each form in each place of each other form, two deep |
| `projections` | Does each tree come through each chain of projections that carry it? | six hundred trees up to three levels high, with leaves of every kind, strings with quotes, backslashes and line ends, names that no token is, operators as heads and words that are keys as arguments; three conversions |
| `scanner` | Do the three scans find the same comments, does the editor find the tokens, and is signature help about the call around the cursor? | all texts of four to six characters over four alphabets: comments, strings, numbers with their signs, calls |
| `bridge` | Does the source mean the tree, does the result have its value and can it be sent again, do assumptions follow from the tree, does coverage find the gaps of what is refused? | about a thousand trees, each head over atoms and each operator in each place of each other; two kernels; one answer, sent again |
| `comparison` | Does a verdict follow from its evidence, is no identity refuted, does every comparison end? | every two of eighteen trees, ten modes, options that are refused among them, a kernel that may fail at either side |
| `kernel_server` | Does each client get the answer to its own request, as the local bridge would give it, and is everyone served? | two clients, thirteen requests: with and without a session, unreadable entries, known and new names, names of which something is assumed, sources that raise or never return, garbled and GET |

Two more runs have a counterexample: see [findings](#findings).

Why the bounds are enough.  In the arena a collision needs two nodes and a
third that may be confused with either; a compound needs a node for its
argument; two keys are needed for an order.  In the layout the first line that
falls between two columns needs three columns and two open blocks, and the
bracket cases need one line to open, one to continue and one to close; longer
texts with brackets are cut by the constraint `ShortOrBlocks`, which keeps
every prefix of what it keeps.  In the surface syntax a misreading needs two
operators and three operands (five tokens), or a form inside a form inside
whatever the writer puts around it; the given trees have that depth.  The lexer looks at most
four characters ahead, and its comments nest at most twice in six characters.
In the bridge a misread operator needs an operator inside another; a second call
shows that an answer is a legal question, and a third would only repeat it.  The
values of the bridge are taken modulo 97 at three points: expressions that agree
there by accident only give SymPy more answers than it would.  In the
comparison the samples repeat with a period of ten in the sign of the third
symbol, so ten samples are among the modes.  A client of the kernel server
disturbs another only through the thread and its dictionary, so two are
enough.  An edit of the language server is overtaken by one other message of
the same document, and a request needs one before it and one after it; the
models of two chunks with one document (341,433 states) and of two documents
with three messages have the same properties.  The constraint and `CHECK_DEADLOCK FALSE` are there because texts end and bounds
are reached; the models are of programs that stop.

What the properties say:

* `HashConsed`, `IndexExact`, `AnswersTheRequest` and the refinement
  `InternerSpec` are about the arena.
* `BlocksBalance`, `ColumnsGrow`, `BlocksAreAnnounced`, `ColumnsAreBlocks` and
  `LinesAreWhole` relate the token stream to the stack and to the columns of
  the text.  `ColumnsAreBlocks` is over every pair of lines of a text.
* `NestingIsIndentation`, `WholeLinesAreRead`, `StatementsAreLinesOrRunOn` and
  `ReadsEveryLine` relate the parser to the layout.  A statement is a line
  unless it runs on over its end, and `RunsOn` names the two ways: a condition
  reads on to its first colon, whatever line that is on, and `for`, `let`,
  `mut` and the name of an assignment take any token for a name, a NEWLINE or
  an INDENT among them.
* `AnswersFit` says that requests are answered in their order, none twice and
  none passed over, each from the text of the last edit of its document sent
  before it; `EditsArrive` that no edit is lost or overtaken: once the server
  has read its mail it holds the text of the last edit of each document, which
  is the editor's text where that edit was all of it, and each request on its
  way will meet the last edit sent before it; `ServerLeaves` that the server ends once the editor
  hangs up, if no Error has ended it before; `ServiceSpec` is the refinement.
* `OperatorsBindUnlessSwallowed` compares the climbing of the reader with a
  reference that splits a chain of operators at the loosest one.  `Swallowed`
  describes the chains where an implicit multiplication takes an operator for
  an operand; outside of them the two agree, and the text is never refused.
* `EndsAreBound` says that in brackets `end` is always the length of an axis of
  the target around it, through nested brackets and ranges.
* `FormattingKeepsTheTree` says that what is written is read as the same tree,
  for the trees of `Kept`.  `Kept` names node by node what the syntax loses:
  attributes of nodes whose form has no suffix, an attribute suffix on an
  operand, a sign before a numeral, a lambda as a variable, loose bounds in
  brackets, a swallowed operator.
* `ConversionsKeepTheTree` says the same of chains of core, strict and object;
  `Lost` names what core and strict do not carry.
* `ScannersAgree` says that the comments the lexer skips are the ones the
  semantic tokens show and the mask blanks (for texts without a mark inside a
  string, see [known divergences](#known-divergences)); `ClientFindsTheTokens`
  that decoding the differences gives back each token's line, column and
  length; `SignatureIsOfTheCall` that help is given about the innermost call
  the cursor is in, and about the argument it is in.
* `SourceMeansTheTree` says that Python reads the source as the tree, for the
  trees that are not `Misread`; `ResultKeepsTheValue` that writer, SymPy and
  reader together keep the value of a tree; `ResultsCanBeSent` that what came
  back is refused when it is sent in its turn just if SymPy put `erf`, `erfc`,
  `factorial` or `gamma` in it; `AssumptionsFollow` that a symbol is
  assumed positive (and so on) only where the tree says so; `GapsAreReported`
  that coverage names each node that is not mapped and the way to it, and that
  of the trees that are not `Misshapen` the writer refuses those with a gap
  and, for SymPy, those in which a range, an approach or a binder is written as
  an expression (`Stray`), and no others.
* `FailMeansDifferent` says that no mode refutes an identity;
  `SymbolsAreToldApart` that two symbols get different values at some sample;
  `EvidenceDecides` is the refinement of `Agreement`; `ComparisonEnds` that
  there is a verdict at last.
* `LocalAgreesWithRemote` says that a client gets what the local bridge would
  compute from the same expression, value or error, just if the two places bind
  its names to the same things (`SameInBoth`): no session entry is unreadable,
  `E` is not used as SymPy's, nothing is assumed of a free name.  It is an
  equivalence, so it also says that in the other cases the answers do differ.
  `ServiceSpec` is the refinement;
  `EveryoneIsServed` that a client who sent its request is answered, unless the
  thread is held for ever by a client that stalls or a source that never
  returns.

**Fairness.** `LanguageServer`, `KernelServer` and `Comparison` have liveness.
In the first two it is weak fairness of the server's own steps.  The loop of
the language server blocks on nothing but the next message and the end of its
input, and a response goes to a pipe the editor drains; the thread of the
kernel server is always in a call that returns, but for the reading of a
request and `eval`, which the model lets block.  Nothing is assumed of the
editor or of the clients: they may stop, stall or hang up at any time.
`Comparison` has weak fairness of its next step: a call runs on, and the
subprocess, which has the tree and nothing to wait for, returns or fails.

`SurfaceParser` and `SurfacePrinter` were also compared with the compiled
program: some ten thousand random texts, each read, written and read again,
and `Projections` on its six hundred trees.  They agree, but for texts in
which dots stand for a name (see `Glue`), and for a real that ends in its dot
at the very end of a text without a newline, which the program refuses.

## Findings

Each has a run with a counterexample.

* `language_server_incremental`: the server asks the editor for incremental
  changes (`"textDocumentSync":2`, `facet_cli.cpp:444`) and takes the text that
  replaces a range for the text of the document (`facet_cli.cpp:460`), where
  `docs/plan-lsp-native.md:213` says that it caches the current text.  The trace
  opens a document, inserts into it, and has the server hold the insertion.
* `surface_operators`: `x - x - x` is read as `(- x (* x (neg x)))`: implicit
  multiplication takes the second `-` for a sign (`facet.cpp:434`), where
  `docs/spec.md:217-218` says that `-` associates to the left.  It takes `=>`,
  `~=`, `===`, `->` and `|>` for operands as well.

### Known divergences

Met while modelling; each is a named condition of a passing property, which
holds for everything else, or a branch of a model.

* A condition ends at its first colon, so `while sum[i : d](i):` is refused
  (`facet.cpp:845`; `docs/Facet-IR-v2-specification.md:135`): `EndsEarly` in
  `WholeLinesAreRead`.
* A condition that has no colon on its line reads on through the lines after it
  to the first colon there is (`facet.cpp:845`, `924`), and a rule declaration
  ignores what its line says after it (`facet.cpp:741`), a colon among it, so
  that the INDENT after the line is read as the name of an assignment
  (`facet.cpp:887`): `RunsOn`.  `NestingIsIndentation` says that a text of the
  second kind is refused in the end.
* Layout tokens are told from words by their text alone: a name spelled NEWLINE,
  INDENT or DEDENT is layout to the reader.  The theorems about the statement
  parser are about texts without such names (`PlainWords`).
* A `didChange` may hold several changes, of which the server takes the first
  `"text"` it finds (`facet_cli.cpp:460`): the editor of the model sends one.
* A diagnostic request for a text with an unclosed string ends the server
  (`facet_cli.cpp:387`): the action `End` of `LanguageService`.
* A cancelled request is answered twice (`facet_cli.cpp:223`): the model writes
  the stray response, and the refinement looks past it.
* `- 1[x]` is written `-1[x]`, which is another tree (`facet.cpp:1060`;
  `README.md:17` promises lossless round trips): `Kept`.
* A quote or a backslash in a string gains a backslash each time it goes
  through strict (`facet.cpp:147`; `docs/spec.md:405`): `Lost`.
* The mask before the layout pass does not know strings: `x := "a#b"` in a
  block is an unterminated string (`lexer.cpp:214`; `docs/spec.md:137`):
  `NoMarkInStrings`.
* The length of the semantic token of a string is that of its text without
  escapes (`facet.cpp:2540`): strings with an escape are left out of
  `ClientFindsTheTokens`.  Signature help counts the commas of nested calls too
  (`facet.cpp:2749`): `SignatureIsOfTheCall` is about the active parameter only
  where no nested call before the cursor has a comma.
* A rational leaf is written `n/d` without parentheses by both kernels' writers,
  so a half as an exponent becomes `x**1/2`: `Misread`.
* The writer of the python kernel puts no parentheses around a signed base of a
  power, nor around a comparison that is compared (`sympy.cpp:453-466`): `(^ (neg x) y)`
  becomes `-x**y` and `(= (< x y) x)` becomes `x<y==x`, which Python reads as
  other trees.  The writer for SymPy says why the first is wrong
  (`sympy.cpp:515-516`): `Misread`.
* The writer for SymPy leaves out the domain of a lambda (`sympy.cpp:588-593`),
  so a lambda over a range is the lambda without it: `Misread`.
* `docs/spec.md:641` promises that what is not supported is reported by coverage
  and refused with its path.  Coverage takes `range`, `binder` and `approach`
  for supported wherever they stand (`sympy.cpp:862-864`), and the writer
  refuses them outside of a domain with an Error that has no path
  (`sympy.cpp:599`), as in `sin(1..y)`: `Stray`.  It also finds no gap in
  operators with the wrong number of operands and binders without a domain of
  their kind, such as `sum[i : n](i)`: `Misshapen`.  The model abstracts the
  words of an Error, its path among them.
* A remote kernel is sent nothing of what an expression assumes: its symbols are
  plain (`kernel_server.py:50`) where those of the local bridge have the
  assumptions as arguments (`sympy.cpp:827`, `846`).  It knows `E`, and passes
  over a session entry that cannot be evaluated, which fails the local bridge:
  `SameInBoth`.
* `from_srepr` reads `erf`, `erfc`, `factorial` and `gamma` (`sympy.cpp:692`),
  and the table of the writer lacks them: `prod[i : 1..y](i)` comes back as
  `factorial(y)`, which cannot be sent to SymPy again: `ReadOnly`.
* A derivative that srepr writes with a count above two is refused, and the
  symbol `inf` comes back as `oo` (`sympy.cpp:645`).

## The proofs

`ArenaProofs` proves, for every set of names, heads, keys and numerals, every
bound and every mixing function: `ArenaTypeOK`, `ArenaIndexExact`,
`ArenaHashConsed`, `ArenaAnswers`, and `ArenaImplementsInterner`, that the arena
implements the interner under the map from trees to references.  The one
assumption is `ArenaAssumption` (names are strings of the model, keys are
numbers, the kinds of token do not overlap).

The inductive invariant is `IInv`: `TypeOK`, `NodesInv` (a node's children are
older references, its attributes are sorted with no key twice, and its hash and
its ghost tree are those of what it says), `IndexExact` (each bucket holds
exactly the nodes of its hash), `HashConsed` and `AnswersTheRequest`.
`HashConsed` alone is not inductive: that a node not found in its bucket is new
(`MissIsNew`) needs the index to be exact and hashes to depend on the node
alone, and that two nodes with one tree have the same words
(`OneNodePerTree`) needs the children to be hash-consed already and the
attributes to be sorted: `SortedUnique` in `LeastProofs` says that a set of
pairs can be listed in order of its keys in one way only.  `PushKeepsIInv` is
the step that adds a node, `RejectKeepsIInv` a refused call; every other call
is one of these two (`NextIsIntern`).

`StatementParserProofs` proves, first, all six invariants of the layout pass (`LayoutTypeOK`,
`LayoutColumnsGrow`, `LayoutBlocksBalance`, `LayoutBlocksAreAnnounced`,
`LayoutColumnsAreBlocks`, `LayoutLinesAreWhole`) for every set of lines and
every bound, from `LayoutAssumption` (a line is a sequence of texts; the bounds
are numbers).  Nothing is assumed of the brackets of a line.

Even the types need more than themselves: `pop_back` leaves the stack non-empty
because its first column is 0 and a line's is not less, which is `ColumnsGrow`.
So the first inductive invariant is `ShapeInv`: `TypeOK`, `ColumnsGrow` and
`Control` (where the pass may be while a ":" waits for its block).  On top of it
`LineInv` says where the pass stands in a line: the level of the last token is
the height of the stack; between logical lines the last token is layout and not
an INDENT; within one, or while a bracket is open, it is a token of the line; a
line that has given no token and continues no other is at the column of the
innermost block.  With these two, every step is one of six forms (`OutStep`):
the tokens are lost, or stand, or one token is added that opens a block, closes
one, ends a line or speaks for a word.  `LayoutPass` states both, and each
property is then proved by six cases about two sequences: `BalanceInv` counts,
`AnnouncedInv` ties `pending` to the last two tokens, `ScopeInv` says that the
first token of a line whose block is still open is at the column the stack has
for it (`ColumnsAreBlocks` speaks of tokens alone, and is not inductive without
it), and `WholeInv` is `LinesAreWhole` itself.

It then proves all five properties of the reader of `do` blocks,
for every text: `ReaderTypeOK` from the assumptions of the layout alone, and
`ReaderNesting`, `ReaderWholeLines`, `ReaderStatements` and `ReaderEveryLine`
under `PlainWords`, that no word of a line is spelled like a layout token.  The
hypothesis is needed: the code tells them apart by their text alone, and a name
spelled INDENT opens a block.  The argument has three parts.  `StreamInv` carries what the layout proofs say of
a stream over to the phase in which it is read (`ParserStream`): the levels of
its tokens, whole lines, INDENTs that are announced, a tail that closes
everything.  `Standing` is the reader's own state (`ReaderStands`): its place,
its stack and the spans of what it has read, which end one before the next
begins at the earliest.  `ReaderInv` joins the two (`ReaderReads`): the token
before the reader is the end of a line, the start of a block or a DEDENT after
one of those (`Anchor`); its level is the number of blocks being read as long as
no name was an INDENT (`Straight`), and greater from then on; every line before
the reader is a statement, an `else`, or inside a statement that ran on
(`Accounted`); and each statement has the form of its line (`ReadAs`).  When all
tokens are read the level is 0 and no block is open, so that no name was an
INDENT after all (`ReadToTheEnd`): a text in which one was is refused, and
`NestingIsIndentation` needs to except such texts only while they are read.

`LanguageServerProofs` proves `NoEditIsLost` (the property `EditsArrive`),
`RequestsAreAnswered` (`AnswersFit`) and `LanguageServerTypeOK` for every set of
documents and chunks and all bounds, from `ServerAssumption` (the bounds are
numbers, no document has the empty uri, quotes are chunks), for an editor that
replaces ranges, whole texts, or now one and now the other.  `IInv` is the
types, `Numbered` (requests are numbered in the order they were made, and each
message on its way has the number of one of them or none), `Agreed` (what was
told of a document is its text if the last edit was all of it) and `CatchUp`,
which is the rest of `EditsArrive` said with `After`, a function of the mail and
of the text held: then a message read leaves it as it is (`TailShifts`: what
was at the head of the mail is now in the text held), and a message sent changes
it by that message alone (`AppendKeeps`, `AppendDecides`).  `AInv` adds to
`AnswersFit` that each request in the mail is the one of its number (`Pending`),
that the mail holds requests in their order, after those that are answered
(`InOrder`), and that while the server runs a request is in the mail or is
answered (`NoneIsLost`).  The text a request is answered from is the right one
because of `CatchUp` at the head of the mail.
`LanguageServerImplementsService` is the refinement of `LanguageService` but for
its fairness.  `ToRequests` grows by what is written or not at all
(`PickedGrows`, by the theorem on recursive functions of `LeastProofs`), and
`Ranked` says that the answered requests are the first `Len(ToRequests)`: so the
request at the head of the mail is the next of the service (`HeadIsNext`: an
earlier one is answered and has a smaller number, a later one would leave the
next neither answered nor on its way), its answer is the service's by
`AnswersFit`, and a server that leaves has answered all of them
(`ReturnIsLeave`).

`ComparisonProofs` proves `ComparisonImplementsAgreement` (the property
`EvidenceDecides`) for every set of trees, whatever `Symbols`, `Refused` and
`ValueAt` say of them, every number of samples, tolerance and answer of SymPy,
from `ComparisonAssumption` (the items of a mode are read or refused, and its
options are integers; SymPy maps trees to trees).  `LoopInv` says of the loop over samples that none so far tells the
sides apart, that `finite_samples` is zero just when none was finite, and that
neither side is refused once a sample is taken; with it the verdict that the
loop leaves with is `Numeric`, a function of all the samples together
(`NumericVerdict`, `RefusedVerdict`, `AllSamplesVerdict`): the witness is the
least of the samples that differ, and an early end loses nothing.  `OnePoint` is
where it matters that both sides number the symbols of both.
`NoIdentityIsRefuted` is the property `FailMeansDifferent`, under the hypothesis
`EqualTreesAgree`: what SymPy takes for equal is equal as a number, up to the
tolerance, at each point where both sides are finite.  That is a fact about
mathematics and rounding and not about this code; TLC evaluates it on the trees
of the run.

`SymbolsAreDistinguished` is the property `SymbolsAreToldApart` for every
alphabet and every set of trees that have heights (`AreHeights`: trees are
finite; TLC evaluates it on the trees of the run), from `SamplingAssumption`
(the parts of a tree are trees, a symbol is a name of the alphabet).
`AgreeInv` says that an agreement by numbers is one at each finite sample, the
first of which is always taken; that one is enough.  There a symbol is pi, e, or
has the value of index 0 or 1 (`FirstSides`: the constants are not counted, and
of two names the one that sorts first has index 0), and any two of these four
fractions are 37 thousandths apart or more (`FirstNumbersDiffer`).  `Gcd`, the
values and the symbols of trees are recursive functions, which exist by
`Recursion` and `UnboundedRecursion` of `LeastProofs`; `Euclid` computes the
common divisors of the fractions from their sequences of remainders.

`KernelServerProofs` proves `KernelServerTypeOK`, `RemoteIsLocal` (the property
`LocalAgreesWithRemote`) and `KernelServerImplementsService` (`ServiceSpec`) for
every set of clients, requests, names and entries, from `RequestsAssumption`
(a request has a method and, if a POST, a form, a fate and the assumptions of its
expression, none of them empty).  `RemoteIsLocal` is an equivalence, and needs
the assumptions of a name not to be empty in one direction only: a symbol
without any is the one the server makes.  The inductive
invariant adds to the types where each client may be: `Queued` (a connection
waits once, and is not answered while it waits or is served), `Asked` (whoever
waits has asked), `Reading` (the dictionary holds SymPy's names and the session
entries read so far, and no others: what an earlier request left would be
noticed here), `Writing` (the result is the answer that is owed, or an error
where one is owed) and `Answered` (so is what a client has got).  `Reading` is the reason the
answer does not depend on the requests served before; the refinement then maps
the step that writes to the abstract answer and every other step to a stutter.

`ScannerProofs` proves `ScannersFindTheSame` (the property `ScannersAgree`),
`ClientFindsThem` (`ClientFindsTheTokens`) and `SignatureShowsTheCall`
(`SignatureIsOfTheCall`) for every text of any characters, from `TextsAssumption` (texts are sequences of strings).  The scans
are recursive functions over places, and TLA+ gives a recursive function its
equation only if some function satisfies it: `Recursion` in `LeastProofs` builds
one for a step that looks at places of a lower rank only, and the lemmas that
end in `Unfolds` apply it to each scan (the rank is the distance to the end of
the text; for `Skipped` the place 0, where a comment has no end, ranks lowest).
What a scan returns is then proved by `RankInduction`.

`LexInvariant` says that up to the place of the lexer the text is `Covered`: the
comments in the gaps and the tokens lie side by side with only blanks between
them (`Tiled`), the comments that `collect_comment_tokens` finds from the start
are those and the ones ahead, and the mask hides those and what is hidden ahead,
as long as no string holds the mark of a comment.  `Gap` is a call of
`skip_whitespace_and_comments`, `Token` a token: it holds no mark unless it is a
string (`PlainWord`, `PlainNumber`, `PlainOperator`), so that the other two
scans come to its end with nothing found.  `ScannersAgree` speaks of the end of
the text only, and is not inductive.

Signature help looks back from the cursor, counting round and square brackets
apart; the property says what it finds by reading forwards, nesting them.
`LooksBack` joins the two: where each closing bracket has matched, looking back
with any counts finds what it finds from the innermost open bracket.  `Closing`
is the step that matters: a call that is closed leaves the brackets before it as
they were (`Nested`), and the two counts as well.  `CommasAreOfTheCall` is the
same for the commas.

`ClientFindsTheTokens` needs the state of the lexer: `FitInvariant` says that
`line_` and `column_` are those of its place (`AdvancedTo`; `advance` counts as
it goes, `Position` counts the ends of lines before a place), and that its tokens
lie behind one another.  The places of comments and tokens are then all
different (`UnsortedFacts`: a comment starts at a mark and a token does not), so
sorting by them is a rearrangement (`SortedHasAll`).  `DecodedIs` adds up the
differences, and `OffsetBack` takes a position back to its offset.  The model
states the sort by what it gives, the nth entry having n - 1 before it; what
`std::sort` does to reach that is not modelled.

`ProjectionsProofs` proves `ConversionsKeep` (the property
`ConversionsKeepTheTree`): a tree comes through any chain of conversions that
carry it, of any length, as the same tree, for every set of trees of every
height and every order of keys, and with the member that another program adds.
It rests on two assumptions.  `TreesAssumption` says what a tree is: a leaf with
one of five tags, a rational being one that `Arena::rational` makes, or a
compound of lower trees whose keys are words given once.  `PiecesAssumption`
says what the provers cannot see, since a string has no characters for them:
that a leaf that is carried is one piece and is read as that leaf, that a quoted
string of an object is unescaped to itself, and that the marks are no strings
and no numbers.  So the theorem is about structure: brackets, commas, keys,
heads that are operators, arguments that look like attributes, members in any
order and members that are skipped; the escapes of a string are checked by TLC.

The argument has three parts.  A reader is defined through itself, and TLA+
gives it its equation only if some function satisfies it.  `ReaderExists` builds
one by ranks: each rule calls others at later places, or one of a lower rank at
its own place (`AgreeAfter`, `AgreeOn`), and makes the same of two functions
that agree there (`StepAlike`, from one lemma for each rule).  `CoreRoundTrip`, `StrictRoundTrip` and `ObjectRoundTrip` then say that
wherever the text of a tree occurs in a longer text, the rule "node" reads it
there as that tree and stops at its end, by induction on the height of the tree:
the parts of a compound are read from the last to the first, each followed by
what the parts after it give.  In strict this needs to know what follows (no
"(" after a leaf, no "=" after an argument: `LooksLikeAttr`), and in an object
that keys are told apart by their values alone.  The inductive invariant is
`ChainInv` (`ChainIsKept`): as long as each projection used carries the original
tree, a text that waits to be read is one the writer makes of it, or that with
the member that was added, and a tree that was read is the original.
`ConversionsKeepTheTree` speaks only of the moments when no text waits, and is
not inductive.

## What is only checked, and what is not modelled

Only model-checked:

* everything about liveness and fairness, which is out of the prover's reach:
  `ServerLeaves`, `EveryoneIsServed`, `ComparisonEnds`, and the fairness that
  `ServiceSpec` of the language server asks for (of that refinement the initial
  states and the steps are proved);
* the surface syntax (`OperatorsBindUnlessSwallowed`, `EndsAreBound`,
  `FormattingKeepsTheTree`) and the bridge (`SourceMeansTheTree`,
  `ResultKeepsTheValue`, `ResultsCanBeSent`, `AssumptionsFollow`,
  `GapsAreReported`).  Their readers and writers are recursive operators, about
  which the prover can show nothing; those of the projections are recursive
  functions, and a proof about the others would begin by making them so.
  `ResultKeepsTheValue` and `SourceMeansTheTree` are besides about what Python
  and SymPy do, which the models only sketch;
* what the assumptions `PiecesAssumption` and `TreesAssumption` say of the
  characters of strings, which TLC evaluates on the strings of the run.

Not modelled: kernel directives, the reader of a line for a controller outside
this repository; `validate` and the table of stubs, single walks that keep no
state; the LaTeX writer and the renderers, whose output nothing reads; the
classes of semantic tokens, completion and hover, which are tables of words;
argument parsing, files and the formatting of results; the quoting of the
command of the subprocess; doc sugar.  Options of a comparison are read, with any number, or refused with
an Error; numbers that `stoi` and `stod` refuse (`sympy.cpp:949`) throw past
every catch of the program and are neither.  A word of a `do` block that is
spelled like a layout token is not among the lines of the runs, and the theorems
exclude it.

## Plan

Done, in this order: `Interner` and `Arena`; `Layout`; `StatementParser` on
top of it; `LanguageService` and `LanguageServer`; `Syntax`, `SurfaceParser`,
`SurfacePrinter` and `Surface`; `Projections`; the proofs of the arena and of
the layout pass; `EvaluationService` and `KernelServer` with their proofs;
`Agreement`, `Sampling` and `Comparison`; `KernelSource`, `Srepr`,
`ComputerAlgebra` and `Bridge`; `Scanner`; the proofs of the language server, of
the statement parser, of the comparison, of the scanner and of the projections.

Next:

* a module of the kernel directives (`facet.cpp:2230`, `2470`): how an argument
  is read and how many a directive takes;
* a module of `validate` and its table of forms (`facet.cpp:1523`).
