------------------------------ MODULE MCLayout ------------------------------
(* Lines that open blocks and brackets, close them, do both and do neither *)
(* are enough for nested blocks, for a block closed from two levels in,    *)
(* for continuation lines that end in ":", for closers that match nothing  *)
(* and for texts that end inside a bracket.                                *)
EXTENDS Layout

SomeLines ==
  {<< >>, <<"x">>, <<":">>, <<"(">>, <<"(", ":">>, <<"]">>, <<"]", ":">>}

(* The texts with brackets are short; the longer ones only open and close  *)
(* blocks.                                                                 *)
NoBracket(text) == text \notin Openers \cup Closers

ShortOrBlocks ==
  Len(out) > 5 =>
    /\ \A i \in 1 .. Len(out) : NoBracket(out[i].text)
    /\ \A i \in 1 .. Len(line) : NoBracket(line[i])

=============================================================================
