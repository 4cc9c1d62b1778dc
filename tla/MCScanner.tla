------------------------------ MODULE MCScanner ------------------------------
(* All short texts over the characters of comments and strings, of numbers *)
(* and dots, and of calls; the lexer looks at no more than four characters *)
(* at a time.                                                              *)
EXTENDS Scanner

TextsOf(chars, length) == UNION {[1 .. n -> chars] : n \in 0 .. length}

SomeTexts ==
  TextsOf({"#", "|", "\n", "x"}, 6) \cup TextsOf({"\"", "\\", "#", "\n"}, 6)
    \cup TextsOf({"1", "-", ".", "x", "?", " "}, 4)
    \cup TextsOf({"f", "(", ")", "[", "]", ","}, 5)

=============================================================================
