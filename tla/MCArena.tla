------------------------------ MODULE MCArena ------------------------------
(* A small arena whose hash is weak on purpose: it counts the children and *)
(* adds their hashes modulo two, so most buckets hold unequal nodes.       *)
EXTENDS Arena, FiniteSetsExt

MCMix(c) ==
  (Len(c.args) + Len(c.attrs)
     + FoldSet(LAMBDA i, s : s + c.args[i], 0, DOMAIN c.args)
     + FoldSet(LAMBDA i, s : s + c.attrs[i][2], 0, DOMAIN c.attrs)) % 2

=============================================================================
