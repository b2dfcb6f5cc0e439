-------------------------------- MODULE Cuts --------------------------------
(* The first n elements of a sequence, and what comes after them.          *)
EXTENDS Naturals, Sequences

Take(s, n) == SubSeq(s, 1, n)
Drop(s, n) == SubSeq(s, n + 1, Len(s))
=============================================================================
