---------------------------- MODULE MCBufWriter ----------------------------
(***************************************************************************)
(* BufWriter with a buffer too small for a rune and one of three bytes.    *)
(* Arguments can fit, fill the buffer exactly, or overflow it; runes have  *)
(* two bytes.                                                              *)
(***************************************************************************)
EXTENDS BufWriter

MCBytes == {0, 1}
MCSizes == {1, 3}
=============================================================================
