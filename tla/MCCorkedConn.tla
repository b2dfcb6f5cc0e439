---------------------------- MODULE MCCorkedConn ----------------------------
(***************************************************************************)
(* CorkedConn with a buffer of two bytes and writes of up to three: a      *)
(* write can fit, fill the buffer exactly, overflow it, or bypass it.      *)
(***************************************************************************)
EXTENDS CorkedConn

MCBytes == {0, 1}
=============================================================================
