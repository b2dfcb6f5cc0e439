---------------------------- MODULE MCBufReader ----------------------------
(***************************************************************************)
(* BufReader with a buffer of three bytes, on data with a rune that a fill *)
(* can cut, a "\r\n" that straddles the buffer, lines longer than the      *)
(* buffer, a rune that is never finished, and none at all.  In most of the *)
(* sources the bytes differ, so that none can stand for another; in one    *)
(* they are alike, so that a wrong one can be the right one by chance.     *)
(***************************************************************************)
EXTENDS BufReader

MCSources ==
  {<< >>, <<97, Lead, Cont, NL, 98>>, <<97, 98, CR, NL, Lead>>, <<NL, 97, 98, 99, CR>>,
   <<97, 97, 97, NL>>}
MCLengths == {0, 2, 4}
=============================================================================
