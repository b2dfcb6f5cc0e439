------------------------------ MODULE BytePipe ------------------------------
(***************************************************************************)
(* What every layer of the proxy's data path promises of one direction of  *)
(* a connection: the bytes handed over so far are sent, the bytes that     *)
(* have come out at the far end are wire, and wire is never anything but a *)
(* prefix of sent that grows.  A pipe that has gone down delivers nothing  *)
(* more.  CorkedConn and ShadowStream are shown to implement it.           *)
(***************************************************************************)
EXTENDS Naturals, Sequences

CONSTANT Bytes

VARIABLES
  sent,  \* every byte handed to the pipe, in order
  wire,  \* every byte that came out of it, in order
  up     \* FALSE once the pipe can carry nothing more

vars == <<sent, wire, up>>

Init ==
  /\ sent = << >>
  /\ wire = << >>
  /\ up = TRUE

(***************************************************************************)
(* A step hands over more bytes, lets a longer prefix of them out, or      *)
(* takes the pipe down while letting a last piece out.                     *)
(***************************************************************************)
Handover ==
  /\ sent' \in Seq(Bytes)
  /\ Len(sent) <= Len(sent') /\ SubSeq(sent', 1, Len(sent)) = sent
  /\ UNCHANGED <<wire, up>>

Deliver ==
  /\ up
  /\ \E n \in Len(wire) .. Len(sent) : wire' = SubSeq(sent, 1, n)
  /\ up' \in BOOLEAN
  /\ UNCHANGED sent

Next == Handover \/ Deliver

Spec == Init /\ [][Next]_vars
=============================================================================
