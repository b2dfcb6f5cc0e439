------------------------------ MODULE MCRelay ------------------------------
(***************************************************************************)
(* Relay with peers that send a few chunks each, then stay silent, end or  *)
(* fail: the plain connection two, so that one can be in the cork when the *)
(* next is written, the tunnel one.                                        *)
(***************************************************************************)
EXTENDS Relay

Chunks == [c \in Conns |-> IF c = "right" THEN 2 ELSE 1]
=============================================================================
