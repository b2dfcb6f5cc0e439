---------------------------- MODULE MCBloomRing ----------------------------
(***************************************************************************)
(* BloomRing with two goroutines, two slots of nominally one entry, and    *)
(* enough additions to go around the ring and reset a slot.                *)
(***************************************************************************)
EXTENDS BloomRing

CONSTANTS t1, t2, s1, s2

MCThreads == {t1, t2}
MCSalts == {s1, s2}
=============================================================================
