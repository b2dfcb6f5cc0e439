---------------------------- MODULE MCAcceptLoop ----------------------------
(***************************************************************************)
(* AcceptLoop with two clients and enough errors of Accept for the backoff *)
(* to reach its maximum and stay there.                                    *)
(***************************************************************************)
EXTENDS AcceptLoop
=============================================================================
