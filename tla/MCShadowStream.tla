-------------------------- MODULE MCShadowStream --------------------------
(***************************************************************************)
(* ShadowStream with payloads of at most two bytes, writes of up to three  *)
(* (more than one record) and four nonces, so that the nonce wraps around. *)
(***************************************************************************)
EXTENDS ShadowStream

MCBytes == {0, 1}
=============================================================================
