---------------------------- MODULE MCPacketConn ----------------------------
(***************************************************************************)
(* Two goroutines write at one end and one at the other, with the sizes of *)
(* the code: the longer text fits into the buffer behind a salt of 16      *)
(* bytes and not behind one of 32.  The ends may disagree on the cipher.   *)
(* The filter is sure of the two most recent salts of three.               *)
(***************************************************************************)
EXTENDS PacketConn, TLC

CONSTANTS w1, w2, w3

MCNodes == {"local", "server"}
MCWriters == {w1, w2, w3}
MCHome == [w \in MCWriters |-> IF w = w3 THEN "server" ELSE "local"]
MCSymmetry == Permutations({w1, w2})
MCConfigs ==
  {[n \in MCNodes |-> "AEAD_AES_128_GCM"], [n \in MCNodes |-> "AEAD_CHACHA20_POLY1305"],
   [local |-> "AEAD_AES_128_GCM", server |-> "AEAD_AES_256_GCM"]}
MCLengths == {0, 65500}
MCReadSizes == {20, 48, 65536}
=============================================================================
