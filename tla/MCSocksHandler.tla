--------------------------- MODULE MCSocksHandler ---------------------------
(***************************************************************************)
(* SocksHandler with addresses of the three types and of none, a greeting  *)
(* of another version, and data of more than one chunk in both directions. *)
(* A message can be read as a whole, in parts, or together with the next   *)
(* one; a Read may leave the end of what has arrived.                      *)
(***************************************************************************)
EXTENDS SocksHandler

MCRequests ==
  {[greeting |-> <<5, 1, 0>>, addr |-> <<1, 10, 0, 0, 1, 0, 80>>, payload |-> <<7, 8, 9>>],
   [greeting |-> <<5, 1, 0>>, addr |-> <<3, 1, 97, 1, 187>>, payload |-> <<7, 8, 9>>],
   [greeting |-> <<5, 1, 0>>, payload |-> << >>,
    addr |-> <<4, 32, 1, 0, 0, 1, 0, 22>>],
   [greeting |-> <<5, 1, 0>>, addr |-> <<2, 97, 0, 80>>, payload |-> << >>],
   [greeting |-> <<4, 1, 0>>, addr |-> <<1, 10, 0, 0, 1, 0, 80>>, payload |-> << >>]}
MCReplies == {<<3, 4, 5>>}
MCPieces == {2, 3, 8}
=============================================================================
