--------------------------- MODULE MCTCPReceiver ---------------------------
(* A periodic stream: a byte put a whole sequence space (W = 8) away from its place would be wrong. *)
EXTENDS TCPReceiverSpec

Three == { <<"a", "b", "c">> }
One == { 1 }
=============================================================================
