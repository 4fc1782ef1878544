------------------------ MODULE MCOffloadMemManager -------------------------
(* A pool that is not a multiple of the alignment, requests on both sides   *)
(* of it, and every address from below the pool to past its end.            *)
EXTENDS OffloadMemManager

MCRequests == {0, 1, 2, 3, 5, 12}
MCAddresses == -1 .. 11
=============================================================================
