--------------------------- MODULE MCTransferQueue ---------------------------
(***************************************************************************)
(* TransferQueue for TLC.  Requests are interchangeable.                   *)
(***************************************************************************)
EXTENDS TransferQueue, TLC

RequestSymmetry == Permutations(Requests)
=============================================================================
