---------------------------- MODULE MCTokenBucket -----------------------------
(***************************************************************************)
(* A small instance of TokenBucket.  The rates do not divide the costs, so *)
(* that sleeps are rounded; one request exceeds the burst of 3 bytes.      *)
(***************************************************************************)
EXTENDS TokenBucket

MCRate == [byte |-> 3, iop |-> 3]
=============================================================================
