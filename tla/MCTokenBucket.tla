--------------------------- MODULE MCTokenBucket ---------------------------
(***************************************************************************)
(* Instances of TokenBucket for TLC.                                       *)
(***************************************************************************)
EXTENDS TokenBucket

mcSizes == {15, 17}
mcOneByte == {15}
mcGarbage == {0, -8, 5}
=============================================================================
