------------------------------ MODULE MCClient ------------------------------
(***************************************************************************)
(* Client on small instances; each .cfg picks the requests and the answers *)
(* it needs.  Times are scaled so that a Budget holds one or two waits.    *)
(***************************************************************************)
EXTENDS Client, TLC

CONSTANTS r1, r2, b1

OneRequest == {r1}
TwoRequests == {r1, r2}
OneBucket == {b1}

NarrowCapacity == b1 :> 1
ShortWindow == b1 :> 2
OneRetry == b1 :> 1

AllAges == {0, 2, 4}
=============================================================================
