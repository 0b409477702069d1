----------------------------- MODULE MCThrottle -----------------------------
(***************************************************************************)
(* Throttle on a small instance: three callers on a bucket of two slots,   *)
(* so that several sleep on one slot and all of them wake for it.          *)
(***************************************************************************)
EXTENDS Throttle, TLC

CONSTANTS c1, c2, c3, b1

HerdCaller == {c1, c2, c3}
HerdBucket == {b1}
HerdCapacity == b1 :> 2
HerdWindow == b1 :> 3
=============================================================================
