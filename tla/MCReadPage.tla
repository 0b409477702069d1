----------------------------- MODULE MCReadPage -----------------------------
(***************************************************************************)
(* Three reads of two pages, one of which also has a name: one read asks   *)
(* by id, one by name, and the third may do either and may be answered     *)
(* without an id or a stamp.                                               *)
(***************************************************************************)
EXTENDS ReadPage

CONSTANTS r1, r2, r3, p1, p2, n1

MCAsked == (r1 :> {p1}) @@ (r2 :> {n1}) @@ (r3 :> {p1, n1})
=============================================================================
