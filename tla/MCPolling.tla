----------------------------- MODULE MCPolling -----------------------------
(***************************************************************************)
(* Both loops with the proportions of their constants: a mutation may wait *)
(* longer than an export, the grace is about half of the ceiling, and the  *)
(* deadline is fresh, leaves the ceilings just room or too little, or is   *)
(* nearly spent when the work is asked for.                                *)
(***************************************************************************)
EXTENDS Polling

MCInitial == [k \in Kind |-> IF k = "mutation" THEN 3 ELSE 2]
MCGrace   == [k \in Kind |-> IF k = "mutation" THEN 7 ELSE 5]
MCCeiling == [k \in Kind |-> IF k = "mutation" THEN 14 ELSE 11]
MCAge     == {0, 6, 12} \union (Budget - 5 .. Budget)
=============================================================================
