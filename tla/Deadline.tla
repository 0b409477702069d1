------------------------------ MODULE Deadline ------------------------------
(***************************************************************************)
(* deadline.py: the single time budget of one MCP tool call.               *)
(*                                                                         *)
(* A Deadline object keeps the instant it was built; everything else is    *)
(* arithmetic on that instant and the clock, so the object is represented  *)
(* by its `started` stamp and its methods are operators of (started, now). *)
(* Instants are integers in an unspecified unit: every comparison of the   *)
(* code is kept with its strictness, so `<=` against `<` still matters.    *)
(***************************************************************************)
EXTENDS Integers

CONSTANTS TotalS,  \* total_s: the ceiling of the tool call
          TailS    \* reserved_tail_s: kept back for fetching a paid-for result

ASSUME DeadlineAssumption ==
  /\ TotalS \in Nat
  /\ TailS \in Nat
  /\ TailS <= TotalS

\* What ordinary requests may spend when the call has just begun.
Budget == TotalS - TailS

\* max(0, x)
AtLeastZero(x) == IF x > 0 THEN x ELSE 0

\* Deadline.remaining: the budget for ordinary requests, never negative.
Remaining(started, now) == AtLeastZero(Budget - (now - started))

\* Deadline.can_afford: may the call still sleep for `seconds`?
CanAfford(started, now, seconds) == seconds <= Remaining(started, now)

\* Deadline.clamp: a subordinate ceiling consumes what remains, never more.
Clamp(started, now, candidate) ==
  IF candidate <= Remaining(started, now) THEN candidate
                                          ELSE Remaining(started, now)

\* Deadline.expired
Expired(started, now) == Remaining(started, now) <= 0
=============================================================================
