-------------------------------- MODULE Batch --------------------------------
(***************************************************************************)
(* What send_chunks promises its caller of a batch of rows, however it is  *)
(* cut, halved, stopped and resumed: the rows are settled from the front   *)
(* on, a run of them at a time, and each once.                             *)
(*                                                                         *)
(*   - only the untried rows at the front are put before the server;       *)
(*   - rows that were are settled in the same step, unless the call raises *)
(*     and takes its report with it, or each write may be repeated;        *)
(*   - a call may stop with rows untried, and the next one goes on there.  *)
(*                                                                         *)
(* SendChunks is shown to implement this module.                           *)
(***************************************************************************)
EXTENDS Integers

CONSTANT N  \* rows in the caller's list

VARIABLES keyed,     \* may a write of the batch be repeated
          outcomes,  \* what the reports say of each row
          reached,   \* how often it was put before the server
          state      \* "idle", "working", "returned" or "raised"

vars == <<keyed, outcomes, reached, state>>

Row == 0..(N - 1)

\* The run of untried rows before row k.
Run(k) == {i \in Row : outcomes[i] = "not_attempted" /\ i < k}

Mark(rows, how) == outcomes' = [i \in Row |-> IF i \in rows THEN how ELSE outcomes[i]]
Reach(rows) == reached' = [i \in Row |-> IF i \in rows THEN reached[i] + 1 ELSE reached[i]]

Init ==
  /\ keyed \in BOOLEAN
  /\ outcomes = [i \in Row |-> "not_attempted"]
  /\ reached = [i \in Row |-> 0]
  /\ state = "idle"

\* A call with the rows that are left.
Begin ==
  /\ state \in {"idle", "returned"}
  /\ Run(N) # {}
  /\ state' = "working"
  /\ UNCHANGED <<keyed, outcomes, reached>>

\* A refusal may hide a server that carries the rows out all the same.
Settle(k) ==
  /\ state = "working"
  /\ \E how \in {"applied", "unknown", "refused"} :
       /\ Mark(Run(k), how)
       /\ Reach(Run(k)) \/ (how = "refused" /\ UNCHANGED reached)
  /\ UNCHANGED <<keyed, state>>

\* An attempt is lost, and its rows are tried again.
Repeat(k) ==
  /\ state = "working"
  /\ keyed
  /\ Reach(Run(k))
  /\ UNCHANGED <<keyed, outcomes, state>>

Return ==
  /\ state = "working"
  /\ state' = "returned"
  /\ UNCHANGED <<keyed, outcomes, reached>>

\* The call raises, and nobody learns how far its last rows got.
Raise(k) ==
  /\ state = "working"
  /\ state' = "raised"
  /\ Reach(Run(k))
  /\ UNCHANGED <<keyed, outcomes>>

Next == Begin \/ Return \/ \E k \in 0..N : Settle(k) \/ Repeat(k) \/ Raise(k)

Spec == Init /\ [][Next]_vars
=============================================================================
