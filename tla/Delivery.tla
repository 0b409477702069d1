------------------------------ MODULE Delivery ------------------------------
(***************************************************************************)
(* What DocsClient.request promises of the effect of one call, whatever    *)
(* limits, waits and repetitions stand between the call and its end:       *)
(*                                                                         *)
(*   - a call that is not declared Replay.SAFE puts at most one attempt    *)
(*     before the server, and then ends with it;                           *)
(*   - a SAFE one may lose as many attempts as it has replays, and go on;  *)
(*   - what the call is told at its end fits what its last attempt did.    *)
(*                                                                         *)
(* An attempt whose answer nobody got stays with the server, which may     *)
(* execute it at any later time.  Client is shown to implement this        *)
(* module.                                                                 *)
(***************************************************************************)
EXTENDS Integers

CONSTANTS Request, Replays

VARIABLES state,     \* state[r]: "new", "open", or how request() ended
          safe,      \* safe[r]: is it declared Replay.SAFE
          executed,  \* executed[r]: times the server executed it
          stray      \* stray[r]: attempts the server may still execute

vars == <<state, safe, executed, stray>>

\* Ends that say nothing of an attempt: there may not have been one.
Refusals == {"OutOfTime", "StickyRateLimit", "ThrottleRefused"}

\* Ends that say the last attempt changed nothing.
Failures == Refusals \cup {"NotTransmitted", "RateLimited", "AuthFailure", "UpstreamRefused"}

Init ==
  /\ state = [r \in Request |-> "new"]
  /\ safe = [r \in Request |-> FALSE]
  /\ executed = [r \in Request |-> 0]
  /\ stray = [r \in Request |-> 0]

Begin(r) ==
  /\ state[r] = "new"
  /\ \E isSafe \in BOOLEAN : safe' = [safe EXCEPT ![r] = isSafe]
  /\ \E s \in Refusals \cup {"open"} : state' = [state EXCEPT ![r] = s]
  /\ UNCHANGED <<executed, stray>>

Succeed(r) ==
  /\ state[r] = "open"
  /\ state' = [state EXCEPT ![r] = "Ok"]
  /\ executed' = [executed EXCEPT ![r] = @ + 1]
  /\ UNCHANGED <<safe, stray>>

Fail(r) ==
  /\ state[r] = "open"
  /\ \E how \in Failures : state' = [state EXCEPT ![r] = how]
  /\ UNCHANGED <<safe, executed, stray>>

\* The last attempt is out of sight, and so ends the call: as unknown, or as
\* the refusal that a gateway's timeout is taken for.
LoseSight(r) ==
  /\ state[r] = "open"
  /\ \E how \in {"OutcomeUnknown", "UpstreamRefused"} : state' = [state EXCEPT ![r] = how]
  /\ stray' = [stray EXCEPT ![r] = @ + 1]
  /\ UNCHANGED <<safe, executed>>

\* One that may be repeated is, unless there is no time for that.
Repeat(r) ==
  /\ state[r] = "open"
  /\ safe[r] /\ executed[r] + stray[r] < Replays
  /\ \E s \in {"open", "OutOfTime"} : state' = [state EXCEPT ![r] = s]
  /\ stray' = [stray EXCEPT ![r] = @ + 1]
  /\ UNCHANGED <<safe, executed>>

ExecuteStray(r) ==
  /\ stray[r] > 0
  /\ stray' = [stray EXCEPT ![r] = @ - 1]
  /\ executed' = [executed EXCEPT ![r] = @ + 1]
  /\ UNCHANGED <<state, safe>>

Next ==
  \E r \in Request :
    Begin(r) \/ Succeed(r) \/ Fail(r) \/ LoseSight(r) \/ Repeat(r) \/ ExecuteStray(r)

Spec == Init /\ [][Next]_vars
=============================================================================
