------------------------------- MODULE Client -------------------------------
(***************************************************************************)
(* client.py: DocsClient.request, the retry engine every call of the API   *)
(* goes through.                                                           *)
(*                                                                         *)
(* The requests of all concurrent tool calls share one limiter (module     *)
(* Throttle, instantiated here: its steps are conjuncts of this module's)  *)
(* and one count of exhausted 429 budgets.  A request is a coroutine that  *)
(* suspends in three places only: inside acquire(), while HTTP is in       *)
(* flight, and in a backoff sleep.  Everything between two suspensions is  *)
(* one step.                                                               *)
(*                                                                         *)
(* The server is external.  An attempt whose answer is lost leaves a       *)
(* "stray" copy behind: the server may execute it later, or never.         *)
(***************************************************************************)
EXTENDS Deadline, Sequences

CONSTANTS
  Request,          \* one per call of DocsClient.request
  Bucket, Capacity, Window, MaxTime,   \* of Throttle
  Max429,           \* [Bucket -> _MAX_429_RETRIES_READ or _WRITE]
  Replays,          \* _REPLAYS_PER_REQUEST
  StickyThreshold,  \* _STICKY_429_THRESHOLD
  StickyWindow,     \* _STICKY_429_WINDOW_S
  BackoffBase, BackoffFactor, BackoffMax,
  RetryAfterLow, RetryAfterHigh,       \* _RETRY_AFTER_CLAMP_S
  ReplayBase,       \* _REPLAY_BASE_S
  HttpTimeout,      \* the longest one HTTP exchange may last
  Age,              \* how old a tool call's deadline is when it makes a request
  Answer,           \* how the server and the network may answer
  OtherBudgets      \* bound: exhausted budgets of other buckets in one run

Answers == {"ok", "429", "auth", "4xx", "504", "lost", "connect"}

ASSUME ClientAssumption ==
  /\ Capacity \in [Bucket -> Nat \ {0}]
  /\ Window \in [Bucket -> Nat \ {0}]
  /\ MaxTime \in Nat
  /\ Max429 \in [Bucket -> Nat]
  /\ {Replays, StickyWindow, BackoffMax, RetryAfterHigh, ReplayBase, HttpTimeout} \subseteq Nat
  /\ StickyThreshold \in Nat \ {0}
  /\ Age \subseteq Nat
  /\ OtherBudgets \in Nat
  /\ Answer \subseteq Answers

None == -1

VARIABLES
  now, history, phase, bucket, started, wake, granted,   \* of Throttle
  pc,           \* [Request -> where its coroutine is suspended]
  safe,         \* [Request -> is it declared Replay.SAFE]
  replaysLeft,  \* [Request -> Nat]: replays_left
  attempt429,   \* [Request -> Nat]: attempt_429
  until,        \* [Request -> instant]: end of a backoff sleep, or of a timeout
  outcome,      \* [Request -> how request() ended]
  exhausted,    \* _exhausted_budgets
  firstAt,      \* _first_exhaustion_at, or None
  sent,         \* history variable: attempts put on the wire
  stray,        \* external: attempts the server may still execute
  executed,     \* history variable: times the server executed the request
  run           \* history variable: instants of the budgets exhausted since
                \* the last success of any request

limiter == <<now, history, phase, bucket, started, wake, granted>>
sticky == <<exhausted, firstAt, run>>
locals == <<safe, replaysLeft, attempt429, until>>
server == <<sent, stray, executed>>
vars == <<limiter, sticky, locals, server, pc, outcome>>

Throttle == INSTANCE Throttle WITH Caller <- Request

Where == {"new", "throttle", "flight", "backoff", "done"}
Outcome == {"none", "Ok", "OutOfTime", "StickyRateLimit", "ThrottleRefused",
            "NotTransmitted", "OutcomeUnknown", "RateLimited", "AuthFailure",
            "UpstreamRefused"}

Init ==
  /\ Throttle!Init
  /\ pc = [r \in Request |-> "new"]
  /\ safe = [r \in Request |-> FALSE]
  /\ replaysLeft = [r \in Request |-> 0]
  /\ attempt429 = [r \in Request |-> 0]
  /\ until = [r \in Request |-> 0]
  /\ outcome = [r \in Request |-> "none"]
  /\ exhausted = 0
  /\ firstAt = None
  /\ sent = [r \in Request |-> 0]
  /\ stray = [r \in Request |-> 0]
  /\ executed = [r \in Request |-> 0]
  /\ run = << >>

-----------------------------------------------------------------------------
\* _sticky: enough exhausted budgets, the first of them inside the window.
Sticky ==
  /\ exhausted >= StickyThreshold
  /\ now - firstAt <= StickyWindow

\* equal_jitter: between half of the full delay and all of it.  The full delay
\* is positive in the code, so every delay below is.
Jittered(full, d) == full <= 2 * d /\ d <= full

BackoffFull(attempt) ==
  LET grown == BackoffBase * BackoffFactor ^ attempt
  IN  IF grown <= BackoffMax THEN grown ELSE BackoffMax

\* parse_retry_after, clamped: whatever delay the server named.
RetryAfter(d) == RetryAfterLow <= d /\ d <= RetryAfterHigh

\* _delay_for_429: a Retry-After the server named, or the backoff.
Delay429(attempt) ==
  {d \in 1..(BackoffMax + RetryAfterHigh) :
     \/ RetryAfter(d)
     \/ Jittered(BackoffFull(attempt), d)}

\* _wait_a_replay's delay.
DelayReplay == {d \in 1..ReplayBase : Jittered(ReplayBase, d)}

\* Mutant of NoteExhaustedBudget: the window starts again, the count does not.
NoteKeepsCount ==
  LET fresh == firstAt = None \/ now - firstAt > StickyWindow
  IN  /\ firstAt' = IF fresh THEN now ELSE firstAt
      /\ exhausted' = exhausted + 1
      /\ run' = Append(run, now)

\* _note_exhausted_budget: a first exhaustion too old starts the count again.
NoteExhaustedBudget ==
  LET lapsed == firstAt # None /\ now - firstAt > StickyWindow
      fresh  == lapsed \/ firstAt = None
  IN  /\ firstAt' = IF fresh THEN now ELSE firstAt
      /\ exhausted' = (IF lapsed THEN 0 ELSE exhausted) + 1
      /\ run' = Append(run, now)

\* request() returns or raises.
Finish(r, how) ==
  /\ pc' = [pc EXCEPT ![r] = "done"]
  /\ outcome' = [outcome EXCEPT ![r] = how]

\* acquire() came back, is sleeping, or raised; once granted, the attempt is
\* handed to HTTP in the same step.
AfterAcquire(r) ==
  \/ /\ phase'[r] = "granted"
     /\ pc' = [pc EXCEPT ![r] = "flight"]
     /\ until' = [until EXCEPT ![r] = now + HttpTimeout]
     /\ sent' = [sent EXCEPT ![r] = @ + 1]
     /\ UNCHANGED outcome
  \/ /\ phase'[r] = "sleeping"
     /\ pc' = [pc EXCEPT ![r] = "throttle"]
     /\ UNCHANGED <<until, sent, outcome>>
  \/ /\ phase'[r] = "refused"
     /\ Finish(r, "ThrottleRefused")
     /\ UNCHANGED <<until, sent>>

\* Mutant of LoopTop: an attempt is repeated without going through acquire().
LoopTopUnmetered(r, b, s) ==
  /\ \/ /\ pc[r] = "new"
        /\ Throttle!Acquire(r, b, s)
        /\ AfterAcquire(r)
     \/ /\ pc[r] # "new"
        /\ pc' = [pc EXCEPT ![r] = "flight"]
        /\ until' = [until EXCEPT ![r] = now + HttpTimeout]
        /\ sent' = [sent EXCEPT ![r] = @ + 1]
        /\ UNCHANGED <<limiter, outcome>>
  /\ UNCHANGED <<sticky, attempt429, stray, executed>>

\* The top of the while loop, up to its first suspension.
LoopTop(r, b, s) ==
  /\ \/ /\ Expired(s, now)
        /\ Finish(r, "OutOfTime")
        /\ UNCHANGED <<limiter, until, sent>>
     \/ /\ ~Expired(s, now)
        /\ Sticky
        /\ Finish(r, "StickyRateLimit")
        /\ UNCHANGED <<limiter, until, sent>>
     \/ /\ ~Expired(s, now)
        /\ ~Sticky
        /\ Throttle!Acquire(r, b, s)
        /\ AfterAcquire(r)
  /\ UNCHANGED <<sticky, attempt429, stray, executed>>

\* A tool call whose deadline began at s calls request().
Start(r, b, s, isSafe) ==
  /\ pc[r] = "new"
  /\ s + Budget <= MaxTime
  /\ safe' = [safe EXCEPT ![r] = isSafe]
  /\ replaysLeft' = [replaysLeft EXCEPT ![r] = IF isSafe THEN Replays ELSE 0]
  /\ LoopTop(r, b, s)

\* The sleep inside acquire() is over.  Only acquire() runs again: neither the
\* deadline nor the sticky count is looked at before the attempt goes out.
ThrottleWake(r) ==
  /\ pc[r] = "throttle"
  /\ Throttle!Wake(r)
  /\ AfterAcquire(r)
  /\ UNCHANGED <<sticky, safe, replaysLeft, attempt429, stray, executed>>

\* A backoff sleep is over: continue with the next turn of the loop.
BackoffOver(r) ==
  /\ pc[r] = "backoff"
  /\ now >= until[r]
  /\ LoopTop(r, bucket[r], started[r])
  /\ UNCHANGED <<safe, replaysLeft>>

\* await self._sleep(delay), then continue.
BackOff(r, delay) ==
  /\ pc' = [pc EXCEPT ![r] = "backoff"]
  /\ until' = [until EXCEPT ![r] = now + delay]
  /\ UNCHANGED outcome

\* Mutant of ReplayOr: the replay budget is never spent.
ReplayOrUnspent(r, otherwise) ==
  \/ /\ safe[r] /\ replaysLeft[r] > 0
     /\ \E delay \in DelayReplay :
          CanAfford(started[r], now, delay) /\ BackOff(r, delay)
     /\ UNCHANGED replaysLeft
  \/ /\ ~(safe[r] /\ replaysLeft[r] > 0)
     /\ Finish(r, otherwise)
     /\ UNCHANGED <<replaysLeft, until>>

\* The attempt failed where a SAFE request may be repeated: spend its replay
\* and wait, raising when the deadline cannot pay for the wait; without a
\* replay left, raise `otherwise`.
ReplayOr(r, otherwise) ==
  \/ /\ safe[r] /\ replaysLeft[r] > 0
     /\ replaysLeft' = [replaysLeft EXCEPT ![r] = @ - 1]
     /\ \E delay \in DelayReplay :
          \/ CanAfford(started[r], now, delay) /\ BackOff(r, delay)
          \/ /\ ~CanAfford(started[r], now, delay)
             /\ Finish(r, "OutOfTime")
             /\ UNCHANGED until
  \/ /\ ~(safe[r] /\ replaysLeft[r] > 0)
     /\ Finish(r, otherwise)
     /\ UNCHANGED <<replaysLeft, until>>

InFlight(r, answer) == pc[r] = "flight" /\ answer \in Answer

\* A success of any request clears the sticky count.
ClearSticky == exhausted' = 0 /\ firstAt' = None /\ run' = << >>

\* 2xx: the server executed the request.
Succeeds(r) ==
  /\ InFlight(r, "ok")
  /\ executed' = [executed EXCEPT ![r] = @ + 1]
  /\ ClearSticky
  /\ Finish(r, "Ok")
  /\ UNCHANGED <<limiter, locals, sent, stray>>

\* Mutant of TooManyRequests: the retry after a 429 spends a replay as well.
TooManyRequestsSpendsReplay(r) ==
  /\ InFlight(r, "429")
  /\ \/ /\ attempt429[r] >= Max429[bucket[r]]
        /\ NoteExhaustedBudget
        /\ Finish(r, "RateLimited")
        /\ UNCHANGED <<attempt429, replaysLeft, until>>
     \/ /\ attempt429[r] < Max429[bucket[r]]
        /\ \E delay \in Delay429(attempt429[r]) :
             \/ /\ CanAfford(started[r], now, delay)
                /\ attempt429' = [attempt429 EXCEPT ![r] = @ + 1]
                /\ replaysLeft' = [replaysLeft EXCEPT ![r] = AtLeastZero(@ - 1)]
                /\ BackOff(r, delay)
             \/ /\ ~CanAfford(started[r], now, delay)
                /\ Finish(r, "RateLimited")
                /\ UNCHANGED <<attempt429, replaysLeft, until>>
        /\ UNCHANGED sticky
  /\ UNCHANGED <<limiter, safe, server>>

\* 429: refused before execution.  Give up, or back off and try again.
TooManyRequests(r) ==
  /\ InFlight(r, "429")
  /\ \/ /\ attempt429[r] >= Max429[bucket[r]]
        /\ NoteExhaustedBudget
        /\ Finish(r, "RateLimited")
        /\ UNCHANGED <<attempt429, until>>
     \/ /\ attempt429[r] < Max429[bucket[r]]
        /\ \E delay \in Delay429(attempt429[r]) :
             \/ /\ CanAfford(started[r], now, delay)
                /\ attempt429' = [attempt429 EXCEPT ![r] = @ + 1]
                /\ BackOff(r, delay)
             \/ /\ ~CanAfford(started[r], now, delay)
                /\ Finish(r, "RateLimited")
                /\ UNCHANGED <<attempt429, until>>
        /\ UNCHANGED sticky
  /\ UNCHANGED <<limiter, safe, replaysLeft, server>>

\* The connection was never established: nothing reached the server.
ConnectFails(r) ==
  /\ InFlight(r, "connect")
  /\ ReplayOr(r, "NotTransmitted")
  /\ UNCHANGED <<limiter, sticky, safe, attempt429, server>>

\* Mutant of AnswerLost: a lost answer is taken for a refused connection.
AnswerLostAsRefused(r) ==
  /\ InFlight(r, "lost")
  /\ stray' = [stray EXCEPT ![r] = @ + 1]
  /\ ReplayOr(r, "NotTransmitted")
  /\ UNCHANGED <<limiter, sticky, safe, attempt429, sent, executed>>

\* Any other transport error, a read timeout, or a 5xx other than 504: the
\* attempt reached the server, which may execute it now, later or never.
AnswerLost(r) ==
  /\ InFlight(r, "lost")
  /\ stray' = [stray EXCEPT ![r] = @ + 1]
  /\ ReplayOr(r, "OutcomeUnknown")
  /\ UNCHANGED <<limiter, sticky, safe, attempt429, sent, executed>>

\* 401 or 403.
AuthRejected(r) ==
  /\ InFlight(r, "auth")
  /\ Finish(r, "AuthFailure")
  /\ UNCHANGED <<limiter, sticky, locals, server>>

\* 3xx and every other 4xx: answered with a refusal, nothing executed.
Answered(r) ==
  /\ InFlight(r, "4xx")
  /\ Finish(r, "UpstreamRefused")
  /\ UNCHANGED <<limiter, sticky, locals, server>>

\* 504: treated as answered, although the gateway gave up on a server that
\* may still be executing.
GatewayTimeout(r) ==
  /\ InFlight(r, "504")
  /\ stray' = [stray EXCEPT ![r] = @ + 1]
  /\ Finish(r, "UpstreamRefused")
  /\ UNCHANGED <<limiter, sticky, locals, sent, executed>>

Settle(r) ==
  \/ Succeeds(r) \/ TooManyRequests(r) \/ ConnectFails(r) \/ AnswerLost(r)
  \/ AuthRejected(r) \/ Answered(r) \/ GatewayTimeout(r)

\* A request of a bucket that is not followed here exhausts its budget, or
\* succeeds: buckets share nothing but the sticky count.
OtherExhausts ==
  /\ Len(run) < OtherBudgets
  /\ NoteExhaustedBudget
  /\ UNCHANGED <<limiter, locals, server, pc, outcome>>

OtherSucceeds ==
  /\ ClearSticky
  /\ UNCHANGED <<limiter, locals, server, pc, outcome>>

\* The server executes an attempt whose answer this client never got.
ExecuteStray(r) ==
  /\ stray[r] > 0
  /\ stray' = [stray EXCEPT ![r] = @ - 1]
  /\ executed' = [executed EXCEPT ![r] = @ + 1]
  /\ UNCHANGED <<limiter, sticky, locals, sent, pc, outcome>>

\* Time passes; an exchange never outlives its HTTP timeout.
Tick ==
  /\ \A r \in Request : pc[r] = "flight" => now < until[r]
  /\ Throttle!Tick
  /\ UNCHANGED <<sticky, locals, server, pc, outcome>>

Next ==
  \/ \E r \in Request, b \in Bucket, isSafe \in BOOLEAN :
       \E s \in 0..now : now - s \in Age /\ Start(r, b, s, isSafe)
  \/ \E r \in Request : ThrottleWake(r) \/ BackoffOver(r) \/ Settle(r) \/ ExecuteStray(r)
  \/ OtherExhausts \/ OtherSucceeds
  \/ Tick

\* The event loop resumes a coroutine whose sleep is over, and an exchange
\* ends: with an answer, or with the exception of its timeout.
Fairness ==
  /\ WF_vars(Tick)
  /\ \A r \in Request :
       WF_vars(ThrottleWake(r)) /\ WF_vars(BackoffOver(r)) /\ WF_vars(Settle(r))

Spec == Init /\ [][Next]_vars
FairSpec == Spec /\ Fairness

-----------------------------------------------------------------------------
\* Types of the variables.
TypeOK ==
  /\ Throttle!TypeOK
  /\ pc \in [Request -> Where]
  /\ safe \in [Request -> BOOLEAN]
  /\ replaysLeft \in [Request -> Nat]
  /\ attempt429 \in [Request -> Nat]
  /\ until \in [Request -> Nat]
  /\ outcome \in [Request -> Outcome]
  /\ exhausted \in Nat
  /\ firstAt \in Nat \cup {None}
  /\ sent \in [Request -> Nat]
  /\ stray \in [Request -> Nat]
  /\ executed \in [Request -> Nat]
  /\ run \in Seq(Nat)

\* The replays request() has spent on r so far.
Spent(r) == IF safe[r] THEN Replays - replaysLeft[r] ELSE 0

\* A request is executed at most once more than the replays it declared
\* itself safe for, however late the server executes an attempt whose answer
\* was lost; an UNSAFE one at most once (request(): errors.Replay).
DeclaredReplaysOnly ==
  \A r \in Request : executed[r] + stray[r] <= 1 + Spent(r)

\* What request() says of an UNSAFE call is true then and stays true: after a
\* failure that claims no change, the server holds no copy it might execute;
\* after a success it executed the call exactly once (errors.py's texts).
UnsafeVerdictHolds ==
  \A r \in Request : pc[r] = "done" /\ ~safe[r] =>
    /\ outcome[r] \notin {"Ok", "OutcomeUnknown", "UpstreamRefused"} =>
         executed[r] + stray[r] = 0
    /\ outcome[r] = "Ok" => executed[r] = 1 /\ stray[r] = 0

\* request() keeps Delivery's promise: of what it repeats, of what may be
\* executed behind its back and of what each of its ends says, the limiter, the
\* waits, the 429 retries and the sticky refusals change nothing.
State ==
  [r \in Request |-> IF pc[r] = "new" THEN "new"
                     ELSE IF pc[r] = "done" THEN outcome[r] ELSE "open"]
Promise == INSTANCE Delivery WITH state <- State
ImplementsDelivery == Promise!Spec

\* Attempts of r whose failure one of its two budgets has paid for.
PaidFor(r) == attempt429[r] + Spent(r)

\* r, at its end, had used up the budget its error speaks of: its replays, or
\* its 429 retries, unless a wait it could draw no longer fitted its deadline.
EndIsEarned(r) ==
  /\ safe[r] /\ outcome[r] \in {"NotTransmitted", "OutcomeUnknown"} =>
       sent[r] = attempt429[r] + Replays + 1
  /\ outcome[r] = "RateLimited" =>
       /\ sent[r] = PaidFor(r) + 1
       /\ \/ attempt429[r] = Max429[bucket[r]]
          \/ \E d \in Delay429(attempt429[r]) : ~CanAfford(started[r], now, d)

\* The 429 retries and the replays compose but do not draw on each other
\* (client.py's comment at the 429 branch): every attempt behind the present
\* one cost exactly one of the two, so a SAFE request loses 1 + Replays
\* attempts before it gives up on them, whatever 429s lie between, and none
\* is called rate limited early because of the attempts it lost.
BudgetsAreSeparate ==
  \A r \in Request :
    /\ pc[r] \in {"throttle", "backoff"} => sent[r] = PaidFor(r)
    /\ pc[r] = "flight" => sent[r] = PaidFor(r) + 1
    /\ pc[r] = "done" => EndIsEarned(r)

\* No sleep of the retry engine, nor of the limiter under it, is allowed to
\* reach past the tool call's ordinary budget (deadline.py).
WaitsWithinBudget ==
  \A r \in Request :
    /\ pc[r] = "backoff" => until[r] <= started[r] + Budget
    /\ pc[r] = "throttle" => wake[r] <= started[r] + Budget

\* n exhausted budgets with no success between them, the oldest of them at
\* most StickyWindow ago.
RunOf(n) ==
  /\ n <= Len(run)
  /\ now - run[Len(run) - n + 1] <= StickyWindow

\* Requests are refused as sticky only on the evidence the code asks for,
\* whichever requests exhausted a budget, succeeded or sleep meanwhile
\* (_note_exhausted_budget, _sticky and the reset on success).
StickyIsEarned ==
  Sticky => \E n \in StickyThreshold..Len(run) : RunOf(n)

\* Whatever path leads to an attempt (first try, 429 retry, replay, or a
\* sleep in acquire()), it spends a grant of its bucket at that instant, so
\* the limiter's bound is a bound on the traffic.
SendsAreMetered ==
  [][\A r \in Request :
       sent'[r] # sent[r] =>
         granted'[bucket'[r]] = Append(granted[bucket'[r]], now)]_vars

\* Every request ends: retries, replays, limiter and timeouts together never
\* keep one of them forever.
EveryRequestSettles ==
  \A r \in Request : pc[r] # "new" ~> pc[r] = "done"

-----------------------------------------------------------------------------
(* What documents and messages of the repository say and the code does not  *)
(* keep: refuted by a run of its own.                                      *)

\* errors.py:48-53: "the request did not reach the server and nothing was
\* changed".
NotTransmittedMeansUnchanged ==
  \A r \in Request : outcome[r] = "NotTransmitted" => executed[r] = 0
=============================================================================
