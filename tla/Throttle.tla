------------------------------ MODULE Throttle ------------------------------
(***************************************************************************)
(* throttle.py: the process-wide limiter every request passes through.     *)
(*                                                                         *)
(* One Throttle is shared by all concurrent tool calls of the server.  It  *)
(* keeps, per bucket, a deque of the instants of recent grants.  acquire() *)
(* drops the entries that left the window, then grants, sleeps until the   *)
(* oldest one leaves, or refuses when the call's deadline cannot pay for   *)
(* that sleep.  There is no await between the test and the append, so one  *)
(* evaluation is one atomic step; other callers run only during the sleep, *)
(* after which acquire() starts over from the top.                         *)
(***************************************************************************)
EXTENDS Deadline, Sequences

CONSTANTS Caller,    \* coroutines that may be inside acquire()
          Bucket,    \* the members of the Bucket enum
          Capacity,  \* [Bucket -> grants allowed per window]
          Window,    \* [Bucket -> window_s]
          MaxTime    \* bound on the clock

ASSUME ThrottleAssumption ==
  /\ Capacity \in [Bucket -> Nat \ {0}]
  /\ Window \in [Bucket -> Nat \ {0}]
  /\ MaxTime \in Nat

VARIABLES
  now,      \* the monotonic clock
  history,  \* [Bucket -> Seq of instants]: _history, oldest first
  phase,    \* [Caller -> Phase]: where each caller is in acquire()
  bucket,   \* [Caller -> Bucket]: argument of the call in progress
  started,  \* [Caller -> instant]: the deadline passed to it
  wake,     \* [Caller -> instant]: when its sleep is over
  granted   \* history variable: every grant, what `history` is a suffix of

vars == <<now, history, phase, bucket, started, wake, granted>>

Phase == {"outside", "sleeping", "granted", "refused"}

Init ==
  /\ now = 0
  /\ history = [b \in Bucket |-> << >>]
  /\ phase = [c \in Caller |-> "outside"]
  /\ bucket \in [Caller -> Bucket]
  /\ started = [c \in Caller |-> 0]
  /\ wake = [c \in Caller |-> 0]
  /\ granted = [b \in Bucket |-> << >>]

-----------------------------------------------------------------------------
\* Mutants of Popped: entries leave one instant early; one instant late.
PoppedEarly(h, w, t, k) ==
  /\ \A i \in 1..k : t - h[i] >= w - 1
  /\ k < Len(h) => t - h[k + 1] < w - 1
PoppedLate(h, w, t, k) ==
  /\ \A i \in 1..k : t - h[i] > w
  /\ k < Len(h) => t - h[k + 1] <= w

\* The popleft loop removed exactly the first k entries of h at instant t.
Popped(h, w, t, k) ==
  /\ \A i \in 1..k : t - h[i] >= w
  /\ k < Len(h) => t - h[k + 1] < w

Rest(h, k) == SubSeq(h, k + 1, Len(h))

\* Mutants of WaitFor: a whole window; measured from the newest entry.
WaitForWindow(h, w, t) == w
WaitForNewest(h, w, t) == w - (t - h[Len(h)])

\* The sleep acquire() asks for: until the oldest entry leaves the window.
WaitFor(h, w, t) == w - (t - h[1])

\* history.append(clock()): the caller goes on to send its request.
Grant(c, b, h) ==
  /\ Len(h) < Capacity[b]
  /\ history' = [history EXCEPT ![b] = Append(h, now)]
  /\ granted' = [granted EXCEPT ![b] = Append(@, now)]
  /\ phase' = [phase EXCEPT ![c] = "granted"]
  /\ UNCHANGED wake

\* await self._sleep(wait), inside the deadline.
Sleep(c, b, s, h) ==
  /\ Len(h) >= Capacity[b]
  /\ CanAfford(s, now, WaitFor(h, Window[b], now))
  /\ history' = [history EXCEPT ![b] = h]
  /\ phase' = [phase EXCEPT ![c] = "sleeping"]
  /\ wake' = [wake EXCEPT ![c] = now + WaitFor(h, Window[b], now)]
  /\ UNCHANGED granted

\* raise ThrottleRefused
Refuse(c, b, s, h) ==
  /\ Len(h) >= Capacity[b]
  /\ ~CanAfford(s, now, WaitFor(h, Window[b], now))
  /\ history' = [history EXCEPT ![b] = h]
  /\ phase' = [phase EXCEPT ![c] = "refused"]
  /\ UNCHANGED <<wake, granted>>

\* One evaluation of acquire()'s body for caller c.
Evaluate(c, b, s) ==
  \E k \in 0..Len(history[b]) :
    /\ Popped(history[b], Window[b], now, k)
    /\ LET h == Rest(history[b], k)
       IN  Grant(c, b, h) \/ Sleep(c, b, s, h) \/ Refuse(c, b, s, h)

\* acquire(bucket, deadline) is called with a deadline begun at s.
Acquire(c, b, s) ==
  /\ phase[c] # "sleeping"
  /\ s + Budget <= MaxTime
  /\ bucket' = [bucket EXCEPT ![c] = b]
  /\ started' = [started EXCEPT ![c] = s]
  /\ Evaluate(c, b, s)
  /\ UNCHANGED now

\* The sleep returns, possibly late, and acquire() calls itself.
Wake(c) ==
  /\ phase[c] = "sleeping"
  /\ now >= wake[c]
  /\ Evaluate(c, bucket[c], started[c])
  /\ UNCHANGED <<now, bucket, started>>

Tick ==
  /\ now < MaxTime
  /\ now' = now + 1
  /\ UNCHANGED <<history, phase, bucket, started, wake, granted>>

Next ==
  \/ \E c \in Caller, b \in Bucket, s \in 0..now : Acquire(c, b, s)
  \/ \E c \in Caller : Wake(c)
  \/ Tick

\* The event loop resumes a coroutine whose sleep is over; time goes on.
Fairness == WF_vars(Tick) /\ \A c \in Caller : WF_vars(Wake(c))

Spec == Init /\ [][Next]_vars
FairSpec == Spec /\ Fairness

-----------------------------------------------------------------------------
\* Types of the variables; the histories are sequences of instants.
TypeOK ==
  /\ now \in 0..MaxTime
  /\ history \in [Bucket -> Seq(Nat)]
  /\ phase \in [Caller -> Phase]
  /\ bucket \in [Caller -> Bucket]
  /\ started \in [Caller -> Nat]
  /\ wake \in [Caller -> Nat]
  /\ granted \in [Bucket -> Seq(Nat)]

\* The published figure is never exceeded: whatever the callers' interleaving,
\* a grant and the one Capacity places later are a full window apart
\* (Bucket's capacity and window_s; acquire's guard).
SpacedBy(b) ==
  \A i \in 1..Len(granted[b]) :
    i + Capacity[b] <= Len(granted[b]) =>
      granted[b][i + Capacity[b]] - granted[b][i] >= Window[b]

WindowBound == \A b \in Bucket : SpacedBy(b)

\* Capacity[b] grants of the full log lie in the window ending at t.
FullAt(b, t) ==
  LET n == Len(granted[b])
  IN  n >= Capacity[b] /\ t - granted[b][n - Capacity[b] + 1] < Window[b]

\* Nobody sleeps beside a free slot: while a caller's sleep is not over its
\* bucket is full, although other callers prune and extend the same deque
\* during that sleep (acquire's wait is computed once, before the await).
NoNeedlessSleep ==
  \A c \in Caller :
    phase[c] = "sleeping" /\ now < wake[c] => FullAt(bucket[c], now)

\* A sleep never reaches past the end of the call's ordinary budget
\* (deadline.py: the ceiling is absolute).
SleepWithinBudget ==
  \A c \in Caller : phase[c] = "sleeping" => wake[c] <= started[c] + Budget

\* ThrottleRefused is raised only when waiting could not have helped: the
\* bucket stays full up to the last instant the call may still use, even if
\* no other caller takes a slot.
RefusalIsForced ==
  [][\A c \in Caller :
       phase'[c] = "refused" /\ phase[c] # "refused" =>
         \A t \in now'..(started'[c] + Budget) : FullAt(bucket'[c], t)]_vars

\* Every acquire() settles: no herd of sleepers keeps one of them forever,
\* because each round spends the deadline it is checked against.
EveryAcquireSettles ==
  \A c \in Caller : phase[c] = "sleeping" ~> phase[c] \in {"granted", "refused"}
=============================================================================
