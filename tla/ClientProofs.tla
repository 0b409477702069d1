---------------------------- MODULE ClientProofs ----------------------------
(***************************************************************************)
(* The retry engine's safety for any number of requests, any retry limits  *)
(* and any delays.                                                         *)
(*                                                                         *)
(* The limiter's invariant is reused: every step of Client is a step of    *)
(* Throttle or leaves its variables alone.  On top of it the invariant     *)
(* counts, per place where a request can be suspended, how many attempts   *)
(* and executions its replay and 429 budgets account for, and relates the  *)
(* sticky counters to the log of exhausted budgets.                        *)
(***************************************************************************)
EXTENDS Client, TLAPS

TP == INSTANCE ThrottleProofs WITH Caller <- Request

\* What r's budgets account for, wherever it is suspended.
Accounted(r) ==
  /\ replaysLeft[r] <= (IF safe[r] THEN Replays ELSE 0)
  /\ attempt429[r] <= Max429[bucket[r]]
  /\ pc[r] = "new" =>
       /\ ~safe[r] /\ attempt429[r] = 0
       /\ sent[r] = 0 /\ stray[r] = 0 /\ executed[r] = 0
  /\ pc[r] \in {"throttle", "backoff"} =>
       executed[r] + stray[r] <= Spent(r) /\ sent[r] = PaidFor(r)
  /\ pc[r] = "flight" =>
       executed[r] + stray[r] <= Spent(r) /\ sent[r] = PaidFor(r) + 1
  /\ pc[r] = "done" =>
       executed[r] + stray[r] <= 1 + Spent(r) /\ EndIsEarned(r)

\* r is inside acquire() exactly when the limiter has it asleep, and its
\* deadline began in the past.
InLimiter(r) ==
  /\ pc[r] = "throttle" <=> phase[r] = "sleeping"
  /\ started[r] <= now

\* The counters describe the last `exhausted` entries of the log.
Counted ==
  /\ exhausted <= Len(run)
  /\ exhausted = 0 <=> firstAt = None
  /\ exhausted > 0 => firstAt = run[Len(run) - exhausted + 1]

IInv ==
  /\ TypeOK
  /\ TP!IInv
  /\ \A r \in Request : Accounted(r)
  /\ \A r \in Request : InLimiter(r)
  /\ \A r \in Request : pc[r] = "backoff" => until[r] <= started[r] + Budget
  /\ UnsafeVerdictHolds
  /\ Counted

-----------------------------------------------------------------------------
\* The two instances of the limiter say the same.
LEMMA SameLimiter ==
  /\ Throttle!Init <=> TP!Init
  /\ Throttle!TypeOK <=> TP!TypeOK
  /\ Throttle!Tick <=> TP!Tick
  /\ \A r \in Request : Throttle!Wake(r) <=> TP!Wake(r)
  /\ \A r \in Request, b \in Bucket, s \in Nat :
       Throttle!Acquire(r, b, s) <=> TP!Acquire(r, b, s)
  BY DEF Throttle!Init, TP!Init, Throttle!TypeOK, TP!TypeOK, Throttle!Phase, TP!Phase,
         Throttle!Tick, TP!Tick, Throttle!Wake, TP!Wake, Throttle!Acquire, TP!Acquire,
         Throttle!Evaluate, TP!Evaluate, Throttle!Grant, TP!Grant,
         Throttle!Sleep, TP!Sleep, Throttle!Refuse, TP!Refuse,
         Throttle!Popped, TP!Popped, Throttle!Rest, TP!Rest,
         Throttle!WaitFor, TP!WaitFor, Throttle!CanAfford, TP!CanAfford,
         Throttle!Remaining, TP!Remaining, Throttle!Budget, TP!Budget,
         Throttle!AtLeastZero, TP!AtLeastZero

\* What a call of acquire() does to the limiter's record of the callers.
LEMMA AcquireEffect ==
  ASSUME TypeOK, NEW r \in Request, NEW b \in Bucket, NEW s \in 0..now,
         Throttle!Acquire(r, b, s)
  PROVE  /\ TP!Next /\ now' = now
         /\ bucket' = [bucket EXCEPT ![r] = b]
         /\ started' = [started EXCEPT ![r] = s]
         /\ \/ /\ phase' = [phase EXCEPT ![r] = "granted"]
               /\ granted' = [granted EXCEPT ![b] = Append(@, now)]
            \/ phase' = [phase EXCEPT ![r] = "sleeping"] /\ granted' = granted
            \/ phase' = [phase EXCEPT ![r] = "refused"] /\ granted' = granted
<1>1. now \in Nat /\ s \in Nat
  BY DEF TypeOK, Throttle!TypeOK
<1>2. TP!Acquire(r, b, s)
  BY <1>1, SameLimiter
<1>3. TP!Next
  BY <1>2 DEF TP!Next
<1> QED
  BY <1>2, <1>3 DEF TP!Acquire, TP!Evaluate, TP!Grant, TP!Sleep, TP!Refuse

\* What the end of a sleep in acquire() does to it.
LEMMA WakeEffect ==
  ASSUME TypeOK, NEW r \in Request, Throttle!Wake(r)
  PROVE  /\ TP!Next /\ now' = now /\ bucket' = bucket /\ started' = started
         /\ \/ /\ phase' = [phase EXCEPT ![r] = "granted"]
               /\ granted' = [granted EXCEPT ![bucket[r]] = Append(@, now)]
            \/ phase' = [phase EXCEPT ![r] = "sleeping"] /\ granted' = granted
            \/ phase' = [phase EXCEPT ![r] = "refused"] /\ granted' = granted
<1>1. TP!Wake(r)
  BY SameLimiter
<1>2. TP!Next
  BY <1>1 DEF TP!Next
<1> QED
  BY <1>1, <1>2 DEF TP!Wake, TP!Evaluate, TP!Grant, TP!Sleep, TP!Refuse

\* The limiter's invariant survives each of its steps, and its absence.
LEMMA LimiterKeeps ==
  ASSUME TP!IInv, TP!Next \/ UNCHANGED limiter
  PROVE  TP!IInv'
<1>1. [TP!Next]_(TP!vars)
  BY DEF limiter, TP!vars
<1> QED BY <1>1, TP!NextIInv, ClientAssumption, DeadlineAssumption

\* The limiter's types follow from its invariant, before and after a step.
LEMMA LimiterTypes ==
  /\ TP!IInv => Throttle!TypeOK
  /\ TP!IInv' => Throttle!TypeOK'
BY DEF TP!IInv, TP!TypeOK, TP!Phase, Throttle!TypeOK, Throttle!Phase

LEMMA InitIInv == Init => IInv
<1> SUFFICES ASSUME Init PROVE IInv
  OBVIOUS
<1> USE ClientAssumption
<1>1. TP!IInv
  BY TP!InitIInv, SameLimiter, DeadlineAssumption DEF Init
<1>2. TypeOK
  BY <1>1, LimiterTypes DEF Init, TypeOK, Where, Outcome, None
<1>3. bucket \in [Request -> Bucket] /\ Max429 \in [Bucket -> Nat]
  BY <1>2 DEF TypeOK, Throttle!TypeOK
<1>4. ASSUME NEW r \in Request PROVE Accounted(r)
  BY <1>3 DEF Init, Accounted
<1>5. ASSUME NEW r \in Request PROVE InLimiter(r)
  BY DEF Init, InLimiter, Throttle!Init
<1>6. UnsafeVerdictHolds
  BY DEF Init, UnsafeVerdictHolds
<1>7. Counted
  BY DEF Init, Counted, None
<1>8. \A r \in Request : pc[r] # "backoff"
  BY DEF Init
<1> QED BY <1>1, <1>2, <1>4, <1>5, <1>6, <1>7, <1>8 DEF IInv

\* The sticky counters are untouched by most steps.
LEMMA CountedKept ==
  ASSUME Counted, UNCHANGED sticky
  PROVE  Counted'
BY DEF Counted, sticky

\* A wait that does not fit a deadline never does again.
LEMMA StaysUnaffordable ==
  ASSUME NEW s \in Nat, NEW t \in Nat, NEW u \in Nat, t <= u, NEW d \in Nat,
         ~CanAfford(s, t, d)
  PROVE  ~CanAfford(s, u, d)
<1>1. Budget \in Int
  BY DeadlineAssumption DEF Budget
<1>2. ~(d <= AtLeastZero(Budget - (t - s)))
  BY DEF CanAfford, Remaining
<1>3. ~(d <= AtLeastZero(Budget - (u - s)))
  BY <1>1, <1>2 DEF AtLeastZero
<1> QED BY <1>3 DEF CanAfford, Remaining

\* The delays request() sleeps for are positive.
LEMMA Delays ==
  /\ \A a \in Nat : Delay429(a) \subseteq Nat \ {0}
  /\ DelayReplay \subseteq Nat \ {0}
BY ClientAssumption DEF Delay429, DelayReplay

\* How a request ended stays justified.
LEMMA EndStaysEarned ==
  ASSUME NEW d \in Request, EndIsEarned(d), now \in Nat, now' \in Nat, now' >= now,
         started[d] \in Nat, attempt429[d] \in Nat,
         safe'[d] = safe[d], replaysLeft'[d] = replaysLeft[d],
         attempt429'[d] = attempt429[d], outcome'[d] = outcome[d], sent'[d] = sent[d],
         bucket'[d] = bucket[d], started'[d] = started[d]
  PROVE  EndIsEarned(d)'
<1>1. PaidFor(d)' = PaidFor(d)
  BY DEF PaidFor, Spent
<1>2. \A x \in Delay429(attempt429[d]) :
        ~CanAfford(started[d], now, x) => ~CanAfford(started[d], now', x)
  <2> SUFFICES ASSUME NEW x \in Delay429(attempt429[d]), ~CanAfford(started[d], now, x)
               PROVE  ~CanAfford(started[d], now', x)
    OBVIOUS
  <2>1. x \in Nat
    BY Delays
  <2> QED BY <2>1, StaysUnaffordable
<1> QED BY <1>1, <1>2 DEF EndIsEarned

\* What a step leaves of another request.
LEMMA OthersKept ==
  ASSUME IInv, now' >= now, now' \in Nat, NEW d \in Request,
         pc'[d] = pc[d], safe'[d] = safe[d], replaysLeft'[d] = replaysLeft[d],
         attempt429'[d] = attempt429[d], until'[d] = until[d],
         outcome'[d] = outcome[d], sent'[d] = sent[d], stray'[d] = stray[d],
         executed'[d] = executed[d], phase'[d] = phase[d],
         bucket'[d] = bucket[d], started'[d] = started[d]
  PROVE  /\ Accounted(d)' /\ InLimiter(d)'
         /\ pc'[d] = "backoff" => until'[d] <= started'[d] + Budget
         /\ pc'[d] = "done" /\ ~safe'[d] =>
              /\ outcome'[d] \notin {"Ok", "OutcomeUnknown", "UpstreamRefused"} =>
                   executed'[d] + stray'[d] = 0
              /\ outcome'[d] = "Ok" => executed'[d] = 1 /\ stray'[d] = 0
<1>1. Accounted(d)'
  <2>1. started[d] \in Nat /\ now \in Nat /\ attempt429[d] \in Nat
    BY DEF IInv, TypeOK, Throttle!TypeOK
  <2>2. pc[d] = "done" => EndIsEarned(d)'
    BY <2>1, EndStaysEarned DEF IInv, Accounted
  <2>3. Spent(d)' = Spent(d) /\ PaidFor(d)' = PaidFor(d)
    BY DEF PaidFor, Spent
  <2> QED BY <2>2, <2>3 DEF IInv, Accounted
<1>2. InLimiter(d)'
  <2>1. started[d] \in Nat /\ now \in Nat
    BY DEF IInv, TypeOK, Throttle!TypeOK
  <2> QED BY <2>1 DEF IInv, InLimiter
<1> QED BY <1>1, <1>2 DEF IInv, UnsafeVerdictHolds

\* The attempts and executions of r, as the counts they are.
LEMMA Counts ==
  ASSUME IInv, NEW r \in Request
  PROVE  /\ replaysLeft[r] \in Nat /\ attempt429[r] \in Nat /\ sent[r] \in Nat
         /\ stray[r] \in Nat /\ executed[r] \in Nat /\ now \in Nat
         /\ started[r] \in Nat /\ bucket[r] \in Bucket /\ Replays \in Nat
         /\ Max429[bucket[r]] \in Nat /\ safe[r] \in BOOLEAN
         /\ Spent(r) \in Nat /\ (~safe[r] => Spent(r) = 0)
<1>1. bucket[r] \in Bucket /\ now \in Nat /\ started[r] \in Nat
  BY DEF IInv, TypeOK, Throttle!TypeOK
<1>2. Replays \in Nat /\ Max429[bucket[r]] \in Nat
  BY <1>1, ClientAssumption
<1>3. /\ replaysLeft[r] \in Nat /\ attempt429[r] \in Nat /\ sent[r] \in Nat
      /\ stray[r] \in Nat /\ executed[r] \in Nat /\ safe[r] \in BOOLEAN
  BY DEF IInv, TypeOK
<1>4. safe[r] => replaysLeft[r] <= Replays
  BY DEF IInv, Accounted
<1>5. Spent(r) \in Nat /\ (~safe[r] => Spent(r) = 0)
  BY <1>2, <1>3, <1>4 DEF Spent
<1> QED BY <1>1, <1>2, <1>3, <1>5

\* acquire() coming back keeps the types of what it writes.
LEMMA AfterAcquireTypes ==
  ASSUME IInv, NEW r \in Request, AfterAcquire(r)
  PROVE  /\ pc' \in [Request -> Where] /\ outcome' \in [Request -> Outcome]
         /\ until' \in [Request -> Nat] /\ sent' \in [Request -> Nat]
<1>1. /\ pc \in [Request -> Where] /\ outcome \in [Request -> Outcome]
      /\ until \in [Request -> Nat] /\ sent \in [Request -> Nat]
  BY DEF IInv, TypeOK
<1>2. now + HttpTimeout \in Nat
  <2>1. now \in Nat /\ HttpTimeout \in Nat
    BY Counts, ClientAssumption
  <2> QED BY <2>1
<1>3. sent[r] + 1 \in Nat
  BY <1>1
<1>4. {"throttle", "flight", "done"} \subseteq Where /\ "ThrottleRefused" \in Outcome
  BY DEF Where, Outcome
<1>5. CASE /\ pc' = [pc EXCEPT ![r] = "flight"]
           /\ until' = [until EXCEPT ![r] = now + HttpTimeout]
           /\ sent' = [sent EXCEPT ![r] = @ + 1]
           /\ UNCHANGED outcome
  BY <1>1, <1>2, <1>3, <1>4, <1>5
<1>6. CASE /\ pc' = [pc EXCEPT ![r] = "throttle"]
           /\ UNCHANGED <<until, sent, outcome>>
  BY <1>1, <1>4, <1>6
<1>7. CASE /\ Finish(r, "ThrottleRefused")
           /\ UNCHANGED <<until, sent>>
  BY <1>1, <1>4, <1>7 DEF Finish
<1> QED BY <1>5, <1>6, <1>7 DEF AfterAcquire

\* One turn of the loop up to its first suspension keeps IInv, when what r
\* did before is accounted for by the budgets it enters the turn with.
LEMMA LoopTopKeeps ==
  ASSUME IInv, NEW r \in Request, NEW b \in Bucket, NEW s \in 0..now,
         LoopTop(r, b, s), pc[r] \in {"new", "backoff"},
         safe' \in [Request -> BOOLEAN], replaysLeft' \in [Request -> Nat],
         \A d \in Request \ {r} :
           safe'[d] = safe[d] /\ replaysLeft'[d] = replaysLeft[d],
         replaysLeft'[r] <= (IF safe'[r] THEN Replays ELSE 0),
         attempt429[r] <= Max429[b],
         b = bucket[r] \/ attempt429[r] = 0,
         executed[r] + stray[r] <= Spent(r)', sent[r] = attempt429[r] + Spent(r)'
  PROVE  IInv'
<1>1. /\ UNCHANGED <<sticky, attempt429, stray, executed>>
      /\ \/ /\ Finish(r, "OutOfTime") \/ Finish(r, "StickyRateLimit")
            /\ UNCHANGED <<limiter, until, sent>>
         \/ Throttle!Acquire(r, b, s) /\ AfterAcquire(r)
  BY DEF LoopTop
<1>2. /\ now \in Nat /\ executed[r] \in Nat /\ stray[r] \in Nat /\ sent[r] \in Nat
      /\ attempt429[r] \in Nat /\ HttpTimeout \in Nat /\ Replays \in Nat
      /\ Max429 \in [Bucket -> Nat] /\ b \in Bucket
  BY Counts, ClientAssumption
<1>3. /\ Spent(r)' \in Nat /\ (~safe'[r] => Spent(r)' = 0)
  BY <1>2 DEF Spent
<1>4. CASE /\ Finish(r, "OutOfTime") \/ Finish(r, "StickyRateLimit")
           /\ UNCHANGED <<limiter, until, sent>>
  <2>1. TP!IInv' /\ Throttle!TypeOK'
    BY <1>4, LimiterKeeps, LimiterTypes DEF IInv
  <2>2. TypeOK'
    BY <1>1, <1>4, <2>1 DEF IInv, TypeOK, Finish, Where, Outcome, sticky
  <2>3. ASSUME NEW d \in Request, d # r
        PROVE  /\ Accounted(d)' /\ InLimiter(d)'
               /\ pc'[d] = "backoff" => until'[d] <= started'[d] + Budget
               /\ pc'[d] = "done" /\ ~safe'[d] =>
                    /\ outcome'[d] \notin {"Ok", "OutcomeUnknown", "UpstreamRefused"} =>
                         executed'[d] + stray'[d] = 0
                    /\ outcome'[d] = "Ok" => executed'[d] = 1 /\ stray'[d] = 0
    <3>1. /\ pc'[d] = pc[d] /\ outcome'[d] = outcome[d]
          /\ safe'[d] = safe[d] /\ replaysLeft'[d] = replaysLeft[d]
      BY <1>4, <2>3 DEF Finish, IInv, TypeOK
    <3> QED BY <1>1, <1>2, <1>4, <2>3, <3>1, OthersKept DEF limiter
  <2>4. /\ pc'[r] = "done" /\ outcome'[r] \in {"OutOfTime", "StickyRateLimit"}
    BY <1>4 DEF Finish, IInv, TypeOK
  <2>5. Accounted(r)'
    <3>1. attempt429'[r] <= Max429[bucket'[r]]
      BY <1>1, <1>4 DEF limiter, IInv, Accounted
    <3>2. executed'[r] + stray'[r] <= 1 + Spent(r)'
      BY <1>1, <1>2, <1>3, <1>4
    <3> QED BY <2>4, <3>1, <3>2 DEF Accounted, EndIsEarned
  <2>6. InLimiter(r)'
    BY <1>4, <2>4 DEF limiter, IInv, InLimiter
  <2>7. ~safe'[r] => executed'[r] + stray'[r] = 0
    BY <1>1, <1>2, <1>3
  <2>8. UnsafeVerdictHolds'
    BY <2>3, <2>4, <2>7 DEF UnsafeVerdictHolds
  <2> QED BY <1>1, <2>1, <2>2, <2>3, <2>4, <2>5, <2>6, <2>8, CountedKept DEF IInv
<1>5. CASE Throttle!Acquire(r, b, s) /\ AfterAcquire(r)
  <2>0. /\ TP!Next /\ now' = now
        /\ bucket' = [bucket EXCEPT ![r] = b]
        /\ started' = [started EXCEPT ![r] = s]
        /\ \/ phase' = [phase EXCEPT ![r] = "granted"]
           \/ phase' = [phase EXCEPT ![r] = "sleeping"]
           \/ phase' = [phase EXCEPT ![r] = "refused"]
    BY <1>5, AcquireEffect DEF IInv
  <2>1. TP!IInv' /\ Throttle!TypeOK'
    BY <2>0, LimiterKeeps, LimiterTypes DEF IInv
  <2>2. TypeOK'
    <3>1. /\ pc' \in [Request -> Where] /\ outcome' \in [Request -> Outcome]
          /\ until' \in [Request -> Nat] /\ sent' \in [Request -> Nat]
      BY <1>5, AfterAcquireTypes
    <3> QED BY <1>1, <2>1, <3>1 DEF IInv, TypeOK, sticky
  <2>3. ASSUME NEW d \in Request, d # r
        PROVE  /\ Accounted(d)' /\ InLimiter(d)'
               /\ pc'[d] = "backoff" => until'[d] <= started'[d] + Budget
               /\ pc'[d] = "done" /\ ~safe'[d] =>
                    /\ outcome'[d] \notin {"Ok", "OutcomeUnknown", "UpstreamRefused"} =>
                         executed'[d] + stray'[d] = 0
                    /\ outcome'[d] = "Ok" => executed'[d] = 1 /\ stray'[d] = 0
    <3>1. /\ pc'[d] = pc[d] /\ outcome'[d] = outcome[d] /\ until'[d] = until[d]
          /\ sent'[d] = sent[d]
      BY <1>5, <2>3 DEF AfterAcquire, Finish, IInv, TypeOK
    <3>2. phase'[d] = phase[d] /\ bucket'[d] = bucket[d] /\ started'[d] = started[d]
      BY <2>0, <2>3 DEF IInv, TypeOK, Throttle!TypeOK
    <3> QED BY <1>1, <1>2, <2>0, <2>3, <3>1, <3>2, OthersKept
  <2>4. bucket'[r] = b /\ started'[r] = s
    BY <2>0 DEF IInv, TypeOK, Throttle!TypeOK
  <2>5. \/ phase'[r] = "granted" /\ pc'[r] = "flight" /\ sent'[r] = sent[r] + 1
        \/ phase'[r] = "sleeping" /\ pc'[r] = "throttle" /\ sent'[r] = sent[r]
        \/ /\ phase'[r] = "refused" /\ pc'[r] = "done" /\ sent'[r] = sent[r]
           /\ outcome'[r] = "ThrottleRefused"
    BY <1>5 DEF AfterAcquire, Finish, IInv, TypeOK
  <2>6. Accounted(r)'
    <3>1. attempt429'[r] <= Max429[bucket'[r]]
      BY <1>1, <2>4
    <3>2. /\ executed'[r] + stray'[r] <= Spent(r)'
          /\ pc'[r] = "flight" => sent'[r] = PaidFor(r)' + 1
          /\ pc'[r] = "throttle" => sent'[r] = PaidFor(r)'
      BY <1>1, <1>2, <1>3, <2>5 DEF PaidFor
    <3>3. /\ executed'[r] \in Nat /\ stray'[r] \in Nat /\ sent'[r] \in Nat
          /\ attempt429'[r] = attempt429[r]
      BY <1>1, <2>2 DEF TypeOK
    <3> QED BY <1>2, <1>3, <2>5, <3>1, <3>2, <3>3 DEF Accounted, EndIsEarned
  <2>7. InLimiter(r)'
    BY <1>2, <2>0, <2>4, <2>5 DEF InLimiter
  <2>8. ~safe'[r] => executed'[r] + stray'[r] = 0
    BY <1>1, <1>2, <1>3
  <2>9. UnsafeVerdictHolds'
    BY <2>3, <2>5, <2>8 DEF UnsafeVerdictHolds
  <2> QED BY <1>1, <2>1, <2>2, <2>3, <2>5, <2>6, <2>7, <2>9, CountedKept DEF IInv
<1> QED BY <1>1, <1>4, <1>5

\* The end of a sleep in acquire() keeps IInv.
LEMMA ThrottleWakeKeeps ==
  ASSUME IInv, NEW r \in Request, ThrottleWake(r)
  PROVE  IInv'
<1>1. /\ pc[r] = "throttle" /\ Throttle!Wake(r) /\ AfterAcquire(r)
      /\ UNCHANGED <<sticky, safe, replaysLeft, attempt429, stray, executed>>
  BY DEF ThrottleWake
<1>2. /\ TP!Next /\ now' = now /\ bucket' = bucket /\ started' = started
      /\ \/ phase' = [phase EXCEPT ![r] = "granted"]
         \/ phase' = [phase EXCEPT ![r] = "sleeping"]
         \/ phase' = [phase EXCEPT ![r] = "refused"]
  BY <1>1, WakeEffect DEF IInv
<1>3. TP!IInv' /\ Throttle!TypeOK'
  BY <1>2, LimiterKeeps, LimiterTypes DEF IInv
<1>4. now \in Nat /\ HttpTimeout \in Nat
  BY ClientAssumption DEF IInv, TypeOK, Throttle!TypeOK
<1>5. TypeOK'
  <2>1. /\ pc' \in [Request -> Where] /\ outcome' \in [Request -> Outcome]
        /\ until' \in [Request -> Nat] /\ sent' \in [Request -> Nat]
    BY <1>1, AfterAcquireTypes
  <2> QED BY <1>1, <1>3, <2>1 DEF IInv, TypeOK, sticky
<1>6. ASSUME NEW d \in Request, d # r
      PROVE  /\ Accounted(d)' /\ InLimiter(d)'
             /\ pc'[d] = "backoff" => until'[d] <= started'[d] + Budget
             /\ pc'[d] = "done" /\ ~safe'[d] =>
                  /\ outcome'[d] \notin {"Ok", "OutcomeUnknown", "UpstreamRefused"} =>
                       executed'[d] + stray'[d] = 0
                  /\ outcome'[d] = "Ok" => executed'[d] = 1 /\ stray'[d] = 0
  <2>1. /\ pc'[d] = pc[d] /\ outcome'[d] = outcome[d] /\ until'[d] = until[d]
        /\ sent'[d] = sent[d]
    BY <1>1, <1>6 DEF AfterAcquire, Finish, IInv, TypeOK
  <2>2. phase'[d] = phase[d]
    BY <1>2, <1>6 DEF IInv, TypeOK, Throttle!TypeOK
  <2> QED BY <1>1, <1>2, <1>4, <2>1, <2>2, OthersKept
<1>7. \/ phase'[r] = "granted" /\ pc'[r] = "flight" /\ sent'[r] = sent[r] + 1
      \/ phase'[r] = "sleeping" /\ pc'[r] = "throttle" /\ sent'[r] = sent[r]
      \/ /\ phase'[r] = "refused" /\ pc'[r] = "done" /\ sent'[r] = sent[r]
         /\ outcome'[r] = "ThrottleRefused"
  BY <1>1 DEF AfterAcquire, Finish, IInv, TypeOK
<1>8. /\ Spent(r)' = Spent(r) /\ executed'[r] = executed[r] /\ stray'[r] = stray[r]
      /\ attempt429'[r] = attempt429[r] /\ safe'[r] = safe[r]
      /\ replaysLeft'[r] = replaysLeft[r]
  BY <1>1 DEF Spent
<1>9. /\ executed[r] + stray[r] <= Spent(r) /\ sent[r] = PaidFor(r)
      /\ PaidFor(r)' = PaidFor(r)
      /\ attempt429[r] <= Max429[bucket[r]]
      /\ replaysLeft[r] <= (IF safe[r] THEN Replays ELSE 0)
  BY <1>1, <1>8 DEF IInv, Accounted, PaidFor
<1>10. Accounted(r)'
  <2>1. bucket'[r] = bucket[r]
    BY <1>2
  <2> QED BY <1>7, <1>8, <1>9, <2>1, Counts DEF Accounted, EndIsEarned
<1>11. InLimiter(r)'
  BY <1>2, <1>7 DEF IInv, InLimiter
<1>12. ~safe'[r] => executed'[r] + stray'[r] = 0
  BY <1>8, <1>9, Counts
<1>13. UnsafeVerdictHolds'
  BY <1>6, <1>7, <1>12 DEF UnsafeVerdictHolds
<1> QED BY <1>1, <1>3, <1>5, <1>6, <1>7, <1>10, <1>11, <1>13, CountedKept DEF IInv

\* A call of request() keeps IInv.
LEMMA StartKeeps ==
  ASSUME IInv, NEW r \in Request, NEW b \in Bucket, NEW isSafe \in BOOLEAN,
         NEW s \in 0..now, Start(r, b, s, isSafe)
  PROVE  IInv'
<1>1. /\ pc[r] = "new"
      /\ safe' = [safe EXCEPT ![r] = isSafe]
      /\ replaysLeft' = [replaysLeft EXCEPT ![r] = IF isSafe THEN Replays ELSE 0]
      /\ LoopTop(r, b, s)
  BY DEF Start
<1>2. Replays \in Nat /\ Max429[b] \in Nat
  BY ClientAssumption
<1>3. /\ safe' \in [Request -> BOOLEAN] /\ replaysLeft' \in [Request -> Nat]
      /\ safe'[r] = isSafe /\ replaysLeft'[r] = (IF isSafe THEN Replays ELSE 0)
      /\ \A d \in Request \ {r} :
           safe'[d] = safe[d] /\ replaysLeft'[d] = replaysLeft[d]
  BY <1>1, <1>2 DEF IInv, TypeOK
<1>4. attempt429[r] = 0 /\ executed[r] = 0 /\ stray[r] = 0 /\ sent[r] = 0
  BY <1>1 DEF IInv, Accounted
<1>5. Spent(r)' = 0
  BY <1>2, <1>3 DEF Spent
<1>6. /\ replaysLeft'[r] <= (IF safe'[r] THEN Replays ELSE 0)
      /\ attempt429[r] <= Max429[b]
      /\ executed[r] + stray[r] <= Spent(r)' /\ sent[r] = attempt429[r] + Spent(r)'
  BY <1>2, <1>3, <1>4, <1>5
<1> QED BY <1>1, <1>3, <1>4, <1>6, LoopTopKeeps

\* The end of a backoff sleep keeps IInv.
LEMMA BackoffOverKeeps ==
  ASSUME IInv, NEW r \in Request, BackoffOver(r)
  PROVE  IInv'
<1>1. /\ pc[r] = "backoff" /\ LoopTop(r, bucket[r], started[r])
      /\ safe' = safe /\ replaysLeft' = replaysLeft
  BY DEF BackoffOver
<1>2. /\ bucket[r] \in Bucket /\ started[r] \in 0..now
      /\ safe' \in [Request -> BOOLEAN] /\ replaysLeft' \in [Request -> Nat]
  <2>1. started[r] <= now
    BY DEF IInv, InLimiter
  <2> QED BY <1>1, <2>1, Counts DEF IInv, TypeOK
<1>3. Spent(r)' = Spent(r)
  BY <1>1 DEF Spent
<1>4. /\ replaysLeft'[r] <= (IF safe'[r] THEN Replays ELSE 0)
      /\ attempt429[r] <= Max429[bucket[r]]
      /\ executed[r] + stray[r] <= Spent(r)' /\ sent[r] = attempt429[r] + Spent(r)'
  BY <1>1, <1>3 DEF IInv, Accounted, PaidFor
<1> QED BY <1>1, <1>2, <1>4, LoopTopKeeps

\* A request in flight that ends or backs off keeps IInv, when what is new in
\* its counts is accounted for.
LEMMA SettledKeeps ==
  ASSUME IInv, NEW r \in Request, pc[r] = "flight", UNCHANGED <<limiter, safe, sent>>,
         pc' \in [Request -> Where], outcome' \in [Request -> Outcome],
         until' \in [Request -> Nat], replaysLeft' \in [Request -> Nat],
         attempt429' \in [Request -> Nat], stray' \in [Request -> Nat],
         executed' \in [Request -> Nat], exhausted' \in Nat,
         firstAt' \in Nat \cup {None}, run' \in Seq(Nat), Counted',
         \A d \in Request \ {r} :
           /\ pc'[d] = pc[d] /\ outcome'[d] = outcome[d] /\ until'[d] = until[d]
           /\ replaysLeft'[d] = replaysLeft[d] /\ attempt429'[d] = attempt429[d]
           /\ stray'[d] = stray[d] /\ executed'[d] = executed[d],
         replaysLeft'[r] <= (IF safe[r] THEN Replays ELSE 0),
         attempt429'[r] <= Max429[bucket[r]],
         \/ /\ pc'[r] = "backoff" /\ until'[r] <= started[r] + Budget
            /\ executed'[r] + stray'[r] <= Spent(r)'
            /\ sent[r] = attempt429'[r] + Spent(r)'
         \/ /\ pc'[r] = "done" /\ executed'[r] + stray'[r] <= 1 + Spent(r)'
            /\ EndIsEarned(r)'
            /\ ~safe[r] =>
                 /\ outcome'[r] \notin {"Ok", "OutcomeUnknown", "UpstreamRefused"} =>
                      executed'[r] + stray'[r] = 0
                 /\ outcome'[r] = "Ok" => executed'[r] = 1 /\ stray'[r] = 0
  PROVE  IInv'
<1>1. TP!IInv' /\ Throttle!TypeOK'
  BY LimiterKeeps, LimiterTypes DEF IInv
<1>2. TypeOK'
  BY <1>1 DEF IInv, TypeOK
<1>3. /\ bucket' = bucket /\ started' = started /\ phase' = phase /\ now' = now
      /\ now \in Nat /\ safe' = safe /\ sent' = sent
  BY DEF limiter, IInv, TypeOK, Throttle!TypeOK
<1>4. ASSUME NEW d \in Request, d # r
      PROVE  /\ Accounted(d)' /\ InLimiter(d)'
             /\ pc'[d] = "backoff" => until'[d] <= started'[d] + Budget
             /\ pc'[d] = "done" /\ ~safe'[d] =>
                  /\ outcome'[d] \notin {"Ok", "OutcomeUnknown", "UpstreamRefused"} =>
                       executed'[d] + stray'[d] = 0
                  /\ outcome'[d] = "Ok" => executed'[d] = 1 /\ stray'[d] = 0
  BY <1>3, <1>4, OthersKept
<1>5. pc'[r] \in {"backoff", "done"}
  OBVIOUS
<1>6. Accounted(r)'
  BY <1>3, <1>5 DEF Accounted, PaidFor
<1>7. InLimiter(r)'
  BY <1>3, <1>5 DEF IInv, InLimiter
<1>8. UnsafeVerdictHolds'
  BY <1>3, <1>4 DEF UnsafeVerdictHolds
<1> QED BY <1>1, <1>2, <1>3, <1>4, <1>6, <1>7, <1>8 DEF IInv

\* What IInv says of a request in flight.
LEMMA FlightFacts ==
  ASSUME IInv, NEW r \in Request, pc[r] = "flight"
  PROVE  /\ replaysLeft[r] <= (IF safe[r] THEN Replays ELSE 0)
         /\ attempt429[r] <= Max429[bucket[r]]
         /\ executed[r] + stray[r] <= Spent(r)
         /\ sent[r] = attempt429[r] + Spent(r) + 1
BY DEF IInv, Accounted, PaidFor

\* A wait the deadline can afford ends inside the budget.
LEMMA AffordedWait ==
  ASSUME NEW s \in Nat, NEW t \in Nat, NEW d \in Nat, s <= t,
         CanAfford(s, t, d), d > 0
  PROVE  t + d <= s + Budget
<1>1. Budget \in Int
  BY DeadlineAssumption DEF Budget
<1>2. d <= AtLeastZero(Budget - (t - s))
  BY DEF CanAfford, Remaining
<1> QED BY <1>1, <1>2 DEF AtLeastZero

\* Backing off for an affordable delay stays within the budget.
LEMMA BackOffEffect ==
  ASSUME IInv, NEW r \in Request, NEW delay \in Nat \ {0},
         CanAfford(started[r], now, delay), BackOff(r, delay)
  PROVE  /\ pc' \in [Request -> Where] /\ until' \in [Request -> Nat]
         /\ outcome' \in [Request -> Outcome]
         /\ pc'[r] = "backoff" /\ until'[r] <= started[r] + Budget
         /\ \A d \in Request \ {r} :
              pc'[d] = pc[d] /\ until'[d] = until[d] /\ outcome'[d] = outcome[d]
<1>1. /\ now \in Nat /\ started[r] \in Nat /\ started[r] <= now
      /\ pc \in [Request -> Where] /\ until \in [Request -> Nat]
      /\ outcome \in [Request -> Outcome]
  BY Counts DEF IInv, InLimiter, TypeOK
<1>2. now + delay <= started[r] + Budget
  BY <1>1, AffordedWait
<1>3. /\ pc' = [pc EXCEPT ![r] = "backoff"] /\ until' = [until EXCEPT ![r] = now + delay]
      /\ outcome' = outcome
  BY DEF BackOff
<1>4. "backoff" \in Where /\ now + delay \in Nat
  BY <1>1 DEF Where
<1> QED BY <1>1, <1>2, <1>3, <1>4

\* Ending a request.
LEMMA FinishEffect ==
  ASSUME IInv, NEW r \in Request, NEW how \in Outcome, Finish(r, how)
  PROVE  /\ pc' \in [Request -> Where] /\ outcome' \in [Request -> Outcome]
         /\ pc'[r] = "done" /\ outcome'[r] = how
         /\ \A d \in Request \ {r} : pc'[d] = pc[d] /\ outcome'[d] = outcome[d]
BY DEF IInv, TypeOK, Finish, Where

\* A lost or refused attempt keeps IInv: a replay turns the one attempt it
\* may still cause into a spent replay.
LEMMA ReplayOrKeeps ==
  ASSUME IInv, NEW r \in Request, NEW how \in {"NotTransmitted", "OutcomeUnknown"},
         pc[r] = "flight", ReplayOr(r, how),
         UNCHANGED <<limiter, sticky, safe, attempt429, sent, executed>>,
         stray' \in [Request -> Nat],
         \A d \in Request \ {r} : stray'[d] = stray[d],
         \/ stray'[r] = stray[r]
         \/ stray'[r] = stray[r] + 1 /\ how = "OutcomeUnknown"
  PROVE  IInv'
<1>1. /\ sticky' = sticky /\ limiter' = limiter /\ safe' = safe /\ attempt429' = attempt429
      /\ sent' = sent /\ executed' = executed /\ exhausted' = exhausted
      /\ firstAt' = firstAt /\ run' = run /\ Counted'
  BY CountedKept DEF sticky, IInv
<1>2. /\ replaysLeft[r] <= (IF safe[r] THEN Replays ELSE 0)
      /\ attempt429[r] <= Max429[bucket[r]]
      /\ executed[r] + stray[r] <= Spent(r)
      /\ sent[r] = attempt429[r] + Spent(r) + 1
  BY FlightFacts
<1>3. /\ replaysLeft[r] \in Nat /\ attempt429[r] \in Nat /\ sent[r] \in Nat
      /\ stray[r] \in Nat /\ executed[r] \in Nat /\ Replays \in Nat
      /\ Spent(r) \in Nat /\ (~safe[r] => Spent(r) = 0)
  BY Counts
<1>4. {"OutOfTime", "NotTransmitted", "OutcomeUnknown"} \subseteq Outcome
  BY DEF Outcome
<1>5. CASE /\ safe[r] /\ replaysLeft[r] > 0
           /\ replaysLeft' = [replaysLeft EXCEPT ![r] = @ - 1]
           /\ \E delay \in DelayReplay :
                \/ CanAfford(started[r], now, delay) /\ BackOff(r, delay)
                \/ /\ ~CanAfford(started[r], now, delay)
                   /\ Finish(r, "OutOfTime")
                   /\ UNCHANGED until
  <2>1. /\ replaysLeft' \in [Request -> Nat] /\ replaysLeft'[r] = replaysLeft[r] - 1
        /\ \A d \in Request \ {r} : replaysLeft'[d] = replaysLeft[d]
    BY <1>3, <1>5 DEF IInv, TypeOK
  <2>2. Spent(r)' = Spent(r) + 1
    BY <1>1, <1>3, <1>5, <2>1 DEF Spent
  <2>3. PICK delay \in DelayReplay :
          \/ CanAfford(started[r], now, delay) /\ BackOff(r, delay)
          \/ /\ ~CanAfford(started[r], now, delay)
             /\ Finish(r, "OutOfTime")
             /\ UNCHANGED until
    BY <1>5
  <2>4. /\ executed'[r] + stray'[r] <= Spent(r)'
        /\ sent[r] = attempt429'[r] + Spent(r)'
        /\ replaysLeft'[r] <= (IF safe[r] THEN Replays ELSE 0)
        /\ Spent(r)' \in Nat /\ attempt429'[r] \in Nat
        /\ executed'[r] + stray'[r] \in Nat
    BY <1>1, <1>2, <1>3, <1>5, <2>1, <2>2
  <2>5. CASE CanAfford(started[r], now, delay) /\ BackOff(r, delay)
    <3>1. /\ pc' \in [Request -> Where] /\ until' \in [Request -> Nat]
          /\ outcome' \in [Request -> Outcome]
          /\ pc'[r] = "backoff" /\ until'[r] <= started[r] + Budget
          /\ \A d \in Request \ {r} :
               pc'[d] = pc[d] /\ until'[d] = until[d] /\ outcome'[d] = outcome[d]
      BY <2>5, Delays, BackOffEffect
    <3>2. /\ executed' \in [Request -> Nat] /\ attempt429' \in [Request -> Nat]
          /\ exhausted' \in Nat /\ firstAt' \in Nat \cup {None} /\ run' \in Seq(Nat)
          /\ attempt429'[r] <= Max429[bucket[r]]
      BY <1>1, <1>2 DEF IInv, TypeOK
    <3> QED BY <1>1, <2>1, <2>4, <3>1, <3>2, SettledKeeps
  <2>6. CASE Finish(r, "OutOfTime") /\ UNCHANGED until
    <3>1. /\ pc' \in [Request -> Where] /\ outcome' \in [Request -> Outcome]
          /\ pc'[r] = "done" /\ outcome'[r] = "OutOfTime"
          /\ \A d \in Request \ {r} : pc'[d] = pc[d] /\ outcome'[d] = outcome[d]
      BY <1>4, <2>6, FinishEffect
    <3>2. executed'[r] + stray'[r] <= 1 + Spent(r)' /\ EndIsEarned(r)'
      BY <1>3, <2>4, <3>1 DEF EndIsEarned
    <3>3. /\ until' \in [Request -> Nat] /\ until' = until /\ safe[r]
          /\ executed' \in [Request -> Nat] /\ attempt429' \in [Request -> Nat]
          /\ exhausted' \in Nat /\ firstAt' \in Nat \cup {None} /\ run' \in Seq(Nat)
          /\ attempt429'[r] <= Max429[bucket[r]]
      BY <1>1, <1>2, <1>5, <2>6 DEF IInv, TypeOK
    <3> QED BY <1>1, <2>1, <2>4, <3>1, <3>2, <3>3, SettledKeeps
  <2> QED BY <2>3, <2>5, <2>6
<1>6. CASE /\ ~(safe[r] /\ replaysLeft[r] > 0)
           /\ Finish(r, how)
           /\ UNCHANGED <<replaysLeft, until>>
  <2>1. /\ pc' \in [Request -> Where] /\ outcome' \in [Request -> Outcome]
        /\ pc'[r] = "done" /\ outcome'[r] = how
        /\ \A d \in Request \ {r} : pc'[d] = pc[d] /\ outcome'[d] = outcome[d]
    BY <1>4, <1>6, FinishEffect
  <2>2. Spent(r)' = Spent(r)
    BY <1>1, <1>6 DEF Spent
  <2>3. /\ executed'[r] + stray'[r] <= 1 + Spent(r)'
        /\ ~safe[r] /\ how = "NotTransmitted" => executed'[r] + stray'[r] = 0
    BY <1>1, <1>2, <1>3, <2>2
  <2>4. safe[r] => sent[r] = attempt429[r] + Replays + 1
    BY <1>2, <1>3, <1>6 DEF Spent
  <2>5. EndIsEarned(r)'
    BY <1>1, <2>1, <2>4 DEF EndIsEarned
  <2> QED BY <1>1, <1>2, <1>6, <2>1, <2>2, <2>3, <2>5, SettledKeeps DEF IInv, TypeOK
<1> QED BY <1>5, <1>6 DEF ReplayOr

\* Noting an exhausted budget keeps the counters a description of the log.
LEMMA NoteKeeps ==
  ASSUME IInv, NoteExhaustedBudget
  PROVE  /\ exhausted' \in Nat /\ firstAt' \in Nat \cup {None}
         /\ run' \in Seq(Nat) /\ Counted'
<1>1. /\ exhausted \in Nat /\ firstAt \in Nat \cup {None} /\ run \in Seq(Nat)
      /\ now \in Nat /\ Counted
  BY DEF IInv, TypeOK, Throttle!TypeOK
<1>2. /\ run' \in Seq(Nat) /\ Len(run') = Len(run) + 1 /\ run'[Len(run) + 1] = now
      /\ \A i \in 1..Len(run) : run'[i] = run[i]
      /\ Len(run) \in Nat
  BY <1>1 DEF NoteExhaustedBudget
<1>3. CASE firstAt = None \/ now - firstAt > StickyWindow
  <2>1. exhausted' = 1 /\ firstAt' = now
    BY <1>1, <1>3 DEF NoteExhaustedBudget, Counted
  <2> QED BY <1>1, <1>2, <2>1 DEF Counted, None
<1>4. CASE firstAt # None /\ ~(now - firstAt > StickyWindow)
  <2>1. exhausted' = exhausted + 1 /\ firstAt' = firstAt
    BY <1>4 DEF NoteExhaustedBudget
  <2>2. /\ exhausted > 0 /\ exhausted <= Len(run)
        /\ firstAt = run[Len(run) - exhausted + 1]
    BY <1>1, <1>4 DEF Counted
  <2>3. /\ Len(run') - exhausted' + 1 = Len(run) - exhausted + 1
        /\ Len(run) - exhausted + 1 \in 1..Len(run)
    BY <1>1, <1>2, <2>1, <2>2
  <2>4. firstAt' = run'[Len(run') - exhausted' + 1]
    BY <1>2, <2>1, <2>2, <2>3
  <2> QED BY <1>1, <1>2, <1>4, <2>1, <2>2, <2>4 DEF Counted
<1> QED BY <1>3, <1>4

\* A 429 keeps IInv.
LEMMA TooManyRequestsKeeps ==
  ASSUME IInv, NEW r \in Request, TooManyRequests(r)
  PROVE  IInv'
<1>1. /\ pc[r] = "flight" /\ limiter' = limiter /\ safe' = safe
      /\ replaysLeft' = replaysLeft /\ sent' = sent /\ stray' = stray
      /\ executed' = executed /\ Spent(r)' = Spent(r)
  BY DEF TooManyRequests, InFlight, server, Spent
<1>2. /\ replaysLeft[r] <= (IF safe[r] THEN Replays ELSE 0)
      /\ attempt429[r] <= Max429[bucket[r]]
      /\ executed[r] + stray[r] <= Spent(r)
      /\ sent[r] = attempt429[r] + Spent(r) + 1
  BY <1>1, FlightFacts
<1>3. /\ attempt429[r] \in Nat /\ sent[r] \in Nat /\ stray[r] \in Nat
      /\ executed[r] \in Nat /\ Max429[bucket[r]] \in Nat
      /\ Spent(r) \in Nat /\ (~safe[r] => Spent(r) = 0)
  BY Counts
<1>4. /\ replaysLeft' \in [Request -> Nat] /\ stray' \in [Request -> Nat]
      /\ executed' \in [Request -> Nat] /\ until \in [Request -> Nat]
      /\ attempt429 \in [Request -> Nat] /\ exhausted \in Nat
      /\ firstAt \in Nat \cup {None} /\ run \in Seq(Nat) /\ Counted
  BY <1>1 DEF IInv, TypeOK
<1>5. ASSUME Finish(r, "RateLimited"), attempt429' = attempt429, until' = until,
             exhausted' \in Nat, firstAt' \in Nat \cup {None},
             run' \in Seq(Nat), Counted',
             \/ attempt429[r] = Max429[bucket[r]]
             \/ \E d \in Delay429(attempt429[r]) : ~CanAfford(started[r], now, d)
      PROVE  IInv'
  <2>1. /\ pc' \in [Request -> Where] /\ outcome' \in [Request -> Outcome]
        /\ pc'[r] = "done" /\ outcome'[r] = "RateLimited"
        /\ \A d \in Request \ {r} : pc'[d] = pc[d] /\ outcome'[d] = outcome[d]
    <3>1. "RateLimited" \in Outcome
      BY DEF Outcome
    <3> QED BY <1>5, <3>1, FinishEffect
  <2>2. /\ executed'[r] + stray'[r] <= 1 + Spent(r)'
        /\ ~safe[r] => executed'[r] + stray'[r] = 0
    BY <1>1, <1>2, <1>3
  <2>3. EndIsEarned(r)'
    <3>1. PaidFor(r)' = attempt429[r] + Spent(r) /\ sent'[r] = sent[r]
      BY <1>1, <1>5 DEF PaidFor
    <3>2. bucket' = bucket /\ started' = started /\ now' = now
      BY <1>1 DEF limiter
    <3> QED BY <1>2, <1>5, <2>1, <3>1, <3>2 DEF EndIsEarned
  <2> QED BY <1>1, <1>2, <1>4, <1>5, <2>1, <2>2, <2>3, SettledKeeps
<1>6. CASE attempt429[r] >= Max429[bucket[r]] /\ NoteExhaustedBudget
           /\ Finish(r, "RateLimited") /\ UNCHANGED <<attempt429, until>>
  <2>1. attempt429[r] = Max429[bucket[r]]
    BY <1>2, <1>3, <1>6
  <2> QED BY <1>5, <1>6, <2>1, NoteKeeps
<1>7. CASE /\ attempt429[r] < Max429[bucket[r]]
           /\ \E delay \in Delay429(attempt429[r]) :
                \/ /\ CanAfford(started[r], now, delay)
                   /\ attempt429' = [attempt429 EXCEPT ![r] = @ + 1]
                   /\ BackOff(r, delay)
                \/ /\ ~CanAfford(started[r], now, delay)
                   /\ Finish(r, "RateLimited")
                   /\ UNCHANGED <<attempt429, until>>
           /\ UNCHANGED sticky
  <2>1. /\ exhausted' \in Nat /\ firstAt' \in Nat \cup {None} /\ run' \in Seq(Nat)
        /\ Counted'
    BY <1>4, <1>7, CountedKept DEF sticky
  <2>2. PICK delay \in Delay429(attempt429[r]) :
          \/ /\ CanAfford(started[r], now, delay)
             /\ attempt429' = [attempt429 EXCEPT ![r] = @ + 1]
             /\ BackOff(r, delay)
          \/ /\ ~CanAfford(started[r], now, delay)
             /\ Finish(r, "RateLimited")
             /\ UNCHANGED <<attempt429, until>>
    BY <1>7
  <2>3. CASE /\ CanAfford(started[r], now, delay)
             /\ attempt429' = [attempt429 EXCEPT ![r] = @ + 1]
             /\ BackOff(r, delay)
    <3>1. delay \in Nat \ {0}
      BY <1>3, Delays
    <3>2. /\ pc' \in [Request -> Where] /\ until' \in [Request -> Nat]
          /\ outcome' \in [Request -> Outcome]
          /\ pc'[r] = "backoff" /\ until'[r] <= started[r] + Budget
          /\ \A d \in Request \ {r} :
               pc'[d] = pc[d] /\ until'[d] = until[d] /\ outcome'[d] = outcome[d]
      BY <2>3, <3>1, BackOffEffect
    <3>3. /\ attempt429' \in [Request -> Nat] /\ attempt429'[r] = attempt429[r] + 1
          /\ \A d \in Request \ {r} : attempt429'[d] = attempt429[d]
      BY <1>3, <1>4, <2>3
    <3>4. /\ attempt429'[r] <= Max429[bucket[r]]
          /\ sent[r] = attempt429'[r] + Spent(r)'
      BY <1>1, <1>2, <1>3, <1>7, <3>3
    <3> QED BY <1>1, <1>2, <1>4, <2>1, <3>2, <3>3, <3>4, SettledKeeps
  <2>4. CASE /\ ~CanAfford(started[r], now, delay)
             /\ Finish(r, "RateLimited")
             /\ UNCHANGED <<attempt429, until>>
    BY <1>5, <2>1, <2>4
  <2> QED BY <2>2, <2>3, <2>4
<1> QED BY <1>6, <1>7 DEF TooManyRequests

\* A success keeps IInv: it is the one execution of the attempt in flight.
LEMMA SucceedsKeeps ==
  ASSUME IInv, NEW r \in Request, Succeeds(r)
  PROVE  IInv'
<1>1. /\ pc[r] = "flight" /\ limiter' = limiter /\ safe' = safe /\ until' = until
      /\ replaysLeft' = replaysLeft /\ attempt429' = attempt429 /\ sent' = sent
      /\ stray' = stray /\ executed' = [executed EXCEPT ![r] = @ + 1]
      /\ exhausted' = 0 /\ firstAt' = None /\ run' = << >>
      /\ Finish(r, "Ok") /\ Spent(r)' = Spent(r)
  BY DEF Succeeds, ClearSticky, InFlight, locals, Spent
<1>2. /\ replaysLeft[r] <= (IF safe[r] THEN Replays ELSE 0)
      /\ attempt429[r] <= Max429[bucket[r]]
      /\ executed[r] + stray[r] <= Spent(r)
      /\ sent[r] = attempt429[r] + Spent(r) + 1
  BY <1>1, FlightFacts
<1>3. /\ stray[r] \in Nat /\ executed[r] \in Nat
      /\ Spent(r) \in Nat /\ (~safe[r] => Spent(r) = 0)
  BY Counts
<1>4. /\ replaysLeft' \in [Request -> Nat] /\ stray' \in [Request -> Nat]
      /\ executed' \in [Request -> Nat] /\ until' \in [Request -> Nat]
      /\ attempt429' \in [Request -> Nat] /\ executed'[r] = executed[r] + 1
      /\ \A d \in Request \ {r} : executed'[d] = executed[d]
  BY <1>1, <1>3 DEF IInv, TypeOK
<1>5. exhausted' \in Nat /\ firstAt' \in Nat \cup {None} /\ run' \in Seq(Nat) /\ Counted'
  BY <1>1 DEF Counted, None
<1>6. /\ pc' \in [Request -> Where] /\ outcome' \in [Request -> Outcome]
      /\ pc'[r] = "done" /\ outcome'[r] = "Ok"
      /\ \A d \in Request \ {r} : pc'[d] = pc[d] /\ outcome'[d] = outcome[d]
  <2>1. "Ok" \in Outcome
    BY DEF Outcome
  <2> QED BY <1>1, <2>1, FinishEffect
<1>7. /\ executed'[r] + stray'[r] <= 1 + Spent(r)'
      /\ ~safe[r] => executed'[r] = 1 /\ stray'[r] = 0
  BY <1>1, <1>2, <1>3, <1>4
<1>8. EndIsEarned(r)'
  BY <1>6 DEF EndIsEarned
<1> QED BY <1>1, <1>2, <1>4, <1>5, <1>6, <1>7, <1>8, SettledKeeps

\* An answer that refuses the request keeps IInv; a 504 may leave a copy of
\* it at the server.
LEMMA RefusalKeeps ==
  ASSUME IInv, NEW r \in Request, AuthRejected(r) \/ Answered(r) \/ GatewayTimeout(r)
  PROVE  IInv'
<1>1. /\ pc[r] = "flight" /\ limiter' = limiter /\ safe' = safe /\ until' = until
      /\ replaysLeft' = replaysLeft /\ attempt429' = attempt429 /\ sent' = sent
      /\ executed' = executed /\ UNCHANGED sticky /\ Spent(r)' = Spent(r)
  BY DEF AuthRejected, Answered, GatewayTimeout, InFlight, locals, server, Spent
<1>2. \/ Finish(r, "AuthFailure") /\ stray' = stray
      \/ Finish(r, "UpstreamRefused") /\ stray' = stray
      \/ Finish(r, "UpstreamRefused") /\ stray' = [stray EXCEPT ![r] = @ + 1]
  BY DEF AuthRejected, Answered, GatewayTimeout, server
<1>3. /\ replaysLeft[r] <= (IF safe[r] THEN Replays ELSE 0)
      /\ attempt429[r] <= Max429[bucket[r]]
      /\ executed[r] + stray[r] <= Spent(r)
      /\ sent[r] = attempt429[r] + Spent(r) + 1
  BY <1>1, FlightFacts
<1>4. /\ stray[r] \in Nat /\ executed[r] \in Nat
      /\ Spent(r) \in Nat /\ (~safe[r] => Spent(r) = 0)
  BY Counts
<1>5. /\ stray' \in [Request -> Nat]
      /\ \A d \in Request \ {r} : stray'[d] = stray[d]
      /\ stray'[r] \in {stray[r], stray[r] + 1}
  <2>1. stray \in [Request -> Nat] /\ stray[r] + 1 \in Nat
    BY <1>4 DEF IInv, TypeOK
  <2>2. CASE stray' = stray
    BY <2>1, <2>2
  <2>3. CASE stray' = [stray EXCEPT ![r] = @ + 1]
    BY <2>1, <2>3
  <2> QED BY <1>2, <2>2, <2>3
<1>6. /\ replaysLeft' \in [Request -> Nat] /\ executed' \in [Request -> Nat]
      /\ until' \in [Request -> Nat] /\ attempt429' \in [Request -> Nat]
      /\ exhausted' \in Nat /\ firstAt' \in Nat \cup {None} /\ run' \in Seq(Nat)
      /\ Counted'
  BY <1>1, CountedKept DEF sticky, IInv, TypeOK
<1>7. /\ pc' \in [Request -> Where] /\ outcome' \in [Request -> Outcome]
      /\ pc'[r] = "done"
      /\ \A d \in Request \ {r} : pc'[d] = pc[d] /\ outcome'[d] = outcome[d]
      /\ \/ outcome'[r] = "AuthFailure" /\ stray'[r] = stray[r]
         \/ outcome'[r] = "UpstreamRefused"
  <2>1. {"AuthFailure", "UpstreamRefused"} \subseteq Outcome
    BY DEF Outcome
  <2> QED BY <1>2, <2>1, FinishEffect
<1>8. /\ executed'[r] + stray'[r] <= 1 + Spent(r)'
      /\ ~safe[r] /\ stray'[r] = stray[r] => executed'[r] + stray'[r] = 0
  BY <1>1, <1>3, <1>4, <1>5
<1>9. EndIsEarned(r)'
  BY <1>7 DEF EndIsEarned
<1> QED BY <1>1, <1>3, <1>5, <1>6, <1>7, <1>8, <1>9, SettledKeeps

\* A late execution moves a copy from one count to the other.
LEMMA ExecuteStrayKeeps ==
  ASSUME IInv, NEW r \in Request, ExecuteStray(r)
  PROVE  IInv'
<1>1. /\ stray[r] > 0 /\ stray' = [stray EXCEPT ![r] = @ - 1]
      /\ executed' = [executed EXCEPT ![r] = @ + 1]
      /\ UNCHANGED <<limiter, sticky, locals, sent, pc, outcome>>
  BY DEF ExecuteStray
<1>2. stray[r] \in Nat /\ executed[r] \in Nat /\ now \in Nat
  BY Counts
<1>3. /\ stray' \in [Request -> Nat] /\ executed' \in [Request -> Nat]
      /\ stray'[r] = stray[r] - 1 /\ executed'[r] = executed[r] + 1
      /\ \A d \in Request \ {r} : stray'[d] = stray[d] /\ executed'[d] = executed[d]
  BY <1>1, <1>2 DEF IInv, TypeOK
<1>4. TP!IInv' /\ Throttle!TypeOK'
  BY <1>1, LimiterKeeps, LimiterTypes DEF IInv
<1>5. TypeOK'
  BY <1>1, <1>3, <1>4 DEF IInv, TypeOK, sticky, locals
<1>6. executed'[r] + stray'[r] = executed[r] + stray[r]
  BY <1>2, <1>3
<1>7. ASSUME NEW d \in Request
      PROVE  /\ Accounted(d)' /\ InLimiter(d)'
             /\ executed'[d] + stray'[d] = executed[d] + stray[d]
  <2>1. executed'[d] + stray'[d] = executed[d] + stray[d]
    BY <1>3, <1>6
  <2>2. pc[r] # "new"
    BY <1>1, <1>2 DEF IInv, Accounted
  <2>3. d # r => stray'[d] = stray[d] /\ executed'[d] = executed[d]
    BY <1>3
  <2>4. /\ replaysLeft'[d] = replaysLeft[d] /\ safe'[d] = safe[d] /\ pc'[d] = pc[d]
        /\ attempt429'[d] = attempt429[d] /\ sent'[d] = sent[d] /\ bucket'[d] = bucket[d]
        /\ Spent(d)' = Spent(d) /\ PaidFor(d)' = PaidFor(d)
    BY <1>1 DEF locals, limiter, Spent, PaidFor
  <2>5. Accounted(d)
    BY DEF IInv
  <2>6. EndIsEarned(d) => EndIsEarned(d)'
    BY <1>1, <2>4 DEF EndIsEarned, limiter
  <2>7. Accounted(d)'
    BY <2>1, <2>2, <2>3, <2>4, <2>5, <2>6 DEF Accounted
  <2>8. InLimiter(d)'
    BY <1>1 DEF limiter, IInv, InLimiter
  <2> QED BY <2>1, <2>7, <2>8
<1>8. UnsafeVerdictHolds'
  <2>1. ASSUME NEW d \in Request, pc[d] = "done", ~safe[d]
        PROVE  /\ outcome[d] \notin {"Ok", "OutcomeUnknown", "UpstreamRefused"} =>
                    executed'[d] + stray'[d] = 0
               /\ outcome[d] = "Ok" => executed'[d] = 1 /\ stray'[d] = 0
    <3>1. /\ outcome[d] \notin {"Ok", "OutcomeUnknown", "UpstreamRefused"} =>
               executed[d] + stray[d] = 0
          /\ outcome[d] = "Ok" => executed[d] = 1 /\ stray[d] = 0
      BY <2>1 DEF IInv, UnsafeVerdictHolds
    <3>2. CASE d = r
      BY <1>1, <1>2, <1>7, <3>1, <3>2
    <3>3. CASE d # r
      BY <1>3, <3>1, <3>3
    <3> QED BY <3>2, <3>3
  <2> QED BY <1>1, <2>1 DEF locals, UnsafeVerdictHolds
<1>9. \A d \in Request : pc'[d] = "backoff" => until'[d] <= started'[d] + Budget
  BY <1>1 DEF limiter, locals, IInv
<1> QED BY <1>1, <1>4, <1>5, <1>7, <1>8, <1>9, CountedKept DEF IInv

\* The passing of time keeps IInv.
LEMMA TickKeeps ==
  ASSUME IInv, Tick
  PROVE  IInv'
<1>1. Throttle!Tick /\ UNCHANGED <<sticky, locals, server, pc, outcome>>
  BY DEF Tick
<1>2. TP!Next
  BY <1>1, SameLimiter DEF TP!Next
<1>3. TP!IInv' /\ Throttle!TypeOK'
  BY <1>2, LimiterKeeps, LimiterTypes DEF IInv
<1>4. TypeOK'
  BY <1>1, <1>3 DEF IInv, TypeOK, sticky, locals, server
<1>5. now' >= now /\ now' \in Nat /\ UNCHANGED <<phase, bucket, started>>
  BY <1>1 DEF Throttle!Tick, IInv, TypeOK, Throttle!TypeOK
<1>6. ASSUME NEW d \in Request
      PROVE  /\ Accounted(d)' /\ InLimiter(d)'
             /\ pc'[d] = "backoff" => until'[d] <= started'[d] + Budget
             /\ pc'[d] = "done" /\ ~safe'[d] =>
                  /\ outcome'[d] \notin {"Ok", "OutcomeUnknown", "UpstreamRefused"} =>
                       executed'[d] + stray'[d] = 0
                  /\ outcome'[d] = "Ok" => executed'[d] = 1 /\ stray'[d] = 0
  BY <1>1, <1>5, OthersKept DEF locals, server
<1> QED BY <1>1, <1>3, <1>4, <1>6, CountedKept DEF IInv, UnsafeVerdictHolds

\* What requests of other buckets do to the sticky count keeps IInv.
LEMMA OthersStepKeeps ==
  ASSUME IInv, OtherExhausts \/ OtherSucceeds
  PROVE  IInv'
<1>1. UNCHANGED <<limiter, locals, server, pc, outcome>>
  BY DEF OtherExhausts, OtherSucceeds
<1>2. exhausted' \in Nat /\ firstAt' \in Nat \cup {None} /\ run' \in Seq(Nat) /\ Counted'
  <2>1. CASE OtherExhausts
    BY <2>1, NoteKeeps DEF OtherExhausts
  <2>2. CASE OtherSucceeds
    BY <2>2 DEF OtherSucceeds, ClearSticky, Counted, None
  <2> QED BY <2>1, <2>2
<1>3. TP!IInv' /\ Throttle!TypeOK'
  BY <1>1, LimiterKeeps, LimiterTypes DEF IInv
<1>4. TypeOK'
  BY <1>1, <1>2, <1>3 DEF IInv, TypeOK, locals, server
<1>5. now' >= now /\ now' \in Nat
  BY <1>1 DEF limiter, IInv, TypeOK, Throttle!TypeOK
<1>6. ASSUME NEW d \in Request
      PROVE  /\ Accounted(d)' /\ InLimiter(d)'
             /\ pc'[d] = "backoff" => until'[d] <= started'[d] + Budget
             /\ pc'[d] = "done" /\ ~safe'[d] =>
                  /\ outcome'[d] \notin {"Ok", "OutcomeUnknown", "UpstreamRefused"} =>
                       executed'[d] + stray'[d] = 0
                  /\ outcome'[d] = "Ok" => executed'[d] = 1 /\ stray'[d] = 0
  BY <1>1, <1>5, OthersKept DEF limiter, locals, server
<1> QED BY <1>2, <1>3, <1>4, <1>6 DEF IInv, UnsafeVerdictHolds

\* IInv is preserved by every step.
LEMMA NextIInv == IInv /\ [Next]_vars => IInv'
<1> SUFFICES ASSUME IInv, [Next]_vars PROVE IInv'
  OBVIOUS
<1>1. ASSUME NEW r \in Request, NEW b \in Bucket, NEW isSafe \in BOOLEAN,
             NEW s \in 0..now, Start(r, b, s, isSafe)
      PROVE  IInv'
  BY <1>1, StartKeeps
<1>2. ASSUME NEW r \in Request, ThrottleWake(r) PROVE IInv'
  BY <1>2, ThrottleWakeKeeps
<1>3. ASSUME NEW r \in Request, BackoffOver(r) PROVE IInv'
  BY <1>3, BackoffOverKeeps
<1>4. ASSUME NEW r \in Request, ConnectFails(r) PROVE IInv'
  <2>1. stray' = stray /\ UNCHANGED <<sent, executed>>
    BY <1>4 DEF ConnectFails, server
  <2>2. stray' \in [Request -> Nat]
    BY <2>1 DEF IInv, TypeOK
  <2> QED BY <1>4, <2>1, <2>2, ReplayOrKeeps DEF ConnectFails, InFlight
<1>5. ASSUME NEW r \in Request, AnswerLost(r) PROVE IInv'
  <2>1. stray' = [stray EXCEPT ![r] = @ + 1]
    BY <1>5 DEF AnswerLost
  <2>2. /\ stray' \in [Request -> Nat] /\ stray'[r] = stray[r] + 1
        /\ \A d \in Request \ {r} : stray'[d] = stray[d]
    BY <2>1 DEF IInv, TypeOK
  <2> QED BY <1>5, <2>2, ReplayOrKeeps DEF AnswerLost, InFlight
<1>6. ASSUME NEW r \in Request, Settle(r) PROVE IInv'
  BY <1>4, <1>5, <1>6, SucceedsKeeps, TooManyRequestsKeeps, RefusalKeeps DEF Settle
<1>7. ASSUME NEW r \in Request, ExecuteStray(r) PROVE IInv'
  BY <1>7, ExecuteStrayKeeps
<1>8. CASE OtherExhausts \/ OtherSucceeds
  BY <1>8, OthersStepKeeps
<1>9. CASE Tick
  BY <1>9, TickKeeps
<1>10. CASE UNCHANGED vars
  <2>1. UNCHANGED <<limiter, sticky, locals, server, pc, outcome>>
    BY <1>10 DEF vars
  <2>2. TP!IInv' /\ Throttle!TypeOK'
    BY <2>1, LimiterKeeps, LimiterTypes DEF IInv
  <2>3. TypeOK'
    BY <2>1, <2>2 DEF IInv, TypeOK, sticky, locals, server
  <2>4. now' >= now /\ now' \in Nat
    BY <2>1 DEF limiter, IInv, TypeOK, Throttle!TypeOK
  <2>5. ASSUME NEW d \in Request
        PROVE  /\ Accounted(d)' /\ InLimiter(d)'
               /\ pc'[d] = "backoff" => until'[d] <= started'[d] + Budget
               /\ pc'[d] = "done" /\ ~safe'[d] =>
                    /\ outcome'[d] \notin {"Ok", "OutcomeUnknown", "UpstreamRefused"} =>
                         executed'[d] + stray'[d] = 0
                    /\ outcome'[d] = "Ok" => executed'[d] = 1 /\ stray'[d] = 0
    BY <2>1, <2>4, OthersKept DEF limiter, locals, server
  <2> QED BY <2>1, <2>2, <2>3, <2>5, CountedKept DEF IInv, UnsafeVerdictHolds
<1> QED BY <1>1, <1>2, <1>3, <1>6, <1>7, <1>8, <1>9, <1>10 DEF Next

\* IInv holds in every reachable state.
LEMMA Inductive == Spec => []IInv
  BY InitIInv, NextIInv, PTL DEF Spec

-----------------------------------------------------------------------------
\* Every variable keeps its type (DocsClient.request and its counters).
THEOREM TypeCorrect == Spec => []TypeOK
<1>1. IInv => TypeOK
  BY DEF IInv
<1> QED BY Inductive, <1>1, PTL

\* A request is executed at most once more than the replays it spent, an
\* UNSAFE one at most once, whatever the server does with lost attempts.
THEOREM AtMostDeclaredReplays == Spec => []DeclaredReplaysOnly
<1>1. IInv => DeclaredReplaysOnly
  <2> SUFFICES ASSUME IInv, NEW r \in Request
               PROVE  executed[r] + stray[r] <= 1 + Spent(r)
    BY DEF DeclaredReplaysOnly
  <2>1. Accounted(r) /\ pc[r] \in Where
    BY DEF IInv, TypeOK
  <2> QED BY <2>1, Counts DEF Accounted, Where
<1> QED BY Inductive, <1>1, PTL

\* What request() tells the caller of an UNSAFE call is and stays true.
THEOREM UnsafeVerdicts == Spec => []UnsafeVerdictHolds
<1>1. IInv => UnsafeVerdictHolds
  BY DEF IInv
<1> QED BY Inductive, <1>1, PTL

\* No attempt costs both budgets, none costs nothing, and neither runs out
\* because of what the other had to pay for.
THEOREM BudgetsDoNotMix == Spec => []BudgetsAreSeparate
<1>1. IInv => BudgetsAreSeparate
  BY DEF IInv, Accounted, BudgetsAreSeparate
<1> QED BY Inductive, <1>1, PTL

\* No sleep is allowed to reach past the call's ordinary budget.
THEOREM WaitsFitTheBudget == Spec => []WaitsWithinBudget
<1>1. IInv => WaitsWithinBudget
  <2> SUFFICES ASSUME IInv, NEW r \in Request
               PROVE  /\ pc[r] = "backoff" => until[r] <= started[r] + Budget
                      /\ pc[r] = "throttle" => wake[r] <= started[r] + Budget
    BY DEF WaitsWithinBudget
  <2>1. pc[r] = "throttle" => phase[r] = "sleeping"
    BY DEF IInv, InLimiter
  <2>2. phase[r] = "sleeping" => wake[r] <= started[r] + Budget
    BY DEF IInv, TP!IInv, TP!SleepWithinBudget, TP!Budget, Budget
  <2> QED BY <2>1, <2>2 DEF IInv
<1> QED BY Inductive, <1>1, PTL

\* A request is refused as sticky only after StickyThreshold exhausted budgets
\* with no success between them, all inside the window.
THEOREM StickyNeedsEvidence == Spec => []StickyIsEarned
<1>1. IInv => StickyIsEarned
  <2> SUFFICES ASSUME IInv, Sticky
               PROVE  \E n \in StickyThreshold..Len(run) : RunOf(n)
    BY DEF StickyIsEarned
  <2>1. /\ exhausted \in Nat /\ Len(run) \in Nat /\ StickyThreshold \in Nat \ {0}
    BY ClientAssumption DEF IInv, TypeOK
  <2>2. /\ exhausted >= StickyThreshold /\ exhausted <= Len(run)
        /\ now - firstAt <= StickyWindow
        /\ firstAt = run[Len(run) - exhausted + 1]
    BY <2>1 DEF Sticky, IInv, Counted
  <2>3. exhausted \in StickyThreshold..Len(run)
    BY <2>1, <2>2
  <2>4. RunOf(exhausted)
    BY <2>2 DEF RunOf
  <2> QED BY <2>3, <2>4
<1> QED BY Inductive, <1>1, PTL

-----------------------------------------------------------------------------
\* Every attempt spends a grant of its bucket at the instant it is sent.
LEMMA SendSpendsGrant ==
  ASSUME IInv, [Next]_vars, NEW r \in Request, sent'[r] # sent[r]
  PROVE  granted'[bucket'[r]] = Append(granted[bucket'[r]], now)
<1>1. ASSUME NEW q \in Request, NEW b \in Bucket, NEW s \in 0..now,
             Throttle!Acquire(q, b, s), AfterAcquire(q)
      PROVE  granted'[bucket'[r]] = Append(granted[bucket'[r]], now)
  <2>1. q = r /\ phase'[r] = "granted"
    BY <1>1 DEF AfterAcquire, IInv, TypeOK
  <2>2. /\ bucket' = [bucket EXCEPT ![r] = b]
        /\ \/ granted' = [granted EXCEPT ![b] = Append(@, now)]
           \/ phase' = [phase EXCEPT ![r] = "sleeping"]
           \/ phase' = [phase EXCEPT ![r] = "refused"]
    BY <1>1, <2>1, AcquireEffect DEF IInv
  <2>3. granted' = [granted EXCEPT ![b] = Append(@, now)]
    BY <2>1, <2>2 DEF IInv, TypeOK, Throttle!TypeOK
  <2> QED BY <2>2, <2>3 DEF IInv, TypeOK, Throttle!TypeOK
<1>2. ASSUME NEW q \in Request, NEW b \in Bucket, NEW s \in 0..now, LoopTop(q, b, s)
      PROVE  granted'[bucket'[r]] = Append(granted[bucket'[r]], now)
  BY <1>1, <1>2 DEF LoopTop
<1>3. ASSUME NEW q \in Request, ThrottleWake(q)
      PROVE  granted'[bucket'[r]] = Append(granted[bucket'[r]], now)
  <2>1. Throttle!Wake(q) /\ AfterAcquire(q)
    BY <1>3 DEF ThrottleWake
  <2>2. q = r /\ phase'[r] = "granted"
    BY <2>1 DEF AfterAcquire, IInv, TypeOK
  <2>3. /\ bucket' = bucket
        /\ \/ granted' = [granted EXCEPT ![bucket[r]] = Append(@, now)]
           \/ phase' = [phase EXCEPT ![r] = "sleeping"]
           \/ phase' = [phase EXCEPT ![r] = "refused"]
    BY <2>1, <2>2, WakeEffect DEF IInv
  <2>4. granted' = [granted EXCEPT ![bucket[r]] = Append(@, now)]
    BY <2>2, <2>3 DEF IInv, TypeOK, Throttle!TypeOK
  <2> QED BY <2>3, <2>4, Counts DEF IInv, TypeOK, Throttle!TypeOK
<1>4. ASSUME NEW q \in Request, BackoffOver(q)
      PROVE  granted'[bucket'[r]] = Append(granted[bucket'[r]], now)
  <2>1. bucket[q] \in Bucket /\ started[q] \in 0..now
    BY Counts DEF IInv, InLimiter
  <2> QED BY <1>2, <1>4, <2>1 DEF BackoffOver
<1>5. ASSUME NEW q \in Request, NEW b \in Bucket, NEW isSafe \in BOOLEAN,
             NEW s \in 0..now, Start(q, b, s, isSafe)
      PROVE  granted'[bucket'[r]] = Append(granted[bucket'[r]], now)
  BY <1>2, <1>5 DEF Start
<1>6. ASSUME NEW q \in Request, Settle(q) \/ ExecuteStray(q)
      PROVE  FALSE
  BY <1>6 DEF Settle, ExecuteStray, Succeeds, TooManyRequests, ConnectFails, AnswerLost,
              AuthRejected, Answered, GatewayTimeout, server
<1>7. ~Tick /\ ~OtherExhausts /\ ~OtherSucceeds /\ ~UNCHANGED vars
  BY DEF Tick, OtherExhausts, OtherSucceeds, vars, server
<1> QED BY <1>3, <1>4, <1>5, <1>6, <1>7 DEF Next

\* All traffic is metered: first tries, 429 retries, replays and the attempts
\* that waited in acquire().
THEOREM AllTrafficIsMetered == Spec => SendsAreMetered
<1>1. IInv /\ [Next]_vars =>
        \A r \in Request :
          sent'[r] # sent[r] => granted'[bucket'[r]] = Append(granted[bucket'[r]], now)
  BY SendSpendsGrant
<1> QED BY Inductive, <1>1, PTL DEF Spec, SendsAreMetered

-----------------------------------------------------------------------------
\* A step of the retry engine is a step of the limiter or none of its business.
LEMMA LimiterStep ==
  ASSUME IInv, [Next]_vars
  PROVE  [TP!Next]_(TP!vars)
<1>1. ASSUME NEW q \in Request, NEW b \in Bucket, NEW s \in 0..now, LoopTop(q, b, s)
      PROVE  TP!Next \/ UNCHANGED limiter
  BY <1>1, AcquireEffect DEF LoopTop, IInv
<1>2. ASSUME NEW q \in Request, BackoffOver(q)
      PROVE  TP!Next \/ UNCHANGED limiter
  <2>1. bucket[q] \in Bucket /\ started[q] \in 0..now
    BY Counts DEF IInv, InLimiter
  <2> QED BY <1>1, <1>2, <2>1 DEF BackoffOver
<1>3. ASSUME NEW q \in Request, ThrottleWake(q)
      PROVE  TP!Next
  BY <1>3, WakeEffect DEF ThrottleWake, IInv
<1>4. ASSUME NEW q \in Request, Settle(q) \/ ExecuteStray(q)
      PROVE  UNCHANGED limiter
  BY <1>4 DEF Settle, ExecuteStray, Succeeds, TooManyRequests, ConnectFails, AnswerLost,
              AuthRejected, Answered, GatewayTimeout
<1>5. Tick => TP!Next
  BY SameLimiter DEF Tick, TP!Next
<1>6. OtherExhausts \/ OtherSucceeds \/ UNCHANGED vars => UNCHANGED limiter
  BY DEF OtherExhausts, OtherSucceeds, vars
<1>7. TP!Next \/ UNCHANGED limiter
  BY <1>1, <1>2, <1>3, <1>4, <1>5, <1>6 DEF Next, Start
<1> QED BY <1>7 DEF limiter, TP!vars

\* The retry engine drives the limiter only as Throttle allows, so that all
\* that is proved of Throttle holds under it.
THEOREM DrivesTheLimiter == Spec => TP!Spec
<1>1. Init => TP!Init
  BY SameLimiter DEF Init
<1>2. IInv /\ [Next]_vars => [TP!Next]_(TP!vars)
  BY LimiterStep
<1> QED BY Inductive, <1>1, <1>2, PTL DEF Spec, TP!Spec

\* Whatever is retried, replayed or refused, no window of any bucket ever
\* holds more grants than its capacity.
THEOREM TrafficNeverExceedsTheRate == Spec => []Throttle!WindowBound
<1>1. Spec => []TP!WindowBound
  BY DrivesTheLimiter, TP!RateNeverExceeded, ClientAssumption, DeadlineAssumption, PTL
<1>2. TP!WindowBound <=> Throttle!WindowBound
  BY DEF TP!WindowBound, Throttle!WindowBound, TP!SpacedBy, Throttle!SpacedBy
<1> QED BY <1>1, <1>2, PTL

-----------------------------------------------------------------------------
(* The refinement of Delivery *)

Suspended == {"throttle", "flight", "backoff"}

\* How a request stands to its caller after a step.
StateAfter(r) ==
  IF pc'[r] = "new" THEN "new" ELSE IF pc'[r] = "done" THEN outcome'[r] ELSE "open"

\* A step of one request moves its own state and no other.
LEMMA OneStateMoves ==
  ASSUME NEW r \in Request,
         \A d \in Request \ {r} : pc'[d] = pc[d] /\ outcome'[d] = outcome[d]
  PROVE  State' = [State EXCEPT ![r] = StateAfter(r)]
BY DEF State, StateAfter

\* From one suspension to the next a caller sees nothing.
LEMMA NoStateMoves ==
  ASSUME NEW r \in Request, pc[r] \in Suspended, pc'[r] \in Suspended,
         \A d \in Request \ {r} : pc'[d] = pc[d] /\ outcome'[d] = outcome[d]
  PROVE  State' = State
BY DEF State, Suspended

LEMMA SuspendedIsOpen ==
  ASSUME NEW r \in Request, pc[r] \in Suspended
  PROVE  State[r] = "open"
BY DEF State, Suspended

\* acquire() moves its caller's coroutine only.
LEMMA AfterAcquireMoves ==
  ASSUME IInv, NEW r \in Request, AfterAcquire(r)
  PROVE  /\ \A d \in Request \ {r} : pc'[d] = pc[d] /\ outcome'[d] = outcome[d]
         /\ \/ pc'[r] \in Suspended
            \/ pc'[r] = "done" /\ outcome'[r] = "ThrottleRefused"
BY DEF AfterAcquire, Finish, IInv, TypeOK, Suspended

\* So does a turn of the loop up to its first suspension.
LEMMA LoopTopMoves ==
  ASSUME IInv, NEW r \in Request, NEW b \in Bucket, NEW s \in Nat, LoopTop(r, b, s)
  PROVE  /\ \A d \in Request \ {r} : pc'[d] = pc[d] /\ outcome'[d] = outcome[d]
         /\ \/ pc'[r] \in Suspended
            \/ pc'[r] = "done" /\ outcome'[r] \in Promise!Refusals
         /\ UNCHANGED <<executed, stray>>
<1>1. CASE Finish(r, "OutOfTime") \/ Finish(r, "StickyRateLimit")
  BY <1>1 DEF LoopTop, Finish, IInv, TypeOK, Promise!Refusals
<1>2. CASE AfterAcquire(r)
  BY <1>2, AfterAcquireMoves DEF LoopTop, Promise!Refusals
<1> QED
  BY <1>1, <1>2 DEF LoopTop

\* A request that is open and ends with nothing said of an attempt, or goes on.
LEMMA WaitRefines ==
  ASSUME IInv, NEW r \in Request, pc[r] \in Suspended,
         UNCHANGED <<safe, executed, stray>>,
         \A d \in Request \ {r} : pc'[d] = pc[d] /\ outcome'[d] = outcome[d],
         pc'[r] \in Suspended \/ (pc'[r] = "done" /\ outcome'[r] \in Promise!Failures)
  PROVE  Promise!Fail(r) \/ UNCHANGED Promise!vars
<1>1. CASE pc'[r] \in Suspended
  BY <1>1, NoStateMoves DEF Promise!vars
<1>2. CASE pc'[r] = "done" /\ outcome'[r] \in Promise!Failures
  <2>1. State' = [State EXCEPT ![r] = outcome'[r]]
    BY <1>2, OneStateMoves DEF StateAfter
  <2> QED
    BY <1>2, <2>1, SuspendedIsOpen DEF Promise!Fail
<1> QED
  BY <1>1, <1>2

LEMMA StartRefines ==
  ASSUME IInv, NEW r \in Request, NEW b \in Bucket, NEW s \in 0..now,
         NEW isSafe \in BOOLEAN, Start(r, b, s, isSafe)
  PROVE  Promise!Begin(r)
<1>1. s \in Nat
  BY DEF IInv, TypeOK, Throttle!TypeOK
<1>2. /\ \A d \in Request \ {r} : pc'[d] = pc[d] /\ outcome'[d] = outcome[d]
      /\ \/ pc'[r] \in Suspended
         \/ pc'[r] = "done" /\ outcome'[r] \in Promise!Refusals
      /\ UNCHANGED <<executed, stray>>
  BY <1>1, LoopTopMoves DEF Start
<1>3. State[r] = "new"
  BY DEF Start, State
<1>4. StateAfter(r) \in Promise!Refusals \cup {"open"}
  BY <1>2 DEF StateAfter, Suspended
<1>5. State' = [State EXCEPT ![r] = StateAfter(r)]
  BY <1>2, OneStateMoves
<1> QED
  BY <1>2, <1>3, <1>4, <1>5 DEF Start, Promise!Begin

LEMMA ResumeRefines ==
  ASSUME IInv, NEW r \in Request, ThrottleWake(r) \/ BackoffOver(r)
  PROVE  Promise!Fail(r) \/ UNCHANGED Promise!vars
<1>1. CASE ThrottleWake(r)
  BY <1>1, AfterAcquireMoves, WaitRefines
     DEF ThrottleWake, Suspended, Promise!Failures, Promise!Refusals
<1>2. CASE BackoffOver(r)
  <2>1. bucket[r] \in Bucket /\ started[r] \in Nat
    BY Counts
  <2> QED
    BY <1>2, <2>1, LoopTopMoves, WaitRefines DEF BackoffOver, Suspended, Promise!Failures
<1> QED
  BY <1>1, <1>2

\* What a failed attempt that may be repeated leads to.
LEMMA ReplayOrMoves ==
  ASSUME IInv, NEW r \in Request, NEW how \in Outcome, ReplayOr(r, how)
  PROVE  /\ \A d \in Request \ {r} : pc'[d] = pc[d] /\ outcome'[d] = outcome[d]
         /\ \/ /\ safe[r] /\ replaysLeft[r] > 0
               /\ \/ pc'[r] \in Suspended
                  \/ pc'[r] = "done" /\ outcome'[r] = "OutOfTime"
            \/ pc'[r] = "done" /\ outcome'[r] = how
BY DEF ReplayOr, BackOff, Finish, IInv, TypeOK, Suspended

LEMMA SettleRefines ==
  ASSUME IInv, NEW r \in Request, Settle(r)
  PROVE  Promise!Next \/ UNCHANGED Promise!vars
<1>f. pc[r] = "flight" /\ pc[r] \in Suspended /\ State[r] = "open"
  BY SuspendedIsOpen DEF Settle, Succeeds, TooManyRequests, ConnectFails, AnswerLost,
     AuthRejected, Answered, GatewayTimeout, InFlight, Suspended
<1>w. ASSUME Promise!Fail(r) \/ UNCHANGED Promise!vars
      PROVE  Promise!Next \/ UNCHANGED Promise!vars
  BY <1>w DEF Promise!Next
<1>1. CASE Succeeds(r)
  <2>1. State' = [State EXCEPT ![r] = "Ok"]
    <3>1. /\ \A d \in Request \ {r} : pc'[d] = pc[d] /\ outcome'[d] = outcome[d]
          /\ pc'[r] = "done" /\ outcome'[r] = "Ok"
      BY <1>1 DEF Succeeds, Finish, IInv, TypeOK
    <3> QED
      BY <3>1, OneStateMoves DEF StateAfter
  <2> QED
    BY <1>1, <1>f, <2>1 DEF Succeeds, locals, Promise!Succeed, Promise!Next
<1>2. CASE TooManyRequests(r)
  <2>1. /\ UNCHANGED <<safe, executed, stray>>
        /\ \A d \in Request \ {r} : pc'[d] = pc[d] /\ outcome'[d] = outcome[d]
        /\ pc'[r] \in Suspended \/ (pc'[r] = "done" /\ outcome'[r] = "RateLimited")
    BY <1>2 DEF TooManyRequests, BackOff, Finish, IInv, TypeOK, Suspended, server
  <2> QED
    BY <1>f, <1>w, <2>1, WaitRefines DEF Promise!Failures
<1>3. CASE ConnectFails(r)
  <2>1. "NotTransmitted" \in Outcome
    BY DEF Outcome
  <2> QED
    BY <1>3, <1>f, <1>w, <2>1, ReplayOrMoves, WaitRefines
       DEF ConnectFails, server, Promise!Failures, Promise!Refusals
<1>4. CASE AnswerLost(r)
  <2>1. /\ \A d \in Request \ {r} : pc'[d] = pc[d] /\ outcome'[d] = outcome[d]
        /\ \/ /\ safe[r] /\ replaysLeft[r] > 0
              /\ \/ pc'[r] \in Suspended
                 \/ pc'[r] = "done" /\ outcome'[r] = "OutOfTime"
           \/ pc'[r] = "done" /\ outcome'[r] = "OutcomeUnknown"
    <3>1. "OutcomeUnknown" \in Outcome
      BY DEF Outcome
    <3> QED
      BY <1>4, <3>1, ReplayOrMoves DEF AnswerLost
  <2>2. State' = [State EXCEPT ![r] = StateAfter(r)]
    BY <2>1, OneStateMoves
  <2>3. CASE /\ safe[r] /\ replaysLeft[r] > 0
             /\ \/ pc'[r] \in Suspended
                \/ pc'[r] = "done" /\ outcome'[r] = "OutOfTime"
    <3>1. executed[r] + stray[r] < Replays
      BY <1>f, <2>3, FlightFacts, Counts DEF Spent
    <3>2. StateAfter(r) \in {"open", "OutOfTime"}
      BY <2>3 DEF StateAfter, Suspended
    <3> QED
      BY <1>4, <1>f, <2>2, <2>3, <3>1, <3>2 DEF AnswerLost, Promise!Repeat, Promise!Next
  <2>4. CASE pc'[r] = "done" /\ outcome'[r] = "OutcomeUnknown"
    <3>1. StateAfter(r) \in {"OutcomeUnknown", "UpstreamRefused"}
      BY <2>4 DEF StateAfter
    <3> QED
      BY <1>4, <1>f, <2>2, <3>1 DEF AnswerLost, Promise!LoseSight, Promise!Next
  <2> QED
    BY <2>1, <2>3, <2>4
<1>5. CASE AuthRejected(r) \/ Answered(r)
  <2>1. /\ UNCHANGED <<safe, executed, stray>>
        /\ \A d \in Request \ {r} : pc'[d] = pc[d] /\ outcome'[d] = outcome[d]
        /\ pc'[r] = "done" /\ outcome'[r] \in {"AuthFailure", "UpstreamRefused"}
    BY <1>5 DEF AuthRejected, Answered, Finish, IInv, TypeOK, locals, server
  <2> QED
    BY <1>f, <1>w, <2>1, WaitRefines DEF Promise!Failures
<1>6. CASE GatewayTimeout(r)
  <2>1. /\ \A d \in Request \ {r} : pc'[d] = pc[d] /\ outcome'[d] = outcome[d]
        /\ pc'[r] = "done" /\ outcome'[r] = "UpstreamRefused"
    BY <1>6 DEF GatewayTimeout, Finish, IInv, TypeOK
  <2>2. State' = [State EXCEPT ![r] = "UpstreamRefused"]
    BY <2>1, OneStateMoves DEF StateAfter
  <2> QED
    BY <1>6, <1>f, <2>2 DEF GatewayTimeout, locals, Promise!LoseSight, Promise!Next
<1> QED
  BY <1>1, <1>2, <1>3, <1>4, <1>5, <1>6 DEF Settle

LEMMA DeliveryStep ==
  ASSUME IInv, [Next]_vars
  PROVE  [Promise!Next]_(Promise!vars)
<1>1. ASSUME NEW r \in Request, NEW b \in Bucket, NEW isSafe \in BOOLEAN,
             NEW s \in 0..now, Start(r, b, s, isSafe)
      PROVE  Promise!Next
  BY <1>1, StartRefines DEF Promise!Next
<1>2. ASSUME NEW r \in Request, ThrottleWake(r) \/ BackoffOver(r)
      PROVE  Promise!Next \/ UNCHANGED Promise!vars
  BY <1>2, ResumeRefines DEF Promise!Next
<1>3. ASSUME NEW r \in Request, ExecuteStray(r)
      PROVE  Promise!Next
  <2>1. State' = State
    BY <1>3 DEF ExecuteStray, State
  <2> QED
    BY <1>3, <2>1 DEF ExecuteStray, locals, Promise!ExecuteStray, Promise!Next
<1>4. CASE Tick \/ OtherExhausts \/ OtherSucceeds \/ UNCHANGED vars
  <2>1. UNCHANGED <<pc, outcome, safe, executed, stray>>
    BY <1>4 DEF Tick, OtherExhausts, OtherSucceeds, vars, locals, server
  <2> QED
    BY <2>1 DEF State, Promise!vars
<1> QED
  BY <1>1, <1>2, <1>3, <1>4, SettleRefines DEF Next

\* The engine delivers as promised: for any number of requests, any budgets and
\* any interleaving of waits, refusals, repetitions and late executions, its
\* callers cannot tell it from Delivery.
THEOREM DeliversAsPromised == Spec => ImplementsDelivery
<1>1. Init => Promise!Init
  BY DEF Init, State, Promise!Init
<1>2. IInv /\ [Next]_vars => [Promise!Next]_(Promise!vars)
  BY DeliveryStep
<1> QED
  BY Inductive, <1>1, <1>2, PTL DEF Spec, ImplementsDelivery, Promise!Spec
-----------------------------------------------------------------------------
(* Each instant ends *)

\* A sleep of r, of the limiter's or of the backoff, that is over; and one
\* that is not.
Resumable(r) ==
  \/ pc[r] = "throttle" /\ now >= wake[r]
  \/ pc[r] = "backoff" /\ now >= until[r]

Asleep(r) ==
  \/ pc[r] = "throttle" /\ ~(now >= wake[r])
  \/ pc[r] = "backoff" /\ ~(now >= until[r])

\* What a request can still do before time must pass.
Stage(r) ==
  CASE pc[r] = "new" -> 4
    [] Resumable(r) -> 3
    [] pc[r] = "flight" -> 2
    [] Asleep(r) -> 1
    [] pc[r] = "done" -> 0

LEMMA StageValues ==
  ASSUME IInv, NEW r \in Request
  PROVE  /\ pc[r] = "new" => Stage(r) = 4
         /\ Resumable(r) => Stage(r) = 3
         /\ pc[r] = "flight" => Stage(r) = 2
         /\ Asleep(r) => Stage(r) = 1
         /\ pc[r] = "done" => Stage(r) = 0
BY DEF Stage, Resumable, Asleep

LEMMA StageValuesAfter ==
  ASSUME IInv', NEW r \in Request
  PROVE  /\ pc'[r] = "flight" => Stage(r)' = 2
         /\ Asleep(r)' => Stage(r)' = 1
         /\ pc'[r] = "done" => Stage(r)' = 0
BY DEF Stage, Resumable, Asleep

\* The others stand where they stood.
OthersStand(r) ==
  /\ now' = now
  /\ \A d \in Request \ {r} : pc'[d] = pc[d] /\ wake'[d] = wake[d] /\ until'[d] = until[d]

\* What the limiter's evaluation does to the sleep of its caller.
LEMMA AcquireSleeps ==
  ASSUME IInv, NEW r \in Request, NEW b \in Bucket, NEW s \in 0..now,
         Throttle!Acquire(r, b, s) \/ (Throttle!Wake(r) /\ b = bucket[r] /\ s = started[r])
  PROVE  /\ now' = now
         /\ \A d \in Request \ {r} : wake'[d] = wake[d]
         /\ phase'[r] = "sleeping" => now < wake'[r]
<1>1. s \in Nat /\ now \in Nat
  BY DEF IInv, TypeOK, Throttle!TypeOK
<1>2. TP!Acquire(r, b, s) \/ (TP!Wake(r) /\ b = bucket[r] /\ s = started[r])
  BY <1>1, SameLimiter
<1>3. TP!Evaluate(r, b, s) /\ now' = now
  BY <1>2 DEF TP!Acquire, TP!Wake
<1>4. TP!IInv
  BY DEF IInv
<1> QED
  BY <1>1, <1>3, <1>4, TP!EvaluateSleeps, ClientAssumption, DeadlineAssumption

LEMMA AfterAcquireStage ==
  ASSUME IInv, NEW r \in Request, NEW b \in Bucket, NEW s \in 0..now, AfterAcquire(r),
         Throttle!Acquire(r, b, s) \/ (Throttle!Wake(r) /\ b = bucket[r] /\ s = started[r])
  PROVE  OthersStand(r) /\ (pc'[r] \in {"flight", "done"} \/ Asleep(r)')
<1>1. /\ now' = now
      /\ \A d \in Request \ {r} : wake'[d] = wake[d]
      /\ phase'[r] = "sleeping" => now < wake'[r]
  BY AcquireSleeps
<1>2. wake'[r] \in Nat /\ now \in Nat
  <2>1. now \in Nat
    BY DEF IInv, TypeOK, Throttle!TypeOK
  <2>2. TP!Next
    BY AcquireEffect, WakeEffect DEF IInv
  <2>3. Throttle!TypeOK'
    BY <2>2, LimiterKeeps, LimiterTypes DEF IInv
  <2> QED
    BY <2>1, <2>3 DEF Throttle!TypeOK
<1>3. \A d \in Request \ {r} : pc'[d] = pc[d] /\ until'[d] = until[d]
  BY DEF AfterAcquire, Finish, IInv, TypeOK
<1>4. \/ pc'[r] \in {"flight", "done"}
      \/ pc'[r] = "throttle" /\ phase'[r] = "sleeping"
  BY DEF AfterAcquire, Finish, IInv, TypeOK
<1> QED
  BY <1>1, <1>2, <1>3, <1>4 DEF OthersStand, Asleep

LEMMA LoopTopStage ==
  ASSUME IInv, NEW r \in Request, NEW b \in Bucket, NEW s \in 0..now, LoopTop(r, b, s)
  PROVE  OthersStand(r) /\ (pc'[r] \in {"flight", "done"} \/ Asleep(r)')
<1>1. CASE Throttle!Acquire(r, b, s) /\ AfterAcquire(r)
  BY <1>1, AfterAcquireStage
<1>2. CASE /\ Finish(r, "OutOfTime") \/ Finish(r, "StickyRateLimit")
           /\ UNCHANGED <<limiter, until, sent>>
  BY <1>2 DEF Finish, limiter, OthersStand, IInv, TypeOK
<1> QED
  BY <1>1, <1>2 DEF LoopTop

\* An answer ends the request or sends it to sleep for a positive time.
LEMMA SettleStage ==
  ASSUME IInv, NEW r \in Request, Settle(r)
  PROVE  pc[r] = "flight" /\ OthersStand(r) /\ (pc'[r] = "done" \/ Asleep(r)')
<1>1. pc[r] = "flight" /\ UNCHANGED limiter
  BY DEF Settle, Succeeds, TooManyRequests, ConnectFails, AnswerLost,
         AuthRejected, Answered, GatewayTimeout, InFlight
<1>2. \/ UNCHANGED until /\ \E how \in Outcome : Finish(r, how)
      \/ \E delay \in Nat \ {0} : BackOff(r, delay)
  <2>1. CASE Succeeds(r) \/ AuthRejected(r) \/ Answered(r) \/ GatewayTimeout(r)
    BY <2>1 DEF Succeeds, AuthRejected, Answered, GatewayTimeout, locals, Outcome
  <2>2. CASE TooManyRequests(r)
    <3>1. Delay429(attempt429[r]) \subseteq Nat \ {0}
      BY Delays, Counts
    <3> QED
      BY <2>2, <3>1 DEF TooManyRequests, Outcome
  <2>3. CASE ConnectFails(r) \/ AnswerLost(r)
    BY <2>3, Delays DEF ConnectFails, AnswerLost, ReplayOr, Outcome
  <2> QED
    BY <2>1, <2>2, <2>3 DEF Settle
<1>3. CASE UNCHANGED until /\ \E how \in Outcome : Finish(r, how)
  BY <1>1, <1>3 DEF Finish, limiter, OthersStand, IInv, TypeOK
<1>4. ASSUME NEW delay \in Nat \ {0}, BackOff(r, delay)
      PROVE  OthersStand(r) /\ Asleep(r)'
  <2>1. now \in Nat /\ pc \in [Request -> Where] /\ until \in [Request -> Nat]
    BY Counts DEF IInv, TypeOK
  <2>2. pc'[r] = "backoff" /\ until'[r] = now + delay /\ now' = now
    BY <1>1, <1>4, <2>1 DEF BackOff, limiter
  <2>3. Asleep(r)'
    BY <2>1, <2>2 DEF Asleep
  <2> QED
    BY <1>1, <1>4, <2>1, <2>3 DEF BackOff, limiter, OthersStand
<1> QED
  BY <1>1, <1>2, <1>3, <1>4

\* A turn of request() from one suspension to the next.
Turn(r) ==
  \/ \E b \in Bucket, isSafe \in BOOLEAN : \E s \in 0..now : Start(r, b, s, isSafe)
  \/ ThrottleWake(r) \/ BackoffOver(r) \/ Settle(r)

LEMMA TurnStage ==
  ASSUME IInv, IInv', NEW r \in Request, Turn(r)
  PROVE  OthersStand(r) /\ Stage(r)' < Stage(r)
<1>1. ASSUME NEW b \in Bucket, NEW isSafe \in BOOLEAN, NEW s \in 0..now,
             Start(r, b, s, isSafe)
      PROVE  OthersStand(r) /\ Stage(r)' < Stage(r)
  <2>1. pc[r] = "new" /\ OthersStand(r) /\ (pc'[r] \in {"flight", "done"} \/ Asleep(r)')
    BY <1>1, LoopTopStage DEF Start
  <2> QED
    BY <2>1, StageValues, StageValuesAfter
<1>2. CASE ThrottleWake(r) \/ BackoffOver(r)
  <2>1. bucket[r] \in Bucket /\ started[r] \in 0..now
    BY Counts DEF IInv, InLimiter
  <2>2. OthersStand(r) /\ (pc'[r] \in {"flight", "done"} \/ Asleep(r)')
    BY <1>2, <2>1, LoopTopStage, AfterAcquireStage DEF ThrottleWake, BackoffOver
  <2>3. Resumable(r)
    BY <1>2 DEF ThrottleWake, BackoffOver, Throttle!Wake, Resumable
  <2> QED
    BY <2>2, <2>3, StageValues, StageValuesAfter
<1>3. CASE Settle(r)
  BY <1>3, SettleStage, StageValues, StageValuesAfter
<1> QED
  BY <1>1, <1>2, <1>3 DEF Turn

\* While time stands still a request takes at most four turns, however often
\* it is refused, repeated or overtaken: each leaves it less to do, and no step
\* of another request or of the server gives it more.
THEOREM NoRequestSpins ==
  Spec => [][\A r \in Request :
               /\ Turn(r) => Stage(r)' < Stage(r)
               /\ ~Turn(r) /\ now' = now => Stage(r)' = Stage(r)]_vars
<1>1. IInv /\ IInv' /\ [Next]_vars =>
        [\A r \in Request :
           /\ Turn(r) => Stage(r)' < Stage(r)
           /\ ~Turn(r) /\ now' = now => Stage(r)' = Stage(r)]_vars
  <2> SUFFICES ASSUME IInv, IInv', Next, NEW r \in Request, ~Turn(r), now' = now
               PROVE  Stage(r)' = Stage(r)
    BY TurnStage
  <2>1. ASSUME NEW q \in Request, Turn(q)
        PROVE  UNCHANGED <<pc[r], wake[r], until[r]>>
    BY <2>1, TurnStage DEF OthersStand
  <2>2. ASSUME NEW q \in Request, ExecuteStray(q)
        PROVE  UNCHANGED <<pc[r], wake[r], until[r]>>
    BY <2>2 DEF ExecuteStray, limiter, locals
  <2>3. ~Tick
    <3>1. now \in Nat
      BY DEF IInv, TypeOK, Throttle!TypeOK
    <3> QED
      BY <3>1 DEF Tick, Throttle!Tick
  <2>4. OtherExhausts \/ OtherSucceeds => UNCHANGED <<pc[r], wake[r], until[r]>>
    BY DEF OtherExhausts, OtherSucceeds, limiter, locals
  <2>5. UNCHANGED <<pc[r], wake[r], until[r]>>
    BY <2>1, <2>2, <2>3, <2>4 DEF Next, Turn
  <2> QED
    BY <2>5 DEF Stage, Resumable, Asleep
<1> QED
  BY Inductive, <1>1, PTL DEF Spec
=============================================================================
