--------------------------- MODULE ThrottleProofs ---------------------------
(***************************************************************************)
(* The limiter's safety for every set of callers, every capacity and       *)
(* window, and every deadline.                                             *)
(*                                                                         *)
(* The deque alone says nothing of grants it has dropped, so WindowBound   *)
(* is not inductive.  The strengthening relates the deque to the full log: *)
(* it is a suffix of the log, whatever it dropped has left the window, and *)
(* the log is in time order.  The lemmas state what pruning, appending and *)
(* the passing of time do to that relation for one bucket.                 *)
(***************************************************************************)
EXTENDS Throttle, TLAPS

\* The deque h is the tail of the log.
SuffixOf(h, log) ==
  /\ Len(h) <= Len(log)
  /\ \A i \in 1..Len(h) : h[i] = log[Len(log) - Len(h) + i]

\* What the deque no longer holds has left the window.
DroppedIsOld(h, log, w, t) ==
  \A i \in 1..(Len(log) - Len(h)) : t - log[i] >= w

\* The log is in time order and nothing in it is in the future.
InOrder(log, t) ==
  \A i \in 1..Len(log) : log[i] <= t /\ \A j \in i..Len(log) : log[i] <= log[j]

Spaced(log, cap, w) ==
  \A i \in 1..Len(log) :
    i + cap <= Len(log) => log[i + cap] - log[i] >= w

LogInv(h, log, cap, w, t) ==
  /\ Len(h) <= cap
  /\ SuffixOf(h, log)
  /\ DroppedIsOld(h, log, w, t)
  /\ InOrder(log, t)
  /\ Spaced(log, cap, w)

\* A sleeper's wake-up is at most a window after the oldest grant that fills
\* its bucket: what NoNeedlessSleep needs to survive other callers' grants.
Awaited(c) ==
  LET log == granted[bucket[c]]
      cap == Capacity[bucket[c]]
  IN  Len(log) >= cap /\ wake[c] - log[Len(log) - cap + 1] <= Window[bucket[c]]

IInv ==
  /\ TypeOK
  /\ \A b \in Bucket : LogInv(history[b], granted[b], Capacity[b], Window[b], now)
  /\ \A c \in Caller : phase[c] = "sleeping" => Awaited(c)
  /\ SleepWithinBudget

-----------------------------------------------------------------------------
\* Dropping k entries leaves the tail of the deque.
LEMMA RestIsTail ==
  ASSUME NEW h \in Seq(Nat), NEW k \in 0..Len(h)
  PROVE  /\ Rest(h, k) \in Seq(Nat)
         /\ Len(Rest(h, k)) = Len(h) - k
         /\ \A i \in 1..(Len(h) - k) : Rest(h, k)[i] = h[k + i]
  BY DEF Rest

\* The popleft loop keeps the relation, and leaves only live entries.
LEMMA PruneKeeps ==
  ASSUME NEW h \in Seq(Nat), NEW log \in Seq(Nat), NEW k \in 0..Len(h),
         NEW cap \in Nat \ {0}, NEW w \in Nat \ {0}, NEW t \in Nat,
         LogInv(h, log, cap, w, t), Popped(h, w, t, k)
  PROVE  /\ LogInv(Rest(h, k), log, cap, w, t)
         /\ Len(h) > k => t - Rest(h, k)[1] < w
<1> DEFINE r == Rest(h, k)
<1>1. r \in Seq(Nat) /\ Len(r) = Len(h) - k /\ \A i \in 1..Len(r) : r[i] = h[k + i]
  BY RestIsTail
<1>2. Len(r) <= cap /\ SuffixOf(r, log)
  <2>1. Len(r) \in Nat /\ Len(h) \in Nat /\ Len(log) \in Nat
    BY <1>1
  <2>2. \A i \in 1..Len(r) : r[i] = log[Len(log) - Len(r) + i]
    <3> SUFFICES ASSUME NEW i \in 1..Len(r)
                 PROVE  r[i] = log[Len(log) - Len(r) + i]
      OBVIOUS
    <3>1. k + i \in 1..Len(h) /\ Len(log) - Len(h) + (k + i) = Len(log) - Len(r) + i
      BY <1>1, <2>1
    <3> QED BY <1>1, <3>1 DEF LogInv, SuffixOf
  <2> QED BY <1>1, <2>1, <2>2 DEF LogInv, SuffixOf
<1>3. DroppedIsOld(r, log, w, t)
  <2> SUFFICES ASSUME NEW i \in 1..(Len(log) - Len(r))
               PROVE  t - log[i] >= w
    BY DEF DroppedIsOld
  <2>1. CASE i <= Len(log) - Len(h)
    BY <2>1, <1>1 DEF LogInv, DroppedIsOld
  <2>2. CASE i > Len(log) - Len(h)
    <3>1. i - (Len(log) - Len(h)) \in 1..k
      BY <2>2, <1>1 DEF LogInv, SuffixOf
    <3>2. h[i - (Len(log) - Len(h))] = log[i]
      BY <3>1, <2>2 DEF LogInv, SuffixOf
    <3> QED BY <3>1, <3>2 DEF Popped
  <2> QED BY <2>1, <2>2, <1>1 DEF LogInv, SuffixOf
<1>4. Len(h) > k => t - r[1] < w
  <2> HAVE Len(h) > k
  <2>1. Len(h) \in Nat /\ k \in Nat
    OBVIOUS
  <2>2. 1 \in 1..Len(r) /\ r[1] = h[k + 1]
    BY <1>1, <2>1
  <2> QED BY <2>1, <2>2 DEF Popped
<1> QED BY <1>2, <1>3, <1>4 DEF LogInv

\* Appending to a deque with room keeps the relation: the grant Capacity
\* places earlier is one the deque no longer holds, hence out of the window.
LEMMA AppendKeeps ==
  ASSUME NEW h \in Seq(Nat), NEW log \in Seq(Nat),
         NEW cap \in Nat \ {0}, NEW w \in Nat \ {0}, NEW t \in Nat,
         LogInv(h, log, cap, w, t), Len(h) < cap
  PROVE  LogInv(Append(h, t), Append(log, t), cap, w, t)
<1> DEFINE h2 == Append(h, t)
           l2 == Append(log, t)
<1>1. /\ h2 \in Seq(Nat) /\ Len(h2) = Len(h) + 1 /\ h2[Len(h) + 1] = t
      /\ \A i \in 1..Len(h) : h2[i] = h[i]
      /\ l2 \in Seq(Nat) /\ Len(l2) = Len(log) + 1 /\ l2[Len(log) + 1] = t
      /\ \A i \in 1..Len(log) : l2[i] = log[i]
      /\ \A i \in 1..Len(log) : log[i] \in Nat
      /\ Len(h) \in Nat /\ Len(log) \in Nat /\ Len(h) <= Len(log)
  BY DEF LogInv, SuffixOf
<1>0. Len(l2) = Len(log) + 1 /\ Len(log) \in Nat
  BY <1>1
<1> HIDE DEF h2, l2
<1>2. SuffixOf(h2, l2)
  <2> SUFFICES ASSUME NEW i \in 1..Len(h2)
               PROVE  h2[i] = l2[Len(l2) - Len(h2) + i]
    BY <1>1 DEF SuffixOf
  <2>1. CASE i = Len(h) + 1
    BY <2>1, <1>1
  <2>2. CASE i \in 1..Len(h)
    <3>1. /\ Len(l2) - Len(h2) + i = Len(log) - Len(h) + i
          /\ Len(log) - Len(h) + i \in 1..Len(log)
      BY <2>2, <1>1
    <3>2. h[i] = log[Len(log) - Len(h) + i]
      BY <2>2 DEF LogInv, SuffixOf
    <3> QED BY <2>2, <3>1, <3>2, <1>1
  <2> QED BY <2>1, <2>2, <1>1
<1>3. DroppedIsOld(h2, l2, w, t)
  <2> SUFFICES ASSUME NEW i \in 1..(Len(l2) - Len(h2))
               PROVE  t - l2[i] >= w
    BY DEF DroppedIsOld
  <2>1. i \in 1..(Len(log) - Len(h)) /\ i \in 1..Len(log)
    BY <1>1
  <2> QED BY <2>1, <1>1 DEF LogInv, DroppedIsOld
<1>4. InOrder(l2, t)
  <2> SUFFICES ASSUME NEW i \in 1..Len(l2)
               PROVE  l2[i] <= t /\ \A j \in i..Len(l2) : l2[i] <= l2[j]
    BY DEF InOrder
  <2>1. \A j \in 1..Len(log) : log[j] <= t
    BY DEF LogInv, InOrder
  <2>2. \A m \in 1..Len(log) : \A j \in m..Len(log) : log[m] <= log[j]
    BY DEF LogInv, InOrder
  <2>3. CASE i = Len(log) + 1
    <3>1. \A j \in i..Len(l2) : j = i
      BY <2>3, <1>1
    <3>2. l2[i] = t
      BY <2>3, <1>1
    <3> QED BY <3>1, <3>2
  <2>4. CASE i \in 1..Len(log)
    <3>1. l2[i] = log[i] /\ log[i] <= t
      BY <2>4, <2>1, <1>1
    <3>2. ASSUME NEW j \in i..Len(l2) PROVE l2[i] <= l2[j]
      <4>1. CASE j = Len(log) + 1
        BY <4>1, <3>1, <1>1
      <4>2. CASE j \in i..Len(log)
        <5>1. j \in 1..Len(log)
          BY <2>4, <4>2, <1>1
        <5> QED BY <2>4, <4>2, <5>1, <3>1, <2>2, <1>1
      <4>3. j = Len(log) + 1 \/ j \in i..Len(log)
        BY <1>0
      <4> QED BY <4>1, <4>2, <4>3
    <3> QED BY <3>1, <3>2
  <2> QED BY <2>3, <2>4, <1>1
<1>5. Spaced(l2, cap, w)
  <2> SUFFICES ASSUME NEW i \in 1..Len(l2), i + cap <= Len(l2)
               PROVE  l2[i + cap] - l2[i] >= w
    BY DEF Spaced
  <2>1. i \in 1..Len(log) /\ i + cap \in 1..Len(l2)
    BY <1>1
  <2>2. CASE i + cap = Len(l2)
    <3>1. i \in 1..(Len(log) - Len(h))
      <4>1. i + cap = Len(log) + 1 /\ Len(h) < cap /\ i >= 1 /\ cap \in Nat
        BY <2>1, <2>2, <1>1
      <4>2. i \in Int /\ Len(h) \in Int /\ Len(log) \in Int /\ cap \in Int
        BY <2>1, <1>1
      <4>3. i <= Len(log) - Len(h)
        BY <4>1, <4>2
      <4> QED BY <4>1, <4>2, <4>3
    <3>2. t - log[i] >= w
      BY <3>1 DEF LogInv, DroppedIsOld
    <3> QED BY <2>1, <2>2, <3>2, <1>1
  <2>3. CASE i + cap <= Len(log)
    <3>1. log[i + cap] - log[i] >= w
      BY <2>1, <2>3 DEF LogInv, Spaced
    <3> QED BY <2>1, <2>3, <3>1, <1>1
  <2>4. i + cap = Len(l2) \/ i + cap <= Len(log)
    BY <1>0
  <2> QED BY <2>2, <2>3, <2>4
<1> QED BY <1>1, <1>2, <1>3, <1>4, <1>5 DEF LogInv, h2, l2

\* The passing of time keeps the relation.
LEMMA TickKeeps ==
  ASSUME NEW h \in Seq(Nat), NEW log \in Seq(Nat),
         NEW cap \in Nat \ {0}, NEW w \in Nat \ {0}, NEW t \in Nat,
         LogInv(h, log, cap, w, t)
  PROVE  LogInv(h, log, cap, w, t + 1)
<1>1. \A i \in 1..Len(log) : log[i] \in Nat
  OBVIOUS
<1>2. Len(h) \in Nat /\ Len(log) \in Nat
  OBVIOUS
<1>3. DroppedIsOld(h, log, w, t + 1)
  BY <1>1, <1>2 DEF LogInv, DroppedIsOld
<1>4. InOrder(log, t + 1)
  BY <1>1, <1>2 DEF LogInv, InOrder
<1> QED BY <1>3, <1>4 DEF LogInv

-----------------------------------------------------------------------------
LEMMA InitIInv == Init => IInv
<1> SUFFICES ASSUME Init PROVE IInv
  OBVIOUS
<1> USE ThrottleAssumption
<1>1. TypeOK
  BY DEF Init, TypeOK, Phase
<1>2. ASSUME NEW b \in Bucket
      PROVE  LogInv(history[b], granted[b], Capacity[b], Window[b], now)
  <2>1. history[b] = << >> /\ granted[b] = << >> /\ Capacity[b] \in Nat
    BY DEF Init
  <2> QED BY <2>1 DEF LogInv, SuffixOf, DroppedIsOld, InOrder, Spaced
<1>3. \A c \in Caller : phase[c] # "sleeping"
  BY DEF Init
<1> QED BY <1>1, <1>2, <1>3 DEF IInv, SleepWithinBudget

\* What one evaluation of acquire() can rely on after its popleft loop, and
\* what its wait is when the pruned deque is full.
LEMMA AfterPruning ==
  ASSUME IInv, NEW b \in Bucket, NEW k \in 0..Len(history[b]),
         Popped(history[b], Window[b], now, k)
  PROVE  LET h == Rest(history[b], k)
         IN  /\ h \in Seq(Nat)
             /\ LogInv(h, granted[b], Capacity[b], Window[b], now)
             /\ Len(h) >= Capacity[b] =>
                  /\ Len(granted[b]) >= Capacity[b]
                  /\ h[1] \in Nat
                  /\ h[1] = granted[b][Len(granted[b]) - Capacity[b] + 1]
                  /\ now - h[1] < Window[b]
<1> DEFINE h == Rest(history[b], k)
<1>1. /\ history[b] \in Seq(Nat) /\ granted[b] \in Seq(Nat) /\ now \in Nat
      /\ Capacity[b] \in Nat \ {0} /\ Window[b] \in Nat \ {0}
      /\ LogInv(history[b], granted[b], Capacity[b], Window[b], now)
  BY ThrottleAssumption DEF IInv, TypeOK
<1>0. k \in Nat /\ Len(history[b]) \in Nat
  BY <1>1
<1>2. h \in Seq(Nat) /\ Len(h) = Len(history[b]) - k
  BY <1>1, RestIsTail
<1>3. /\ LogInv(h, granted[b], Capacity[b], Window[b], now)
      /\ Len(history[b]) > k => now - h[1] < Window[b]
  BY <1>1, PruneKeeps
<1> HIDE DEF h
<1>4. ASSUME Len(h) >= Capacity[b]
      PROVE  /\ Len(granted[b]) >= Capacity[b]
             /\ h[1] \in Nat
             /\ h[1] = granted[b][Len(granted[b]) - Capacity[b] + 1]
             /\ now - h[1] < Window[b]
  <2>1. /\ Len(granted[b]) >= Capacity[b]
        /\ h[1] \in Nat
        /\ h[1] = granted[b][Len(granted[b]) - Capacity[b] + 1]
    <3>1. /\ Len(h) \in Nat /\ Len(granted[b]) \in Nat
          /\ Len(h) = Capacity[b] /\ Len(h) <= Len(granted[b])
      BY <1>1, <1>2, <1>3, <1>4 DEF LogInv, SuffixOf
    <3>2. 1 \in 1..Len(h)
      BY <3>1, <1>1
    <3>3. h[1] = granted[b][Len(granted[b]) - Len(h) + 1]
      BY <1>3, <3>2 DEF LogInv, SuffixOf
    <3>4. h[1] \in Nat
      BY <1>2, <3>2
    <3> QED BY <3>1, <3>3, <3>4
  <2>2. Len(history[b]) > k
    BY <1>0, <1>1, <1>2, <1>4
  <2> QED BY <2>1, <2>2, <1>3
<1>5. QED BY <1>2, <1>3, <1>4 DEF h

\* A grant keeps a full bucket full: the log only moves forward in time.
LEMMA AwaitedSurvivesAppend ==
  ASSUME NEW log \in Seq(Nat), NEW t \in Nat, NEW cap \in Nat \ {0},
         NEW w \in Nat \ {0}, NEW a \in Nat, InOrder(log, t),
         Len(log) >= cap, a - log[Len(log) - cap + 1] <= w
  PROVE  LET l2 == Append(log, t)
         IN  Len(l2) >= cap /\ a - l2[Len(l2) - cap + 1] <= w
<1> DEFINE l2 == Append(log, t)
<1>1. /\ Len(l2) = Len(log) + 1 /\ l2[Len(log) + 1] = t
      /\ \A i \in 1..Len(log) : l2[i] = log[i] /\ log[i] \in Nat
      /\ Len(log) \in Nat
  OBVIOUS
<1> HIDE DEF l2
<1> DEFINE m == Len(log) - cap + 1
<1>2. m \in 1..Len(log) /\ Len(l2) - cap + 1 = m + 1
  BY <1>1
<1>3. l2[m + 1] >= log[m]
  <2>1. CASE m = Len(log)
    BY <2>1, <1>1, <1>2 DEF InOrder
  <2>2. CASE m < Len(log)
    <3>1. m + 1 \in 1..Len(log) /\ m + 1 \in m..Len(log)
      BY <2>2, <1>1, <1>2
    <3> QED BY <3>1, <1>1, <1>2 DEF InOrder
  <2> QED BY <2>1, <2>2, <1>1, <1>2
<1>4. l2[m + 1] \in Nat /\ log[m] \in Nat
  <2>1. m + 1 \in 1..Len(log) \/ m + 1 = Len(log) + 1
    BY <1>1, <1>2
  <2> QED BY <2>1, <1>1, <1>2
<1>5. a - l2[m + 1] <= w
  BY <1>3, <1>4
<1>6. Len(l2) >= cap
  BY <1>1
<1> QED BY <1>2, <1>5, <1>6 DEF l2

\* A grant keeps IInv.
LEMMA GrantKeeps ==
  ASSUME IInv, NEW c \in Caller, NEW b \in Bucket, NEW k \in 0..Len(history[b]),
         Popped(history[b], Window[b], now, k), Grant(c, b, Rest(history[b], k)),
         now' = now, started' \in [Caller -> Nat], bucket' \in [Caller -> Bucket],
         \A d \in Caller \ {c} : bucket'[d] = bucket[d] /\ started'[d] = started[d]
  PROVE  IInv'
<1> DEFINE h == Rest(history[b], k)
<1> USE ThrottleAssumption
<1>1. /\ h \in Seq(Nat) /\ now \in Nat /\ granted[b] \in Seq(Nat)
      /\ LogInv(h, granted[b], Capacity[b], Window[b], now)
      /\ Capacity[b] \in Nat \ {0} /\ Window[b] \in Nat \ {0}
  <2>1. h \in Seq(Nat) /\ LogInv(h, granted[b], Capacity[b], Window[b], now)
    BY AfterPruning
  <2> QED BY <2>1 DEF IInv, TypeOK
<1>2. /\ Len(h) < Capacity[b]
      /\ history' = [history EXCEPT ![b] = Append(h, now)]
      /\ granted' = [granted EXCEPT ![b] = Append(granted[b], now)]
      /\ phase' = [phase EXCEPT ![c] = "granted"]
      /\ wake' = wake
  BY DEF Grant
<1> HIDE DEF h
<1>3. TypeOK'
  <2>1. Append(h, now) \in Seq(Nat) /\ Append(granted[b], now) \in Seq(Nat)
    BY <1>1
  <2>2. history' \in [Bucket -> Seq(Nat)] /\ granted' \in [Bucket -> Seq(Nat)]
    BY <2>1, <1>2 DEF IInv, TypeOK
  <2> QED BY <2>2, <1>2 DEF IInv, TypeOK, Phase
<1>4. ASSUME NEW e \in Bucket
      PROVE  LogInv(history[e], granted[e], Capacity[e], Window[e], now)'
  <2>1. CASE e = b
    <3>1. LogInv(Append(h, now), Append(granted[b], now), Capacity[b], Window[b], now)
      BY <1>1, <1>2, AppendKeeps
    <3>2. history'[b] = Append(h, now) /\ granted'[b] = Append(granted[b], now)
      BY <1>2 DEF IInv, TypeOK
    <3> QED BY <2>1, <3>1, <3>2
  <2>2. CASE e # b
    <3>1. history'[e] = history[e] /\ granted'[e] = granted[e]
      BY <2>2, <1>2 DEF IInv, TypeOK
    <3>2. LogInv(history[e], granted[e], Capacity[e], Window[e], now)
      BY DEF IInv
    <3> QED BY <3>1, <3>2
  <2> QED BY <2>1, <2>2
<1>5. ASSUME NEW d \in Caller, phase'[d] = "sleeping"
      PROVE  Awaited(d)'
  <2>1. d # c /\ phase[d] = "sleeping" /\ bucket'[d] = bucket[d] /\ wake'[d] = wake[d]
    BY <1>2, <1>5 DEF IInv, TypeOK
  <2>2. Awaited(d) /\ bucket[d] \in Bucket
    BY <2>1 DEF IInv, TypeOK
  <2>3. CASE bucket[d] # b
    <3>1. granted'[bucket[d]] = granted[bucket[d]]
      BY <2>2, <2>3, <1>2 DEF IInv, TypeOK
    <3> QED BY <2>1, <2>2, <3>1 DEF Awaited
  <2>4. CASE bucket[d] = b
    <3>1. granted'[b] = Append(granted[b], now)
      BY <1>2 DEF IInv, TypeOK
    <3>2. InOrder(granted[b], now) /\ wake[d] \in Nat
      BY <1>1 DEF LogInv, IInv, TypeOK
    <3>3. /\ Len(granted[b]) >= Capacity[b]
          /\ wake[d] - granted[b][Len(granted[b]) - Capacity[b] + 1] <= Window[b]
      BY <2>2, <2>4 DEF Awaited
    <3>4. /\ Len(Append(granted[b], now)) >= Capacity[b]
          /\ wake[d] - Append(granted[b], now)[Len(Append(granted[b], now)) - Capacity[b] + 1]
               <= Window[b]
      BY <1>1, <3>2, <3>3, AwaitedSurvivesAppend
    <3> QED BY <2>1, <2>4, <3>1, <3>4 DEF Awaited
  <2> QED BY <2>3, <2>4
<1>6. SleepWithinBudget'
  <2> SUFFICES ASSUME NEW d \in Caller, phase'[d] = "sleeping"
               PROVE  wake'[d] <= started'[d] + Budget
    BY DEF SleepWithinBudget
  <2>1. d # c /\ phase[d] = "sleeping" /\ started'[d] = started[d] /\ wake'[d] = wake[d]
    BY <1>2 DEF IInv, TypeOK
  <2> QED BY <2>1 DEF IInv, SleepWithinBudget
<1> QED BY <1>3, <1>4, <1>5, <1>6 DEF IInv

\* Going to sleep keeps IInv: the wake-up is the oldest entry plus the window.
LEMMA SleepKeeps ==
  ASSUME IInv, NEW c \in Caller, NEW b \in Bucket, NEW s \in Nat,
         NEW k \in 0..Len(history[b]),
         Popped(history[b], Window[b], now, k), Sleep(c, b, s, Rest(history[b], k)),
         now' = now, started' \in [Caller -> Nat], bucket' \in [Caller -> Bucket],
         bucket'[c] = b, started'[c] = s,
         \A d \in Caller \ {c} : bucket'[d] = bucket[d] /\ started'[d] = started[d]
  PROVE  IInv'
<1> DEFINE h == Rest(history[b], k)
           wait == WaitFor(h, Window[b], now)
<1> USE ThrottleAssumption
<1>1. /\ h \in Seq(Nat) /\ now \in Nat /\ granted[b] \in Seq(Nat)
      /\ LogInv(h, granted[b], Capacity[b], Window[b], now)
      /\ Capacity[b] \in Nat \ {0} /\ Window[b] \in Nat \ {0}
  <2>1. h \in Seq(Nat) /\ LogInv(h, granted[b], Capacity[b], Window[b], now)
    BY AfterPruning
  <2> QED BY <2>1 DEF IInv, TypeOK
<1>2. /\ Len(h) >= Capacity[b]
      /\ CanAfford(s, now, wait)
      /\ history' = [history EXCEPT ![b] = h]
      /\ phase' = [phase EXCEPT ![c] = "sleeping"]
      /\ wake' = [wake EXCEPT ![c] = now + wait]
      /\ granted' = granted
  BY DEF Sleep
<1>3. /\ Len(granted[b]) >= Capacity[b]
      /\ h[1] \in Nat
      /\ h[1] = granted[b][Len(granted[b]) - Capacity[b] + 1]
      /\ now - h[1] < Window[b]
  BY <1>2, AfterPruning
<1>4. wait = Window[b] - (now - h[1])
  BY DEF WaitFor
<1> HIDE DEF h, wait
<1>5. wait \in Nat /\ wait > 0
  <2>1. now \in Int /\ h[1] \in Int /\ Window[b] \in Int
    BY <1>1, <1>3
  <2>2. now - h[1] < Window[b]
    BY <1>3
  <2>3. \A x, y, z \in Int : x - y < z => z - (x - y) \in Nat /\ z - (x - y) > 0
    OBVIOUS
  <2> QED BY <2>1, <2>2, <2>3, <1>4
<1>6. TypeOK'
  BY <1>1, <1>2, <1>5 DEF IInv, TypeOK, Phase
<1>7. ASSUME NEW e \in Bucket
      PROVE  LogInv(history[e], granted[e], Capacity[e], Window[e], now)'
  <2>1. CASE e = b
    BY <2>1, <1>1, <1>2 DEF IInv, TypeOK
  <2>2. CASE e # b
    <3>1. history'[e] = history[e] /\ granted'[e] = granted[e]
      BY <2>2, <1>2 DEF IInv, TypeOK
    <3>2. LogInv(history[e], granted[e], Capacity[e], Window[e], now)
      BY DEF IInv
    <3> QED BY <3>1, <3>2
  <2> QED BY <2>1, <2>2
<1>8. ASSUME NEW d \in Caller, phase'[d] = "sleeping"
      PROVE  Awaited(d)' /\ wake'[d] <= started'[d] + Budget
  <2>1. CASE d = c
    <3>1. wake'[c] = now + wait
      BY <1>2 DEF IInv, TypeOK
    <3>2. wake'[c] - h[1] <= Window[b]
      <4>1. now \in Int /\ h[1] \in Int /\ Window[b] \in Int
        BY <1>1, <1>3
      <4> QED BY <4>1, <3>1, <1>4
    <3>3. Awaited(c)'
      BY <3>2, <1>2, <1>3 DEF Awaited
    <3>4. wait <= Budget - (now - s)
      <4>1. wait <= AtLeastZero(Budget - (now - s))
        BY <1>2 DEF CanAfford, Remaining
      <4>2. Budget \in Int
        BY DeadlineAssumption DEF Budget
      <4> QED BY <4>1, <4>2, <1>1, <1>5 DEF AtLeastZero
    <3>5. now + wait <= s + Budget
      BY <3>4, <1>1, <1>5, DeadlineAssumption DEF Budget
    <3> QED BY <2>1, <3>1, <3>3, <3>5
  <2>2. CASE d # c
    <3>1. /\ phase[d] = "sleeping" /\ bucket'[d] = bucket[d]
          /\ started'[d] = started[d] /\ wake'[d] = wake[d]
      BY <2>2, <1>2, <1>8 DEF IInv, TypeOK
    <3>2. Awaited(d) /\ wake[d] <= started[d] + Budget
      BY <3>1 DEF IInv, SleepWithinBudget
    <3> QED BY <3>1, <3>2, <1>2 DEF Awaited
  <2> QED BY <2>1, <2>2
<1> QED BY <1>6, <1>7, <1>8 DEF IInv, SleepWithinBudget

\* A refusal only prunes, so it keeps IInv.
LEMMA RefuseKeeps ==
  ASSUME IInv, NEW c \in Caller, NEW b \in Bucket, NEW s \in Nat,
         NEW k \in 0..Len(history[b]),
         Popped(history[b], Window[b], now, k), Refuse(c, b, s, Rest(history[b], k)),
         now' = now, started' \in [Caller -> Nat], bucket' \in [Caller -> Bucket],
         \A d \in Caller \ {c} : bucket'[d] = bucket[d] /\ started'[d] = started[d]
  PROVE  IInv'
<1> DEFINE h == Rest(history[b], k)
<1>1. h \in Seq(Nat) /\ LogInv(h, granted[b], Capacity[b], Window[b], now)
  BY AfterPruning
<1>2. /\ history' = [history EXCEPT ![b] = h]
      /\ phase' = [phase EXCEPT ![c] = "refused"]
      /\ wake' = wake
      /\ granted' = granted
  BY DEF Refuse
<1> HIDE DEF h
<1>3. TypeOK'
  BY <1>1, <1>2 DEF IInv, TypeOK, Phase
<1>4. ASSUME NEW e \in Bucket
      PROVE  LogInv(history[e], granted[e], Capacity[e], Window[e], now)'
  <2>1. CASE e = b
    BY <2>1, <1>1, <1>2 DEF IInv, TypeOK
  <2>2. CASE e # b
    <3>1. history'[e] = history[e] /\ granted'[e] = granted[e]
      BY <2>2, <1>2 DEF IInv, TypeOK
    <3>2. LogInv(history[e], granted[e], Capacity[e], Window[e], now)
      BY DEF IInv
    <3> QED BY <3>1, <3>2
  <2> QED BY <2>1, <2>2
<1>5. ASSUME NEW d \in Caller, phase'[d] = "sleeping"
      PROVE  Awaited(d)' /\ wake'[d] <= started'[d] + Budget
  <2>1. /\ d # c /\ phase[d] = "sleeping" /\ bucket'[d] = bucket[d]
        /\ started'[d] = started[d] /\ wake'[d] = wake[d]
    BY <1>2, <1>5 DEF IInv, TypeOK
  <2>2. Awaited(d) /\ wake[d] <= started[d] + Budget
    BY <2>1 DEF IInv, SleepWithinBudget
  <2> QED BY <2>1, <2>2, <1>2 DEF Awaited
<1> QED BY <1>3, <1>4, <1>5 DEF IInv, SleepWithinBudget

\* One evaluation of acquire() keeps IInv.
LEMMA EvaluateKeeps ==
  ASSUME IInv, NEW c \in Caller, NEW b \in Bucket, NEW s \in Nat,
         Evaluate(c, b, s), now' = now,
         started' \in [Caller -> Nat], bucket' \in [Caller -> Bucket],
         bucket'[c] = b, started'[c] = s,
         \A d \in Caller \ {c} : bucket'[d] = bucket[d] /\ started'[d] = started[d]
  PROVE  IInv'
<1>1. PICK k \in 0..Len(history[b]) :
        /\ Popped(history[b], Window[b], now, k)
        /\ \/ Grant(c, b, Rest(history[b], k))
           \/ Sleep(c, b, s, Rest(history[b], k))
           \/ Refuse(c, b, s, Rest(history[b], k))
  BY DEF Evaluate
<1>2. CASE Grant(c, b, Rest(history[b], k))
  BY <1>1, <1>2, GrantKeeps
<1>3. CASE Sleep(c, b, s, Rest(history[b], k))
  BY <1>1, <1>3, SleepKeeps
<1>4. CASE Refuse(c, b, s, Rest(history[b], k))
  BY <1>1, <1>4, RefuseKeeps
<1> QED BY <1>1, <1>2, <1>3, <1>4

LEMMA AcquireArguments ==
  ASSUME IInv, NEW c \in Caller, NEW b \in Bucket, NEW s \in 0..now, Acquire(c, b, s)
  PROVE  /\ s \in Nat /\ now' = now
         /\ started' \in [Caller -> Nat] /\ bucket' \in [Caller -> Bucket]
         /\ bucket'[c] = b /\ started'[c] = s
         /\ \A d \in Caller \ {c} : bucket'[d] = bucket[d] /\ started'[d] = started[d]
BY DEF Acquire, IInv, TypeOK

LEMMA WakeArguments ==
  ASSUME IInv, NEW c \in Caller, Wake(c)
  PROVE  /\ started[c] \in Nat /\ bucket[c] \in Bucket /\ now' = now
         /\ started' \in [Caller -> Nat] /\ bucket' \in [Caller -> Bucket]
         /\ bucket' = bucket /\ started' = started
BY DEF Wake, IInv, TypeOK

\* IInv is preserved by every step.
LEMMA NextIInv == IInv /\ [Next]_vars => IInv'
<1> SUFFICES ASSUME IInv, [Next]_vars PROVE IInv'
  OBVIOUS
<1>1. ASSUME NEW c \in Caller, NEW b \in Bucket, NEW s \in 0..now, Acquire(c, b, s)
      PROVE  IInv'
  <2>1. Evaluate(c, b, s)
    BY <1>1 DEF Acquire
  <2> QED BY <1>1, <2>1, AcquireArguments, EvaluateKeeps
<1>2. ASSUME NEW c \in Caller, Wake(c)
      PROVE  IInv'
  <2>1. Evaluate(c, bucket[c], started[c])
    BY <1>2 DEF Wake
  <2> QED BY <1>2, <2>1, WakeArguments, EvaluateKeeps
<1>3. CASE Tick
  <2>1. TypeOK'
    BY <1>3, ThrottleAssumption DEF Tick, IInv, TypeOK
  <2>2. ASSUME NEW b \in Bucket
        PROVE  LogInv(history[b], granted[b], Capacity[b], Window[b], now)'
    <3>1. /\ LogInv(history[b], granted[b], Capacity[b], Window[b], now)
          /\ history[b] \in Seq(Nat) /\ granted[b] \in Seq(Nat) /\ now \in Nat
          /\ Capacity[b] \in Nat \ {0} /\ Window[b] \in Nat \ {0}
      BY ThrottleAssumption DEF IInv, TypeOK
    <3>2. LogInv(history[b], granted[b], Capacity[b], Window[b], now + 1)
      BY <3>1, TickKeeps
    <3> QED BY <3>2, <1>3 DEF Tick
  <2>3. \A c \in Caller : phase'[c] = "sleeping" => Awaited(c)'
    BY <1>3 DEF Tick, IInv, Awaited
  <2>4. SleepWithinBudget'
    BY <1>3 DEF Tick, IInv, SleepWithinBudget
  <2> QED BY <2>1, <2>2, <2>3, <2>4 DEF IInv
<1>4. CASE UNCHANGED vars
  BY <1>4 DEF vars, IInv, TypeOK, LogInv, Awaited, SleepWithinBudget
<1> QED BY <1>1, <1>2, <1>3, <1>4 DEF Next

\* IInv holds in every reachable state.
LEMMA Inductive == Spec => []IInv
  BY InitIInv, NextIInv, PTL DEF Spec

-----------------------------------------------------------------------------
\* Every variable keeps its type (acquire()'s deques hold instants only).
THEOREM TypeCorrect == Spec => []TypeOK
<1>1. IInv => TypeOK
  BY DEF IInv
<1> QED BY Inductive, <1>1, PTL

\* The operating rate is never exceeded, for any number of callers
\* (throttle.py's "below the published figures").
THEOREM RateNeverExceeded == Spec => []WindowBound
<1>1. IInv => WindowBound
  BY DEF IInv, LogInv, Spaced, WindowBound, SpacedBy
<1> QED BY Inductive, <1>1, PTL

\* A caller whose sleep is not over has a full bucket (acquire's wait).
THEOREM SleepersAreNeeded == Spec => []NoNeedlessSleep
<1>1. IInv => NoNeedlessSleep
  <2> SUFFICES ASSUME IInv, NEW c \in Caller, phase[c] = "sleeping", now < wake[c]
               PROVE  FullAt(bucket[c], now)
    BY DEF NoNeedlessSleep
  <2> DEFINE b == bucket[c]
             log == granted[b]
             m == Len(log) - Capacity[b] + 1
  <2>1. /\ b \in Bucket /\ log \in Seq(Nat) /\ now \in Int /\ wake[c] \in Int
        /\ Capacity[b] \in Nat \ {0} /\ Window[b] \in Int
    BY ThrottleAssumption DEF IInv, TypeOK
  <2>2. Len(log) >= Capacity[b] /\ wake[c] - log[m] <= Window[b]
    BY DEF IInv, Awaited
  <2>3. m \in 1..Len(log)
    BY <2>1, <2>2
  <2>4. log[m] \in Int
    BY <2>1, <2>3
  <2>5. now - log[m] < Window[b]
    <3>1. \A t, a, g, w \in Int : t < a /\ a - g <= w => t - g < w
      OBVIOUS
    <3> HIDE DEF b, log, m
    <3> QED BY <3>1, <2>1, <2>2, <2>4
  <2> QED BY <2>2, <2>5 DEF FullAt
<1> QED BY Inductive, <1>1, PTL

\* No sleep reaches past the call's ordinary budget (deadline.can_afford).
THEOREM SleepsFitTheBudget == Spec => []SleepWithinBudget
<1>1. IInv => SleepWithinBudget
  BY DEF IInv
<1> QED BY Inductive, <1>1, PTL

\* A caller that is refused has a bucket that stays full to its deadline.
LEMMA RefuseIsForced ==
  ASSUME IInv, NEW c \in Caller, NEW b \in Bucket, NEW s \in Nat,
         Evaluate(c, b, s), phase'[c] = "refused",
         NEW t \in now..(s + Budget)
  PROVE  FullAt(b, t)
<1>1. PICK k \in 0..Len(history[b]) :
        /\ Popped(history[b], Window[b], now, k)
        /\ \/ Grant(c, b, Rest(history[b], k))
           \/ Sleep(c, b, s, Rest(history[b], k))
           \/ Refuse(c, b, s, Rest(history[b], k))
  BY DEF Evaluate
<1> DEFINE h == Rest(history[b], k)
<1>2. Refuse(c, b, s, h)
  BY <1>1 DEF Grant, Sleep, IInv, TypeOK
<1>3. /\ Len(h) >= Capacity[b]
      /\ ~(Window[b] - (now - h[1]) <= AtLeastZero(Budget - (now - s)))
  BY <1>2 DEF Refuse, CanAfford, Remaining, WaitFor
<1>4. /\ Len(granted[b]) >= Capacity[b]
      /\ h[1] \in Nat
      /\ h[1] = granted[b][Len(granted[b]) - Capacity[b] + 1]
  BY <1>1, <1>3, AfterPruning
<1> HIDE DEF h
<1>5. now \in Int /\ Budget \in Int /\ Window[b] \in Int
  BY DeadlineAssumption, ThrottleAssumption DEF Budget, IInv, TypeOK
<1>6. t - h[1] < Window[b]
  <2>1. \A x \in Int : AtLeastZero(x) >= x /\ AtLeastZero(x) \in Int
    BY DEF AtLeastZero
  <2>2. Budget - (now - s) \in Int
    BY <1>5
  <2>3. t \in Int /\ t <= s + Budget /\ h[1] \in Int
    BY <1>4, <1>5
  <2>4. AtLeastZero(Budget - (now - s)) >= Budget - (now - s)
        /\ AtLeastZero(Budget - (now - s)) \in Int
    BY <2>1, <2>2
  <2> QED BY <1>3, <1>5, <2>3, <2>4
<1> QED BY <1>4, <1>6 DEF FullAt

\* ThrottleRefused is raised only when no wait inside the deadline could end
\* in a free slot (acquire's can_afford test).
THEOREM RefusalsAreForced == Spec => RefusalIsForced
<1>1. ASSUME IInv, [Next]_vars, NEW c \in Caller,
             phase'[c] = "refused", phase[c] # "refused",
             NEW t \in now'..(started'[c] + Budget)
      PROVE  FullAt(bucket'[c], t)
  <2>1. ASSUME NEW d \in Caller, NEW b \in Bucket, NEW s \in 0..now, Acquire(d, b, s)
        PROVE  FullAt(bucket'[c], t)
    <3>1. Evaluate(d, b, s)
      BY <2>1 DEF Acquire
    <3>2. d = c
      BY <1>1, <3>1 DEF Evaluate, Grant, Sleep, Refuse, IInv, TypeOK
    <3>3. bucket'[c] = b /\ started'[c] = s /\ now' = now /\ s \in Nat
      BY <1>1, <2>1, <3>2, AcquireArguments
    <3> QED BY <1>1, <3>1, <3>2, <3>3, RefuseIsForced
  <2>2. ASSUME NEW d \in Caller, Wake(d)
        PROVE  FullAt(bucket'[c], t)
    <3>1. Evaluate(d, bucket[d], started[d])
      BY <2>2 DEF Wake
    <3>2. d = c
      BY <1>1, <3>1 DEF Evaluate, Grant, Sleep, Refuse, IInv, TypeOK
    <3>3. bucket' = bucket /\ started' = started /\ now' = now
          /\ bucket[c] \in Bucket /\ started[c] \in Nat
      BY <1>1, <2>2, <3>2, WakeArguments
    <3> QED BY <1>1, <3>1, <3>2, <3>3, RefuseIsForced
  <2> QED BY <1>1, <2>1, <2>2 DEF Next, Tick, vars
<1>2. IInv /\ [Next]_vars =>
        \A c \in Caller :
          phase'[c] = "refused" /\ phase[c] # "refused" =>
            \A t \in now'..(started'[c] + Budget) : FullAt(bucket'[c], t)
  BY <1>1
<1> QED BY Inductive, <1>2, PTL DEF Spec, RefusalIsForced

-----------------------------------------------------------------------------
(* Waiting takes time *)

\* One evaluation of acquire() moves its caller only; if it puts it to sleep,
\* the entry waited for is still inside the window, so the sleep has a length.
LEMMA EvaluateSleeps ==
  ASSUME IInv, NEW c \in Caller, NEW b \in Bucket, NEW s \in Nat, Evaluate(c, b, s)
  PROVE  /\ \A d \in Caller \ {c} : phase'[d] = phase[d] /\ wake'[d] = wake[d]
         /\ phase'[c] = "sleeping" => now < wake'[c]
<1>1. PICK k \in 0..Len(history[b]) :
        /\ Popped(history[b], Window[b], now, k)
        /\ \/ Grant(c, b, Rest(history[b], k))
           \/ Sleep(c, b, s, Rest(history[b], k))
           \/ Refuse(c, b, s, Rest(history[b], k))
  BY DEF Evaluate
<1> DEFINE h == Rest(history[b], k)
<1>2. phase \in [Caller -> Phase] /\ wake \in [Caller -> Nat] /\ now \in Nat
  BY ThrottleAssumption DEF IInv, TypeOK
<1>3. CASE Grant(c, b, h) \/ Refuse(c, b, s, h)
  BY <1>2, <1>3 DEF Grant, Refuse
<1>4. CASE Sleep(c, b, s, h)
  <2>1. h[1] \in Nat /\ now - h[1] < Window[b] /\ Window[b] \in Nat
    BY <1>1, <1>4, AfterPruning, ThrottleAssumption DEF Sleep
  <2> HIDE DEF h
  <2>2. WaitFor(h, Window[b], now) > 0 /\ WaitFor(h, Window[b], now) \in Int
    BY <1>2, <2>1 DEF WaitFor
  <2>3. /\ phase' = [phase EXCEPT ![c] = "sleeping"]
        /\ wake' = [wake EXCEPT ![c] = now + WaitFor(h, Window[b], now)]
    BY <1>4 DEF Sleep
  <2> QED BY <1>2, <2>2, <2>3
<1> QED BY <1>1, <1>3, <1>4

\* No caller spins: whoever goes to sleep, for the first time or again after
\* it lost the slot it waited for, sleeps for a positive time (acquire()'s
\* pruning comparison against its wait).
THEOREM SleepsTakeTime ==
  Spec => [][\A c \in Caller : phase'[c] = "sleeping" =>
               \/ phase[c] = "sleeping" /\ wake'[c] = wake[c]
               \/ now' < wake'[c]]_vars
<1>1. IInv /\ [Next]_vars =>
        [\A c \in Caller : phase'[c] = "sleeping" =>
           \/ phase[c] = "sleeping" /\ wake'[c] = wake[c]
           \/ now' < wake'[c]]_vars
  <2> SUFFICES ASSUME IInv, Next, NEW c \in Caller, phase'[c] = "sleeping"
               PROVE  \/ phase[c] = "sleeping" /\ wake'[c] = wake[c]
                      \/ now' < wake'[c]
    BY DEF IInv
  <2>1. ASSUME NEW d \in Caller, NEW b \in Bucket, NEW s \in 0..now, Acquire(d, b, s)
        PROVE  (phase[c] = "sleeping" /\ wake'[c] = wake[c]) \/ now' < wake'[c]
    <3>1. Evaluate(d, b, s) /\ s \in Nat /\ now' = now
      BY <2>1, AcquireArguments DEF Acquire
    <3> QED BY <3>1, EvaluateSleeps
  <2>2. ASSUME NEW d \in Caller, Wake(d)
        PROVE  (phase[c] = "sleeping" /\ wake'[c] = wake[c]) \/ now' < wake'[c]
    <3>1. Evaluate(d, bucket[d], started[d]) /\ bucket[d] \in Bucket /\ started[d] \in Nat
          /\ now' = now
      BY <2>2, WakeArguments DEF Wake
    <3> QED BY <3>1, EvaluateSleeps
  <2>3. CASE Tick
    BY <2>3 DEF Tick
  <2> QED BY <2>1, <2>2, <2>3 DEF Next
<1> QED BY Inductive, <1>1, PTL DEF Spec
=============================================================================
