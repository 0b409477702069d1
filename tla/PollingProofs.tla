--------------------------- MODULE PollingProofs ---------------------------
(***************************************************************************)
(* The poll loops for every value of their constants: any sleeps and       *)
(* ceilings, any age of the deadline, any lateness and any server.         *)
(*                                                                         *)
(* The properties speak of a call that has ended, so the invariant says    *)
(* what is owed at each await: when the loop began and what ceiling it     *)
(* computed, how far ahead a sleeper's time can lie and how late it can    *)
(* be, how long a question can wait for its slot, how recently the end of  *)
(* the work came to show if no answer showed it, and that the grace was    *)
(* over when a 404 ended the loop.                                         *)
(***************************************************************************)
EXTENDS Polling, TLAPS

\* Before the kickoff is answered nothing has happened.
NothingYet ==
  pc = "kickoff" =>
    /\ begun = None /\ ~asked /\ refreshes = 0
    /\ job = "none" /\ finishedAt = None /\ heardAt = None

\* The loop has begun, in the past, before the work was done.
LoopBegun ==
  /\ pc \in {"sleeping", "acquiring", "asking", "fetching"} => begun # None
  /\ pc \in {"asking", "fetching"} => asked
  /\ begun # None => begun <= now /\ ceiling = begun + Clamp(0, begun, Ceiling[kind])
  /\ job \in {"finished", "failed"} =>
       finishedAt \in Nat /\ (begun # None => finishedAt >= begun)

\* A sleeper is at most Late behind its time. Between two questions its time
\* lies one interval ahead at most, and work that is done was done recently.
Sleeper ==
  pc = "sleeping" =>
    /\ now <= until + Late
    /\ ~asked => refreshes = 0
    /\ asked =>
         /\ until <= now + MaxInterval
         /\ until <= begun + Ceiling[kind] + MaxInterval
         /\ refreshes = 0 /\ job = "finished" =>
              NotSeenBefore(until - MaxInterval - Flight)

\* A status request is answered while it is in flight.
Asker == pc = "asking" => until - Flight <= now /\ now <= until

\* A question waits for its slot within the budget, up to one overrun.
Acquirer == pc = "acquiring" => until = Budget /\ now <= Budget + Late

\* A call that ended for want of time ended near the loop's ceiling.
EndedForTime ==
  endedBy = "time" =>
    pc = "done" /\ begun # None /\ now >= ceiling - MaxInterval

\* A call that a 404 ended had had its grace.
EndedFor404 ==
  endedBy = "404" => pc = "done" /\ begun # None /\ now >= begun + Grace[kind]

\* Lag is forgiven: a 404 ends a wait only for work that was dropped, or that
\* the status endpoint did not know for the whole grace counted from the start
\* of the loop, up to one request.
GraceFromTheStart ==
  endedBy = "404" /\ job # "gone" =>
    heardAt = None \/ heardAt >= begun + Grace[kind] - Flight

IInv ==
  /\ TypeOK
  /\ NothingYet
  /\ LoopBegun
  /\ Sleeper
  /\ Asker
  /\ Acquirer
  /\ EndedForTime
  /\ EndedFor404
  /\ FirstQuestionIsAsked
  /\ SleepsWithinBudget
  /\ NothingFinishedInTimeIsMissed
  /\ GraceFromTheStart

-----------------------------------------------------------------------------
(* The arithmetic of the deadline *)

LEMMA Constants ==
  /\ Budget \in Nat /\ TotalS \in Nat
  /\ Interval \in Nat \ {0} /\ MaxInterval \in Nat /\ Interval <= MaxInterval
  /\ MaxRefresh \in Nat /\ Flight \in Nat /\ Late \in Nat /\ MaxTime \in Nat
  /\ \A k \in Kind : Initial[k] \in Nat /\ Grace[k] \in Nat /\ Ceiling[k] \in Nat
<1>1. Budget \in Nat /\ TotalS \in Nat
  BY DeadlineAssumption DEF Budget
<1> QED
  BY <1>1, PollingAssumption

LEMMA RemainingFacts ==
  ASSUME NEW t \in Nat
  PROVE  /\ Remaining(0, t) \in Nat
         /\ t <= Budget => Remaining(0, t) = Budget - t
         /\ Budget <= t => Remaining(0, t) = 0
  BY Constants DEF Remaining, AtLeastZero

LEMMA ExpiredFacts ==
  ASSUME NEW t \in Nat
  PROVE  Expired(0, t) <=> Budget <= t
  BY Constants, RemainingFacts DEF Expired

LEMMA AffordFacts ==
  ASSUME NEW t \in Nat, NEW i \in Nat \ {0}
  PROVE  CanAfford(0, t, i) <=> t + i <= Budget
  BY Constants, RemainingFacts DEF CanAfford

LEMMA ClampFacts ==
  ASSUME NEW t \in Nat, NEW c \in Nat
  PROVE  Clamp(0, t, c) \in Nat /\ Clamp(0, t, c) <= c /\ Clamp(0, t, c) <= Remaining(0, t)
  BY RemainingFacts DEF Clamp

\* The ceiling lies in the budget, unless the budget is gone already.
LEMMA CeilingFacts ==
  ASSUME NEW t \in Nat, NEW c \in Nat
  PROVE  t + Clamp(0, t, c) <= Budget \/ t + Clamp(0, t, c) = t
<1>1. CASE t <= Budget
  BY <1>1, ClampFacts, RemainingFacts, Constants
<1>2. CASE ~(t <= Budget)
  BY <1>2, ClampFacts, RemainingFacts, Constants
<1> QED
  BY <1>1, <1>2

LEMMA OpeningFacts ==
  ASSUME TypeOK
  PROVE  Opening \in Nat /\ Opening <= Remaining(0, now) - Opening
<1>1. now \in Nat /\ kind \in Kind
  BY Constants DEF TypeOK
<1>2. Initial[kind] \in Nat /\ Remaining(0, now) \in Nat
  BY <1>1, Constants, RemainingFacts
<1> QED
  BY <1>2 DEF Opening

LEMMA NextIntervalFacts ==
  ASSUME TypeOK
  PROVE  NextInterval \in Interval .. MaxInterval
<1>1. interval \in Nat /\ interval >= Interval /\ Interval \in Nat /\ MaxInterval \in Nat
      /\ Interval <= MaxInterval
  BY Constants DEF TypeOK
<1> QED
  BY <1>1 DEF NextInterval

\* What TypeOK says of the numbers.
LEMMA NumberFacts ==
  ASSUME TypeOK
  PROVE  /\ now \in Nat /\ until \in Nat /\ ceiling \in Nat /\ asked \in BOOLEAN /\ refreshes \in Nat
         /\ interval \in Nat \ {0} /\ interval <= MaxInterval
         /\ kind \in Kind /\ Ceiling[kind] \in Nat /\ Grace[kind] \in Nat
         /\ begun # None => begun \in Nat
         /\ finishedAt # None => finishedAt \in Nat
         /\ heardAt # None => heardAt \in Nat
  BY Constants DEF TypeOK

\* What could not be seen before an instant could not be seen before an
\* earlier one.
LEMMA NotSeenEarlier ==
  ASSUME IInv, job = "finished", NEW t \in Int, NEW u \in Int, u <= t, NotSeenBefore(t)
  PROVE  NotSeenBefore(u)
<1>1. finishedAt \in Nat /\ (heardAt # None => heardAt \in Nat)
  BY NumberFacts DEF IInv, LoopBegun
<1>2. heardAt = None \/ heardAt >= t \/ finishedAt >= t
  BY DEF NotSeenBefore
<1> QED
  BY <1>1, <1>2 DEF NotSeenBefore

-----------------------------------------------------------------------------
(* What the steps have in common *)

\* An end that is not for want of time: an answer, a failure, a refusal.
LEMMA EndKeeps ==
  ASSUME IInv,
         NEW r \in {"applied", "html", "unknown", "raised"},
         NEW why \in {"answer", "kickoff", "404", "error", "links", "refused"},
         End(r, why), pc # "done",
         job' = job \/ (job' = "queued" /\ job = "none"),
         why = "404" => Unheard /\ pc = "asking" /\ now >= begun + Grace[kind],
         UNCHANGED <<now, loop, refreshes, finishedAt, heardAt, history>>
  PROVE  IInv'
<1>1. TypeOK'
  BY DEF IInv, TypeOK, End, loop, history
<1>2. NothingYet' /\ Sleeper' /\ Asker' /\ Acquirer' /\ EndedForTime'
  BY DEF End, NothingYet, Sleeper, Asker, Acquirer, EndedForTime
<1>3. LoopBegun'
  BY DEF IInv, LoopBegun, End, loop
<1>4. FirstQuestionIsAsked'
  BY DEF IInv, TypeOK, FirstQuestionIsAsked, End, loop
<1>5. SleepsWithinBudget' /\ NothingFinishedInTimeIsMissed'
  BY DEF End, SleepsWithinBudget, NothingFinishedInTimeIsMissed
<1>6. why = "404" => begun # None
  BY DEF IInv, LoopBegun
<1>7. EndedFor404'
  BY <1>6 DEF End, EndedFor404, loop
<1>8. GraceFromTheStart'
  <2> SUFFICES ASSUME why = "404", job' # "gone", heardAt # None
               PROVE  heardAt >= begun + Grace[kind] - Flight
    BY DEF End, GraceFromTheStart, loop
  <2>1. /\ now \in Nat /\ until \in Nat /\ begun \in Nat /\ heardAt \in Nat
        /\ Grace[kind] \in Nat /\ Flight \in Nat
    BY <1>6, NumberFacts, Constants DEF IInv
  <2>2. job # "gone"
    OBVIOUS
  <2>3. heardAt >= until - Flight /\ now <= until /\ now >= begun + Grace[kind]
    BY <2>2 DEF Unheard, IInv, Asker
  <2> QED
    BY <2>1, <2>3
<1> QED
  BY <1>1, <1>2, <1>3, <1>4, <1>5, <1>7, <1>8 DEF IInv

\* The end for want of time, at the bottom of the loop or at the refusal of
\* a question.
LEMMA GiveUpKeeps ==
  ASSUME IInv, GiveUp("time"), pc \in {"sleeping", "asking", "fetching"},
         UNCHANGED <<now, loop, server, asked>>, polledAt' \in Nat \union {None},
         refreshes' \in 0 .. MaxRefresh,
         refreshes' = refreshes \/ refreshes' > 0,
         now >= ceiling - MaxInterval,
         ~asked => Remaining(0, begun) <= 2 * Late,
         refreshes' = 0 /\ job = "finished" =>
           NotSeenBefore(ceiling - MaxInterval - Flight - 2 * Late)
  PROVE  IInv'
<1>1. TypeOK'
  BY DEF IInv, TypeOK, GiveUp, End, loop, server
<1>2. NothingYet' /\ Sleeper' /\ Asker' /\ Acquirer' /\ SleepsWithinBudget'
  BY DEF GiveUp, End, NothingYet, Sleeper, Asker, Acquirer, SleepsWithinBudget
<1>3. LoopBegun' /\ EndedForTime'
  BY DEF IInv, LoopBegun, EndedForTime, GiveUp, End, loop, server
<1>4. FirstQuestionIsAsked'
  <2>1. ~asked => ~(Remaining(0, begun) > 2 * Late)
    <3>1. begun # None => begun \in Nat
      BY NumberFacts DEF IInv
    <3>2. begun # None
      BY DEF IInv, LoopBegun
    <3> QED
      BY <3>1, <3>2, RemainingFacts, Constants
  <2> QED
    BY <2>1 DEF FirstQuestionIsAsked, loop
<1>5. NothingFinishedInTimeIsMissed'
  <2>1. ceiling = begun + Clamp(0, begun, Ceiling[kind])
    BY DEF IInv, LoopBegun
  <2> QED
    BY <2>1 DEF NothingFinishedInTimeIsMissed, NotSeenBefore, loop, server
<1>6. EndedFor404' /\ GraceFromTheStart'
  BY DEF EndedFor404, GraceFromTheStart, GiveUp, End
<1> QED
  BY <1>1, <1>2, <1>3, <1>4, <1>5, <1>6 DEF IInv

\* The bottom of the loop, after an answer that settled nothing or a link
\* that could not be used.
LEMMA OnceMoreKeeps ==
  ASSUME IInv, OnceMore,
         \/ pc = "asking" /\ (Unseen \/ Unheard) /\ UNCHANGED refreshes
         \/ pc = "fetching" /\ refreshes < MaxRefresh /\ refreshes' = refreshes + 1,
         UNCHANGED <<now, kind, begun, ceiling, server, history>>
  PROVE  IInv'
<1> USE DEF IInv
<1>n. /\ now \in Nat /\ until \in Nat /\ ceiling \in Nat /\ begun \in Nat /\ asked \in BOOLEAN
      /\ refreshes \in Nat /\ interval \in Nat \ {0} /\ interval <= MaxInterval
      /\ kind \in Kind /\ Ceiling[kind] \in Nat /\ asked /\ begun # None
  BY NumberFacts DEF LoopBegun
<1>c. ceiling = begun + Clamp(0, begun, Ceiling[kind]) /\ Clamp(0, begun, Ceiling[kind]) \in Nat
      /\ Clamp(0, begun, Ceiling[kind]) <= Ceiling[kind] /\ begun <= now
      /\ (ceiling <= Budget \/ ceiling = begun)
  BY <1>n, ClampFacts, CeilingFacts DEF LoopBegun
<1>r. refreshes' \in 0 .. MaxRefresh /\ (refreshes' = refreshes \/ refreshes' > 0)
  BY <1>n, Constants DEF TypeOK
<1>a. refreshes' = 0 => pc = "asking" /\ (Unseen \/ Unheard)
  BY <1>n
<1>f. refreshes' = 0 /\ job = "finished" => NotSeenBefore(now - Flight)
  <2> SUFFICES ASSUME refreshes' = 0, job = "finished"
               PROVE  NotSeenBefore(now - Flight)
    OBVIOUS
  <2>1. NotSeenBefore(until - Flight)
    BY <1>a DEF Unseen, Unheard, NotSeenBefore
  <2>2. now <= until
    BY <1>a DEF Asker
  <2>3. until - Flight \in Int /\ now - Flight \in Int /\ now - Flight <= until - Flight
    BY <2>2, <1>n, Constants
  <2> QED
    BY <2>1, <2>3, NotSeenEarlier
<1>g. job = "finished" => finishedAt \in Nat
  BY DEF LoopBegun
<1>1. CASE now < ceiling /\ CanAfford(0, now, interval)
  <2>0. Sleep
    BY <1>1 DEF OnceMore
  <2>1. until' \in Nat /\ until' = now + interval /\ now + interval <= Budget /\ pc' = "sleeping"
    BY <2>0, <1>1, <1>n, AffordFacts DEF Sleep
  <2>2. TypeOK'
    <3>1. interval' \in Interval .. MaxInterval
      BY <2>0, NextIntervalFacts DEF Sleep
    <3> QED
      BY <3>1, <2>0, <2>1, <1>r DEF TypeOK, Sleep, server, history
  <2>3. LoopBegun' /\ NothingYet' /\ Asker' /\ Acquirer'
    BY <2>1, <1>n DEF LoopBegun, NothingYet, Asker, Acquirer, server
  <2>4. Sleeper'
    <3>1. now <= until' + Late /\ until' <= now + MaxInterval
      BY <2>1, <1>n, Constants
    <3>2. until' <= begun + Ceiling[kind] + MaxInterval
      BY <2>1, <1>n, <1>c, <1>1, Constants
    <3>3. refreshes' = 0 /\ job = "finished" =>
            NotSeenBefore((now + interval) - MaxInterval - Flight)
      <4>1. /\ (now + interval) - MaxInterval - Flight \in Int /\ now - Flight \in Int
            /\ (now + interval) - MaxInterval - Flight <= now - Flight
        BY <1>n, Constants
      <4> QED
        BY <4>1, <1>f, NotSeenEarlier
    <3> QED
      BY <3>1, <3>2, <3>3, <1>n, <2>1 DEF Sleeper, NotSeenBefore, server, history
  <2>5. EndedForTime'
    BY <2>0 DEF Sleep, EndedForTime
  <2>6. FirstQuestionIsAsked'
    BY <2>0, <2>1, <1>n DEF FirstQuestionIsAsked, Sleep, EndedForTime
  <2>7. SleepsWithinBudget'
    BY <2>1, <1>n DEF SleepsWithinBudget, history
  <2>8. NothingFinishedInTimeIsMissed'
    BY <2>0 DEF Sleep, EndedForTime, NothingFinishedInTimeIsMissed
  <2>9. EndedFor404' /\ GraceFromTheStart'
    BY <2>0 DEF Sleep, EndedFor404, GraceFromTheStart
  <2> QED
    BY <2>2, <2>3, <2>4, <2>5, <2>6, <2>7, <2>8, <2>9
<1>2. CASE ~(now < ceiling /\ CanAfford(0, now, interval))
  <2>1. GiveUp("time") /\ UNCHANGED interval
    BY <1>2 DEF OnceMore
  <2>2. now >= ceiling - MaxInterval
    <3>1. CASE ~(now < ceiling)
      BY <3>1, <1>n, Constants
    <3>2. CASE ~CanAfford(0, now, interval)
      <4>1. now \in Nat /\ interval \in Nat \ {0}
        BY <1>n, Constants
      <4>2. ~ (now + interval <= Budget)
        BY <4>1, <3>2, AffordFacts
      <4>3. Budget < now + interval
        BY <4>1, <4>2, Constants
      <4> QED
        BY <4>3, <1>n, <1>c, Constants
    <3> QED
      BY <3>1, <3>2, <1>2
  <2>3. refreshes' = 0 /\ job = "finished" =>
          NotSeenBefore(ceiling - MaxInterval - Flight - 2 * Late)
    <3>1. /\ ceiling - MaxInterval - Flight - 2 * Late \in Int /\ now - Flight \in Int
          /\ ceiling - MaxInterval - Flight - 2 * Late <= now - Flight
      BY <2>2, <1>n, Constants
    <3> QED
      BY <3>1, <1>f, NotSeenEarlier
  <2>4. UNCHANGED <<now, loop, server, asked>>
    BY <2>1 DEF loop, history
  <2> QED
    BY <2>1, <2>2, <2>3, <2>4, <1>n, <1>r, GiveUpKeeps DEF TypeOK, history
<1> QED
  BY <1>1, <1>2

-----------------------------------------------------------------------------
(* The steps *)

LEMMA InitHolds == Init => IInv
<1> SUFFICES ASSUME Init PROVE IInv
  OBVIOUS
<1>1. now \in 0 .. MaxTime /\ now + Flight \in Nat
  BY PollingAssumption, Constants DEF Init
<1>b. asked \in BOOLEAN
  BY DEF Init
<1>2. TypeOK
  BY <1>1, <1>b, Constants DEF Init, TypeOK
<1>3. NothingYet /\ LoopBegun /\ Sleeper /\ Asker /\ Acquirer /\ EndedForTime /\ EndedFor404
  BY DEF Init, NothingYet, LoopBegun, Sleeper, Asker, Acquirer, EndedForTime, EndedFor404
<1>4. /\ FirstQuestionIsAsked /\ SleepsWithinBudget /\ GraceFromTheStart
      /\ NothingFinishedInTimeIsMissed
  BY DEF Init, FirstQuestionIsAsked, SleepsWithinBudget, GraceFromTheStart,
         NothingFinishedInTimeIsMissed
<1> QED
  BY <1>2, <1>3, <1>4 DEF IInv

LEMMA KickedOffKeeps == ASSUME IInv, KickedOff PROVE IInv'
<1> USE DEF IInv
<1>n. now \in Nat /\ kind \in Kind /\ Ceiling[kind] \in Nat
  BY NumberFacts
<1>p. Opening \in Nat /\ Opening <= Remaining(0, now) - Opening
  BY OpeningFacts
<1>c. Clamp(0, now, Ceiling[kind]) \in Nat
  BY <1>n, ClampFacts
<1>1. /\ pc' = "sleeping" /\ until' = now + Opening /\ begun' = now /\ kind' = kind
      /\ ceiling' = now + Clamp(0, now, Ceiling[kind]) /\ now' = now /\ ~asked'
      /\ refreshes' = 0 /\ job' = "queued" /\ endedBy' = endedBy
  BY DEF KickedOff, LoopCeiling, NothingYet, history
<1>2. TypeOK'
  BY <1>1, <1>n, <1>p, <1>c DEF TypeOK, KickedOff, history
<1>3. NothingYet' /\ LoopBegun' /\ Asker' /\ Acquirer'
  BY <1>1, <1>n DEF NothingYet, LoopBegun, Asker, Acquirer, None
<1>4. Sleeper'
  BY <1>1, <1>n, <1>p, Constants DEF Sleeper
<1>5. EndedForTime' /\ EndedFor404' /\ GraceFromTheStart'
  BY <1>1 DEF EndedForTime, EndedFor404, GraceFromTheStart, KickedOff
<1>6. FirstQuestionIsAsked' /\ NothingFinishedInTimeIsMissed'
  BY <1>1 DEF FirstQuestionIsAsked, NothingFinishedInTimeIsMissed, EndedForTime, KickedOff, history
<1>7. SleepsWithinBudget'
  <2>1. now + Opening <= Budget \/ now + Opening = now
    <3>1. CASE now <= Budget
      BY <3>1, <1>n, <1>p, RemainingFacts, Constants
    <3>2. CASE Budget <= now
      BY <3>2, <1>n, <1>p, RemainingFacts, Constants
    <3> QED
      BY <3>1, <3>2, <1>n, Constants
  <2>2. (now + Opening) - now <= Remaining(0, now) - ((now + Opening) - now)
    BY <1>p, <1>n, RemainingFacts
  <2> QED
    BY <2>1, <2>2, <1>1 DEF SleepsWithinBudget
<1> QED
  BY <1>2, <1>3, <1>4, <1>5, <1>6, <1>7

LEMMA AskKeeps == ASSUME IInv, Ask PROVE IInv'
<1> USE DEF IInv
<1>n. /\ now \in Nat /\ until \in Nat /\ ceiling \in Nat /\ begun \in Nat /\ asked \in BOOLEAN
      /\ refreshes \in 0 .. MaxRefresh /\ kind \in Kind /\ Ceiling[kind] \in Nat
      /\ begun # None /\ pc = "sleeping" /\ now >= until /\ now <= until + Late
  BY NumberFacts DEF Ask, LoopBegun, Sleeper, TypeOK
<1>c. begun <= now /\ (ceiling <= Budget \/ ceiling = begun)
      /\ ceiling - begun \in Nat /\ ceiling - begun <= Remaining(0, begun)
  <2>1. begun <= now /\ ceiling = begun + Clamp(0, begun, Ceiling[kind])
    BY <1>n DEF LoopBegun
  <2>2. /\ Clamp(0, begun, Ceiling[kind]) \in Nat
        /\ Clamp(0, begun, Ceiling[kind]) <= Remaining(0, begun)
        /\ begun + Clamp(0, begun, Ceiling[kind]) <= Budget
             \/ begun + Clamp(0, begun, Ceiling[kind]) = begun
    BY <1>n, ClampFacts, CeilingFacts
  <2>3. Remaining(0, begun) \in Nat
    BY <1>n, RemainingFacts
  <2> QED
    BY <2>1, <2>2, <2>3, <1>n
<1>p. polledAt' \in Nat \union {None}
  BY <1>n DEF Ask, TypeOK
<1>1. CASE Expired(0, now)
  <2>1. GiveUp("time") /\ UNCHANGED <<now, loop, refreshes, server, asked>>
    BY <1>1 DEF Ask
  <2>2. Budget <= now
    BY <1>1, <1>n, ExpiredFacts
  <2>3. ceiling <= now
    BY <2>2, <1>c, <1>n, Constants
  <2>4. ~asked => Remaining(0, begun) <= 2 * Late
    <3> SUFFICES ASSUME ~asked PROVE Remaining(0, begun) <= 2 * Late
      OBVIOUS
    <3>1. until - begun <= Remaining(0, begun) - (until - begun)
      BY <1>n DEF SleepsWithinBudget
    <3>2. CASE begun <= Budget
      BY <3>1, <3>2, <2>2, <1>n, RemainingFacts, Constants
    <3>3. CASE Budget <= begun
      BY <3>3, <1>n, RemainingFacts, Constants
    <3> QED
      BY <3>2, <3>3, <1>n, Constants
  <2>5. refreshes = 0 /\ job = "finished" =>
          NotSeenBefore(ceiling - MaxInterval - Flight - 2 * Late)
    <3> DEFINE end == ceiling - MaxInterval - Flight - 2 * Late
    <3> SUFFICES ASSUME refreshes = 0, job = "finished"
                 PROVE  NotSeenBefore(end)
      OBVIOUS
    <3>1. finishedAt \in Nat /\ finishedAt >= begun /\ end \in Int
      BY <1>n, Constants DEF LoopBegun
    <3>2. CASE ~asked
      <4>1. ceiling - begun <= 2 * Late
        BY <3>2, <2>4, <1>c, <1>n, RemainingFacts, Constants
      <4>2. finishedAt >= end
        BY <4>1, <3>1, <1>n, Constants
      <4> QED
        BY <4>2 DEF NotSeenBefore
    <3>3. CASE asked
      <4>1. NotSeenBefore(until - MaxInterval - Flight)
        BY <3>3, <1>n DEF Sleeper
      <4>2. until - MaxInterval - Flight \in Int /\ end <= until - MaxInterval - Flight
        BY <2>3, <1>n, Constants
      <4> HIDE DEF end
      <4> QED
        BY <4>1, <4>2, <3>1, NotSeenEarlier
    <3> QED
      BY <3>2, <3>3, <1>n
  <2>6. now >= ceiling - MaxInterval
    BY <2>3, <1>n, Constants
  <2> QED
    BY <2>1, <2>4, <2>5, <2>6, <1>n, <1>p, GiveUpKeeps
<1>2. CASE ~Expired(0, now)
  <2>1. /\ pc' = "acquiring" /\ until' = Budget
        /\ UNCHANGED <<outcome, endedBy, now, loop, refreshes, server, asked>>
    BY <1>2 DEF Ask
  <2>2. TypeOK'
    BY <2>1, <1>n, <1>p, Constants DEF TypeOK, loop, server, history
  <2>3. NothingYet' /\ LoopBegun' /\ Sleeper' /\ Asker'
    BY <2>1, <1>n DEF NothingYet, LoopBegun, Sleeper, Asker, loop, server
  <2>4. Acquirer'
    <3>1. now < Budget
      BY <1>2, <1>n, ExpiredFacts, Constants
    <3> QED
      BY <2>1, <3>1, <1>n, Constants DEF Acquirer
  <2>5. /\ EndedForTime' /\ NothingFinishedInTimeIsMissed'
        /\ EndedFor404' /\ GraceFromTheStart'
    BY <2>1, <1>n DEF EndedForTime, NothingFinishedInTimeIsMissed, EndedFor404, GraceFromTheStart
  <2>6. FirstQuestionIsAsked' /\ SleepsWithinBudget'
    BY <2>1, <1>n DEF FirstQuestionIsAsked, SleepsWithinBudget, EndedForTime
  <2> QED
    BY <2>2, <2>3, <2>4, <2>5, <2>6
<1> QED
  BY <1>1, <1>2

\* The slot, or its refusal.
LEMMA SlotKeeps == ASSUME IInv, Send \/ Refused PROVE IInv'
<1> USE DEF IInv
<1>0. pc = "acquiring"
  BY DEF Send, Refused
<1>n. now \in Nat /\ begun # None
  BY <1>0, NumberFacts DEF LoopBegun
<1>1. CASE Send
  <2>1. /\ pc' = "asking" /\ until' = now + Flight /\ asked' = TRUE
        /\ UNCHANGED <<now, loop, refreshes, server, outcome, polledAt, endedBy>>
    BY <1>1 DEF Send
  <2>2. TypeOK'
    BY <2>1, <1>n, Constants DEF TypeOK, loop, server, history
  <2>3. NothingYet' /\ LoopBegun' /\ Sleeper' /\ Acquirer'
    BY <2>1, <1>0, <1>n DEF NothingYet, LoopBegun, Sleeper, Acquirer, loop, server
  <2>4. Asker'
    BY <2>1, <1>n, Constants DEF Asker
  <2>5. /\ EndedForTime' /\ NothingFinishedInTimeIsMissed'
        /\ EndedFor404' /\ GraceFromTheStart'
    BY <2>1, <1>0 DEF EndedForTime, NothingFinishedInTimeIsMissed, EndedFor404, GraceFromTheStart
  <2>6. FirstQuestionIsAsked' /\ SleepsWithinBudget'
    BY <2>1 DEF FirstQuestionIsAsked, SleepsWithinBudget
  <2> QED
    BY <2>2, <2>3, <2>4, <2>5, <2>6
<1>2. CASE Refused
  BY <1>2, <1>0, EndKeeps DEF Refused, GiveUp, server
<1> QED
  BY <1>1, <1>2

LEMMA AnswerKeeps ==
  ASSUME IInv, StatusPending \/ Status404 \/ StatusFails \/ StatusFinished \/ StatusFailed
  PROVE  IInv'
<1>0. pc = "asking" /\ asked
  BY DEF IInv, LoopBegun, StatusPending, Status404, StatusFails, StatusFinished, StatusFailed
<1>1. CASE StatusPending
  BY <1>1, OnceMoreKeeps DEF StatusPending
<1>2. CASE Status404
  <2>1. CASE now < begun + Grace[kind]
    BY <1>2, <2>1, OnceMoreKeeps DEF Status404
  <2>2. CASE ~(now < begun + Grace[kind])
    <3>1. /\ GiveUp("404") /\ Unheard
          /\ UNCHANGED <<now, loop, refreshes, job, finishedAt, heardAt, history>>
      BY <1>2, <2>2 DEF Status404, loop, server
    <3>2. now \in Nat /\ begun \in Nat /\ Grace[kind] \in Nat
      BY <1>0, NumberFacts DEF IInv, LoopBegun
    <3>3. now >= begun + Grace[kind]
      BY <2>2, <3>2
    <3> QED
      BY <3>1, <3>3, <1>0, EndKeeps DEF GiveUp
  <2> QED
    BY <2>1, <2>2
<1>3. CASE StatusFails
  BY <1>3, <1>0, EndKeeps DEF StatusFails, GiveUp, server
<1>4. CASE StatusFinished
  <2>1. CASE kind = "mutation"
    BY <1>4, <2>1, <1>0, EndKeeps DEF StatusFinished, server
  <2>2. CASE kind # "mutation"
    <3>1. /\ pc' = "fetching"
          /\ UNCHANGED <<until, outcome, endedBy, now, loop, refreshes, server, history>>
      BY <1>4, <2>2 DEF StatusFinished
    <3>3. TypeOK'
      BY <3>1 DEF IInv, TypeOK, loop, server, history
    <3>4. NothingYet' /\ LoopBegun' /\ Sleeper' /\ Asker' /\ Acquirer' /\ EndedForTime' /\ EndedFor404'
      BY <3>1, <1>0 DEF IInv, NothingYet, LoopBegun, Sleeper, Asker, Acquirer, EndedForTime,
                        EndedFor404, loop, server, history
    <3>5. /\ FirstQuestionIsAsked' /\ SleepsWithinBudget' /\ GraceFromTheStart'
          /\ NothingFinishedInTimeIsMissed'
      BY <3>1, <1>0 DEF IInv, EndedForTime, EndedFor404, FirstQuestionIsAsked,
                        SleepsWithinBudget, GraceFromTheStart,
                        NothingFinishedInTimeIsMissed
    <3> QED
      BY <3>3, <3>4, <3>5 DEF IInv
  <2> QED
    BY <2>1, <2>2
<1>5. CASE StatusFailed
  BY <1>5, <1>0, EndKeeps DEF StatusFailed, server
<1> QED
  BY <1>1, <1>2, <1>3, <1>4, <1>5

LEMMA FetchKeeps == ASSUME IInv, Fetched \/ FetchUnusable PROVE IInv'
<1>0. pc = "fetching" /\ asked
  BY DEF IInv, LoopBegun, Fetched, FetchUnusable
<1>1. CASE Fetched
  BY <1>1, <1>0, EndKeeps DEF Fetched, server
<1>2. CASE FetchUnusable
  <2>1. CASE refreshes < MaxRefresh
    BY <1>2, <2>1, OnceMoreKeeps DEF FetchUnusable
  <2>2. CASE ~(refreshes < MaxRefresh)
    <3>1. /\ GiveUp("links")
          /\ UNCHANGED <<now, loop, refreshes, job, finishedAt, heardAt, history>>
      BY <1>2, <2>2 DEF FetchUnusable, loop, server
    <3> QED
      BY <3>1, <1>0, EndKeeps DEF GiveUp
  <2> QED
    BY <2>1, <2>2
<1> QED
  BY <1>1, <1>2

LEMMA NoKickoffKeeps == ASSUME IInv, KickedOffWithoutId \/ KickoffFails PROVE IInv'
<1>0. pc = "kickoff" /\ begun = None /\ job = "none"
  BY DEF IInv, NothingYet, KickedOffWithoutId, KickoffFails
<1>1. CASE KickedOffWithoutId
  BY <1>1, <1>0, EndKeeps DEF KickedOffWithoutId, GiveUp
<1>2. CASE KickoffFails
  BY <1>2, <1>0, EndKeeps DEF KickoffFails, server
<1> QED
  BY <1>1, <1>2

\* The work is done now: not long before the sleeper's time, nor before the
\* ceiling of a loop that time has ended.
LEMMA ServerKeeps == ASSUME IInv, ServerFinishes \/ ServerFails PROVE IInv'
<1> USE DEF IInv
<1>n. now \in Nat /\ until \in Nat /\ ceiling \in Nat /\ (begun # None => begun \in Nat)
      /\ asked \in BOOLEAN
  BY NumberFacts
<1>1. /\ finishedAt' = now /\ job = "queued" /\ job' \in {"finished", "failed"}
      /\ UNCHANGED <<now, loop, pc, until, refreshes, outcome, heardAt, history, endedBy>>
  BY DEF ServerFinishes, ServerFails
<1>2. TypeOK'
  BY <1>1, <1>n DEF TypeOK, loop, history
<1>3. NothingYet'
  BY <1>1 DEF NothingYet
<1>4. LoopBegun'
  BY <1>1, <1>n DEF LoopBegun, loop, history
<1>5. Sleeper'
  <2>1. asked /\ pc = "sleeping" => now >= until - MaxInterval - Flight
    BY <1>n, Constants DEF Sleeper
  <2> QED
    BY <2>1, <1>1 DEF Sleeper, NotSeenBefore, loop, history
<1>6. Asker' /\ Acquirer' /\ EndedForTime' /\ EndedFor404'
  BY <1>1 DEF Asker, Acquirer, EndedForTime, EndedFor404, loop
<1>7. FirstQuestionIsAsked' /\ SleepsWithinBudget' /\ GraceFromTheStart'
  BY <1>1 DEF FirstQuestionIsAsked, SleepsWithinBudget, GraceFromTheStart, loop, history
<1>8. NothingFinishedInTimeIsMissed'
  <2>1. endedBy = "time" => now >= ceiling - MaxInterval - Flight - 2 * Late
    BY <1>n, Constants DEF EndedForTime
  <2>2. endedBy = "time" => ceiling = begun + Clamp(0, begun, Ceiling[kind])
    BY DEF EndedForTime, LoopBegun
  <2> QED
    BY <2>1, <2>2, <1>1 DEF NothingFinishedInTimeIsMissed, NotSeenBefore, loop
<1> QED
  BY <1>2, <1>3, <1>4, <1>5, <1>6, <1>7, <1>8

\* The status endpoint knows it now, which is as recent.
LEMMA ReplicationKeeps == ASSUME IInv, StatusReplicates PROVE IInv'
<1> USE DEF IInv
<1>n. now \in Nat /\ until \in Nat /\ ceiling \in Nat /\ (begun # None => begun \in Nat)
      /\ asked \in BOOLEAN /\ Grace[kind] \in Nat
  BY NumberFacts
<1>1. /\ heardAt' = now /\ job # "none"
      /\ UNCHANGED <<now, loop, pc, until, refreshes, outcome, job, finishedAt, history, endedBy>>
  BY DEF StatusReplicates
<1>2. TypeOK'
  BY <1>1, <1>n DEF TypeOK, loop, history
<1>3. NothingYet' /\ LoopBegun' /\ Asker' /\ Acquirer' /\ EndedForTime' /\ EndedFor404'
  BY <1>1 DEF NothingYet, LoopBegun, Asker, Acquirer, EndedForTime, EndedFor404, loop, history
<1>4. Sleeper'
  <2>1. asked /\ pc = "sleeping" => now >= until - MaxInterval - Flight
    BY <1>n, Constants DEF Sleeper
  <2> QED
    BY <2>1, <1>1 DEF Sleeper, NotSeenBefore, loop, history
<1>5. FirstQuestionIsAsked' /\ SleepsWithinBudget'
  BY <1>1 DEF FirstQuestionIsAsked, SleepsWithinBudget, loop, history
<1>6. NothingFinishedInTimeIsMissed'
  <2>1. endedBy = "time" => now >= ceiling - MaxInterval - Flight - 2 * Late
    BY <1>n, Constants DEF EndedForTime
  <2>2. endedBy = "time" => ceiling = begun + Clamp(0, begun, Ceiling[kind])
    BY DEF EndedForTime, LoopBegun
  <2> QED
    BY <2>1, <2>2, <1>1 DEF NothingFinishedInTimeIsMissed, NotSeenBefore, loop
<1>7. GraceFromTheStart'
  <2>1. endedBy = "404" => now >= begun + Grace[kind] - Flight
    BY <1>n, Constants DEF EndedFor404
  <2> QED
    BY <2>1, <1>1 DEF GraceFromTheStart, loop
<1> QED
  BY <1>2, <1>3, <1>4, <1>5, <1>6, <1>7

LEMMA DropKeeps == ASSUME IInv, ServerDrops PROVE IInv'
<1>1. /\ job' = "gone" /\ job # "none"
      /\ UNCHANGED <<now, loop, pc, until, refreshes, outcome, finishedAt, heardAt, history, endedBy>>
  BY DEF ServerDrops
<1>2. TypeOK'
  BY <1>1 DEF IInv, TypeOK, loop, history
<1>3. NothingYet' /\ LoopBegun' /\ Sleeper' /\ Asker' /\ Acquirer' /\ EndedForTime' /\ EndedFor404'
  BY <1>1 DEF IInv, NothingYet, LoopBegun, Sleeper, Asker, Acquirer, EndedForTime, EndedFor404, loop, history
<1>4. /\ FirstQuestionIsAsked' /\ SleepsWithinBudget' /\ NothingFinishedInTimeIsMissed'
      /\ GraceFromTheStart'
  BY <1>1 DEF IInv, FirstQuestionIsAsked, SleepsWithinBudget, NothingFinishedInTimeIsMissed,
              GraceFromTheStart, loop, history
<1> QED
  BY <1>2, <1>3, <1>4 DEF IInv

LEMMA TickKeeps == ASSUME IInv, Tick PROVE IInv'
<1> USE DEF IInv
<1>n. now \in Nat /\ until \in Nat /\ ceiling \in Nat /\ (begun # None => begun \in Nat)
      /\ asked \in BOOLEAN
  BY NumberFacts
<1>1. /\ now' = now + 1 /\ now < MaxTime /\ pc # "done"
      /\ UNCHANGED <<loop, pc, until, refreshes, outcome, server, history, endedBy>>
  BY DEF Tick
<1>2. TypeOK'
  BY <1>1, <1>n, Constants DEF TypeOK, loop, server, history
<1>3. NothingYet' /\ EndedForTime' /\ EndedFor404' /\ GraceFromTheStart'
  BY <1>1 DEF NothingYet, EndedForTime, EndedFor404, GraceFromTheStart, loop, server, history
<1>4. LoopBegun'
  BY <1>1, <1>n DEF LoopBegun, loop, server, history
<1>5. Sleeper'
  <2>1. pc = "sleeping" => now + 1 <= until + Late
    BY <1>n, Constants DEF Tick
  <2>2. pc = "sleeping" /\ asked => until <= (now + 1) + MaxInterval
    BY <1>n, Constants DEF Sleeper
  <2> QED
    BY <2>1, <2>2, <1>1 DEF Sleeper, NotSeenBefore, loop, server, history
<1>6. Asker' /\ Acquirer'
  BY <1>1, <1>n, Constants DEF Asker, Acquirer, Tick
<1>7. FirstQuestionIsAsked' /\ SleepsWithinBudget'
  BY <1>1 DEF FirstQuestionIsAsked, SleepsWithinBudget, loop, history
<1>8. NothingFinishedInTimeIsMissed'
  BY <1>1 DEF NothingFinishedInTimeIsMissed, EndedForTime, loop, server
<1> QED
  BY <1>2, <1>3, <1>4, <1>5, <1>6, <1>7, <1>8

-----------------------------------------------------------------------------
(* The theorems *)

\* The invariant is inductive, for loops of any shape.
THEOREM PollingInvariant == Spec => []IInv
<1>1. IInv /\ [Next]_vars => IInv'
  <2> SUFFICES ASSUME IInv, [Next]_vars PROVE IInv'
    OBVIOUS
  <2>1. CASE Step
    BY <2>1, KickedOffKeeps, NoKickoffKeeps, AskKeeps, SlotKeeps, AnswerKeeps, FetchKeeps DEF Step
  <2>2. CASE Server
    BY <2>2, ServerKeeps, ReplicationKeeps, DropKeeps DEF Server
  <2>3. CASE Tick
    BY <2>3, TickKeeps
  <2>4. CASE UNCHANGED vars
    BY <2>4 DEF vars, IInv, TypeOK, NothingYet, LoopBegun, Sleeper, Asker, Acquirer, EndedForTime,
                EndedFor404, FirstQuestionIsAsked, SleepsWithinBudget, NotSeenBefore,
                NothingFinishedInTimeIsMissed, GraceFromTheStart
  <2> QED
    BY <2>1, <2>2, <2>3, <2>4 DEF Next
<1> QED
  BY <1>1, InitHolds, PTL DEF Spec

\* Every variable of the loops keeps its type; the interval stays between the
\* first one and its cap (polling.py:110, export.py:151).
THEOREM PollingTypes == Spec => []TypeOK
<1>1. IInv => TypeOK
  BY DEF IInv
<1> QED
  BY <1>1, PollingInvariant, PTL

\* A loop that began with more than two overruns of a sleep left is not ended
\* by its deadline before it has asked, whatever the constants (polling.py:60-65,
\* 80-88; client.py:165-176 may refuse the question for other reasons).
THEOREM FirstQuestion == Spec => []FirstQuestionIsAsked
<1>1. IInv => FirstQuestionIsAsked
  BY DEF IInv
<1> QED
  BY <1>1, PollingInvariant, PTL

\* No sleep of either loop is planned past the ordinary budget of the tool
\* call (polling.py:88, 104-109; export.py:82, 141-150).
THEOREM SleepsInBudget == Spec => []SleepsWithinBudget
<1>1. IInv => SleepsWithinBudget
  BY DEF IInv
<1> QED
  BY <1>1, PollingInvariant, PTL

\* A loop that gives up for want of time was patient up to its ceiling: what
\* it did not see was done less than an interval, a request and two overruns
\* before that (polling.py:89-110; export.py:83-151).
THEOREM PatientToTheCeiling == Spec => []NothingFinishedInTimeIsMissed
<1>1. IInv => NothingFinishedInTimeIsMissed
  BY DEF IInv
<1> QED
  BY <1>1, PollingInvariant, PTL

-----------------------------------------------------------------------------
(* The first poll and the last *)

\* The first poll begins when the opening sleep is over.
FirstPoll ==
  /\ polledAt # None => begun # None /\ polledAt <= begun + Initial[kind] + Late
  /\ pc \in {"acquiring", "asking", "fetching"} \/ endedBy = "404" => polledAt # None
  /\ pc = "sleeping" /\ polledAt = None => until <= begun + Initial[kind]
  /\ pc = "kickoff" => polledAt = None

LEMMA FirstPollNext ==
  ASSUME IInv, FirstPoll, [Next]_vars
  PROVE  FirstPoll'
<1> USE DEF IInv
<1>n. /\ now \in Nat /\ until \in Nat /\ kind \in Kind /\ Initial[kind] \in Nat /\ Late \in Nat
      /\ (begun # None => begun \in Nat) /\ (polledAt # None => polledAt \in Nat)
  BY NumberFacts, Constants DEF TypeOK
<1>1. CASE KickedOff
  <2>1. /\ pc' = "sleeping" /\ until' = now + Opening /\ begun' = now /\ kind' = kind
        /\ polledAt' = None /\ endedBy' # "404"
    BY <1>1 DEF KickedOff, FirstPoll, history, EndedFor404
  <2>2. Opening \in Nat /\ Opening <= Initial[kind]
    BY <1>n, RemainingFacts, OpeningFacts DEF Opening
  <2> QED
    BY <2>1, <2>2, <1>n DEF FirstPoll
<1>2. CASE KickedOffWithoutId \/ KickoffFails
  BY <1>2 DEF KickedOffWithoutId, KickoffFails, GiveUp, End, FirstPoll, loop, history
<1>3. CASE Ask
  <2>1. /\ pc = "sleeping" /\ begun # None /\ now <= until + Late
        /\ UNCHANGED <<kind, begun>> /\ pc' \in {"acquiring", "done"}
        /\ endedBy' \in {endedBy, "time"} /\ polledAt' = IF polledAt = None THEN now ELSE polledAt
    BY <1>3 DEF Ask, GiveUp, End, LoopBegun, Sleeper, loop
  <2>2. polledAt' # None /\ polledAt' <= begun + Initial[kind] + Late
    BY <2>1, <1>n DEF FirstPoll, None
  <2> QED
    BY <2>1, <2>2 DEF FirstPoll
<1>4. CASE \/ Send \/ Refused \/ StatusPending \/ Status404 \/ StatusFails \/ StatusFinished
           \/ StatusFailed \/ Fetched \/ FetchUnusable
  <2>1. /\ pc \in {"acquiring", "asking", "fetching"} /\ pc' # "kickoff"
        /\ UNCHANGED <<kind, begun, polledAt>>
    BY <1>4 DEF Send, Refused, StatusPending, Status404, StatusFails, StatusFinished, StatusFailed,
                Fetched, FetchUnusable, OnceMore, Sleep, GiveUp, End, loop, history
  <2> QED
    BY <2>1 DEF FirstPoll
<1>5. CASE Tick \/ Server \/ UNCHANGED vars
  <2>1. UNCHANGED <<kind, begun, polledAt, pc, until, endedBy>>
    BY <1>5 DEF Tick, Server, ServerFinishes, ServerFails, StatusReplicates, ServerDrops,
                loop, history, vars
  <2> QED
    BY <2>1 DEF FirstPoll
<1> QED
  BY <1>1, <1>2, <1>3, <1>4, <1>5 DEF Next, Step

\* A 404 ends a loop only after the grace promised from the first poll, less
\* what the opening sleep takes of it: work that was not dropped was not known
\* to the status endpoint until then, up to one request (polling.py:71-77,
\* 93-96; export.py:51-53, 68, 87-94).
THEOREM GraceIsGiven == Spec => []LagIsForgiven
<1>1. Init => FirstPoll
  BY DEF Init, FirstPoll
<1>2. IInv /\ FirstPoll /\ [Next]_vars => FirstPoll'
  BY FirstPollNext
<1>3. IInv /\ FirstPoll => LagIsForgiven
  <2> SUFFICES ASSUME IInv, FirstPoll, endedBy = "404", job # "gone", heardAt # None
               PROVE  heardAt >= polledAt + Grace[kind] - Initial[kind] - Late - Flight
    BY DEF LagIsForgiven
  <2>1. heardAt >= begun + Grace[kind] - Flight
    BY DEF IInv, GraceFromTheStart
  <2>2. polledAt # None /\ begun # None /\ polledAt <= begun + Initial[kind] + Late
    BY DEF FirstPoll
  <2>3. /\ polledAt \in Nat /\ begun \in Nat /\ heardAt \in Nat /\ kind \in Kind
        /\ Grace[kind] \in Nat /\ Initial[kind] \in Nat /\ Late \in Nat /\ Flight \in Nat
    BY <2>2, NumberFacts, Constants DEF IInv, TypeOK
  <2> QED
    BY <2>1, <2>2, <2>3
<1> QED
  BY <1>1, <1>2, <1>3, PollingInvariant, PTL DEF Spec

\* No loop asks much past its own ceiling, whatever the budget and the link
\* refreshes (polling.py:102, export.py:122-141).
THEOREM StopsAtTheCeiling == Spec => QuestionsStopAtTheCeiling
<1>1. IInv /\ [Next]_vars =>
        [pc = "sleeping" /\ pc' = "acquiring" /\ asked =>
           now <= begun + Ceiling[kind] + MaxInterval + Late]_vars
  <2> SUFFICES ASSUME IInv, pc = "sleeping", asked
               PROVE  now <= begun + Ceiling[kind] + MaxInterval + Late
    OBVIOUS
  <2>1. now <= until + Late /\ until <= begun + Ceiling[kind] + MaxInterval /\ begun # None
    BY DEF IInv, Sleeper, LoopBegun
  <2> QED
    BY <2>1, NumberFacts, Constants DEF IInv
<1> QED
  BY <1>1, PollingInvariant, PTL DEF Spec, QuestionsStopAtTheCeiling

-----------------------------------------------------------------------------
(* How long a wait can be, and what it can do at one instant                *)

\* A status request was begun inside the budget and sent an overrun later at
\* the latest.
InTime == pc = "asking" => until <= Budget + Late + Flight

LEMMA InTimeNext ==
  ASSUME IInv, InTime, [Next]_vars
  PROVE  InTime'
<1>1. CASE Send
  <2>1. now <= Budget + Late /\ until' = now + Flight
    BY <1>1 DEF Send, IInv, Acquirer
  <2> QED
    BY <2>1, NumberFacts, Constants DEF InTime, IInv
<1>2. CASE \/ KickedOff \/ KickedOffWithoutId \/ KickoffFails \/ Ask \/ Refused
           \/ StatusPending \/ Status404 \/ StatusFails \/ StatusFinished \/ StatusFailed
           \/ Fetched \/ FetchUnusable
  <2>1. pc' \in {"sleeping", "acquiring", "fetching", "done"}
    BY <1>2 DEF KickedOff, KickedOffWithoutId, KickoffFails, Ask, Refused, StatusPending, Status404,
                StatusFails, StatusFinished, StatusFailed, Fetched, FetchUnusable, OnceMore, Sleep,
                GiveUp, End
  <2> QED
    BY <2>1 DEF InTime
<1>3. CASE Tick \/ Server \/ UNCHANGED vars
  <2>1. UNCHANGED <<pc, until>>
    BY <1>3 DEF Tick, Server, ServerFinishes, ServerFails, StatusReplicates, ServerDrops, vars
  <2> QED
    BY <2>1 DEF InTime
<1> QED
  BY <1>1, <1>2, <1>3 DEF Next, Step

LEMMA AlwaysInTime == Spec => [](IInv /\ InTime)
<1>1. Init => InTime
  BY DEF Init, InTime
<1>2. IInv /\ InTime /\ [Next]_vars => InTime'
  BY InTimeNext
<1> QED
  BY <1>1, <1>2, PollingInvariant, PTL DEF Spec

\* No wait on the API outlasts the tool call by more than an overrun and an
\* exchange in flight, for loops of any shape and deadlines of any age
\* (polling.py:88-110; export.py:82-151; client.py:165-176).
THEOREM NoWaitOutlastsTheCall == Spec => []WaitsAreBounded
<1>1. IInv /\ InTime => WaitsAreBounded
  <2> SUFFICES ASSUME IInv, InTime PROVE WaitsAreBounded
    OBVIOUS
  <2>n. /\ now \in Nat /\ until \in Nat /\ (begun # None => begun \in Nat)
        /\ Budget \in Nat /\ Late \in Nat /\ Flight \in Nat /\ TotalS \in Nat
    BY NumberFacts, Constants DEF IInv
  <2>1. pc = "sleeping" => now <= Budget + Late \/ now <= begun + Late
    <3> SUFFICES ASSUME pc = "sleeping" PROVE now <= Budget + Late \/ now <= begun + Late
      OBVIOUS
    <3>1. now <= until + Late /\ begun \in Nat /\ (until <= Budget \/ until = begun)
      BY <2>n DEF IInv, Sleeper, LoopBegun, SleepsWithinBudget
    <3> QED
      BY <2>n, <3>1
  <2>2. pc = "acquiring" => now <= Budget + Late
    BY DEF IInv, Acquirer
  <2>3. pc = "asking" => now <= Budget + Late + Flight
    BY <2>n DEF IInv, Asker, InTime
  <2> QED
    BY <2>1, <2>2, <2>3 DEF WaitsAreBounded
<1> QED
  BY <1>1, AlwaysInTime, PTL

\* What a wait still has to do before time must pass: a sleeper whose time has
\* not come, nothing but to sleep.
Stage ==
  CASE pc = "kickoff" -> 6
    [] pc = "sleeping" /\ now >= until -> 5
    [] pc = "acquiring" -> 4
    [] pc = "asking" -> 3
    [] pc = "fetching" -> 2
    [] pc = "sleeping" /\ ~(now >= until) -> 1
    [] pc = "done" -> 0

LEMMA StageFacts ==
  ASSUME IInv
  PROVE  /\ pc = "kickoff" => Stage = 6
         /\ pc = "sleeping" /\ now >= until => Stage = 5
         /\ pc = "acquiring" => Stage = 4
         /\ pc = "asking" => Stage = 3
         /\ pc = "fetching" => Stage = 2
         /\ pc = "sleeping" /\ ~(now >= until) => Stage = 1
         /\ pc = "done" => Stage = 0
  BY DEF Stage

\* One more round begins with a sleep that is not over yet.
LEMMA OnceMoreSleeps ==
  ASSUME IInv, OnceMore, now' = now
  PROVE  \/ pc' = "sleeping" /\ ~(now' >= until')
         \/ pc' = "done"
  BY NumberFacts DEF IInv, OnceMore, Sleep, GiveUp, End

\* At one instant a wait takes at most six steps, whatever the answers and
\* however often a link is refreshed: each leaves less to do before time must
\* pass, and nothing the server does gives it more.
THEOREM EachInstantEnds ==
  Spec => [][/\ Step => Stage' < Stage
             /\ Server => Stage' = Stage]_vars
<1>1. IInv /\ IInv' /\ [Next]_vars =>
        [/\ Step => Stage' < Stage
         /\ Server => Stage' = Stage]_vars
  <2> SUFFICES ASSUME IInv, IInv'
               PROVE  /\ Step => Stage' < Stage
                      /\ Server => Stage' = Stage
    OBVIOUS
  <2>0. /\ pc' = "sleeping" /\ now' >= until' => Stage' = 5
        /\ pc' = "acquiring" => Stage' = 4
        /\ pc' = "asking" => Stage' = 3
        /\ pc' = "fetching" => Stage' = 2
        /\ pc' = "sleeping" /\ ~(now' >= until') => Stage' = 1
        /\ pc' = "done" => Stage' = 0
    BY DEF Stage
  <2>1. ASSUME KickedOff \/ KickedOffWithoutId \/ KickoffFails PROVE Stage' < Stage
    <3>1. pc = "kickoff" /\ pc' \in {"sleeping", "done"}
      BY <2>1 DEF KickedOff, KickedOffWithoutId, KickoffFails, GiveUp, End
    <3> QED
      BY <2>0, <3>1, StageFacts
  <2>2. ASSUME Ask PROVE Stage' < Stage
    <3>1. pc = "sleeping" /\ now >= until /\ pc' \in {"acquiring", "done"}
      BY <2>2 DEF Ask, GiveUp, End
    <3> QED
      BY <2>0, <3>1, StageFacts
  <2>7. ASSUME Send \/ Refused PROVE Stage' < Stage
    <3>1. pc = "acquiring" /\ pc' \in {"asking", "done"}
      BY <2>7 DEF Send, Refused, GiveUp, End
    <3> QED
      BY <2>0, <3>1, StageFacts
  <2>3. ASSUME StatusPending \/ Status404 PROVE Stage' < Stage
    <3>1. pc = "asking" /\ now' = now
      BY <2>3 DEF StatusPending, Status404
    <3>2. OnceMore \/ pc' = "done"
      BY <2>3 DEF StatusPending, Status404, GiveUp, End
    <3> QED
      BY <2>0, <3>1, <3>2, StageFacts, OnceMoreSleeps
  <2>4. ASSUME StatusFails \/ StatusFinished \/ StatusFailed PROVE Stage' < Stage
    <3>1. pc = "asking" /\ pc' \in {"fetching", "done"}
      BY <2>4 DEF StatusFails, StatusFinished, StatusFailed, GiveUp, End
    <3> QED
      BY <2>0, <3>1, StageFacts
  <2>5. ASSUME Fetched \/ FetchUnusable PROVE Stage' < Stage
    <3>1. pc = "fetching" /\ now' = now
      BY <2>5 DEF Fetched, FetchUnusable
    <3>2. OnceMore \/ pc' = "done"
      BY <2>5 DEF Fetched, FetchUnusable, GiveUp, End
    <3> QED
      BY <2>0, <3>1, <3>2, StageFacts, OnceMoreSleeps
  <2>6. ASSUME Server PROVE Stage' = Stage
    <3>1. pc' = pc /\ now' = now /\ until' = until
      BY <2>6 DEF Server, ServerFinishes, ServerFails, StatusReplicates, ServerDrops
    <3> QED
      BY <3>1 DEF Stage
  <2> QED
    BY <2>1, <2>2, <2>3, <2>4, <2>5, <2>6, <2>7 DEF Step
<1> QED
  BY <1>1, PollingInvariant, PTL DEF Spec
=============================================================================
