------------------------------ MODULE Polling ------------------------------
(***************************************************************************)
(* polling.py await_mutation and export.py export_page: one call asks the  *)
(* server for a piece of work, then polls until the work is done or the    *)
(* call has waited enough.                                                 *)
(*                                                                         *)
(* The two loops have one shape and differ in their constants, in their    *)
(* terminal answers and in export's download, so they are one module with  *)
(* a `kind`.  The tool call's deadline was built at instant 0; the kickoff *)
(* happens at any age of it.  A sleep may end up to Late after its time, a *)
(* status request may wait for its slot or be refused one, takes up to     *)
(* Flight once it is sent, and the server finishes the work, lets its      *)
(* status endpoint know of it and drops it whenever it likes, or never.    *)
(* A download has no bound: its timeout limits each read, not the whole.   *)
(***************************************************************************)
EXTENDS Deadline

CONSTANTS Initial,      \* [Kind -> Nat]: *_INITIAL_SLEEP_S
          Interval,     \* *_POLL_INTERVAL_S
          MaxInterval,  \* *_POLL_MAX_INTERVAL_S
          Grace,        \* [Kind -> Nat]: *_404_GRACE_S
          Ceiling,      \* [Kind -> Nat]: *_DEADLINE_S
          MaxRefresh,   \* EXPORT_MAX_LINK_REFRESH
          Age,          \* how old a deadline can be when the work is asked for
          Flight,       \* the longest a request takes once it is sent
          Late,         \* the longest a sleep overruns
          MaxTime       \* bound of this model: the clock stops here

Kind == {"mutation", "export"}

ASSUME PollingAssumption ==
  /\ Initial \in [Kind -> Nat] /\ Grace \in [Kind -> Nat] /\ Ceiling \in [Kind -> Nat]
  /\ Interval \in Nat \ {0} /\ MaxInterval \in Nat /\ Interval <= MaxInterval
  /\ {MaxRefresh, Flight, Late, MaxTime} \subseteq Nat
  /\ Age \subseteq 0 .. MaxTime

None == -1

VARIABLES now,
          kind,       \* which of the two loops
          pc,         \* the await the call stands at
          until,      \* when that await is over at the latest
          begun,      \* `started`: when the loop began
          ceiling,    \* `ceiling`
          interval,   \* `interval`
          refreshes,  \* `refreshes`
          outcome,    \* what the caller gets
          job,        \* the server's side of the work
          finishedAt, \* when the server was done with it
          heardAt,    \* when the status endpoint first knew of it
          asked,      \* history variable: a status question was sent
          polledAt,   \* history variable: when the first one was begun
          endedBy     \* history variable: what ended the wait

server == <<job, finishedAt, heardAt>>
loop == <<kind, begun, ceiling, interval>>
history == <<asked, polledAt>>
vars == <<now, kind, pc, until, begun, ceiling, interval, refreshes, outcome,
          job, finishedAt, heardAt, asked, polledAt, endedBy>>

TypeOK ==
  /\ now \in 0 .. MaxTime
  /\ kind \in Kind
  /\ pc \in {"kickoff", "sleeping", "acquiring", "asking", "fetching", "done"}
  /\ until \in Nat
  /\ begun \in Nat \union {None}
  /\ ceiling \in Nat
  /\ interval \in Interval .. MaxInterval
  /\ refreshes \in 0 .. MaxRefresh
  /\ outcome \in {"pending", "applied", "html", "unknown", "raised"}
  /\ job \in {"none", "queued", "finished", "failed", "gone"}
  /\ finishedAt \in Nat \union {None} /\ heardAt \in Nat \union {None}
  /\ asked \in BOOLEAN /\ polledAt \in Nat \union {None}
  /\ endedBy \in {"nothing", "answer", "kickoff", "404", "error", "links",
                  "refused", "time"}

Init ==
  /\ now \in Age
  /\ kind \in Kind
  /\ pc = "kickoff" /\ until = now + Flight
  /\ begun = None /\ ceiling = 0 /\ interval = Interval /\ refreshes = 0
  /\ outcome = "pending" /\ endedBy = "nothing"
  /\ job = "none" /\ finishedAt = None /\ heardAt = None
  /\ asked = FALSE /\ polledAt = None

-----------------------------------------------------------------------------
(* How a call ends *)

End(result, why) ==
  /\ pc' = "done"
  /\ outcome' = result
  /\ endedBy' = why
  /\ UNCHANGED until

\* A write that is not known to be applied is reported as unknown; an export
\* that yields no page is an error.
GiveUp(why) == End(IF kind = "mutation" THEN "unknown" ELSE "raised", why)

-----------------------------------------------------------------------------
(* The kickoff *)

\* Mutant of Opening: all that remains may be slept away.
OpeningClamped == Clamp(0, now, Initial[kind])

\* The opening sleep: never more than half of what remains.
Opening ==
  LET half == Remaining(0, now) \div 2
  IN  IF Initial[kind] <= half THEN Initial[kind] ELSE half

\* Mutant of LoopCeiling: an instant is taken for a length of time.
LoopCeilingUnstarted == Clamp(0, now, Ceiling[kind])

LoopCeiling == now + Clamp(0, now, Ceiling[kind])

\* The server queued the work and answered its request id.
KickedOff ==
  /\ pc = "kickoff"
  /\ job' = "queued"
  /\ begun' = now
  /\ ceiling' = LoopCeiling
  /\ pc' = "sleeping" /\ until' = now + Opening
  /\ UNCHANGED <<now, kind, interval, refreshes, outcome, finishedAt, heardAt, history, endedBy>>

\* It did not say under which id, so there is nothing to poll.
KickedOffWithoutId ==
  /\ pc = "kickoff"
  /\ job' = "queued"
  /\ GiveUp("kickoff")
  /\ UNCHANGED <<now, loop, refreshes, finishedAt, heardAt, history>>

KickoffFails ==
  /\ pc = "kickoff"
  /\ End("raised", "kickoff")
  /\ UNCHANGED <<now, loop, refreshes, server, history>>

-----------------------------------------------------------------------------
(* The loop *)

\* The sleep is over and the loop asks: request() refuses at once when the
\* deadline has expired, and else waits for a slot, for no longer than the
\* budget.
Ask ==
  /\ pc = "sleeping" /\ now >= until
  /\ polledAt' = IF polledAt = None THEN now ELSE polledAt
  /\ IF Expired(0, now)
     THEN GiveUp("time")
     ELSE /\ pc' = "acquiring" /\ until' = Budget
          /\ UNCHANGED <<outcome, endedBy>>
  /\ UNCHANGED <<now, loop, refreshes, server, asked>>

\* A slot is free and the question is sent.
Send ==
  /\ pc = "acquiring"
  /\ pc' = "asking" /\ until' = now + Flight
  /\ asked' = TRUE
  /\ UNCHANGED <<now, loop, refreshes, server, outcome, polledAt, endedBy>>

\* The sticky count of 429s, or a slot that comes too late for the budget,
\* refuses the question before anything is sent.
Refused ==
  /\ pc = "acquiring"
  /\ GiveUp("refused")
  /\ UNCHANGED <<now, loop, refreshes, server, history>>

\* interval * 1.5, capped
NextInterval ==
  IF (interval * 3) \div 2 <= MaxInterval THEN (interval * 3) \div 2 ELSE MaxInterval

Sleep ==
  /\ pc' = "sleeping" /\ until' = now + interval
  /\ interval' = NextInterval
  /\ UNCHANGED <<outcome, endedBy>>

\* Mutants of OnceMore: only the tool call's budget bounds the loop; only the
\* loop's ceiling does.
OnceMoreWithinBudget ==
  IF CanAfford(0, now, interval)
  THEN Sleep
  ELSE GiveUp("time") /\ UNCHANGED interval

OnceMoreToTheCeiling ==
  IF now < ceiling
  THEN Sleep
  ELSE GiveUp("time") /\ UNCHANGED interval

\* The bottom of the loop, reached when an answer settled nothing.
OnceMore ==
  IF now < ceiling /\ CanAfford(0, now, interval)
  THEN Sleep
  ELSE GiveUp("time") /\ UNCHANGED interval

\* What an answer says was so at some instant between the question and it.
\* The work was not done:
Unseen ==
  \/ job = "queued"
  \/ job \in {"finished", "failed"} /\ finishedAt >= until - Flight

\* The status endpoint did not know the work yet, or not any more:
Unheard == heardAt = None \/ heardAt >= until - Flight \/ job = "gone"

\* Not done: completed is false, or neither an error nor a link is there.
StatusPending ==
  /\ pc = "asking" /\ heardAt # None /\ Unseen
  /\ OnceMore
  /\ UNCHANGED <<now, kind, begun, ceiling, refreshes, server, history>>

\* Mutant of Status404: a length of time is taken for an instant.
Status404Unstarted ==
  /\ pc = "asking" /\ Unheard
  /\ IF now < Grace[kind]
     THEN OnceMore
     ELSE GiveUp("404") /\ UNCHANGED interval
  /\ UNCHANGED <<now, kind, begun, ceiling, refreshes, server, history>>

\* A 404 is taken for replication lag until the grace that began with the loop
\* is over.
Status404 ==
  /\ pc = "asking" /\ Unheard
  /\ IF now < begun + Grace[kind]
     THEN OnceMore
     ELSE GiveUp("404") /\ UNCHANGED interval
  /\ UNCHANGED <<now, kind, begun, ceiling, refreshes, server, history>>

\* Any other refusal (410 included), or the request itself fails.
StatusFails ==
  /\ pc = "asking"
  /\ GiveUp("error")
  /\ UNCHANGED <<now, loop, refreshes, server, history>>

\* The mutation is completed; the export has a link, which is fetched.  (The
\* timeout, what is left of the ceiling with its tail, is that of each phase
\* and of each read: a body that keeps coming is read to its end.)
StatusFinished ==
  /\ pc = "asking" /\ heardAt # None /\ job = "finished"
  /\ IF kind = "mutation"
     THEN End("applied", "answer")
     ELSE pc' = "fetching" /\ UNCHANGED <<until, outcome, endedBy>>
  /\ UNCHANGED <<now, loop, refreshes, server, history>>

\* The export carries an error.
StatusFailed ==
  /\ pc = "asking" /\ heardAt # None /\ kind = "export" /\ job = "failed"
  /\ End("raised", "answer")
  /\ UNCHANGED <<now, loop, refreshes, server, history>>

Fetched ==
  /\ pc = "fetching"
  /\ End("html", "answer")
  /\ UNCHANGED <<now, loop, refreshes, server, history>>

\* The link is stale, its body is not a page, or the network failed: the loop
\* asks for another link, a bounded number of times.
FetchUnusable ==
  /\ pc = "fetching"
  /\ IF refreshes < MaxRefresh
     THEN refreshes' = refreshes + 1 /\ OnceMore
     ELSE GiveUp("links") /\ UNCHANGED <<refreshes, interval>>
  /\ UNCHANGED <<now, kind, begun, ceiling, server, history>>

-----------------------------------------------------------------------------
(* The server and the clock *)

ServerFinishes ==
  /\ job = "queued"
  /\ job' = "finished" /\ finishedAt' = now
  /\ UNCHANGED <<now, loop, pc, until, refreshes, outcome, heardAt, history, endedBy>>

ServerFails ==
  /\ job = "queued" /\ kind = "export"
  /\ job' = "failed" /\ finishedAt' = now
  /\ UNCHANGED <<now, loop, pc, until, refreshes, outcome, heardAt, history, endedBy>>

\* Replication brings the work to the status endpoint.
StatusReplicates ==
  /\ job # "none" /\ heardAt = None
  /\ heardAt' = now
  /\ UNCHANGED <<now, loop, pc, until, refreshes, outcome, job, finishedAt, history, endedBy>>

\* Its record is dropped, with the page for example.  (An answer under way
\* tells of before or after, so the drop may be placed before or after it.)
ServerDrops ==
  /\ job \notin {"none", "gone"} /\ pc # "asking"
  /\ job' = "gone"
  /\ UNCHANGED <<now, loop, pc, until, refreshes, outcome, finishedAt, heardAt, history, endedBy>>

Tick ==
  /\ pc # "done" /\ now < MaxTime
  /\ pc \in {"sleeping", "acquiring"} => now < until + Late
  /\ pc \in {"kickoff", "asking"} => now < until
  /\ now' = now + 1
  /\ UNCHANGED <<loop, pc, until, refreshes, outcome, server, history, endedBy>>

Step ==
  \/ KickedOff \/ KickedOffWithoutId \/ KickoffFails
  \/ Ask \/ Send \/ Refused
  \/ StatusPending \/ Status404 \/ StatusFails \/ StatusFinished \/ StatusFailed
  \/ Fetched \/ FetchUnusable

Server == ServerFinishes \/ ServerFails \/ StatusReplicates \/ ServerDrops

Next == Step \/ Server \/ Tick

Spec == Init /\ [][Next]_vars

-----------------------------------------------------------------------------
(* Properties *)

\* Almost no budget is enough for the one question: a loop that began with
\* more than two overruns left is never ended by the deadline before it has
\* asked, whatever the age of the deadline and however long the kickoff took.
\* (The limiter or the sticky count may still refuse the question.)
FirstQuestionIsAsked ==
  endedBy = "time" /\ Remaining(0, begun) > 2 * Late => asked

\* No sleep of the loop is planned past the tool call's ordinary budget, or
\* past the half of it the opening sleep may take.
SleepsWithinBudget ==
  pc = "sleeping" =>
    /\ until <= Budget \/ until = begun
    /\ ~asked => until - begun <= Remaining(0, begun) - (until - begun)

\* That the work is done could not be seen before instant t.
NotSeenBefore(t) == heardAt = None \/ heardAt >= t \/ finishedAt >= t

\* The loop is patient: when it gives up for want of time alone, the work was
\* not done, or not known to be, one interval, one request and two overruns
\* before the earlier of its ceiling and the budget.
NothingFinishedInTimeIsMissed ==
  endedBy = "time" /\ refreshes = 0 /\ job = "finished" =>
    LET end == begun + Clamp(0, begun, Ceiling[kind])
    IN  NotSeenBefore(end - MaxInterval - Flight - 2 * Late)

\* Lag is forgiven: a 404 ends a wait only for work that was dropped, or that
\* the status endpoint did not know for the grace counted from the first poll,
\* up to one request and up to what the code takes off that grace: it starts
\* the grace with the loop, an opening sleep and its overrun too early
\* (polling.py:71-73 and export.py:51-53 promise it from the first poll).
LagIsForgiven ==
  endedBy = "404" /\ job # "gone" =>
    heardAt = None \/ heardAt >= polledAt + Grace[kind] - Initial[kind] - Late - Flight

\* The loop's own ceiling holds however much of the tool call's budget is left
\* and however often a link has to be minted again: after the opening one, no
\* status question is begun later than one interval and one overrun past it.
QuestionsStopAtTheCeiling ==
  [][pc = "sleeping" /\ pc' = "acquiring" /\ asked =>
       now <= begun + Ceiling[kind] + MaxInterval + Late]_vars

\* No wait on the API outlasts the tool call: past the ordinary budget there
\* is only the overrun of a sleep or the request in flight then.  (A loop that
\* begins without any budget ends at its first wake.  A download is not bound
\* by this: its timeout starts again with each read.)
WaitsAreBounded ==
  /\ pc = "sleeping"  => now <= Budget + Late \/ now <= begun + Late
  /\ pc = "acquiring" => now <= Budget + Late
  /\ pc = "asking"    => now <= Budget + Late + Flight
=============================================================================
