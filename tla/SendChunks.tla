----------------------------- MODULE SendChunks -----------------------------
(***************************************************************************)
(* chunking.py: plan_chunks and send_chunks, with outcomes.py's            *)
(* BatchReport and the row ids upsert_rows files beside it: one batch of   *)
(* rows, cut into chunks, sent in order, reported row by row.              *)
(*                                                                         *)
(* What rows weigh is data (module Sizing): which of them are over the cap *)
(* of a single row, and the weight of a chunk to the planner and in the    *)
(* request that carries it.                                                *)
(*                                                                         *)
(* `send` is a write of api.py followed by the wait for its mutation.  It  *)
(* is represented by the ways it can end, each with what the server did,   *)
(* as module Client models them: a write declared Replay.SAFE (upsert_rows *)
(* with key columns: `keyed`) may have lost one attempt before it ends.    *)
(*                                                                         *)
(* The caller is external: it may call again with the rows from            *)
(* resume_from on, as BatchReport invites it to.                           *)
(***************************************************************************)
EXTENDS Deadline, Sequences

CONSTANTS N,          \* rows in the caller's list
          Batches,    \* what may be in the rows of a call
          MaxRows(_), \* the planner's cap on the rows of a chunk of a batch
          MaxRequestBytes,  \* and on what a chunk weighs
          HeavyRow(_, _), Wire(_, _), Body(_, _),  \* weights: of row i of a
                      \* batch, of a chunk of it, of the request with it
          ChunkCost,  \* CHUNK_COST_ESTIMATE_S
          MaxCalls,   \* bound: calls for one list of rows
          MaxTime     \* bound on the clock

ASSUME SendChunksAssumption ==
  /\ N \in Nat
  /\ MaxRequestBytes \in Nat
  /\ ChunkCost \in Nat \ {0}
  /\ MaxCalls \in Nat
  /\ MaxTime \in Nat

\* Row indices, and the half-open ranges of them that chunks are.
Row == 0..(N - 1)
Chunk == {c \in [from : 0..N, to : 0..N] : c.from < c.to}
Rows(c) == c.from..(c.to - 1)
Size(c) == c.to - c.from
NoChunk == [from |-> 0, to |-> 0]

ASSUME BatchesAssumption ==
  \A b \in Batches :
    MaxRows(b) \in Nat \ {0} /\ \A c \in Chunk : Wire(b, c) \in Nat

\* No batch at hand, no id.
NoBatch == << >>
NoRow == -1

RowOutcome == {"applied", "unknown", "refused", "not_attempted"}

VARIABLES
  now,        \* the clock
  started,    \* when the deadline of the call in progress began
  keyed,      \* is every write of the batch declared Replay.SAFE
  first,      \* the first row of the call in progress
  calls,      \* calls made so far
  batch,      \* the rows being planned, forgotten when they are
  current,    \* the chunk plan_chunks has in hand: empty when from = to
  queue,      \* the chunks planned and not yet popped
  attempted,  \* has a chunk been attempted
  sending,    \* the chunk `send` was called with, or NoChunk
  replayed,   \* this send has spent its replay
  outcomes,   \* [Row -> RowOutcome]: what the reports say of each row
  filed,      \* [Row -> Row, or NoRow]: added_by_index, an id being that of
              \* the row the server gave it to
  pc,         \* where the coroutine is
  lastWords,  \* why the call raised, if it did
  reached,    \* history variable: [Row -> attempts carrying the row that the
              \* server executed, or may still execute]
  sends       \* history variable: sends of the call in progress, up to 2 * N

report == <<outcomes, attempted>>
call == <<started, keyed, first, calls>>
plan == <<batch, current>>
vars == <<now, call, plan, queue, report, sending, replayed, filed, pc, lastWords,
          reached, sends>>

\* Chunks come in the order of their rows and do not overlap.
InOrder(q) == \A i, j \in 1..Len(q) : i < j => q[i].to <= q[j].from
RowsIn(q) == UNION {Rows(q[i]) : i \in 1..Len(q)}

Init ==
  /\ now = 0
  /\ started = 0
  /\ keyed \in BOOLEAN
  /\ first = 0
  /\ calls = 0
  /\ batch = NoBatch
  /\ current = NoChunk
  /\ queue = << >>
  /\ attempted = FALSE
  /\ sending = NoChunk
  /\ replayed = FALSE
  /\ outcomes = [i \in Row |-> "not_attempted"]
  /\ filed = [i \in Row |-> NoRow]
  /\ pc = "idle"
  /\ lastWords = "none"
  /\ reached = [i \in Row |-> 0]
  /\ sends = 0

-----------------------------------------------------------------------------
\* BatchReport.mark; and the attempts that got through to the server.
Mark(rows, how) ==
  outcomes' = [i \in Row |-> IF i \in rows THEN how ELSE outcomes[i]]
Reach(rows) ==
  reached' = [i \in Row |-> IF i \in rows THEN reached[i] + 1 ELSE reached[i]]

\* BatchReport.resume_from
Left == {i \in Row : outcomes[i] = "not_attempted"}
ResumeFrom(i) == i \in Left /\ \A j \in Left : i <= j

\* A tool call with the rows from i on: a fresh report, deadline and plan.
\* delete_rows cuts by count alone: to the planner, its ids weigh nothing.
\* Before the first chunk, the call may already have spent time on a request
\* of its own (upsert_rows reads the columns).
Call(i, age) ==
  /\ \/ pc = "idle" /\ i = 0
     \/ pc = "returned" /\ ResumeFrom(i)
  /\ calls < MaxCalls
  /\ age <= now
  /\ batch' \in Batches
  /\ current' = [from |-> i, to |-> i]
  /\ queue' = << >>
  /\ calls' = calls + 1
  /\ started' = now - age
  /\ first' = i
  /\ attempted' = FALSE
  /\ outcomes' = [j \in Row |-> IF j < i THEN outcomes[j] ELSE "not_attempted"]
  /\ filed' = [j \in Row |-> NoRow]
  /\ sends' = 0
  /\ pc' = "planning"
  /\ UNCHANGED <<now, keyed, sending, replayed, lastWords, reached>>

\* flush(): the chunk in hand, if it is one, joins the plan.
Flushed == IF Size(current) > 0 THEN Append(queue, current) ELSE queue

\* The row plan_chunks looks at, alone or with the chunk in hand.
Alone == [from |-> current.to, to |-> current.to + 1]
Grown == [current EXCEPT !.to = current.to + 1]

Heavy == HeavyRow(batch, current.to)

\* Mutant of TooMuch: the row in question is not weighed.
TooMuchWithout ==
  \/ Size(Grown) > MaxRows(batch)
  \/ Size(current) > 0 /\ Wire(batch, current) > MaxRequestBytes

\* One row more would break the cap on rows or the cap on bytes.
TooMuch ==
  Size(Grown) > MaxRows(batch) \/ Wire(batch, Grown) > MaxRequestBytes

\* A row over the cap of a single row is a chunk of its own.
PlanHeavy ==
  /\ Heavy
  /\ queue' = Append(Flushed, Alone)
  /\ current' = [from |-> current.to + 1, to |-> current.to + 1]

\* The row does not fit: the next chunk begins with it.
PlanCut ==
  /\ ~Heavy /\ TooMuch
  /\ queue' = Flushed
  /\ current' = Alone

PlanGrow ==
  /\ ~Heavy /\ ~TooMuch
  /\ current' = Grown
  /\ UNCHANGED queue

\* One turn of plan_chunks' loop.
PlanRow ==
  /\ pc = "planning"
  /\ current.to < N
  /\ PlanHeavy \/ PlanCut \/ PlanGrow
  /\ UNCHANGED <<now, call, batch, report, sending, replayed, filed, pc, lastWords, reached, sends>>

\* The last flush, and on to send_chunks.
PlanDone ==
  /\ pc = "planning"
  /\ current.to = N
  /\ queue' = Flushed
  /\ current' = NoChunk
  /\ batch' = NoBatch
  /\ pc' = "loop"
  /\ UNCHANGED <<now, call, report, sending, replayed, filed, lastWords, reached, sends>>

\* Every chunk was popped.
Return ==
  /\ pc = "loop"
  /\ queue = << >>
  /\ pc' = "returned"
  /\ UNCHANGED <<now, call, plan, queue, report, sending, replayed, filed, lastWords, reached, sends>>

\* There is no time for one more chunk: stop here.
CloseGate ==
  /\ Mark(RowsIn(queue), "not_attempted")
  /\ pc' = "returned"
  /\ UNCHANGED <<sending, replayed, lastWords, sends>>

\* The next chunk goes to `send`, whose request refuses a dead deadline
\* before anything is sent.
StartSend ==
  \/ /\ Expired(started, now)
     /\ pc' = "raised"
     /\ lastWords' = "out of time"
     /\ UNCHANGED <<sending, replayed, outcomes, sends>>
  \/ /\ ~Expired(started, now)
     /\ pc' = "send"
     /\ sending' = Head(queue)
     /\ replayed' = FALSE
     /\ sends' = IF sends < 2 * N THEN sends + 1 ELSE sends
     /\ UNCHANGED <<outcomes, lastWords>>

\* The loop from popleft() to the first suspension inside `send`.
NextChunk ==
  /\ pc = "loop"
  /\ queue # << >>
  /\ queue' = Tail(queue)
  /\ IF attempted /\ ~CanAfford(started, now, ChunkCost) THEN CloseGate ELSE StartSend
  /\ UNCHANGED <<now, call, plan, attempted, filed, reached>>

\* The answer to a chunk: addedRowIds of all of its rows in their order,
\* fewer of them, or none at all, as to delete_rows and with key columns.
IdsOf(c) == [k \in 1..Size(c) |-> c.from + k - 1]
AddedRowIds(c) == IF keyed THEN {<< >>} ELSE {IdsOf(c), Tail(IdsOf(c)), << >>}

\* Mutant of FileIds: filed by their place in the batch.
FileIdsByPlace(added) ==
  filed' = [i \in Row |->
    IF Len(added) = Size(sending) /\ i < Len(added) THEN added[i + 1] ELSE filed[i]]

\* upsert_rows: the ids are filed under the rows of the chunk, if there is
\* one for each.
FileIds(added) ==
  filed' = [i \in Row |->
    IF i \in Rows(sending) /\ Len(added) = Size(sending)
    THEN added[i - sending.from + 1] ELSE filed[i]]
FileSomeIds == \E added \in AddedRowIds(sending) : FileIds(added)

\* `send` is done with its chunk: on to the next one.
Settled(how) ==
  /\ Mark(Rows(sending), how)
  /\ attempted' = TRUE
  /\ sending' = NoChunk
  /\ pc' = "loop"
  /\ UNCHANGED <<now, call, plan, queue, replayed, lastWords, sends>>

\* The mutation completed.
SendApplied ==
  pc = "send" /\ Settled("applied") /\ Reach(Rows(sending)) /\ FileSomeIds

\* Accepted, but not seen to complete, or with nothing to poll.
SendUnconfirmed ==
  pc = "send" /\ Settled("unknown") /\ Reach(Rows(sending)) /\ FileSomeIds

\* UpstreamRefused: the server did nothing; a 504, which may hide a server
\* that is still executing the write.
SendRefused ==
  pc = "send" /\ Settled("refused") /\ UNCHANGED <<reached, filed>>
SendGatewayTimeout ==
  pc = "send" /\ Settled("refused") /\ Reach(Rows(sending)) /\ UNCHANGED filed

First(c) == [c EXCEPT !.to = c.from + Size(c) \div 2]
Second(c) == [c EXCEPT !.from = c.from + Size(c) \div 2]

\* Mutants of Halve: the halves swap places; the chunk is tried whole again;
\* the refusal does not count as an attempt.
HalveSwapped ==
  /\ queue' = <<Second(sending), First(sending)>> \o queue
  /\ attempted' = TRUE
HalveWhole ==
  /\ queue' = <<sending>> \o queue
  /\ attempted' = TRUE
HalveUncounted ==
  /\ queue' = <<First(sending), Second(sending)>> \o queue
  /\ UNCHANGED attempted

\* appendleft of the second half, then of the first.
Halve ==
  /\ queue' = <<First(sending), Second(sending)>> \o queue
  /\ attempted' = TRUE

\* A size refusal: one row is refused, more are halved and tried again.
SendTooLarge ==
  /\ pc = "send"
  /\ \/ Size(sending) = 1 /\ Settled("refused")
     \/ /\ Size(sending) > 1
        /\ Halve
        /\ sending' = NoChunk
        /\ pc' = "loop"
        /\ UNCHANGED <<now, call, plan, outcomes, replayed, lastWords, sends>>
  /\ UNCHANGED <<reached, filed>>

\* ThrottleRefused
SendThrottled ==
  /\ pc = "send"
  /\ Mark(Rows(sending) \cup RowsIn(queue), "not_attempted")
  /\ sending' = NoChunk
  /\ pc' = "returned"
  /\ UNCHANGED <<now, call, plan, queue, attempted, replayed, filed, lastWords, reached, sends>>

\* A lost answer of a write declared SAFE: the client tries it once more.
SendReplays ==
  /\ pc = "send"
  /\ keyed /\ ~replayed
  /\ Reach(Rows(sending))
  /\ replayed' = TRUE
  /\ UNCHANGED <<now, call, plan, queue, report, sending, filed, pc, lastWords, sends>>

\* Mutant of SendRaises: every error is taken for a chunk that never started.
SendRaisesAsThrottled ==
  /\ pc = "send"
  /\ Reach(Rows(sending)) \/ UNCHANGED reached
  /\ Mark(Rows(sending) \cup RowsIn(queue), "not_attempted")
  /\ sending' = NoChunk
  /\ pc' = "returned"
  /\ UNCHANGED <<now, call, plan, queue, attempted, replayed, filed, lastWords, sends>>

\* Every other error propagates, and the report with everything it knows is
\* gone, the ids with it: OutcomeUnknown, RateLimited, StickyRateLimit, AuthFailure, ...
SendRaises ==
  /\ pc = "send"
  /\ Reach(Rows(sending)) \/ UNCHANGED reached
  /\ sending' = NoChunk
  /\ pc' = "raised"
  /\ lastWords' = "error"
  /\ UNCHANGED <<now, call, plan, queue, report, replayed, filed, sends>>

SendEnds ==
  \/ SendApplied \/ SendUnconfirmed \/ SendRefused \/ SendGatewayTimeout
  \/ SendTooLarge \/ SendThrottled \/ SendRaises

\* Time passes while `send` waits and between calls.
Tick ==
  /\ pc \notin {"planning", "loop"}
  /\ now < MaxTime
  /\ now' = now + 1
  /\ UNCHANGED <<call, plan, queue, report, sending, replayed, filed, pc, lastWords, reached, sends>>

Next ==
  \/ \E i \in Row, age \in 0..MaxTime : Call(i, age)
  \/ PlanRow \/ PlanDone
  \/ NextChunk \/ Return \/ SendReplays \/ SendEnds \/ Tick

\* The coroutine runs on; every request and every poll is bounded in time.
Fairness ==
  WF_vars(PlanRow) /\ WF_vars(PlanDone) /\ WF_vars(NextChunk) /\ WF_vars(Return) /\ WF_vars(SendEnds)

Spec == Init /\ [][Next]_vars
FairSpec == Spec /\ Fairness

-----------------------------------------------------------------------------
\* Types of the variables.
TypeOK ==
  /\ now \in 0..MaxTime
  /\ started \in Nat
  /\ keyed \in BOOLEAN
  /\ first \in 0..N
  /\ calls \in 0..MaxCalls
  /\ batch \in Batches \cup {NoBatch}
  /\ current \in [from : 0..N, to : 0..N]
  /\ queue \in Seq(Chunk)
  /\ attempted \in BOOLEAN
  /\ sending \in Chunk \cup {NoChunk}
  /\ replayed \in BOOLEAN
  /\ outcomes \in [Row -> RowOutcome]
  /\ filed \in [Row -> Row \cup {NoRow}]
  /\ pc \in {"idle", "planning", "loop", "send", "returned", "raised"}
  /\ lastWords \in {"none", "out of time", "error"}
  /\ reached \in [Row -> Nat]
  /\ sends \in Nat

\* The rows never attempted are a suffix of the caller's list, through every
\* halving, early stop and resumed call: one index says what is left
\* (send_chunks' and resume_from's docstrings).
NotAttemptedIsSuffix ==
  \A i, j \in Row :
    i <= j /\ outcomes[i] = "not_attempted" => outcomes[j] = "not_attempted"

\* A batch without key columns never sends a row again that may already be
\* in the table, though it is halved, stopped and resumed (UNSAFE writes;
\* ThrottleRefused folded into not attempted, every other error not).
UnkeyedRowsReachOnce == ~keyed => \A i \in Row : reached[i] <= 1

\* A report that was returned is right about every row of an unkeyed batch:
\* what it calls applied or unknown was sent, what it calls not attempted
\* was not.
ReportIsTrue ==
  ~keyed /\ pc = "returned" =>
    \A i \in Row :
      /\ outcomes[i] \in {"applied", "unknown"} => reached[i] = 1
      /\ outcomes[i] = "not_attempted" => reached[i] = 0

\* Halving asks at most twice per row: a call makes fewer than two sends for
\* each row it was given ("down to single rows").
SendsAreBounded == sends > 0 => sends <= 2 * (N - first) - 1

\* A deadline that is dead when a chunk is due never costs a report: past the
\* first chunk the admission gate stops the batch before the request layer
\* can refuse (the gate at the top of the loop, `attempted`).  One that ends
\* while a later chunk's send is under way is another matter: that may raise.
DeadDeadlineLosesNothing == lastWords = "out of time" => sends = 0

\* A finished plan carries every row once, in order, and no request of it
\* that could have been cut breaks a cap: only a row that is too heavy on its
\* own goes out over it (plan_chunks' docstring).
PlanIsSendable ==
  [][PlanDone =>
       /\ InOrder(queue')
       /\ RowsIn(queue') = first..(N - 1)
       /\ \A k \in 1..Len(queue') : Size(queue'[k]) > 1 =>
            /\ Size(queue'[k]) <= MaxRows(batch)
            /\ \A i \in Rows(queue'[k]) : ~HeavyRow(batch, i)
            /\ Wire(batch, queue'[k]) <= MaxRequestBytes]_vars

\* The plan has no cut without a cause: the row after it is too heavy, the
\* chunk before it is one that is, or together they are over a cap.
Cause(c) ==
  \/ HeavyRow(batch, c.from) \/ HeavyRow(batch, c.to)
  \/ Size(c) = MaxRows(batch)
  \/ Wire(batch, [c EXCEPT !.to = c.to + 1]) > MaxRequestBytes
NoNeedlessCut ==
  [][PlanDone => \A k \in 1..(Len(queue') - 1) : Cause(queue'[k])]_vars

\* An id is reported with the row the server gave it to, through any halving,
\* and never with a row that is not reported as sent (upsert_rows' comment on
\* addedRowIds).
RowIdsAreTheirOwn ==
  \A i \in Row : filed[i] # NoRow =>
    /\ filed[i] = i
    /\ outcomes[i] \in {"applied", "unknown"}

\* The batch as its caller sees it: the rows are settled from the front on,
\* each once, whatever is cut, halved, stopped and resumed (send_chunks'
\* docstring).
State == IF pc \in {"planning", "loop", "send"} THEN "working" ELSE pc
Contract == INSTANCE Batch WITH state <- State
ImplementsBatch == Contract!Spec

\* Every call returns or raises, whatever is refused and halved.
EveryCallEnds == pc \in {"planning", "loop"} ~> pc \in {"returned", "raised"}

-----------------------------------------------------------------------------
(* What the code's own texts say and the code does not keep: refuted by a   *)
(* run of its own.                                                          *)

\* tools/writes.py:16-19: "a partial success is reported as such".
PartialSuccessIsReported ==
  pc = "raised" => \A i \in Row : i >= first => outcomes[i] # "applied"

\* sizing.py:27-32: MAX_REQUEST_BYTES is a ceiling on "the byte count of the
\* HTTP body".
BodiesFit ==
  [][PlanDone => \A k \in 1..Len(queue') :
       Size(queue'[k]) > 1 => Body(batch, queue'[k]) <= MaxRequestBytes]_vars
=============================================================================
