-------------------------- MODULE SendChunksProofs --------------------------
(***************************************************************************)
(* Proofs about SendChunks, for lists of any length, any caps, any number  *)
(* of calls and any clock.                                                 *)
(*                                                                         *)
(* The invariant says what the loop keeps between two pops: the chunks     *)
(* still to come, the one in flight in front of them, are in order and are *)
(* exactly the rows not marked yet.                                        *)
(***************************************************************************)
EXTENDS SendChunks, FiniteSetTheorems, TLAPS

NA == "not_attempted"
Planner == PlanRow \/ PlanDone

Running == pc \in {"loop", "send"}

\* The plan so far is the rows of the call up to the chunk in hand.
PlanOK ==
  pc = "planning" =>
    /\ InOrder(queue)
    /\ \A k \in 1..Len(queue) : queue[k].to <= current.from
    /\ RowsIn(queue) = first..(current.from - 1)
    /\ first < N /\ first <= current.from /\ current.from <= current.to
    /\ \A i \in Row : outcomes[i] = NA <=> first <= i
    /\ batch \in Batches
    /\ ~attempted /\ sends = 0

\* What the planner knows of the chunks it has made and of the one in hand.
Fits(c) ==
  Size(c) > 1 =>
    /\ Size(c) <= MaxRows(batch)
    /\ \A i \in Rows(c) : ~HeavyRow(batch, i)
    /\ Wire(batch, c) <= MaxRequestBytes
FitsOK ==
  pc = "planning" =>
    /\ \A k \in 1..Len(queue) : Fits(queue[k])
    /\ Fits(current)
    /\ \A i \in Rows(current) : ~HeavyRow(batch, i)

\* Every cut made so far has its cause; the last one has it once the next
\* chunk is begun, and before that because its row is too heavy.
CutsOK ==
  pc = "planning" =>
    /\ \A k \in 1..(Len(queue) - 1) : Cause(queue[k])
    /\ queue # << >> =>
         IF Size(current) > 0
         THEN Cause(queue[Len(queue)])
         ELSE HeavyRow(batch, queue[Len(queue)].from)

\* The chunks to come are the rows not marked yet, the one in flight first.
QueueOK ==
  /\ pc = "send" => sending \in Chunk
  /\ pc # "send" => sending = NoChunk
  /\ Running =>
       /\ InOrder(queue)
       /\ \A k \in 1..Len(queue) : sending.to <= queue[k].from
       /\ \A i \in Row : outcomes[i] = NA <=> i \in Rows(sending) \cup RowsIn(queue)

\* Before the first call nothing is marked.
IdleOK == pc = "idle" => \A i \in Row : outcomes[i] = NA

\* What reached the server agrees with what is marked, of an unkeyed batch.
ReachOK ==
  ~keyed => \A i \in Row :
    /\ reached[i] <= 1
    /\ pc # "raised" /\ outcomes[i] = NA => reached[i] = 0
    /\ outcomes[i] \in {"applied", "unknown"} => reached[i] = 1

\* A call that sent something has counted it as an attempt.
GateOK ==
  /\ pc # "raised" => lastWords = "none"
  /\ pc \in {"planning", "loop"} /\ ~attempted => sends = 0
  /\ DeadDeadlineLosesNothing

\* The first row of the queue, or the end of the list.
Front == IF queue = << >> THEN N ELSE queue[1].from

\* Each chunk to come can still cost twice its rows less one.
CostOK ==
  /\ SendsAreBounded
  /\ pc = "planning" => sends = 0
  /\ pc = "loop" => sends + 2 * (N - Front) - Len(queue) <= 2 * (N - first) - 1
  /\ pc = "send" =>
       sends + 2 * (N - sending.from) - 2 - Len(queue) <= 2 * (N - first) - 1

IInv ==
  /\ TypeOK /\ IdleOK /\ PlanOK /\ QueueOK /\ NotAttemptedIsSuffix
  /\ ReachOK /\ GateOK /\ RowIdsAreTheirOwn
  /\ FitsOK /\ CutsOK

-----------------------------------------------------------------------------
(* Chunks and queues.                                                       *)

\* A chunk is a record of two positions, and never empty.
LEMMA ChunkFacts ==
  ASSUME NEW c \in Chunk
  PROVE  /\ c.from \in Nat /\ c.to \in Nat
         /\ c.from < c.to /\ c.to <= N
         /\ c = [from |-> c.from, to |-> c.to]
         /\ Size(c) \in Nat \ {0}
BY SendChunksAssumption DEF Chunk, Size

\* No chunk is in flight.
LEMMA NoChunkFacts == Rows(NoChunk) = {} /\ NoChunk.to = 0
BY DEF Rows, NoChunk

\* popleft() leaves the rest in order, behind the chunk it returned.
LEMMA TailFacts ==
  ASSUME NEW q \in Seq(Chunk), q # << >>, InOrder(q)
  PROVE  /\ Head(q) = q[1] /\ q[1] \in Chunk
         /\ Tail(q) \in Seq(Chunk)
         /\ Len(Tail(q)) = Len(q) - 1
         /\ InOrder(Tail(q))
         /\ \A k \in 1..Len(Tail(q)) : q[1].to <= Tail(q)[k].from
         /\ RowsIn(q) = Rows(q[1]) \cup RowsIn(Tail(q))
<1>1. /\ Head(q) = q[1] /\ q[1] \in Chunk
      /\ Tail(q) \in Seq(Chunk)
      /\ Len(q) \in Nat \ {0}
      /\ Len(Tail(q)) = Len(q) - 1
  OBVIOUS
<1>2. \A k \in 1..Len(Tail(q)) : k + 1 \in 1..Len(q) /\ Tail(q)[k] = q[k + 1]
  OBVIOUS
<1>3. InOrder(Tail(q))
  <2> SUFFICES ASSUME NEW i \in 1..Len(Tail(q)), NEW j \in 1..Len(Tail(q)), i < j
               PROVE  Tail(q)[i].to <= Tail(q)[j].from
    BY DEF InOrder
  <2>1. i + 1 < j + 1 /\ i + 1 \in 1..Len(q) /\ j + 1 \in 1..Len(q)
    BY <1>1
  <2> QED BY <2>1, <1>2 DEF InOrder
<1>4. \A k \in 1..Len(Tail(q)) : q[1].to <= Tail(q)[k].from
  <2> SUFFICES ASSUME NEW k \in 1..Len(Tail(q)) PROVE q[1].to <= Tail(q)[k].from
    OBVIOUS
  <2>1. 1 < k + 1 /\ 1 \in 1..Len(q) /\ k + 1 \in 1..Len(q)
    BY <1>1
  <2> QED BY <2>1, <1>2 DEF InOrder
<1>5. RowsIn(q) = Rows(q[1]) \cup RowsIn(Tail(q))
  <2>1. ASSUME NEW x, x \in RowsIn(q) PROVE x \in Rows(q[1]) \cup RowsIn(Tail(q))
    <3>1. PICK i \in 1..Len(q) : x \in Rows(q[i])
      BY <2>1 DEF RowsIn
    <3>2. CASE i = 1
      BY <3>1, <3>2
    <3>3. CASE i # 1
      <4>1. i - 1 \in 1..Len(Tail(q)) /\ Tail(q)[i - 1] = q[i]
        BY <3>3, <1>1
      <4> QED BY <3>1, <4>1 DEF RowsIn
    <3> QED BY <3>2, <3>3
  <2>2. ASSUME NEW x, x \in Rows(q[1]) \cup RowsIn(Tail(q)) PROVE x \in RowsIn(q)
    <3>1. CASE x \in Rows(q[1])
      <4>1. 1 \in 1..Len(q)
        BY <1>1
      <4> QED BY <3>1, <4>1 DEF RowsIn
    <3>2. CASE x \in RowsIn(Tail(q))
      <4>1. PICK i \in 1..Len(Tail(q)) : x \in Rows(Tail(q)[i])
        BY <3>2 DEF RowsIn
      <4> QED BY <4>1, <1>2 DEF RowsIn
    <3> QED BY <2>2, <3>1, <3>2
  <2> QED BY <2>1, <2>2
<1> QED BY <1>1, <1>3, <1>4, <1>5

\* The halves are chunks, meet, and hold the rows of the whole.
LEMMA HalfFacts ==
  ASSUME NEW c \in Chunk, Size(c) > 1
  PROVE  /\ First(c) \in Chunk /\ Second(c) \in Chunk
         /\ First(c).from = c.from /\ Second(c).to = c.to
         /\ First(c).to = Second(c).from
         /\ Rows(c) = Rows(First(c)) \cup Rows(Second(c))
<1> DEFINE mid == c.from + Size(c) \div 2
<1>1. /\ c.from \in Nat /\ c.to \in Nat /\ c.from < c.to /\ c.to <= N
      /\ c = [from |-> c.from, to |-> c.to]
  BY ChunkFacts
<1>2. mid \in Nat /\ c.from < mid /\ mid < c.to
  BY <1>1 DEF Size
<1>3. First(c) = [from |-> c.from, to |-> mid]
  BY <1>1 DEF First
<1>4. Second(c) = [from |-> mid, to |-> c.to]
  BY <1>1 DEF Second
<1> HIDE DEF mid
<1>5. N \in Nat /\ c.from \in 0..N /\ mid \in 0..N /\ c.to \in 0..N
  BY <1>1, <1>2, SendChunksAssumption
<1>6. First(c) \in Chunk /\ Second(c) \in Chunk
  BY <1>2, <1>3, <1>4, <1>5 DEF Chunk
<1>7. Rows(c) = Rows(First(c)) \cup Rows(Second(c))
  <2>1. c.from..(c.to - 1) = (c.from..(mid - 1)) \cup (mid..(c.to - 1))
    BY <1>1, <1>2
  <2> QED BY <2>1, <1>3, <1>4 DEF Rows
<1> QED BY <1>3, <1>4, <1>6, <1>7

\* appendleft of both halves keeps the queue in order and its rows.
LEMMA HalveFacts ==
  ASSUME NEW c \in Chunk, Size(c) > 1, NEW q \in Seq(Chunk), InOrder(q),
         \A k \in 1..Len(q) : c.to <= q[k].from,
         NEW h, h = <<First(c), Second(c)>> \o q
  PROVE  /\ h \in Seq(Chunk)
         /\ Len(h) = Len(q) + 2
         /\ h[1].from = c.from
         /\ InOrder(h)
         /\ RowsIn(h) = Rows(c) \cup RowsIn(q)
<1>1. /\ First(c) \in Chunk /\ Second(c) \in Chunk
      /\ First(c).from = c.from /\ Second(c).to = c.to
      /\ First(c).to = Second(c).from
      /\ Rows(c) = Rows(First(c)) \cup Rows(Second(c))
  BY HalfFacts
<1>2. /\ h \in Seq(Chunk) /\ Len(h) = Len(q) + 2
      /\ h[1] = First(c) /\ h[2] = Second(c)
      /\ Len(q) \in Nat
  BY <1>1
<1>3. \A k \in 1..Len(q) : h[k + 2] = q[k]
  BY <1>1
<1>4. \A k \in 3..Len(h) : k - 2 \in 1..Len(q) /\ h[k] = q[k - 2]
  BY <1>2, <1>3
<1>5. c.to \in Nat /\ Second(c).from \in Nat /\ Second(c).from < c.to
  BY <1>1, ChunkFacts
<1>6. InOrder(h)
  <2> SUFFICES ASSUME NEW i \in 1..Len(h), NEW j \in 1..Len(h), i < j
               PROVE  h[i].to <= h[j].from
    BY DEF InOrder
  <2>1. CASE j = 2
    <3>1. i = 1
      BY <2>1
    <3>2. Second(c).from <= Second(c).from
      BY <1>5
    <3> QED BY <2>1, <3>1, <3>2, <1>1, <1>2
  <2>2. CASE j > 2
    <3>1. j - 2 \in 1..Len(q) /\ h[j] = q[j - 2] /\ c.to <= h[j].from
      BY <1>2, <1>4, <2>2
    <3>2. h[j].from \in Nat
      BY <3>1, ChunkFacts
    <3>3. CASE i = 1
      BY <3>1, <3>2, <3>3, <1>1, <1>2, <1>5
    <3>4. CASE i = 2
      BY <3>1, <3>4, <1>1, <1>2
    <3>5. CASE i > 2
      <4>1. i - 2 \in 1..Len(q) /\ h[i] = q[i - 2] /\ i - 2 < j - 2
        BY <1>2, <1>4, <3>5
      <4> QED BY <3>1, <4>1 DEF InOrder
    <3> QED BY <3>3, <3>4, <3>5, <1>2
  <2> QED BY <2>1, <2>2, <1>2
<1>7. RowsIn(h) = Rows(c) \cup RowsIn(q)
  <2>1. ASSUME NEW x, x \in RowsIn(h) PROVE x \in Rows(c) \cup RowsIn(q)
    <3>1. PICK i \in 1..Len(h) : x \in Rows(h[i])
      BY <2>1 DEF RowsIn
    <3>2. CASE i \in {1, 2}
      BY <3>1, <3>2, <1>1, <1>2
    <3>3. CASE i > 2
      <4>1. i - 2 \in 1..Len(q) /\ h[i] = q[i - 2]
        BY <1>2, <1>4, <3>3
      <4> QED BY <3>1, <4>1 DEF RowsIn
    <3> QED BY <3>2, <3>3, <1>2
  <2>2. ASSUME NEW x, x \in Rows(c) \cup RowsIn(q) PROVE x \in RowsIn(h)
    <3>1. 1 \in 1..Len(h) /\ 2 \in 1..Len(h)
      BY <1>2
    <3>2. CASE x \in Rows(c)
      BY <3>1, <3>2, <1>1, <1>2 DEF RowsIn
    <3>3. CASE x \in RowsIn(q)
      <4>1. PICK i \in 1..Len(q) : x \in Rows(q[i])
        BY <3>3 DEF RowsIn
      <4>2. i + 2 \in 1..Len(h) /\ h[i + 2] = q[i]
        BY <1>2, <1>3
      <4> QED BY <4>1, <4>2 DEF RowsIn
    <3> QED BY <2>2, <3>2, <3>3
  <2> QED BY <2>1, <2>2
<1> QED BY <1>1, <1>2, <1>6, <1>7

\* Chunks in order leave a row for each of them behind the first one's start.
LEMMA OrderBoundsLength ==
  ASSUME NEW q \in Seq(Chunk), InOrder(q), q # << >>
  PROVE  Len(q) <= N - q[1].from
<1> DEFINE f == [k \in 1..Len(q) |-> q[k].from]
<1>1. Len(q) \in Nat \ {0} /\ N \in Nat
  BY SendChunksAssumption
<1>2. \A k \in 1..Len(q) :
        q[k].from \in Nat /\ q[k].to \in Nat /\ q[k].from < q[k].to /\ q[k].to <= N
  BY ChunkFacts
<1>3. 1 \in 1..Len(q) /\ q[1].from \in Nat
  BY <1>1, <1>2
<1>4. \A k \in 1..Len(q) : q[k].from \in q[1].from..(N - 1)
  <2> SUFFICES ASSUME NEW k \in 1..Len(q) PROVE q[k].from \in q[1].from..(N - 1)
    OBVIOUS
  <2>1. k = 1 \/ q[1].to <= q[k].from
    BY <1>3 DEF InOrder
  <2>2. q[1].from <= q[k].from
    BY <2>1, <1>2, <1>3
  <2> QED BY <2>2, <1>1, <1>2, <1>3
<1>5. \A i, j \in 1..Len(q) : i < j => q[i].from < q[j].from
  BY <1>2 DEF InOrder
<1>6. f \in Injection(1..Len(q), q[1].from..(N - 1))
  <2>1. f \in [1..Len(q) -> q[1].from..(N - 1)]
    BY <1>4
  <2>2. \A i, j \in 1..Len(q) : f[i] = f[j] => i = j
    <3> SUFFICES ASSUME NEW i \in 1..Len(q), NEW j \in 1..Len(q), f[i] = f[j], i # j
                 PROVE  FALSE
      OBVIOUS
    <3>1. i < j \/ j < i
      OBVIOUS
    <3>2. q[i].from < q[j].from \/ q[j].from < q[i].from
      BY <3>1, <1>5
    <3> QED BY <3>2, <1>2
  <2> QED BY <2>1, <2>2 DEF Injection, IsInjective
<1> HIDE DEF f
<1>7. /\ IsFiniteSet(1..Len(q)) /\ Cardinality(1..Len(q)) = Len(q)
      /\ IsFiniteSet(q[1].from..(N - 1))
      /\ Cardinality(q[1].from..(N - 1)) =
           IF q[1].from > N - 1 THEN 0 ELSE (N - 1) - q[1].from + 1
  <2>1. 1 \in Int /\ Len(q) \in Int /\ q[1].from \in Int /\ N - 1 \in Int
    BY <1>1, <1>3
  <2>2. /\ IsFiniteSet(1..Len(q))
        /\ Cardinality(1..Len(q)) = IF 1 > Len(q) THEN 0 ELSE Len(q) - 1 + 1
    BY <2>1, FS_Interval, ZenonT(30)
  <2>3. /\ IsFiniteSet(q[1].from..(N - 1))
        /\ Cardinality(q[1].from..(N - 1)) =
             IF q[1].from > N - 1 THEN 0 ELSE (N - 1) - q[1].from + 1
    BY <2>1, FS_Interval, ZenonT(30)
  <2> QED BY <2>2, <2>3, <1>1
<1>8. Cardinality(1..Len(q)) <= Cardinality(q[1].from..(N - 1))
  BY <1>6, <1>7, FS_Injection
<1> QED BY <1>1, <1>2, <1>3, <1>7, <1>8

\* A chunk added at the end, behind all the others.
LEMMA AppendFacts ==
  ASSUME NEW q \in Seq(Chunk), InOrder(q), NEW c \in Chunk,
         \A k \in 1..Len(q) : q[k].to <= c.from
  PROVE  /\ Append(q, c) \in Seq(Chunk)
         /\ Len(Append(q, c)) = Len(q) + 1 /\ Len(q) \in Nat
         /\ Append(q, c)[Len(Append(q, c))] = c
         /\ \A k \in 1..Len(q) : Append(q, c)[k] = q[k]
         /\ InOrder(Append(q, c))
         /\ RowsIn(Append(q, c)) = RowsIn(q) \cup Rows(c)
<1> DEFINE h == Append(q, c)
<1>1. /\ h \in Seq(Chunk)
      /\ Len(h) = Len(q) + 1 /\ Len(q) \in Nat
      /\ h[Len(h)] = c
      /\ \A k \in 1..Len(q) : h[k] = q[k]
  OBVIOUS
<1> HIDE DEF h
<1>2. InOrder(h)
  <2> SUFFICES ASSUME NEW i \in 1..Len(h), NEW j \in 1..Len(h), i < j
               PROVE  h[i].to <= h[j].from
    BY DEF InOrder
  <2>1. i \in 1..Len(q) /\ (j \in 1..Len(q) \/ j = Len(h))
    BY <1>1
  <2>2. CASE j \in 1..Len(q)
    BY <1>1, <2>1, <2>2 DEF InOrder
  <2>3. CASE j = Len(h)
    BY <1>1, <2>1, <2>3
  <2> QED BY <2>1, <2>2, <2>3
<1>3. RowsIn(h) = RowsIn(q) \cup Rows(c)
  <2>1. ASSUME NEW x, x \in RowsIn(h) PROVE x \in RowsIn(q) \cup Rows(c)
    <3>1. PICK k \in 1..Len(h) : x \in Rows(h[k])
      BY <2>1 DEF RowsIn
    <3>2. k \in 1..Len(q) \/ k = Len(h)
      BY <1>1
    <3>3. CASE k \in 1..Len(q)
      BY <1>1, <3>1, <3>3 DEF RowsIn
    <3>4. CASE k = Len(h)
      BY <1>1, <3>1, <3>4
    <3> QED BY <3>2, <3>3, <3>4
  <2>2. ASSUME NEW x, x \in RowsIn(q) PROVE x \in RowsIn(h)
    <3>1. PICK k \in 1..Len(q) : x \in Rows(q[k])
      BY <2>2 DEF RowsIn
    <3>2. k \in 1..Len(h) /\ h[k] = q[k]
      BY <1>1
    <3> QED BY <3>1, <3>2 DEF RowsIn
  <2>3. ASSUME NEW x, x \in Rows(c) PROVE x \in RowsIn(h)
    <3>1. Len(h) \in 1..Len(h)
      BY <1>1
    <3> QED BY <1>1, <2>3, <3>1 DEF RowsIn
  <2> QED BY <2>1, <2>2, <2>3
<1> QED BY <1>1, <1>2, <1>3 DEF h

-----------------------------------------------------------------------------
(* What the steps have in common.                                           *)

\* How a send may settle its chunk: what is marked, and what reached the
\* server.
SettledSomehow ==
  /\ pc = "send"
  /\ \E how \in {"applied", "unknown", "refused"} :
       /\ Settled(how)
       /\ \/ Reach(Rows(sending))
          \/ how = "refused" /\ UNCHANGED reached
       /\ \/ how \in {"applied", "unknown"} /\ FileSomeIds
          \/ UNCHANGED filed

\* The chunk in flight was too large and is back as two halves.
Halved ==
  /\ pc = "send"
  /\ Size(sending) > 1
  /\ Halve
  /\ sending' = NoChunk
  /\ pc' = "loop"
  /\ UNCHANGED <<now, call, plan, outcomes, replayed, lastWords, sends>>
  /\ UNCHANGED <<reached, filed>>

\* Every way a send ends is one of four.
LEMMA SendCases ==
  ASSUME SendEnds, sending \in Chunk
  PROVE  SettledSomehow \/ Halved \/ SendThrottled \/ SendRaises
<1>1. Size(sending) \in Nat \ {0}
  BY ChunkFacts
<1>2. CASE SendApplied
  BY <1>2 DEF SendApplied, SettledSomehow
<1>3. CASE SendUnconfirmed
  BY <1>3 DEF SendUnconfirmed, SettledSomehow
<1>4. CASE SendRefused
  BY <1>4 DEF SendRefused, SettledSomehow
<1>5. CASE SendGatewayTimeout
  BY <1>5 DEF SendGatewayTimeout, SettledSomehow
<1>6. CASE SendTooLarge
  BY <1>1, <1>6 DEF SendTooLarge, SettledSomehow, Halved
<1> QED BY <1>2, <1>3, <1>4, <1>5, <1>6 DEF SendEnds

\* The halved queue, from the facts about halving.
LEMMA HalvedQueue ==
  ASSUME TypeOK, QueueOK, Halved
  PROVE  /\ queue' \in Seq(Chunk)
         /\ Len(queue') = Len(queue) + 2
         /\ queue'[1].from = sending.from
         /\ InOrder(queue')
         /\ RowsIn(queue') = Rows(sending) \cup RowsIn(queue)
<1>1. /\ sending \in Chunk /\ Size(sending) > 1
      /\ queue \in Seq(Chunk) /\ InOrder(queue)
      /\ \A k \in 1..Len(queue) : sending.to <= queue[k].from
      /\ queue' = <<First(sending), Second(sending)>> \o queue
  BY DEF TypeOK, QueueOK, Halved, Halve, Running
<1> QED BY <1>1, HalveFacts

\* A marked report, and one more attempt of some rows.
LEMMA MarkFacts ==
  ASSUME TypeOK, NEW S, NEW how \in RowOutcome, Mark(S, how)
  PROVE  /\ outcomes' \in [Row -> RowOutcome]
         /\ \A i \in Row : i \in S => outcomes'[i] = how
         /\ \A i \in Row : i \notin S => outcomes'[i] = outcomes[i]
BY DEF Mark, TypeOK

LEMMA ReachFacts ==
  ASSUME TypeOK, NEW S, Reach(S)
  PROVE  /\ reached' \in [Row -> Nat]
         /\ \A i \in Row : i \in S => reached'[i] = reached[i] + 1
         /\ \A i \in Row : i \notin S => reached'[i] = reached[i]
<1>1. \A i \in Row : reached[i] \in Nat
  BY DEF TypeOK
<1>2. reached' = [i \in Row |-> IF i \in S THEN reached[i] + 1 ELSE reached[i]]
  BY DEF Reach
<1>3. \A i \in Row : (IF i \in S THEN reached[i] + 1 ELSE reached[i]) \in Nat
  BY <1>1
<1>4. reached' \in [Row -> Nat]
  BY <1>2, <1>3
<1>5. \A i \in Row : i \in S => reached'[i] = reached[i] + 1
  BY <1>2
<1>6. \A i \in Row : i \notin S => reached'[i] = reached[i]
  BY <1>2
<1> QED BY <1>4, <1>5, <1>6

\* Rows of a running call that are marked not attempted again already were.
LEMMA UnmarkedStay ==
  ASSUME TypeOK, QueueOK, Running, Mark(Rows(sending) \cup RowsIn(queue), NA)
  PROVE  outcomes' = outcomes
<1>1. NA \in RowOutcome
  BY DEF NA, RowOutcome
<1>2. /\ outcomes' \in [Row -> RowOutcome]
      /\ \A i \in Row : i \in Rows(sending) \cup RowsIn(queue) => outcomes'[i] = NA
      /\ \A i \in Row : i \notin Rows(sending) \cup RowsIn(queue) => outcomes'[i] = outcomes[i]
  BY <1>1, MarkFacts
<1>3. \A i \in Row : outcomes'[i] = outcomes[i]
  BY <1>2 DEF QueueOK
<1>4. outcomes \in [Row -> RowOutcome]
  BY DEF TypeOK
<1> QED BY <1>2, <1>3, <1>4

\* The gate closes without changing what the report says.
LEMMA GateKeepsReport ==
  ASSUME TypeOK, QueueOK, pc = "loop", CloseGate
  PROVE  outcomes' = outcomes
<1>1. Rows(sending) = {} /\ Running
  BY NoChunkFacts DEF QueueOK, Running
<1>2. Mark(Rows(sending) \cup RowsIn(queue), NA)
  <2>1. Rows(sending) \cup RowsIn(queue) = RowsIn(queue)
    BY <1>1
  <2> QED BY <2>1 DEF CloseGate, NA
<1> QED BY <1>1, <1>2, UnmarkedStay

\* The numbers among the variables.
LEMMA NumberFacts ==
  ASSUME TypeOK
  PROVE  /\ now \in Nat /\ now <= MaxTime /\ started \in Nat
         /\ first \in Nat /\ first <= N
         /\ calls \in Nat /\ calls <= MaxCalls
         /\ sends \in Nat
         /\ N \in Nat /\ MaxTime \in Nat /\ MaxCalls \in Nat
<1>1. /\ now \in 0..MaxTime /\ started \in Nat /\ first \in 0..N
      /\ calls \in 0..MaxCalls /\ sends \in Nat
  BY Zenon DEF TypeOK
<1>2. N \in Nat /\ MaxTime \in Nat /\ MaxCalls \in Nat
  BY SendChunksAssumption
<1> QED BY <1>1, <1>2

\* A dead deadline cannot pay for a chunk.
LEMMA GateIsEnough ==
  ASSUME TypeOK, CanAfford(started, now, ChunkCost)
  PROVE  ~Expired(started, now)
<1>1. Remaining(started, now) \in Int
  <2>1. now \in Int /\ started \in Int
    BY NumberFacts
  <2>2. TotalS - TailS \in Int
    BY DeadlineAssumption
  <2>3. TotalS - TailS - (now - started) \in Int
    BY <2>1, <2>2
  <2> QED BY <2>3 DEF Remaining, AtLeastZero, Budget
<1>2. ChunkCost \in Nat \ {0} /\ ChunkCost <= Remaining(started, now)
  BY SendChunksAssumption DEF CanAfford
<1> QED BY <1>1, <1>2 DEF Expired

-----------------------------------------------------------------------------
(* Types.                                                                   *)

LEMMA TypeInit == Init => TypeOK
<1> SUFFICES ASSUME Init PROVE TypeOK
  OBVIOUS
<1>1. now \in 0..MaxTime /\ started \in Nat /\ first \in 0..N /\ calls \in 0..MaxCalls
      /\ sends \in Nat
  BY SendChunksAssumption DEF Init
<1>2. queue \in Seq(Chunk)
  BY DEF Init
<1>3. /\ outcomes \in [Row -> RowOutcome] /\ reached \in [Row -> Nat]
      /\ filed \in [Row -> Row \cup {NoRow}]
  BY DEF Init, RowOutcome
<1>4. current \in [from : 0..N, to : 0..N]
  BY SendChunksAssumption DEF Init, NoChunk
<1> QED BY <1>1, <1>2, <1>3, <1>4 DEF Init, TypeOK

\* Filing keeps the type of the ids, for ids of the rows of a chunk.
LEMMA FiledFacts ==
  ASSUME TypeOK, sending \in Chunk, FileSomeIds
  PROVE  /\ filed' \in [Row -> Row \cup {NoRow}]
         /\ \A i \in Row : i \in Rows(sending) => filed'[i] \in {filed[i], i}
         /\ \A i \in Row : i \notin Rows(sending) => filed'[i] = filed[i]
<1>1. PICK added \in AddedRowIds(sending) : FileIds(added)
  BY DEF FileSomeIds
<1>2. /\ sending.from \in Nat /\ sending.to \in Nat
      /\ sending.from < sending.to /\ sending.to <= N
      /\ Size(sending) \in Nat \ {0} /\ Size(sending) = sending.to - sending.from
  BY ChunkFacts DEF Size
<1>3. filed' = [i \in Row |->
        IF i \in Rows(sending) /\ Len(added) = Size(sending)
        THEN added[i - sending.from + 1] ELSE filed[i]]
  BY <1>1 DEF FileIds
<1>4. Len(added) = Size(sending) => added = IdsOf(sending)
  <2>1. added \in {IdsOf(sending), Tail(IdsOf(sending)), << >>}
    BY <1>1 DEF AddedRowIds
  <2>2. IdsOf(sending) \in Seq(Int) /\ Len(IdsOf(sending)) = Size(sending)
    <3>1. \A k \in 1..Size(sending) : sending.from + k - 1 \in Int
      BY <1>2
    <3>2. IdsOf(sending) \in [1..Size(sending) -> Int]
      BY <3>1 DEF IdsOf
    <3> QED BY <1>2, <3>2
  <2>3. Len(Tail(IdsOf(sending))) = Size(sending) - 1
    BY <1>2, <2>2
  <2>4. Len(Tail(IdsOf(sending))) # Size(sending)
    BY <1>2, <2>3
  <2>5. Len(<< >>) # Size(sending)
    BY <1>2
  <2> QED BY <2>1, <2>4, <2>5
<1>5. \A i \in Row : filed[i] \in Row \cup {NoRow}
  BY DEF TypeOK
<1>6. ASSUME NEW i \in Row, i \in Rows(sending), Len(added) = Size(sending)
      PROVE  filed'[i] = i
  <2>1. i \in Int /\ sending.from <= i /\ i <= sending.to - 1
    BY <1>2, <1>6 DEF Rows
  <2>2. i - sending.from + 1 \in 1..Size(sending)
    BY <1>2, <2>1
  <2>3. IdsOf(sending)[i - sending.from + 1] = sending.from + (i - sending.from + 1) - 1
    BY <2>2 DEF IdsOf
  <2>4. sending.from + (i - sending.from + 1) - 1 = i
    BY <1>2, <2>1
  <2> QED BY <1>3, <1>4, <1>6, <2>3, <2>4
<1>7. ASSUME NEW i \in Row, ~(i \in Rows(sending) /\ Len(added) = Size(sending))
      PROVE  filed'[i] = filed[i]
  BY <1>3, <1>7
<1>8. \A i \in Row : filed'[i] \in Row \cup {NoRow}
  BY <1>5, <1>6, <1>7
<1> QED BY <1>3, <1>6, <1>7, <1>8

\* The chunk in hand and the row it may take in.
LEMMA HandFacts ==
  ASSUME TypeOK, PlanOK, pc = "planning"
  PROVE  /\ first \in Nat /\ current.from \in Nat /\ current.to \in Nat
         /\ first <= current.from /\ current.from <= current.to /\ current.to <= N
         /\ N \in Nat
         /\ current = [from |-> current.from, to |-> current.to]
         /\ Size(current) \in Nat
         /\ Size(current) > 0 => current \in Chunk
<1>1. /\ current \in [from : 0..N, to : 0..N] /\ first \in Nat /\ N \in Nat
  BY NumberFacts DEF TypeOK
<1>2. /\ current.from \in 0..N /\ current.to \in 0..N
      /\ current = [from |-> current.from, to |-> current.to]
  BY <1>1
<1>3. first <= current.from /\ current.from <= current.to
  BY DEF PlanOK
<1>4. Size(current) \in Nat
  BY <1>1, <1>2, <1>3 DEF Size
<1>5. Size(current) > 0 => current.from < current.to
  BY <1>2 DEF Size
<1>6. Size(current) > 0 => current \in Chunk
  BY <1>1, <1>5 DEF Chunk
<1> QED BY <1>1, <1>2, <1>3, <1>4, <1>6

\* flush() leaves a plan of all the rows up to the end of the chunk in hand.
LEMMA FlushFacts ==
  ASSUME TypeOK, PlanOK, pc = "planning"
  PROVE  /\ Flushed \in Seq(Chunk)
         /\ InOrder(Flushed)
         /\ RowsIn(Flushed) = first..(current.to - 1)
         /\ \A k \in 1..Len(Flushed) : Flushed[k].to <= current.to
<1>1. /\ queue \in Seq(Chunk) /\ InOrder(queue)
      /\ \A k \in 1..Len(queue) : queue[k].to <= current.from
      /\ RowsIn(queue) = first..(current.from - 1)
  BY DEF TypeOK, PlanOK
<1>a. \A k \in 1..Len(queue) : queue[k].to <= current.to
  <2> TAKE k \in 1..Len(queue)
  <2>1. queue[k].to \in Nat /\ queue[k].to <= current.from
    BY <1>1, ChunkFacts
  <2> QED BY <2>1, HandFacts
<1>2. CASE Size(current) > 0
  <2>1. current \in Chunk /\ Flushed = Append(queue, current)
    BY <1>2, HandFacts DEF Flushed
  <2>2. /\ Flushed \in Seq(Chunk) /\ InOrder(Flushed)
        /\ Len(Flushed) = Len(queue) + 1 /\ Len(queue) \in Nat
        /\ Flushed[Len(Flushed)] = current
        /\ \A k \in 1..Len(queue) : Flushed[k] = queue[k]
        /\ RowsIn(Flushed) = RowsIn(queue) \cup Rows(current)
    BY <1>1, <2>1, AppendFacts
  <2>3. RowsIn(Flushed) = first..(current.to - 1)
    <3>1. first..(current.to - 1) = (first..(current.from - 1)) \cup (current.from..(current.to - 1))
      BY HandFacts
    <3> QED BY <1>1, <2>2, <3>1 DEF Rows
  <2>4. \A k \in 1..Len(Flushed) : Flushed[k].to <= current.to
    <3> TAKE k \in 1..Len(Flushed)
    <3>1. k \in 1..Len(queue) \/ k = Len(Flushed)
      BY <2>2
    <3>2. current.to <= current.to
      BY HandFacts
    <3> QED BY <1>a, <2>2, <3>1, <3>2
  <2> QED BY <2>2, <2>3, <2>4
<1>3. CASE ~(Size(current) > 0)
  <2>1. current.from = current.to
    <3>1. Size(current) = current.to - current.from
      BY DEF Size
    <3> QED BY <1>3, <3>1, HandFacts
  <2>2. Flushed = queue
    BY <1>3 DEF Flushed
  <2> QED BY <1>1, <1>a, <2>1, <2>2
<1> QED BY <1>2, <1>3

\* The row in question, as a chunk, and the chunk in hand with it.
LEMMA RowFacts ==
  ASSUME TypeOK, PlanOK, pc = "planning", current.to < N
  PROVE  /\ current.to + 1 \in 0..N
         /\ Alone \in Chunk /\ Alone.from = current.to /\ Alone.to = current.to + 1
         /\ Rows(Alone) = {current.to} /\ Size(Alone) = 1
         /\ Grown = [from |-> current.from, to |-> current.to + 1]
         /\ Size(Grown) = Size(current) + 1
         /\ Rows(Grown) = Rows(current) \cup {current.to}
<1>1. /\ current.from \in Nat /\ current.to \in Nat /\ N \in Nat
      /\ current.from <= current.to
      /\ current = [from |-> current.from, to |-> current.to]
  BY HandFacts
<1>2. current.to + 1 \in 0..N /\ current.to \in 0..N /\ current.to < current.to + 1
  BY <1>1
<1>3. Alone = [from |-> current.to, to |-> current.to + 1]
  BY DEF Alone
<1>4. Alone \in Chunk
  BY <1>2, <1>3 DEF Chunk
<1>5. Rows(Alone) = {current.to} /\ Size(Alone) = 1
  BY <1>1, <1>3 DEF Rows, Size
<1>6. Grown = [from |-> current.from, to |-> current.to + 1]
  BY <1>1 DEF Grown
<1>7. Size(Grown) = Size(current) + 1
  BY <1>1, <1>6 DEF Size
<1>8. Rows(Grown) = Rows(current) \cup {current.to}
  BY <1>1, <1>6 DEF Rows
<1> QED BY <1>2, <1>3, <1>4, <1>5, <1>6, <1>7, <1>8

\* One turn of the planner's loop.
LEMMA PlanRowFacts ==
  ASSUME TypeOK, PlanOK, PlanRow
  PROVE  /\ queue' \in Seq(Chunk) /\ InOrder(queue')
         /\ current' \in [from : 0..N, to : 0..N]
         /\ \A k \in 1..Len(queue') : queue'[k].to <= current'.from
         /\ RowsIn(queue') = first..(current'.from - 1)
         /\ first <= current'.from /\ current'.from <= current'.to
<1>0. pc = "planning" /\ current.to < N
  BY DEF PlanRow
<1>1. /\ first \in Nat /\ current.from \in Nat /\ current.to \in Nat /\ N \in Nat
      /\ first <= current.from /\ current.from <= current.to
  BY <1>0, HandFacts
<1>2. /\ current.to + 1 \in 0..N
      /\ Alone \in Chunk /\ Alone.from = current.to /\ Alone.to = current.to + 1
      /\ Rows(Alone) = {current.to}
      /\ Grown = [from |-> current.from, to |-> current.to + 1]
  BY <1>0, RowFacts
<1>3. /\ Flushed \in Seq(Chunk) /\ InOrder(Flushed)
      /\ RowsIn(Flushed) = first..(current.to - 1)
      /\ \A k \in 1..Len(Flushed) : Flushed[k].to <= current.to
  BY <1>0, FlushFacts
<1>4. CASE PlanHeavy
  <2>1. /\ queue' = Append(Flushed, Alone)
        /\ current' = [from |-> current.to + 1, to |-> current.to + 1]
    BY <1>4 DEF PlanHeavy
  <2>2. /\ queue' \in Seq(Chunk) /\ InOrder(queue')
        /\ Len(queue') = Len(Flushed) + 1 /\ Len(Flushed) \in Nat
        /\ queue'[Len(queue')] = Alone
        /\ \A k \in 1..Len(Flushed) : queue'[k] = Flushed[k]
        /\ RowsIn(queue') = RowsIn(Flushed) \cup Rows(Alone)
    <3>1. \A k \in 1..Len(Flushed) : Flushed[k].to <= Alone.from
      BY <1>2, <1>3
    <3> QED BY <1>2, <1>3, <2>1, <3>1, AppendFacts
  <2>3. RowsIn(queue') = first..(current.to + 1 - 1)
    <3>1. first..(current.to + 1 - 1) = (first..(current.to - 1)) \cup {current.to}
      BY <1>1
    <3> QED BY <1>2, <1>3, <2>2, <3>1
  <2>4. \A k \in 1..Len(queue') : queue'[k].to <= current.to + 1
    <3> TAKE k \in 1..Len(queue')
    <3>1. k \in 1..Len(Flushed) \/ k = Len(queue')
      BY <2>2
    <3>2. CASE k \in 1..Len(Flushed)
      <4>1. queue'[k] = Flushed[k] /\ Flushed[k].to <= current.to /\ Flushed[k] \in Chunk
        BY <1>3, <2>2, <3>2
      <4>2. Flushed[k].to \in Nat
        BY <4>1, ChunkFacts
      <4> QED BY <1>1, <4>1, <4>2
    <3>3. CASE k = Len(queue')
      BY <1>1, <1>2, <2>2, <3>3
    <3> QED BY <3>1, <3>2, <3>3
  <2>5. first <= current.to + 1 /\ current.to + 1 <= current.to + 1
    BY <1>1
  <2>6. [from |-> current.to + 1, to |-> current.to + 1] \in [from : 0..N, to : 0..N]
    BY <1>2
  <2>7. current'.from = current.to + 1 /\ current'.to = current.to + 1
    BY <2>1
  <2>8. current' \in [from : 0..N, to : 0..N]
    BY <2>1, <2>6
  <2>9. /\ \A k \in 1..Len(queue') : queue'[k].to <= current'.from
        /\ RowsIn(queue') = first..(current'.from - 1)
        /\ first <= current'.from /\ current'.from <= current'.to
    <3>1. \A k \in 1..Len(queue') : queue'[k].to <= current'.from
      BY <2>4, <2>7
    <3>2. RowsIn(queue') = first..(current'.from - 1)
      BY <1>1, <2>3, <2>7
    <3>3. first <= current'.from /\ current'.from <= current'.to
      BY <2>5, <2>7
    <3> QED BY <3>1, <3>2, <3>3
  <2> QED BY <2>2, <2>8, <2>9
<1>5. CASE PlanCut
  <2>1. queue' = Flushed /\ current' = Alone
    BY <1>5 DEF PlanCut
  <2>2. Alone \in [from : 0..N, to : 0..N]
    BY <1>2 DEF Chunk
  <2>3. first <= current.to /\ current.to <= current.to + 1
    BY <1>1
  <2> QED BY <1>2, <1>3, <2>1, <2>2, <2>3
<1>6. CASE PlanGrow
  <2>1. queue' = queue /\ current' = [from |-> current.from, to |-> current.to + 1]
    BY <1>2, <1>6 DEF PlanGrow
  <2>2. current.from \in 0..N /\ current.from <= current.to + 1
    BY <1>1, <1>2
  <2>3. /\ queue \in Seq(Chunk) /\ InOrder(queue)
        /\ \A k \in 1..Len(queue) : queue[k].to <= current.from
        /\ RowsIn(queue) = first..(current.from - 1)
    BY <1>0 DEF TypeOK, PlanOK
  <2> QED BY <1>1, <1>2, <2>1, <2>2, <2>3
<1> QED BY <1>4, <1>5, <1>6 DEF PlanRow

\* A finished plan: chunks in order, of all the rows of the call.
LEMMA PlanFacts ==
  ASSUME TypeOK, PlanOK, PlanDone
  PROVE  /\ queue' \in Seq(Chunk)
         /\ InOrder(queue')
         /\ RowsIn(queue') = first..(N - 1)
         /\ first \in Nat /\ first <= N
BY FlushFacts, HandFacts DEF PlanDone

\* A flush keeps what the planner knows of its chunks.
LEMMA FlushKeepsFits ==
  ASSUME TypeOK, PlanOK, FitsOK, pc = "planning"
  PROVE  \A k \in 1..Len(Flushed) : Fits(Flushed[k])
<1>1. /\ queue \in Seq(Chunk)
      /\ \A k \in 1..Len(queue) : Fits(queue[k])
      /\ Fits(current)
  BY DEF TypeOK, FitsOK
<1>2. CASE Size(current) > 0
  <2>1. current \in Chunk /\ Flushed = Append(queue, current)
    BY <1>2, HandFacts DEF Flushed
  <2>2. \A k \in 1..Len(Flushed) :
          (k \in 1..Len(queue) /\ Flushed[k] = queue[k]) \/ Flushed[k] = current
    BY <1>1, <2>1
  <2> QED BY <1>1, <2>2
<1>3. CASE ~(Size(current) > 0)
  BY <1>1, <1>3 DEF Flushed
<1> QED BY <1>2, <1>3

\* One turn of the loop keeps it too.
LEMMA PlanRowFits ==
  ASSUME TypeOK, PlanOK, FitsOK, PlanRow
  PROVE  FitsOK'
<1>0. pc = "planning" /\ current.to < N /\ batch' = batch
  BY DEF PlanRow
<1>1. /\ Alone \in Chunk /\ Rows(Alone) = {current.to} /\ Size(Alone) = 1
      /\ Rows(Grown) = Rows(current) \cup {current.to}
  BY <1>0, RowFacts
<1>2. /\ queue \in Seq(Chunk)
      /\ \A k \in 1..Len(queue) : Fits(queue[k])
      /\ \A i \in Rows(current) : ~HeavyRow(batch, i)
  BY <1>0 DEF TypeOK, FitsOK
<1>3. Flushed \in Seq(Chunk) /\ \A k \in 1..Len(Flushed) : Fits(Flushed[k])
  BY <1>0, FlushFacts, FlushKeepsFits
<1>4. Fits(Alone)
  BY <1>1 DEF Fits
<1>5. SUFFICES /\ \A k \in 1..Len(queue') : Fits(queue'[k])
               /\ Fits(current')
               /\ \A i \in Rows(current') : ~HeavyRow(batch, i)
  BY <1>0 DEF FitsOK, Fits
<1>6. CASE PlanHeavy
  <2>1. /\ queue' = Append(Flushed, Alone)
        /\ current' = [from |-> current.to + 1, to |-> current.to + 1]
    BY <1>6 DEF PlanHeavy
  <2>2. \A k \in 1..Len(queue') :
          (k \in 1..Len(Flushed) /\ queue'[k] = Flushed[k]) \/ queue'[k] = Alone
    BY <1>1, <1>3, <2>1
  <2>3. current.to \in Nat
    BY <1>0, HandFacts
  <2>4. Size(current') = 0 /\ Rows(current') = {}
    BY <2>1, <2>3 DEF Size, Rows
  <2>5. Fits(current')
    BY <2>4 DEF Fits
  <2> QED BY <1>3, <1>4, <2>2, <2>4, <2>5
<1>7. CASE PlanCut
  <2>1. queue' = Flushed /\ current' = Alone /\ ~HeavyRow(batch, current.to)
    BY <1>7 DEF PlanCut, Heavy
  <2> QED BY <1>1, <1>3, <1>4, <2>1
<1>8. CASE PlanGrow
  <2>1. queue' = queue /\ current' = Grown /\ ~HeavyRow(batch, current.to) /\ ~TooMuch
    BY <1>8 DEF PlanGrow, Heavy
  <2>2. \A i \in Rows(Grown) : ~HeavyRow(batch, i)
    BY <1>1, <1>2, <2>1
  <2>3. Size(Grown) <= MaxRows(batch) /\ Wire(batch, Grown) <= MaxRequestBytes
    <3>1. /\ Size(Grown) \in Nat /\ MaxRows(batch) \in Nat
          /\ Wire(batch, Grown) \in Nat /\ MaxRequestBytes \in Nat
      <4>1. batch \in Batches
        BY <1>0 DEF PlanOK
      <4>2. Grown \in Chunk
        <5>1. /\ current.from \in Nat /\ current.to \in Nat /\ N \in Nat
              /\ current.from <= current.to
              /\ Grown = [from |-> current.from, to |-> current.to + 1]
          BY <1>0, HandFacts, RowFacts
        <5>2. /\ current.from \in 0..N /\ current.to + 1 \in 0..N
              /\ current.from < current.to + 1
          BY <1>0, <5>1
        <5> QED BY <5>1, <5>2 DEF Chunk
      <4> QED BY <4>1, <4>2, ChunkFacts, SendChunksAssumption, BatchesAssumption
    <3>2. ~(Size(Grown) > MaxRows(batch)) /\ ~(Wire(batch, Grown) > MaxRequestBytes)
      BY <2>1 DEF TooMuch
    <3> QED BY <3>1, <3>2
  <2> QED BY <1>2, <2>1, <2>2, <2>3 DEF Fits
<1> QED BY <1>6, <1>7, <1>8 DEF PlanRow

\* The chunk in hand is the cause of the cut behind it, if there is one.
LEMMA CutHasCause ==
  ASSUME TypeOK, PlanOK, FitsOK, PlanRow, Size(current) > 0, PlanHeavy \/ PlanCut
  PROVE  Cause(current)
<1>0. pc = "planning" /\ current.to < N
  BY DEF PlanRow
<1>1. CASE PlanHeavy
  BY <1>1 DEF PlanHeavy, Heavy, Cause
<1>2. CASE PlanCut
  <2>1. CASE Wire(batch, Grown) > MaxRequestBytes
    BY <2>1 DEF Grown, Cause
  <2>2. CASE Size(Grown) > MaxRows(batch)
    <3>1. /\ Size(current) \in Nat /\ Size(Grown) = Size(current) + 1
          /\ MaxRows(batch) \in Nat \ {0}
      BY <1>0, HandFacts, RowFacts, BatchesAssumption DEF PlanOK
    <3>2. Size(current) > 1 => Size(current) <= MaxRows(batch)
      BY <1>0 DEF FitsOK, Fits
    <3>3. Size(current) = MaxRows(batch)
      BY <2>2, <3>1, <3>2
    <3> QED BY <3>3 DEF Cause
  <2> QED BY <1>2, <2>1, <2>2 DEF PlanCut, TooMuch
<1> QED BY <1>1, <1>2

\* After a flush every chunk but the last has its cause, and the last one
\* too if a cut is being made.
LEMMA FlushKeepsCauses ==
  ASSUME TypeOK, PlanOK, CutsOK, pc = "planning"
  PROVE  /\ \A k \in 1..(Len(Flushed) - 1) : Cause(Flushed[k])
         /\ Size(current) > 0 => Flushed # << >> /\ Flushed[Len(Flushed)] = current
         /\ ~(Size(current) > 0) => Flushed = queue
<1>1. /\ queue \in Seq(Chunk)
      /\ \A k \in 1..(Len(queue) - 1) : Cause(queue[k])
  BY DEF TypeOK, CutsOK
<1>2. CASE Size(current) > 0
  <2>1. current \in Chunk /\ Flushed = Append(queue, current)
    BY <1>2, HandFacts DEF Flushed
  <2>2. /\ Flushed \in Seq(Chunk) /\ Len(Flushed) = Len(queue) + 1 /\ Len(queue) \in Nat
        /\ Flushed[Len(Flushed)] = current
        /\ \A k \in 1..Len(queue) : Flushed[k] = queue[k]
    BY <1>1, <2>1
  <2>3. ASSUME NEW k \in 1..(Len(Flushed) - 1) PROVE Cause(Flushed[k])
    <3>1. k \in 1..Len(queue) /\ Flushed[k] = queue[k]
      BY <2>2
    <3>2. CASE k = Len(queue)
      <4>1. queue # << >>
        BY <3>1
      <4>2. Cause(queue[Len(queue)])
        BY <1>2, <4>1 DEF CutsOK
      <4> QED BY <3>1, <3>2, <4>2
    <3>3. CASE k # Len(queue)
      <4>1. k \in 1..(Len(queue) - 1)
        BY <2>2, <3>1, <3>3
      <4> QED BY <1>1, <3>1, <4>1
    <3> QED BY <3>2, <3>3
  <2>4. Flushed # << >>
    BY <2>2
  <2> QED BY <1>2, <2>2, <2>3, <2>4
<1>3. CASE ~(Size(current) > 0)
  BY <1>1, <1>3 DEF Flushed
<1> QED BY <1>2, <1>3

\* One turn of the loop makes no cut without a cause.
LEMMA PlanRowCuts ==
  ASSUME TypeOK, PlanOK, FitsOK, CutsOK, PlanRow
  PROVE  CutsOK'
<1>0. pc = "planning" /\ current.to < N /\ batch' = batch
  BY DEF PlanRow
<1>1. /\ Alone \in Chunk /\ Alone.from = current.to /\ Size(Alone) = 1
      /\ Size(current) \in Nat /\ Size(Grown) = Size(current) + 1
      /\ current.to \in Nat
  BY <1>0, RowFacts, HandFacts
<1>2. /\ Flushed \in Seq(Chunk)
      /\ \A k \in 1..(Len(Flushed) - 1) : Cause(Flushed[k])
      /\ Size(current) > 0 => Flushed # << >> /\ Flushed[Len(Flushed)] = current
      /\ ~(Size(current) > 0) => Flushed = queue
  BY <1>0, FlushFacts, FlushKeepsCauses
<1>3. ASSUME PlanHeavy \/ PlanCut, Flushed # << >> PROVE Cause(Flushed[Len(Flushed)])
  <2>1. CASE Size(current) > 0
    BY <1>2, <1>3, <2>1, CutHasCause
  <2>2. CASE ~(Size(current) > 0)
    <3>1. queue # << >> /\ HeavyRow(batch, queue[Len(queue)].from)
      BY <1>0, <1>2, <1>3, <2>2 DEF CutsOK
    <3> QED BY <1>2, <2>2, <3>1 DEF Cause
  <2> QED BY <2>1, <2>2
<1>4. ASSUME PlanHeavy \/ PlanCut PROVE \A k \in 1..Len(Flushed) : Cause(Flushed[k])
  <2> TAKE k \in 1..Len(Flushed)
  <2>1. k \in 1..(Len(Flushed) - 1) \/ k = Len(Flushed)
    BY <1>2
  <2>2. Flushed # << >>
    BY <1>2
  <2> QED BY <1>2, <1>3, <1>4, <2>1, <2>2
<1>5. SUFFICES /\ \A k \in 1..(Len(queue') - 1) : Cause(queue'[k])
               /\ queue' # << >> =>
                    IF Size(current') > 0
                    THEN Cause(queue'[Len(queue')])
                    ELSE HeavyRow(batch, queue'[Len(queue')].from)
  BY <1>0 DEF CutsOK, Cause
<1>6. CASE PlanHeavy
  <2>1. /\ queue' = Append(Flushed, Alone)
        /\ current' = [from |-> current.to + 1, to |-> current.to + 1]
        /\ HeavyRow(batch, current.to)
    BY <1>6 DEF PlanHeavy, Heavy
  <2>2. /\ Len(queue') = Len(Flushed) + 1 /\ Len(Flushed) \in Nat
        /\ queue'[Len(queue')] = Alone
        /\ \A k \in 1..Len(Flushed) : queue'[k] = Flushed[k]
    BY <1>1, <1>2, <2>1
  <2>3. Size(current') = 0
    BY <1>1, <2>1 DEF Size
  <2>4. \A k \in 1..(Len(queue') - 1) : k \in 1..Len(Flushed)
    BY <2>2
  <2>5. HeavyRow(batch, queue'[Len(queue')].from) /\ ~(Size(current') > 0)
    BY <1>1, <2>1, <2>2, <2>3
  <2> QED BY <1>4, <1>6, <2>2, <2>4, <2>5
<1>7. CASE PlanCut
  <2>1. queue' = Flushed /\ current' = Alone
    BY <1>7 DEF PlanCut
  <2>2. Size(current') > 0
    BY <1>1, <2>1
  <2> QED BY <1>2, <1>3, <1>7, <2>1, <2>2
<1>8. CASE PlanGrow
  <2>1. queue' = queue /\ current' = Grown
    BY <1>8 DEF PlanGrow
  <2>2. Size(current') > 0
    BY <1>1, <2>1
  <2>3. queue # << >> => Cause(queue[Len(queue)])
    BY <1>0 DEF CutsOK, Cause
  <2> QED BY <1>0, <2>1, <2>2, <2>3 DEF CutsOK
<1> QED BY <1>6, <1>7, <1>8 DEF PlanRow

\* The planner is not in the way of the rest of the call.
LEMMA PlannerKeeps ==
  ASSUME Planner
  PROVE  /\ UNCHANGED <<now, call, report, sending, replayed, filed, lastWords, reached, sends>>
         /\ pc = "planning" /\ pc' \in {"planning", "loop"}
BY DEF Planner, PlanRow, PlanDone

\* Every step keeps the types.
LEMMA TypeNext ==
  ASSUME TypeOK, PlanOK, QueueOK, [Next]_vars
  PROVE  TypeOK'
<1> USE SendChunksAssumption
<1>1. ASSUME NEW i \in Row, NEW age \in 0..MaxTime, Call(i, age) PROVE TypeOK'
  <2>1. /\ queue' \in Seq(Chunk) /\ current' \in [from : 0..N, to : 0..N]
        /\ batch' \in Batches
    BY <1>1 DEF Call, Row
  <2>a. calls' = calls + 1 /\ started' = now - age /\ calls < MaxCalls /\ age <= now
    BY <1>1 DEF Call
  <2>2. calls' \in 0..MaxCalls
    BY <2>a, NumberFacts
  <2>3. started' \in Nat
    BY <2>a, NumberFacts
  <2>4. first' \in 0..N
    BY <1>1 DEF Call, Row
  <2>5. outcomes' \in [Row -> RowOutcome]
    BY <1>1 DEF Call, TypeOK, RowOutcome
  <2>6. filed' \in [Row -> Row \cup {NoRow}]
    BY <1>1 DEF Call
  <2> QED BY <1>1, <2>1, <2>2, <2>3, <2>4, <2>5, <2>6 DEF Call, TypeOK
<1>p. CASE PlanRow
  <2>1. queue' \in Seq(Chunk) /\ current' \in [from : 0..N, to : 0..N]
    BY <1>p, PlanRowFacts
  <2> QED BY <1>p, <2>1 DEF PlanRow, TypeOK, call, report
<1>d. CASE PlanDone
  <2>1. queue' \in Seq(Chunk)
    BY <1>d, PlanFacts
  <2>2. current' \in [from : 0..N, to : 0..N]
    BY <1>d DEF PlanDone, NoChunk
  <2> QED BY <1>d, <2>1, <2>2 DEF PlanDone, TypeOK, call, report
<1>2. CASE Return
  BY <1>2 DEF Return, TypeOK, call, plan, report
<1>3. CASE NextChunk
  <2>1. queue \in Seq(Chunk) /\ InOrder(queue) /\ queue # << >> /\ queue' = Tail(queue)
    BY <1>3 DEF NextChunk, TypeOK, QueueOK, Running
  <2>2. queue' \in Seq(Chunk) /\ Head(queue) \in Chunk
    BY <2>1, TailFacts
  <2>3. CASE CloseGate
    <3>1. outcomes' = outcomes
      BY <1>3, <2>3, GateKeepsReport DEF NextChunk
    <3> QED BY <1>3, <2>2, <2>3, <3>1 DEF NextChunk, CloseGate, TypeOK, call, plan
  <2>4. CASE StartSend
    <3>0. sends' \in {sends, sends + 1}
      BY <2>4 DEF StartSend
    <3>1. sends' \in Nat
      BY <3>0, NumberFacts
    <3> QED BY <1>3, <2>2, <2>4, <3>1 DEF NextChunk, StartSend, TypeOK, call, plan
  <2> QED BY <1>3, <2>3, <2>4 DEF NextChunk
<1>4. CASE SendReplays
  <2>1. reached' \in [Row -> Nat]
    BY <1>4, ReachFacts DEF SendReplays
  <2> QED BY <1>4, <2>1 DEF SendReplays, TypeOK, call, plan, report
<1>5. CASE SendEnds
  <2>0. pc = "send" /\ sending \in Chunk
    BY <1>5 DEF QueueOK, SendEnds, SendApplied, SendUnconfirmed, SendRefused,
                SendGatewayTimeout, SendTooLarge, SendThrottled, SendRaises
  <2>1. CASE SettledSomehow
    <3>1. PICK how \in {"applied", "unknown", "refused"} :
            Settled(how) /\ (Reach(Rows(sending)) \/ UNCHANGED reached)
      BY <2>1 DEF SettledSomehow
    <3>2. outcomes' \in [Row -> RowOutcome]
      <4>1. how \in RowOutcome /\ Mark(Rows(sending), how)
        BY <3>1 DEF RowOutcome, Settled
      <4> QED BY <4>1, MarkFacts
    <3>3. reached' \in [Row -> Nat]
      <4>1. CASE Reach(Rows(sending))
        BY <4>1, ReachFacts
      <4>2. CASE UNCHANGED reached
        BY <4>2 DEF TypeOK
      <4> QED BY <3>1, <4>1, <4>2
    <3>4. filed' \in [Row -> Row \cup {NoRow}]
      <4>1. FileSomeIds \/ UNCHANGED filed
        BY <2>1 DEF SettledSomehow
      <4>2. CASE FileSomeIds
        BY <2>0, <4>2, FiledFacts
      <4>3. CASE UNCHANGED filed
        BY <4>3 DEF TypeOK
      <4> QED BY <4>1, <4>2, <4>3
    <3> QED BY <3>1, <3>2, <3>3, <3>4 DEF Settled, TypeOK, call, plan
  <2>2. CASE Halved
    <3>1. queue' \in Seq(Chunk) /\ attempted' = TRUE
      BY <2>2, HalvedQueue DEF Halved, Halve
    <3> QED BY <2>2, <3>1 DEF Halved, TypeOK, call, plan
  <2>3. CASE SendThrottled
    <3>1. outcomes' = outcomes
      BY <2>3, UnmarkedStay DEF SendThrottled, Running, NA
    <3> QED BY <2>3, <3>1 DEF SendThrottled, TypeOK, call, plan
  <2>4. CASE SendRaises
    <3>1. reached' \in [Row -> Nat]
      <4>1. CASE Reach(Rows(sending))
        BY <4>1, ReachFacts
      <4>2. CASE UNCHANGED reached
        BY <4>2 DEF TypeOK
      <4> QED BY <2>4, <4>1, <4>2 DEF SendRaises
    <3> QED BY <2>4, <3>1 DEF SendRaises, TypeOK, call, plan, report
  <2> QED BY <1>5, <2>0, <2>1, <2>2, <2>3, <2>4, SendCases
<1>6. CASE Tick
  <2>0. now < MaxTime /\ now' = now + 1
    BY <1>6 DEF Tick
  <2>1. now' \in 0..MaxTime
    BY <2>0, NumberFacts
  <2> QED BY <1>6, <2>1 DEF Tick, TypeOK, call, plan, report
<1>7. CASE UNCHANGED vars
  BY <1>7 DEF vars, TypeOK, call, plan, report
<1> QED BY <1>1, <1>p, <1>d, <1>2, <1>3, <1>4, <1>5, <1>6, <1>7 DEF Next

-----------------------------------------------------------------------------
(* The queue and the report.                                                *)

\* A step that leaves the loop.
LEMMA NotRunning ==
  ASSUME pc' \notin {"loop", "send"}, sending' = NoChunk
  PROVE  QueueOK'
BY DEF QueueOK, Running

\* Rows in front of the queue are not in it.
LEMMA InFront ==
  ASSUME NEW c \in Chunk, NEW q \in Seq(Chunk),
         \A k \in 1..Len(q) : c.to <= q[k].from,
         NEW i \in Rows(c), NEW j \in RowsIn(q)
  PROVE  i < j
<1>1. PICK k \in 1..Len(q) : j \in Rows(q[k])
  BY DEF RowsIn
<1>2. /\ q[k].from \in Nat /\ q[k].to \in Nat /\ c.from \in Nat /\ c.to \in Nat
      /\ c.to <= q[k].from
  BY ChunkFacts
<1>3. i \in c.from..(c.to - 1) /\ j \in q[k].from..(q[k].to - 1)
  BY <1>1 DEF Rows
<1> QED BY <1>2, <1>3

\* Every step keeps the queue in order, and the unmarked rows in it.
LEMMA QueueNext ==
  ASSUME TypeOK, PlanOK, QueueOK, [Next]_vars
  PROVE  QueueOK'
<1>1. ASSUME NEW i \in Row, NEW age \in 0..MaxTime, Call(i, age) PROVE QueueOK'
  <2>1. sending' = NoChunk /\ pc' = "planning"
    BY <1>1 DEF Call, QueueOK
  <2> QED BY <2>1, NotRunning
<1>p. CASE PlanRow
  <2>1. sending' = NoChunk /\ pc' = "planning"
    BY <1>p DEF PlanRow, QueueOK
  <2> QED BY <2>1, NotRunning
<1>d. CASE PlanDone
  <2>1. /\ queue' \in Seq(Chunk) /\ InOrder(queue') /\ RowsIn(queue') = first..(N - 1)
        /\ first \in Nat
    BY <1>d, PlanFacts
  <2>2. pc' = "loop" /\ sending' = NoChunk /\ outcomes' = outcomes /\ pc = "planning"
    BY <1>d DEF PlanDone, QueueOK, report
  <2>3. \A j \in Row : outcomes'[j] = NA <=> j \in first..(N - 1)
    <3> SUFFICES ASSUME NEW j \in Row PROVE outcomes'[j] = NA <=> j \in first..(N - 1)
      OBVIOUS
    <3>1. j \in Int /\ j <= N - 1 /\ N \in Nat
      BY SendChunksAssumption DEF Row
    <3>2. j \in first..(N - 1) <=> first <= j
      BY <2>1, <3>1
    <3> QED BY <2>2, <3>2 DEF PlanOK
  <2>4. \A k \in 1..Len(queue') : sending'.to <= queue'[k].from
    BY <2>1, <2>2, NoChunkFacts, ChunkFacts
  <2>5. Rows(sending') = {}
    BY <2>2, NoChunkFacts
  <2> QED BY <2>1, <2>2, <2>3, <2>4, <2>5 DEF QueueOK, Running
<1>2. CASE Return
  <2>1. sending' = NoChunk /\ pc' = "returned"
    BY <1>2 DEF Return, QueueOK
  <2> QED BY <2>1, NotRunning
<1>3. CASE NextChunk
  <2>1. /\ queue \in Seq(Chunk) /\ InOrder(queue) /\ queue # << >>
        /\ queue' = Tail(queue) /\ sending = NoChunk
        /\ \A i \in Row : outcomes[i] = NA <=> i \in Rows(sending) \cup RowsIn(queue)
    BY <1>3 DEF NextChunk, TypeOK, QueueOK, Running
  <2>2. CASE CloseGate
    BY <2>1, <2>2, NotRunning DEF CloseGate
  <2>3. CASE StartSend /\ pc' = "raised"
    BY <2>1, <2>3, NotRunning DEF StartSend
  <2>4. CASE StartSend /\ pc' # "raised"
    <3>1. pc' = "send" /\ sending' = Head(queue) /\ outcomes' = outcomes
      BY <2>4 DEF StartSend
    <3>2. /\ sending' = queue[1] /\ sending' \in Chunk
          /\ InOrder(queue')
          /\ \A k \in 1..Len(queue') : sending'.to <= queue'[k].from
          /\ RowsIn(queue) = Rows(sending') \cup RowsIn(queue')
      BY <2>1, <3>1, TailFacts
    <3>3. Rows(sending) = {}
      BY <2>1, NoChunkFacts
    <3>4. \A i \in Row : outcomes'[i] = NA <=> i \in Rows(sending') \cup RowsIn(queue')
      BY <2>1, <3>1, <3>2, <3>3
    <3> QED BY <3>1, <3>2, <3>4 DEF QueueOK, Running
  <2> QED BY <1>3, <2>2, <2>3, <2>4 DEF NextChunk
<1>4. CASE SendReplays
  <2>1. pc' = pc /\ queue' = queue /\ sending' = sending /\ outcomes' = outcomes
    BY <1>4 DEF SendReplays, report
  <2> QED BY <2>1 DEF QueueOK, Running
<1>5. CASE SendEnds
  <2>0. pc = "send" /\ sending \in Chunk
    BY <1>5 DEF QueueOK, SendEnds, SendApplied, SendUnconfirmed, SendRefused,
                SendGatewayTimeout, SendTooLarge, SendThrottled, SendRaises
  <2>a. /\ queue \in Seq(Chunk) /\ InOrder(queue)
        /\ \A k \in 1..Len(queue) : sending.to <= queue[k].from
        /\ \A i \in Row : outcomes[i] = NA <=> i \in Rows(sending) \cup RowsIn(queue)
    BY <2>0 DEF TypeOK, QueueOK, Running
  <2>1. CASE SettledSomehow
    <3>1. PICK how \in {"applied", "unknown", "refused"} : Settled(how)
      BY <2>1 DEF SettledSomehow
    <3>2. how \in RowOutcome /\ how # NA
      BY <3>1 DEF RowOutcome, NA
    <3>3. pc' = "loop" /\ sending' = NoChunk /\ queue' = queue /\ Mark(Rows(sending), how)
      BY <3>1 DEF Settled
    <3>4. /\ \A i \in Row : i \in Rows(sending) => outcomes'[i] = how
          /\ \A i \in Row : i \notin Rows(sending) => outcomes'[i] = outcomes[i]
      BY <3>2, <3>3, MarkFacts
    <3>5. \A i \in Row : i \in Rows(sending) => i \notin RowsIn(queue)
      <4> SUFFICES ASSUME NEW i \in Row, i \in Rows(sending), i \in RowsIn(queue)
                   PROVE  FALSE
        OBVIOUS
      <4>1. i < i
        BY <2>0, <2>a, InFront
      <4>2. i \in Int
        BY DEF Row
      <4> QED BY <4>1, <4>2
    <3>6. \A i \in Row : outcomes'[i] = NA <=> i \in RowsIn(queue')
      BY <2>a, <3>2, <3>3, <3>4, <3>5
    <3>7. \A k \in 1..Len(queue') : sending'.to <= queue'[k].from
      BY <2>a, <3>3, NoChunkFacts, ChunkFacts
    <3>8. Rows(sending') = {}
      BY <3>3, NoChunkFacts
    <3>9. InOrder(queue')
      BY <2>a, <3>3
    <3> QED BY <3>3, <3>6, <3>7, <3>8, <3>9 DEF QueueOK, Running
  <2>2. CASE Halved
    <3>1. /\ queue' \in Seq(Chunk) /\ InOrder(queue')
          /\ RowsIn(queue') = Rows(sending) \cup RowsIn(queue)
      BY <2>2, HalvedQueue
    <3>2. pc' = "loop" /\ sending' = NoChunk /\ outcomes' = outcomes
      BY <2>2 DEF Halved
    <3>3. \A k \in 1..Len(queue') : sending'.to <= queue'[k].from
      BY <3>1, <3>2, NoChunkFacts, ChunkFacts
    <3>4. Rows(sending') = {}
      BY <3>2, NoChunkFacts
    <3>5. \A i \in Row : outcomes'[i] = NA <=> i \in Rows(sending') \cup RowsIn(queue')
      BY <2>a, <3>1, <3>2, <3>4
    <3> QED BY <3>1, <3>2, <3>3, <3>5 DEF QueueOK, Running
  <2>3. CASE SendThrottled
    BY <2>3, NotRunning DEF SendThrottled
  <2>4. CASE SendRaises
    BY <2>4, NotRunning DEF SendRaises
  <2> QED BY <1>5, <2>0, <2>1, <2>2, <2>3, <2>4, SendCases
<1>6. CASE Tick
  <2>1. pc' = pc /\ queue' = queue /\ sending' = sending /\ outcomes' = outcomes
    BY <1>6 DEF Tick, report
  <2> QED BY <2>1 DEF QueueOK, Running
<1>7. CASE UNCHANGED vars
  <2>1. pc' = pc /\ queue' = queue /\ sending' = sending /\ outcomes' = outcomes
    BY <1>7 DEF vars, report
  <2> QED BY <2>1 DEF QueueOK, Running
<1> QED BY <1>1, <1>p, <1>d, <1>2, <1>3, <1>4, <1>5, <1>6, <1>7 DEF Next

\* Every step keeps what the planner has made of the rows so far.
LEMMA PlanNext ==
  ASSUME TypeOK, PlanOK, [Next]_vars
  PROVE  PlanOK'
<1>1. ASSUME NEW i \in Row, NEW age \in 0..MaxTime, Call(i, age) PROVE PlanOK'
  <2>1. /\ queue' = << >> /\ current' = [from |-> i, to |-> i] /\ first' = i
        /\ batch' \in Batches /\ ~attempted' /\ sends' = 0
        /\ outcomes' = [j \in Row |-> IF j < i THEN outcomes[j] ELSE NA]
    BY <1>1 DEF Call, NA
  <2>2. i \in Int /\ i <= i /\ i < N
    BY SendChunksAssumption DEF Row
  <2>3. InOrder(queue') /\ RowsIn(queue') = {} /\ i..(i - 1) = {}
    BY <2>1, <2>2 DEF InOrder, RowsIn
  <2>4. \A j \in Row : outcomes[j] = NA => i <= j \/ pc = "idle"
    BY <1>1 DEF Call, ResumeFrom, Left, NA
  <2>5. pc = "idle" => i = 0
    BY <1>1 DEF Call
  <2>6. \A j \in Row : outcomes'[j] = NA <=> i <= j
    <3> SUFFICES ASSUME NEW j \in Row PROVE outcomes'[j] = NA <=> i <= j
      OBVIOUS
    <3>1. j \in Int /\ i \in Int /\ 0 <= j
      BY DEF Row
    <3>2. CASE j < i
      <4>1. outcomes'[j] = outcomes[j] /\ ~(i <= j)
        BY <2>1, <3>1, <3>2
      <4> QED BY <2>4, <2>5, <3>1, <4>1
    <3>3. CASE i <= j
      BY <2>1, <3>1, <3>3
    <3> QED BY <3>1, <3>2, <3>3
  <2>7. \A k \in 1..Len(queue') : queue'[k].to <= current'.from
    BY <2>1
  <2>8. RowsIn(queue') = first'..(current'.from - 1) /\ current'.to = i /\ current'.from = i
    BY <2>1, <2>3
  <2> QED BY <2>1, <2>2, <2>3, <2>6, <2>7, <2>8 DEF PlanOK
<1>2. CASE PlanRow
  <2>1. /\ InOrder(queue')
        /\ \A k \in 1..Len(queue') : queue'[k].to <= current'.from
        /\ RowsIn(queue') = first..(current'.from - 1)
        /\ first <= current'.from /\ current'.from <= current'.to
    BY <1>2, PlanRowFacts
  <2>2. /\ pc = "planning" /\ first' = first /\ outcomes' = outcomes /\ batch' = batch
        /\ attempted' = attempted /\ sends' = sends
    BY <1>2 DEF PlanRow, call, report
  <2> QED BY <2>1, <2>2 DEF PlanOK
<1>3. CASE Tick \/ UNCHANGED vars
  BY <1>3 DEF Tick, vars, call, plan, report, PlanOK
<1>4. CASE PlanDone \/ Return \/ NextChunk \/ SendReplays \/ SendEnds
  <2>1. pc' # "planning"
    BY <1>4 DEF PlanDone, Return, NextChunk, CloseGate, StartSend, SendReplays, SendEnds,
         SendApplied, SendUnconfirmed, SendRefused, SendGatewayTimeout, Settled,
         SendTooLarge, SendThrottled, SendRaises
  <2> QED BY <2>1 DEF PlanOK
<1> QED BY <1>1, <1>2, <1>3, <1>4 DEF Next

\* How a step may change the report: not at all, by a fresh one from row i
\* on, or by settling the chunk in flight.
LEMMA ReportSteps ==
  ASSUME TypeOK, QueueOK, [Next]_vars
  PROVE  \/ outcomes' = outcomes
         \/ \E i \in Row, age \in 0..MaxTime : Call(i, age)
         \/ SettledSomehow
<1>1. CASE NextChunk
  <2>1. CASE CloseGate
    BY <1>1, <2>1, GateKeepsReport DEF NextChunk
  <2>2. CASE StartSend
    BY <2>2 DEF StartSend
  <2> QED BY <1>1, <2>1, <2>2 DEF NextChunk
<1>2. CASE SendEnds
  <2>0. pc = "send" /\ sending \in Chunk
    BY <1>2 DEF QueueOK, SendEnds, SendApplied, SendUnconfirmed, SendRefused,
                SendGatewayTimeout, SendTooLarge, SendThrottled, SendRaises
  <2>1. CASE Halved
    BY <2>1 DEF Halved
  <2>2. CASE SendThrottled
    BY <2>2, UnmarkedStay DEF SendThrottled, Running, NA
  <2>3. CASE SendRaises
    BY <2>3 DEF SendRaises, report
  <2> QED BY <1>2, <2>0, <2>1, <2>2, <2>3, SendCases
<1>3. CASE Return \/ SendReplays \/ Tick \/ UNCHANGED vars
  BY <1>3 DEF Return, SendReplays, Tick, vars, report
<1>4. CASE Planner
  BY <1>4, PlannerKeeps DEF report
<1> QED BY <1>1, <1>2, <1>3, <1>4 DEF Next, Planner

\* Every step keeps the untried rows a suffix.
LEMMA SuffixNext ==
  ASSUME TypeOK, QueueOK, NotAttemptedIsSuffix, [Next]_vars
  PROVE  NotAttemptedIsSuffix'
<1> SUFFICES ASSUME NEW i \in Row, NEW j \in Row, i <= j, outcomes'[i] = NA
             PROVE  outcomes'[j] = NA
  BY DEF NotAttemptedIsSuffix, NA
<1>a. i \in Int /\ j \in Int
  BY DEF Row
<1>b. outcomes[i] = NA => outcomes[j] = NA
  BY DEF NotAttemptedIsSuffix, NA
<1>1. CASE outcomes' = outcomes
  BY <1>1, <1>b
<1>2. ASSUME NEW r \in Row, NEW age \in 0..MaxTime, Call(r, age)
      PROVE  outcomes'[j] = NA
  <2>1. outcomes' = [k \in Row |-> IF k < r THEN outcomes[k] ELSE NA]
    BY <1>2 DEF Call, NA
  <2>2. CASE i < r
    <3>1. outcomes[i] = NA
      BY <2>1, <2>2
    <3>2. r = 0 \/ r <= i
      BY <1>2, <3>1 DEF Call, ResumeFrom, Left, NA
    <3>3. r \in Nat /\ 0 <= i
      BY DEF Row
    <3> QED BY <1>a, <2>2, <3>2, <3>3
  <2>3. CASE ~(i < r)
    <3>1. ~(j < r)
      BY <1>a, <2>3 DEF Row
    <3> QED BY <2>1, <3>1
  <2> QED BY <2>2, <2>3
<1>3. CASE SettledSomehow
  <2>1. PICK how \in {"applied", "unknown", "refused"} : Settled(how)
    BY <1>3 DEF SettledSomehow
  <2>2. how \in RowOutcome /\ how # NA /\ Mark(Rows(sending), how)
    BY <2>1 DEF RowOutcome, NA, Settled
  <2>3. /\ \A k \in Row : k \in Rows(sending) => outcomes'[k] = how
        /\ \A k \in Row : k \notin Rows(sending) => outcomes'[k] = outcomes[k]
    BY <2>2, MarkFacts
  <2>4. i \notin Rows(sending) /\ outcomes[i] = NA /\ outcomes[j] = NA
    BY <1>b, <2>2, <2>3
  <2>5. /\ pc = "send" /\ sending \in Chunk /\ queue \in Seq(Chunk)
        /\ \A k \in 1..Len(queue) : sending.to <= queue[k].from
        /\ i \in RowsIn(queue)
    BY <1>3, <2>4 DEF SettledSomehow, QueueOK, Running, TypeOK
  <2>6. j \notin Rows(sending)
    <3> SUFFICES ASSUME j \in Rows(sending) PROVE FALSE
      OBVIOUS
    <3>1. j < i
      BY <2>5, InFront
    <3> QED BY <1>a, <3>1
  <2> QED BY <2>3, <2>4, <2>6
<1> QED BY <1>1, <1>2, <1>3, ReportSteps

-----------------------------------------------------------------------------
(* What reached the server, the gate, and the number of sends.              *)

\* Every step keeps the reports of an unkeyed batch true.
LEMMA ReachNext ==
  ASSUME TypeOK, IdleOK, QueueOK, NotAttemptedIsSuffix, ReachOK, [Next]_vars
  PROVE  ReachOK'
<1> SUFFICES ASSUME ~keyed', NEW i \in Row
             PROVE  /\ reached'[i] <= 1
                    /\ pc' # "raised" /\ outcomes'[i] = NA => reached'[i] = 0
                    /\ outcomes'[i] \in {"applied", "unknown"} => reached'[i] = 1
  BY DEF ReachOK
<1>a. keyed' = keyed
  BY DEF Next, vars, call, plan, Call, PlanRow, PlanDone, Return, NextChunk, SendReplays, SendEnds,
         SendApplied, SendUnconfirmed, SendRefused, SendGatewayTimeout, Settled,
         SendTooLarge, SendThrottled, SendRaises, Tick
<1>b. /\ reached[i] <= 1
      /\ pc # "raised" /\ outcomes[i] = NA => reached[i] = 0
      /\ outcomes[i] \in {"applied", "unknown"} => reached[i] = 1
  BY <1>a DEF ReachOK
<1>1. ASSUME NEW r \in Row, NEW age \in 0..MaxTime, Call(r, age)
      PROVE  /\ reached'[i] <= 1
             /\ pc' # "raised" /\ outcomes'[i] = NA => reached'[i] = 0
             /\ outcomes'[i] \in {"applied", "unknown"} => reached'[i] = 1
  <2>1. /\ pc # "raised" /\ reached' = reached
        /\ outcomes' = [k \in Row |-> IF k < r THEN outcomes[k] ELSE NA]
    BY <1>1 DEF Call, NA
  <2>2. CASE i < r
    BY <1>b, <2>1, <2>2
  <2>3. CASE ~(i < r)
    <3>1. outcomes'[i] = NA
      BY <2>1, <2>3
    <3>2. outcomes[i] = NA
      <4>1. CASE pc = "idle"
        <5>1. \A k \in Row : outcomes[k] = NA
          BY <4>1 DEF IdleOK
        <5> QED BY <5>1
      <4>2. CASE pc = "returned"
        <5>1. r \in Row /\ outcomes[r] = NA /\ r <= i
          BY <1>1, <2>3, <4>2 DEF Call, ResumeFrom, Left, NA, Row
        <5> QED BY <5>1 DEF NotAttemptedIsSuffix, NA
      <4> QED BY <1>1, <4>1, <4>2 DEF Call
    <3> QED BY <1>b, <2>1, <3>1, <3>2 DEF NA
  <2> QED BY <2>2, <2>3
<1>2. CASE SettledSomehow
  <2>1. PICK how \in {"applied", "unknown", "refused"} :
          /\ Settled(how)
          /\ Reach(Rows(sending)) \/ (how = "refused" /\ UNCHANGED reached)
    BY <1>2 DEF SettledSomehow
  <2>2. how \in RowOutcome /\ how # NA /\ Mark(Rows(sending), how)
    BY <2>1 DEF RowOutcome, NA, Settled
  <2>3. /\ i \in Rows(sending) => outcomes'[i] = how
        /\ i \notin Rows(sending) => outcomes'[i] = outcomes[i]
    BY <2>2, MarkFacts
  <2>4. pc = "send" /\ Running
    BY <1>2 DEF SettledSomehow, Running
  <2>5. i \in Rows(sending) => reached[i] = 0
    BY <1>b, <2>4 DEF QueueOK
  <2>6. CASE Reach(Rows(sending))
    <3>1. /\ i \in Rows(sending) => reached'[i] = reached[i] + 1
          /\ i \notin Rows(sending) => reached'[i] = reached[i]
      BY <2>6, ReachFacts
    <3>2. CASE i \in Rows(sending)
      <4>1. reached'[i] = 1 /\ outcomes'[i] = how
        BY <2>3, <2>5, <3>1, <3>2
      <4> QED BY <2>2, <4>1
    <3>3. CASE i \notin Rows(sending)
      BY <1>b, <2>3, <2>4, <3>1, <3>3
    <3> QED BY <3>2, <3>3
  <2>7. CASE how = "refused" /\ UNCHANGED reached
    <3>1. CASE i \in Rows(sending)
      <4>1. reached'[i] = 0 /\ outcomes'[i] = "refused"
        BY <2>3, <2>5, <2>7, <3>1
      <4> QED BY <4>1 DEF NA
    <3>2. CASE i \notin Rows(sending)
      BY <1>b, <2>3, <2>4, <2>7, <3>2
    <3> QED BY <3>1, <3>2
  <2> QED BY <2>1, <2>6, <2>7
<1>3. CASE SendRaises
  <2>1. pc = "send" /\ Running /\ pc' = "raised" /\ outcomes' = outcomes
    BY <1>3 DEF SendRaises, report, Running
  <2>2. CASE Reach(Rows(sending))
    <3>1. /\ i \in Rows(sending) => reached'[i] = reached[i] + 1
          /\ i \notin Rows(sending) => reached'[i] = reached[i]
      BY <2>2, ReachFacts
    <3>2. i \in Rows(sending) => reached[i] = 0 /\ outcomes[i] = NA
      BY <1>b, <2>1 DEF QueueOK
    <3>3. CASE i \in Rows(sending)
      <4>1. reached'[i] = 1 /\ outcomes'[i] = NA
        BY <2>1, <3>1, <3>2, <3>3
      <4> QED BY <2>1, <4>1
    <3>4. CASE i \notin Rows(sending)
      BY <1>b, <2>1, <3>1, <3>4
    <3> QED BY <3>3, <3>4
  <2>3. CASE UNCHANGED reached
    BY <1>b, <2>1, <2>3
  <2> QED BY <1>3, <2>2, <2>3 DEF SendRaises
<1>4. CASE Halved \/ SendThrottled \/ Return \/ NextChunk \/ Tick \/ UNCHANGED vars
  <2>1. reached' = reached
    BY <1>4 DEF Halved, SendThrottled, Return, NextChunk, Tick, vars
  <2>2. pc' # "raised" => pc # "raised"
    BY <1>4 DEF Halved, SendThrottled, Return, NextChunk, Tick, vars
  <2>3. outcomes' = outcomes
    <3>1. CASE SendThrottled
      BY <3>1, UnmarkedStay DEF SendThrottled, Running, NA
    <3>2. CASE NextChunk /\ CloseGate
      BY <3>2, GateKeepsReport DEF NextChunk
    <3>3. CASE NextChunk /\ StartSend
      BY <3>3 DEF StartSend
    <3>4. CASE Halved \/ Return \/ Tick \/ UNCHANGED vars
      BY <3>4 DEF Halved, Return, Tick, vars, report
    <3> QED BY <1>4, <3>1, <3>2, <3>3, <3>4 DEF NextChunk
  <2> QED BY <1>b, <2>1, <2>2, <2>3
<1>5. CASE SendReplays
  BY <1>5, <1>a DEF SendReplays
<1>7. CASE Planner
  <2>1. reached' = reached /\ outcomes' = outcomes /\ pc # "raised" /\ pc' # "raised"
    BY <1>7, PlannerKeeps DEF report
  <2> QED BY <1>b, <2>1
<1>6. CASE SendEnds
  <2>1. sending \in Chunk
    BY <1>6 DEF QueueOK, SendEnds, SendApplied, SendUnconfirmed, SendRefused,
                SendGatewayTimeout, SendTooLarge, SendThrottled, SendRaises
  <2> QED BY <1>2, <1>3, <1>4, <1>6, <2>1, SendCases
<1> QED BY <1>1, <1>4, <1>5, <1>6, <1>7 DEF Next, Planner

\* Every step keeps the gate's promise.
LEMMA GateNext ==
  ASSUME TypeOK, QueueOK, GateOK, [Next]_vars
  PROVE  GateOK'
<1>1. ASSUME NEW i \in Row, NEW age \in 0..MaxTime, Call(i, age) PROVE GateOK'
  BY <1>1 DEF Call, GateOK, DeadDeadlineLosesNothing
<1>2. CASE Return
  BY <1>2 DEF Return, GateOK, DeadDeadlineLosesNothing, report
<1>3. CASE NextChunk
  <2>1. CASE CloseGate
    BY <1>3, <2>1 DEF NextChunk, CloseGate, GateOK, DeadDeadlineLosesNothing
  <2>2. CASE StartSend /\ Expired(started, now)
    <3>1. ~(attempted /\ ~CanAfford(started, now, ChunkCost)) \/ CloseGate
      BY <1>3 DEF NextChunk
    <3>2. pc' = "raised" /\ sends' = sends /\ pc = "loop"
      BY <1>3, <2>2 DEF NextChunk, StartSend
    <3>3. ~CloseGate
      BY <3>2 DEF CloseGate
    <3>4. ~attempted
      BY <2>2, <3>1, <3>3, GateIsEnough
    <3> QED BY <3>2, <3>4 DEF GateOK, DeadDeadlineLosesNothing
  <2>3. CASE StartSend /\ ~Expired(started, now)
    BY <1>3, <2>3 DEF NextChunk, StartSend, GateOK, DeadDeadlineLosesNothing
  <2> QED BY <1>3, <2>1, <2>2, <2>3 DEF NextChunk
<1>4. CASE SendReplays
  BY <1>4 DEF SendReplays, GateOK, DeadDeadlineLosesNothing, report
<1>5. CASE SendEnds
  <2>0. pc = "send" /\ sending \in Chunk
    BY <1>5 DEF QueueOK, SendEnds, SendApplied, SendUnconfirmed, SendRefused,
                SendGatewayTimeout, SendTooLarge, SendThrottled, SendRaises
  <2>1. CASE SettledSomehow
    BY <2>0, <2>1 DEF SettledSomehow, Settled, GateOK, DeadDeadlineLosesNothing
  <2>2. CASE Halved
    BY <2>0, <2>2 DEF Halved, Halve, GateOK, DeadDeadlineLosesNothing
  <2>3. CASE SendThrottled
    BY <2>0, <2>3 DEF SendThrottled, GateOK, DeadDeadlineLosesNothing
  <2>4. CASE SendRaises
    BY <2>0, <2>4 DEF SendRaises, GateOK, DeadDeadlineLosesNothing
  <2> QED BY <1>5, <2>0, <2>1, <2>2, <2>3, <2>4, SendCases
<1>6. CASE Tick
  BY <1>6 DEF Tick, GateOK, DeadDeadlineLosesNothing, report
<1>7. CASE UNCHANGED vars
  BY <1>7 DEF vars, GateOK, DeadDeadlineLosesNothing, report
<1>8. CASE Planner
  <2>1. /\ sends' = sends /\ attempted' = attempted /\ lastWords' = lastWords
        /\ pc = "planning" /\ pc' \in {"planning", "loop"}
    BY <1>8, PlannerKeeps DEF report
  <2> QED BY <2>1 DEF GateOK, DeadDeadlineLosesNothing
<1> QED BY <1>1, <1>2, <1>3, <1>4, <1>5, <1>6, <1>7, <1>8 DEF Next, Planner

\* The queue never holds more chunks than rows from its front on.
LEMMA FrontFacts ==
  ASSUME NEW q \in Seq(Chunk), InOrder(q), NEW f,
         f = IF q = << >> THEN N ELSE q[1].from
  PROVE  f \in Nat /\ f <= N /\ Len(q) \in Nat /\ Len(q) <= N - f
<1>1. CASE q = << >>
  BY <1>1, SendChunksAssumption
<1>2. CASE q # << >>
  <2>1. q[1] \in Chunk
    BY <1>2
  <2>2. q[1].from \in Nat /\ q[1].to \in Nat /\ q[1].from < q[1].to /\ q[1].to <= N
    BY <2>1, ChunkFacts
  <2>3. Len(q) <= N - q[1].from
    BY <1>2, OrderBoundsLength
  <2>4. N \in Nat
    BY SendChunksAssumption
  <2> QED BY <1>2, <2>2, <2>3, <2>4
<1> QED BY <1>1, <1>2

\* Every step keeps the bound on the sends.
LEMMA CostNext ==
  ASSUME TypeOK, PlanOK, QueueOK, CostOK, [Next]_vars
  PROVE  CostOK'
<1>a. /\ N \in Nat /\ first \in Nat /\ first <= N /\ sends \in Nat
      /\ queue \in Seq(Chunk) /\ Len(queue) \in Nat
  <2>1. queue \in Seq(Chunk)
    BY DEF TypeOK
  <2>2. Len(queue) \in Nat
    BY <2>1
  <2> QED BY <2>1, <2>2, NumberFacts
<1>1. ASSUME NEW i \in Row, NEW age \in 0..MaxTime, Call(i, age) PROVE CostOK'
  <2>1. sends' = 0 /\ pc' = "planning"
    BY <1>1 DEF Call
  <2> QED BY <2>1 DEF CostOK, SendsAreBounded
<1>p. CASE PlanRow
  <2>1. sends' = sends /\ pc = "planning" /\ pc' = "planning"
    BY <1>p DEF PlanRow
  <2>2. sends' = 0
    BY <2>1 DEF CostOK
  <2> QED BY <2>1, <2>2 DEF CostOK, SendsAreBounded
<1>d. CASE PlanDone
  <2>1. /\ queue' \in Seq(Chunk) /\ InOrder(queue') /\ RowsIn(queue') = first..(N - 1)
        /\ first' = first /\ sends' = 0 /\ pc' = "loop"
    BY <1>d, PlanFacts DEF PlanDone, call, CostOK
  <2>2. first \in Nat /\ first <= N - 1
    BY <1>a, <1>d DEF PlanDone, PlanOK
  <2>3. 2 * (N - Front') - Len(queue') <= 2 * (N - first) - 1
    <3>1. CASE queue' = << >>
      <4>1. Front' = N /\ Len(queue') = 0
        BY <3>1 DEF Front
      <4> QED BY <1>a, <2>2, <4>1
    <3>2. CASE queue' # << >>
      <4>1. Front' = queue'[1].from /\ Len(queue') \in Nat \ {0} /\ queue'[1] \in Chunk
        BY <2>1, <3>2 DEF Front
      <4>2. /\ queue'[1].from \in Nat /\ queue'[1].to \in Nat
            /\ queue'[1].from < queue'[1].to /\ queue'[1].to <= N
        BY <4>1, ChunkFacts
      <4>3. queue'[1].from \in Rows(queue'[1])
        BY <4>2 DEF Rows
      <4>4. 1 \in 1..Len(queue')
        BY <4>1
      <4>5. queue'[1].from \in RowsIn(queue')
        BY <4>3, <4>4 DEF RowsIn
      <4>6. first <= queue'[1].from
        BY <2>1, <4>5
      <4> QED BY <1>a, <2>2, <4>1, <4>2, <4>6
    <3> QED BY <3>1, <3>2
  <2>4. sends' + 2 * (N - Front') - Len(queue') = 2 * (N - Front') - Len(queue')
    <3>1. Front' \in Nat /\ Len(queue') \in Nat
      BY <2>1, FrontFacts DEF Front
    <3> QED BY <1>a, <2>1, <3>1
  <2> QED BY <2>1, <2>3, <2>4 DEF CostOK, SendsAreBounded
<1>2. CASE NextChunk
  <2>1. /\ pc = "loop" /\ queue # << >> /\ queue' = Tail(queue) /\ InOrder(queue)
        /\ first' = first /\ sending = NoChunk
    BY <1>2 DEF NextChunk, QueueOK, Running, call, plan
  <2>2. CASE pc' # "send"
    <3>1. pc' \in {"returned", "raised"} /\ sends' = sends
      BY <1>2, <2>2 DEF NextChunk, CloseGate, StartSend
    <3> QED BY <2>1, <3>1 DEF CostOK, SendsAreBounded
  <2>3. CASE pc' = "send"
    <3>1. /\ sending' = Head(queue) /\ sends' \in {sends, sends + 1}
      BY <1>2, <2>3 DEF NextChunk, CloseGate, StartSend
    <3>2. /\ sending' = queue[1] /\ sending' \in Chunk
          /\ queue' \in Seq(Chunk) /\ Len(queue') = Len(queue) - 1
          /\ InOrder(queue')
          /\ \A k \in 1..Len(queue') : sending'.to <= queue'[k].from
      BY <1>a, <2>1, <3>1, TailFacts
    <3>3. /\ sending'.from \in Nat /\ sending'.to \in Nat
          /\ sending'.from < sending'.to /\ sending'.to <= N
      BY <3>2, ChunkFacts
    <3>4. Front = sending'.from
      BY <2>1, <3>2 DEF Front
    <3>5. sends + 2 * (N - sending'.from) - Len(queue) <= 2 * (N - first) - 1
      BY <2>1, <3>4 DEF CostOK
    <3>6. sends' + 2 * (N - sending'.from) - 2 - Len(queue') <= 2 * (N - first) - 1
      BY <1>a, <3>1, <3>2, <3>3, <3>5
    <3>7. Len(queue') \in Nat /\ Len(queue') <= N - sending'.from - 1
      <4>1. CASE queue' = << >>
        BY <1>a, <3>3, <4>1
      <4>2. CASE queue' # << >>
        <5>1. /\ Len(queue') <= N - queue'[1].from
              /\ Len(queue') \in Nat \ {0} /\ queue'[1] \in Chunk
          BY <3>2, <4>2, OrderBoundsLength
        <5>2. sending'.to <= queue'[1].from /\ queue'[1].from \in Nat
          BY <3>2, <5>1, ChunkFacts
        <5> QED BY <1>a, <3>3, <5>1, <5>2
      <4> QED BY <4>1, <4>2
    <3>8. sends' <= 2 * (N - first) - 1
      <4>1. 2 * (N - sending'.from) - 2 - Len(queue') >= 0
        BY <1>a, <3>3, <3>7
      <4>2. sends' \in Nat
        BY <1>a, <3>1
      <4> QED BY <1>a, <3>3, <3>6, <3>7, <4>1, <4>2
    <3> QED BY <2>1, <2>3, <3>6, <3>8 DEF CostOK, SendsAreBounded
  <2> QED BY <2>2, <2>3
<1>3. CASE SendEnds
  <2>0. pc = "send" /\ sending \in Chunk
    BY <1>3 DEF QueueOK, SendEnds, SendApplied, SendUnconfirmed, SendRefused,
                SendGatewayTimeout, SendTooLarge, SendThrottled, SendRaises
  <2>a. /\ InOrder(queue)
        /\ \A k \in 1..Len(queue) : sending.to <= queue[k].from
        /\ sends + 2 * (N - sending.from) - 2 - Len(queue) <= 2 * (N - first) - 1
    BY <2>0 DEF QueueOK, Running, CostOK
  <2>b. /\ sending.from \in Nat /\ sending.to \in Nat
        /\ sending.from < sending.to /\ sending.to <= N
    BY <2>0, ChunkFacts
  <2>1. CASE SettledSomehow
    <3>1. pc' = "loop" /\ queue' = queue /\ sends' = sends /\ first' = first
      BY <2>1 DEF SettledSomehow, Settled, call, plan
    <3>2. Front' = Front
      BY <3>1 DEF Front
    <3>3. Front \in Nat /\ Front <= N
      BY <1>a, <2>a, FrontFacts DEF Front
    <3>4. sending.to <= Front
      <4>1. CASE queue = << >>
        BY <2>b, <4>1 DEF Front
      <4>2. CASE queue # << >>
        BY <1>a, <2>a, <4>2 DEF Front
      <4> QED BY <4>1, <4>2
    <3>5. sends + 2 * (N - Front) - Len(queue) <= 2 * (N - first) - 1
      BY <1>a, <2>a, <2>b, <3>3, <3>4
    <3> QED BY <3>1, <3>2, <3>5 DEF CostOK, SendsAreBounded
  <2>2. CASE Halved
    <3>1. /\ Len(queue') = Len(queue) + 2 /\ queue'[1].from = sending.from
          /\ queue' \in Seq(Chunk)
      BY <2>2, HalvedQueue
    <3>2. pc' = "loop" /\ sends' = sends /\ first' = first
      BY <2>2 DEF Halved, call, plan
    <3>3. Front' = sending.from
      <4>1. queue' # << >>
        BY <1>a, <3>1
      <4> QED BY <3>1, <4>1 DEF Front
    <3>4. sends + 2 * (N - sending.from) - Len(queue') <= 2 * (N - first) - 1
      BY <1>a, <2>a, <2>b, <3>1
    <3> QED BY <3>2, <3>3, <3>4 DEF CostOK, SendsAreBounded
  <2>3. CASE SendThrottled \/ SendRaises
    <3>1. pc' \in {"returned", "raised"} /\ sends' = sends /\ first' = first
      BY <2>3 DEF SendThrottled, SendRaises, call, plan
    <3> QED BY <3>1 DEF CostOK, SendsAreBounded
  <2> QED BY <1>3, <2>0, <2>1, <2>2, <2>3, SendCases
<1>4. CASE Return
  BY <1>4 DEF Return, CostOK, SendsAreBounded, call, plan
<1>5. CASE SendReplays \/ Tick \/ UNCHANGED vars
  <2>1. /\ pc' = pc /\ sends' = sends /\ first' = first /\ queue' = queue
        /\ sending' = sending
    BY <1>5 DEF SendReplays, Tick, vars, call, plan
  <2> QED BY <2>1 DEF CostOK, SendsAreBounded, Front
<1> QED BY <1>1, <1>p, <1>d, <1>2, <1>3, <1>4, <1>5 DEF Next

-----------------------------------------------------------------------------
(* The theorems.                                                            *)

\* The invariant holds from the start and in every step.
LEMMA InitIInv == Init => IInv /\ CostOK
<1> SUFFICES ASSUME Init PROVE IInv /\ CostOK
  OBVIOUS
<1>1. TypeOK
  BY TypeInit
<1>2. /\ IdleOK /\ PlanOK /\ QueueOK /\ NotAttemptedIsSuffix /\ ReachOK /\ GateOK
      /\ CostOK /\ RowIdsAreTheirOwn /\ FitsOK /\ CutsOK
  BY DEF Init, FitsOK, CutsOK, IdleOK, PlanOK, QueueOK, Running, NotAttemptedIsSuffix, ReachOK, GateOK,
         DeadDeadlineLosesNothing, CostOK, SendsAreBounded, RowIdsAreTheirOwn, NA
<1> QED BY <1>1, <1>2 DEF IInv

LEMMA IdleNext ==
  ASSUME IdleOK, [Next]_vars
  PROVE  IdleOK'
BY DEF IdleOK, Next, PlanRow, PlanDone, vars, report, Call, Return, NextChunk, CloseGate, StartSend,
       SendReplays, SendEnds, SendApplied, SendUnconfirmed, SendRefused,
       SendGatewayTimeout, Settled, SendTooLarge, SendThrottled, SendRaises, Tick

\* Every step keeps the planner's knowledge, and a new plan begins with none.
LEMMA CutsNext ==
  ASSUME TypeOK, PlanOK, FitsOK, CutsOK, [Next]_vars
  PROVE  FitsOK' /\ CutsOK'
<1>1. ASSUME NEW i \in Row, NEW age \in 0..MaxTime, Call(i, age) PROVE FitsOK' /\ CutsOK'
  <2>1. queue' = << >> /\ current' = [from |-> i, to |-> i]
    BY <1>1 DEF Call
  <2>2. i \in Int
    BY DEF Row
  <2>3. Size(current') = 0 /\ Rows(current') = {}
    BY <2>1, <2>2 DEF Size, Rows
  <2> QED BY <2>1, <2>3 DEF FitsOK, CutsOK, Fits
<1>2. CASE PlanRow
  BY <1>2, PlanRowFits, PlanRowCuts
<1>3. CASE Tick \/ UNCHANGED vars
  <2>1. pc' = pc /\ queue' = queue /\ current' = current /\ batch' = batch
    BY <1>3 DEF Tick, vars, plan
  <2> QED BY <2>1 DEF FitsOK, CutsOK, Fits, Cause
<1>4. CASE PlanDone \/ Return \/ NextChunk \/ SendReplays \/ SendEnds
  <2>1. pc' # "planning"
    BY <1>4 DEF PlanDone, Return, NextChunk, CloseGate, StartSend, SendReplays, SendEnds,
         SendApplied, SendUnconfirmed, SendRefused, SendGatewayTimeout, Settled,
         SendTooLarge, SendThrottled, SendRaises
  <2> QED BY <2>1 DEF FitsOK, CutsOK
<1> QED BY <1>1, <1>2, <1>3, <1>4 DEF Next

\* Every step keeps the ids with the rows they belong to.
LEMMA IdsNext ==
  ASSUME TypeOK, QueueOK, RowIdsAreTheirOwn, [Next]_vars
  PROVE  RowIdsAreTheirOwn'
<1> SUFFICES ASSUME NEW i \in Row, filed'[i] # NoRow
             PROVE  filed'[i] = i /\ outcomes'[i] \in {"applied", "unknown"}
  BY DEF RowIdsAreTheirOwn
<1>a. filed[i] # NoRow => filed[i] = i /\ outcomes[i] \in {"applied", "unknown"}
  BY DEF RowIdsAreTheirOwn
<1>1. CASE filed' = filed /\ outcomes' = outcomes
  BY <1>1, <1>a
<1>2. ASSUME NEW r \in Row, NEW age \in 0..MaxTime, Call(r, age) PROVE FALSE
  BY <1>2 DEF Call
<1>3. CASE SettledSomehow
  <2>1. PICK how \in {"applied", "unknown", "refused"} :
          /\ Settled(how)
          /\ \/ how \in {"applied", "unknown"} /\ FileSomeIds
             \/ UNCHANGED filed
    BY <1>3 DEF SettledSomehow
  <2>2. how \in RowOutcome /\ Mark(Rows(sending), how)
    BY <2>1 DEF RowOutcome, Settled
  <2>3. /\ i \in Rows(sending) => outcomes'[i] = how
        /\ i \notin Rows(sending) => outcomes'[i] = outcomes[i]
    BY <2>2, MarkFacts
  <2>4. i \in Rows(sending) => filed[i] = NoRow
    BY <1>3, <1>a DEF SettledSomehow, QueueOK, Running, NA
  <2>5. CASE UNCHANGED filed
    <3>1. i \notin Rows(sending)
      BY <2>4, <2>5
    <3> QED BY <1>a, <2>3, <2>5, <3>1
  <2>6. CASE how \in {"applied", "unknown"} /\ FileSomeIds
    <3>1. sending \in Chunk
      BY <1>3 DEF SettledSomehow, QueueOK
    <3>2. /\ i \in Rows(sending) => filed'[i] \in {filed[i], i}
          /\ i \notin Rows(sending) => filed'[i] = filed[i]
      BY <2>6, <3>1, FiledFacts
    <3>3. CASE i \in Rows(sending)
      BY <2>3, <2>4, <2>6, <3>2, <3>3
    <3>4. CASE i \notin Rows(sending)
      BY <1>a, <2>3, <3>2, <3>4
    <3> QED BY <3>3, <3>4
  <2> QED BY <2>1, <2>5, <2>6
<1>4. SettledSomehow \/ filed' = filed \/ \E r \in Row, age \in 0..MaxTime : Call(r, age)
  <2>1. CASE SendEnds
    <3>1. sending \in Chunk
      BY <2>1 DEF QueueOK, SendEnds, SendApplied, SendUnconfirmed, SendRefused,
                  SendGatewayTimeout, SendTooLarge, SendThrottled, SendRaises
    <3> QED BY <2>1, <3>1, SendCases DEF Halved, SendThrottled, SendRaises
  <2>2. CASE Planner
    BY <2>2, PlannerKeeps
  <2>3. CASE Return \/ NextChunk \/ SendReplays \/ Tick \/ UNCHANGED vars
    BY <2>3 DEF Return, NextChunk, SendReplays, Tick, vars
  <2> QED BY <2>1, <2>2, <2>3 DEF Next, Planner
<1> QED BY <1>1, <1>2, <1>3, <1>4, ReportSteps

LEMMA NextIInv == (IInv /\ CostOK) /\ [Next]_vars => (IInv /\ CostOK)'
BY TypeNext, IdleNext, PlanNext, CutsNext, IdsNext, QueueNext, SuffixNext, ReachNext, GateNext, CostNext DEF IInv

LEMMA Inductive == Spec => [](IInv /\ CostOK)
BY InitIInv, NextIInv, PTL DEF Spec

\* TypeOK: every variable keeps its type.
THEOREM TypeCorrect == Spec => []TypeOK
<1>1. IInv /\ CostOK => TypeOK
  BY DEF IInv
<1> QED BY <1>1, Inductive, PTL

\* NotAttemptedIsSuffix: for any list, plan, sequence of refusals, halvings
\* and resumed calls, one index says what is left (BatchReport.resume_from).
THEOREM SuffixLeft == Spec => []NotAttemptedIsSuffix
<1>1. IInv /\ CostOK => NotAttemptedIsSuffix
  BY DEF IInv
<1> QED BY <1>1, Inductive, PTL

\* UnkeyedRowsReachOnce: no row of an unkeyed batch is sent again once it may
\* be in the table.
THEOREM NoDuplicateRows == Spec => []UnkeyedRowsReachOnce
<1>1. IInv /\ CostOK => UnkeyedRowsReachOnce
  BY DEF IInv, ReachOK, UnkeyedRowsReachOnce
<1> QED BY <1>1, Inductive, PTL

\* ReportIsTrue: what a returned report says of an unkeyed batch happened.
THEOREM TrueReports == Spec => []ReportIsTrue
<1>1. IInv /\ CostOK => ReportIsTrue
  BY DEF IInv, ReachOK, ReportIsTrue, NA
<1> QED BY <1>1, Inductive, PTL

\* SendsAreBounded: a call makes fewer than two sends for each of its rows.
THEOREM HalvingIsBounded == Spec => []SendsAreBounded
<1>1. IInv /\ CostOK => SendsAreBounded
  BY DEF CostOK
<1> QED BY <1>1, Inductive, PTL

\* DeadDeadlineLosesNothing: a dead deadline raises only before the first
\* send of a call.
THEOREM GateComesFirst == Spec => []DeadDeadlineLosesNothing
<1>1. IInv /\ CostOK => DeadDeadlineLosesNothing
  BY DEF IInv, GateOK
<1> QED BY <1>1, Inductive, PTL

\* RowIdsAreTheirOwn: whatever is halved, an id is filed with its own row.
THEOREM IdsStayWithTheirRows == Spec => []RowIdsAreTheirOwn
<1>1. IInv /\ CostOK => RowIdsAreTheirOwn
  BY DEF IInv
<1> QED BY <1>1, Inductive, PTL

\* PlanIsSendable: a finished plan carries the rows of the call in order, and
\* only a chunk of one row may break a cap.
THEOREM PlansAreSendable == Spec => PlanIsSendable
<1>1. IInv /\ CostOK /\ [Next]_vars =>
      [PlanDone =>
         /\ InOrder(queue')
         /\ RowsIn(queue') = first..(N - 1)
         /\ \A k \in 1..Len(queue') : Size(queue'[k]) > 1 =>
              /\ Size(queue'[k]) <= MaxRows(batch)
              /\ \A i \in Rows(queue'[k]) : ~HeavyRow(batch, i)
              /\ Wire(batch, queue'[k]) <= MaxRequestBytes]_vars
  <2> SUFFICES ASSUME IInv, PlanDone
               PROVE  /\ InOrder(queue')
                      /\ RowsIn(queue') = first..(N - 1)
                      /\ \A k \in 1..Len(queue') : Fits(queue'[k])
    BY DEF Fits
  <2>1. InOrder(queue') /\ RowsIn(queue') = first..(N - 1)
    BY PlanFacts DEF IInv
  <2>2. \A k \in 1..Len(Flushed) : Fits(Flushed[k])
    BY FlushKeepsFits DEF IInv, PlanDone
  <2> QED BY <2>1, <2>2 DEF PlanDone
<1> QED BY <1>1, Inductive, PTL DEF Spec, PlanIsSendable

\* NoNeedlessCut: every cut of a finished plan has its cause.
THEOREM CutsHaveCauses == Spec => NoNeedlessCut
<1>1. IInv /\ CostOK /\ [Next]_vars =>
      [PlanDone => \A k \in 1..(Len(queue') - 1) : Cause(queue'[k])]_vars
  <2> SUFFICES ASSUME IInv, PlanDone
               PROVE  \A k \in 1..(Len(queue') - 1) : Cause(queue'[k])
    OBVIOUS
  <2> QED BY FlushKeepsCauses DEF IInv, PlanDone
<1> QED BY <1>1, Inductive, PTL DEF Spec, NoNeedlessCut

-----------------------------------------------------------------------------
(* The refinement of Batch.                                                 *)

\* The chunk in flight is the run of untried rows in front of its end.
LEMMA InFlightIsARun ==
  ASSUME IInv, pc = "send"
  PROVE  /\ sending \in Chunk /\ sending.to \in 0..N
         /\ Rows(sending) = Contract!Run(sending.to)
<1>1. /\ sending \in Chunk /\ queue \in Seq(Chunk)
      /\ \A k \in 1..Len(queue) : sending.to <= queue[k].from
      /\ \A i \in Row : outcomes[i] = NA <=> i \in Rows(sending) \cup RowsIn(queue)
  BY DEF IInv, TypeOK, QueueOK, Running
<1>2. /\ sending.from \in Nat /\ sending.to \in Nat /\ sending.to <= N /\ N \in Nat
  BY <1>1, ChunkFacts, SendChunksAssumption
<1>3. ASSUME NEW i \in Rows(sending) PROVE i \in Contract!Run(sending.to)
  <2>1. i \in Row /\ i < sending.to
    BY <1>2 DEF Rows, Row
  <2>2. outcomes[i] = "not_attempted"
    BY <1>1, <2>1 DEF NA
  <2> QED BY <2>1, <2>2 DEF Contract!Run, Contract!Row, Row
<1>4. ASSUME NEW i \in Contract!Run(sending.to) PROVE i \in Rows(sending)
  <2>1. i \in Row /\ outcomes[i] = NA /\ i < sending.to
    BY DEF Contract!Run, Contract!Row, Row, NA
  <2>2. i \in Rows(sending) \/ i \in RowsIn(queue)
    BY <1>1, <2>1
  <2>3. ASSUME i \in RowsIn(queue) PROVE FALSE
    <3>1. PICK k \in 1..Len(queue) : i \in Rows(queue[k])
      BY <2>3 DEF RowsIn
    <3>2. queue[k].from \in Nat /\ queue[k].to \in Nat /\ sending.to <= queue[k].from
      BY <1>1, ChunkFacts
    <3>3. i \in queue[k].from..(queue[k].to - 1)
      BY <3>1 DEF Rows
    <3> QED BY <1>2, <2>1, <3>2, <3>3
  <2> QED BY <2>2, <2>3
<1> QED BY <1>1, <1>2, <1>3, <1>4

\* What the chunk in flight does to the server and to the report, it does to
\* that run.
LEMMA SameEffects ==
  ASSUME IInv, pc = "send"
  PROVE  /\ Reach(Rows(sending)) => Contract!Reach(Contract!Run(sending.to))
         /\ \A how : Mark(Rows(sending), how) => Contract!Mark(Contract!Run(sending.to), how)
BY InFlightIsARun DEF Reach, Mark, Contract!Reach, Contract!Mark, Row, Contract!Row

\* No run ends before the first row.
LEMMA NothingReached ==
  ASSUME TypeOK, UNCHANGED reached
  PROVE  0 \in 0..N /\ Contract!Reach(Contract!Run(0))
<1>1. Contract!Run(0) = {} /\ 0 \in 0..N
  BY SendChunksAssumption DEF Contract!Run, Contract!Row
<1>2. reached = [i \in Row |-> reached[i]]
  BY DEF TypeOK
<1> QED BY <1>1, <1>2 DEF Contract!Reach, Contract!Row, Row

\* A call begins where rows are left, and changes no outcome: those it clears
\* were not attempted.
LEMMA CallBegins ==
  ASSUME IInv, NEW i \in Row, NEW age \in 0..MaxTime, Call(i, age)
  PROVE  Contract!Begin
<1>1. pc \in {"idle", "returned"} /\ State = pc /\ State' = "working"
  BY DEF Call, State
<1>2. outcomes[i] = NA /\ \A j \in Row : i <= j => outcomes[j] = NA
  <2>1. CASE pc = "idle"
    BY <2>1 DEF IInv, IdleOK
  <2>2. CASE pc = "returned"
    <3>1. outcomes[i] = NA
      BY <2>2 DEF Call, ResumeFrom, Left, NA
    <3> QED BY <3>1 DEF IInv, NotAttemptedIsSuffix, NA
  <2> QED BY <1>1, <2>1, <2>2
<1>3. outcomes' = outcomes
  <2>1. outcomes' = [j \in Row |-> IF j < i THEN outcomes[j] ELSE NA]
    BY DEF Call, NA
  <2>2. \A j \in Row : ~(j < i) => outcomes[j] = NA
    <3> SUFFICES ASSUME NEW j \in Row, ~(j < i) PROVE outcomes[j] = NA
      OBVIOUS
    <3>1. i <= j
      BY DEF Row
    <3> QED BY <1>2, <3>1
  <2>3. outcomes = [j \in Row |-> outcomes[j]]
    BY DEF IInv, TypeOK
  <2> QED BY <2>1, <2>2, <2>3
<1>4. i \in Contract!Run(N)
  BY <1>2, SendChunksAssumption DEF Contract!Run, Contract!Row, Row, NA
<1> QED BY <1>1, <1>3, <1>4 DEF Call, Contract!Begin

\* A settled chunk is a settled run.
LEMMA SettledRefines ==
  ASSUME IInv, SettledSomehow
  PROVE  Contract!Next
<1>1. pc = "send" /\ State = "working"
  BY DEF SettledSomehow, State
<1>2. PICK how \in {"applied", "unknown", "refused"} :
        /\ Settled(how)
        /\ Reach(Rows(sending)) \/ (how = "refused" /\ UNCHANGED reached)
  BY DEF SettledSomehow
<1>3. /\ Mark(Rows(sending), how)
      /\ State' = "working" /\ keyed' = keyed
  BY <1>2 DEF Settled, State, call
<1>4. Contract!Settle(sending.to)
  BY <1>1, <1>2, <1>3, SameEffects DEF Contract!Settle
<1> QED BY <1>1, <1>4, InFlightIsARun DEF Contract!Next

\* A call that raises does so with its chunk before the server or not.
LEMMA RaiseRefines ==
  ASSUME IInv, SendRaises
  PROVE  Contract!Next
<1>1. /\ pc = "send" /\ State = "working" /\ State' = "raised"
      /\ keyed' = keyed /\ outcomes' = outcomes
      /\ Reach(Rows(sending)) \/ UNCHANGED reached
  BY DEF SendRaises, State, call, report
<1>2. CASE Reach(Rows(sending))
  <2>1. Contract!Raise(sending.to)
    BY <1>1, <1>2, SameEffects DEF Contract!Raise
  <2> QED BY <1>1, <2>1, InFlightIsARun DEF Contract!Next
<1>3. CASE UNCHANGED reached
  <2>1. 0 \in 0..N /\ Contract!Reach(Contract!Run(0))
    BY <1>3, NothingReached DEF IInv
  <2>2. Contract!Raise(0)
    BY <1>1, <2>1 DEF Contract!Raise
  <2> QED BY <2>1, <2>2 DEF Contract!Next
<1> QED BY <1>1, <1>2, <1>3

\* The gate stops the batch, a dead deadline raises, or the next chunk goes
\* out, which nobody sees.
LEMMA NextChunkRefines ==
  ASSUME IInv, NextChunk
  PROVE  Contract!Next \/ UNCHANGED Contract!vars
<1>1. pc = "loop" /\ State = "working" /\ keyed' = keyed /\ reached' = reached
  BY DEF NextChunk, State, call
<1>2. CASE CloseGate
  <2>1. outcomes' = outcomes /\ State' = "returned"
    BY <1>1, <1>2, GateKeepsReport DEF IInv, CloseGate, State
  <2> QED BY <1>1, <2>1 DEF Contract!Return, Contract!Next
<1>3. CASE StartSend
  <2>1. outcomes' = outcomes /\ State' \in {"raised", "working"}
    BY <1>3 DEF StartSend, State
  <2>2. CASE State' = "raised"
    <3>1. 0 \in 0..N /\ Contract!Raise(0)
      BY <1>1, <2>1, <2>2, NothingReached DEF IInv, Contract!Raise
    <3> QED BY <3>1 DEF Contract!Next
  <2>3. CASE State' = "working"
    BY <1>1, <2>1, <2>3 DEF Contract!vars
  <2> QED BY <2>1, <2>2, <2>3
<1> QED BY <1>2, <1>3 DEF NextChunk

LEMMA BatchStep ==
  ASSUME IInv, [Next]_vars
  PROVE  [Contract!Next]_(Contract!vars)
<1>1. ASSUME NEW i \in Row, NEW age \in 0..MaxTime, Call(i, age)
      PROVE  Contract!Next
  BY <1>1, CallBegins DEF Contract!Next
<1>2. CASE Planner
  <2>1. UNCHANGED <<keyed, outcomes, reached>>
    BY <1>2 DEF Planner, PlanRow, PlanDone, call, report
  <2>2. State' = State
    BY <1>2 DEF Planner, PlanRow, PlanDone, State
  <2> QED BY <2>1, <2>2 DEF Contract!vars
<1>3. CASE Return
  <2>1. State = "working" /\ State' = "returned" /\ UNCHANGED <<keyed, outcomes, reached>>
    BY <1>3 DEF Return, State, call, report
  <2> QED BY <2>1 DEF Contract!Return, Contract!Next
<1>4. CASE SendReplays
  <2>1. /\ pc = "send" /\ keyed /\ Reach(Rows(sending))
        /\ State = "working" /\ State' = State /\ UNCHANGED <<keyed, outcomes>>
    BY <1>4 DEF SendReplays, State, call, report
  <2>2. Contract!Repeat(sending.to)
    BY <2>1, SameEffects DEF Contract!Repeat
  <2> QED BY <2>1, <2>2, InFlightIsARun DEF Contract!Next
<1>5. CASE SendEnds
  <2>0. pc = "send" /\ sending \in Chunk
    BY <1>5 DEF IInv, QueueOK, SendEnds, SendApplied, SendUnconfirmed, SendRefused,
                SendGatewayTimeout, SendTooLarge, SendThrottled, SendRaises
  <2>1. CASE Halved
    <3>1. UNCHANGED <<keyed, outcomes, reached>> /\ State = "working" /\ State' = State
      BY <2>1 DEF Halved, State, call
    <3> QED BY <3>1 DEF Contract!vars
  <2>2. CASE SendThrottled
    <3>1. outcomes' = outcomes
      BY <2>0, <2>2, UnmarkedStay DEF IInv, SendThrottled, Running, NA
    <3>2. State = "working" /\ State' = "returned" /\ UNCHANGED <<keyed, reached>>
      BY <2>2 DEF SendThrottled, State, call
    <3> QED BY <3>1, <3>2 DEF Contract!Return, Contract!Next
  <2> QED BY <1>5, <2>0, <2>1, <2>2, SendCases, SettledRefines, RaiseRefines
<1>6. CASE Tick \/ UNCHANGED vars
  <2>1. UNCHANGED <<keyed, outcomes, reached, pc>>
    BY <1>6 DEF Tick, vars, call, report
  <2> QED BY <2>1 DEF State, Contract!vars
<1> QED
  BY <1>1, <1>2, <1>3, <1>4, <1>5, <1>6, NextChunkRefines DEF Next, Planner

\* ImplementsBatch: for any list, plan, refusals, halvings, stops and resumed
\* calls, the caller sees the rows settled from the front on, each once.
THEOREM SettlesFromTheFront == Spec => ImplementsBatch
<1>1. Init => Contract!Init
  BY DEF Init, State, Contract!Init, Contract!Row, Row
<1>2. (IInv /\ CostOK) /\ [Next]_vars => [Contract!Next]_(Contract!vars)
  BY BatchStep
<1> QED
  BY Inductive, <1>1, <1>2, PTL DEF Spec, ImplementsBatch, Contract!Spec
-----------------------------------------------------------------------------
(* Every call runs out of steps                                             *)

\* What a call can still do: a row to plan is a step; a row to send is at most
\* two sends, less one a chunk, and a send is a pop, an answer and a replay.
Rank ==
  CASE pc = "planning" -> 6 * N + 3 + (N - current.to)
    [] pc = "loop" -> 3 * (2 * (N - Front) - Len(queue)) + 2
    [] pc = "send" -> 3 * (2 * (N - sending.from) - 1 - Len(queue))
                        + (IF replayed THEN 0 ELSE 1)
    [] OTHER -> 0

Working == pc \in {"planning", "loop", "send"}

\* The queue while it is worked on, and the chunk before it.
LEMMA QueueBounds ==
  ASSUME IInv
  PROVE  /\ N \in Nat /\ first \in Nat /\ queue \in Seq(Chunk) /\ Len(queue) \in Nat
         /\ pc = "planning" => current.to \in Nat /\ current.to <= N
         /\ pc \in {"loop", "send"} =>
              Front \in Nat /\ Front <= N /\ Len(queue) <= N - Front
         /\ pc = "send" =>
              /\ sending \in Chunk /\ sending.from \in Nat /\ sending.to \in Nat
              /\ sending.from < sending.to /\ sending.to <= Front
<1>1. queue \in Seq(Chunk) /\ N \in Nat /\ first \in Nat
  BY NumberFacts DEF IInv, TypeOK
<1>2. pc = "planning" => current.to \in Nat /\ current.to <= N
  <2>1. current.to \in 0..N
    BY DEF IInv, TypeOK
  <2> QED
    BY <1>1, <2>1
<1>3. ASSUME pc \in {"loop", "send"}
      PROVE  Front \in Nat /\ Front <= N /\ Len(queue) <= N - Front
  <2>1. InOrder(queue)
    BY <1>3 DEF IInv, QueueOK, Running
  <2> QED
    BY <1>1, <2>1, FrontFacts DEF Front
<1>4. ASSUME pc = "send"
      PROVE  /\ sending \in Chunk /\ sending.from \in Nat /\ sending.to \in Nat
             /\ sending.from < sending.to /\ sending.to <= Front
  <2>1. /\ sending \in Chunk
        /\ \A k \in 1..Len(queue) : sending.to <= queue[k].from
    BY <1>4 DEF IInv, QueueOK, Running
  <2>2. /\ sending.from \in Nat /\ sending.to \in Nat
        /\ sending.from < sending.to /\ sending.to <= N
    BY <2>1, ChunkFacts
  <2>3. CASE queue = << >>
    BY <2>1, <2>2, <2>3 DEF Front
  <2>4. CASE queue # << >>
    <3>1. 1 \in 1..Len(queue)
      BY <1>1, <2>4
    <3> QED
      BY <2>1, <2>2, <2>4, <3>1 DEF Front
  <2> QED
    BY <2>3, <2>4
<1> QED
  BY <1>1, <1>2, <1>3, <1>4

LEMMA RankBounds ==
  ASSUME IInv
  PROVE  Rank \in 0..(7 * N + 3) /\ (Working => Rank > 0)
<1>1. CASE pc = "planning"
  BY <1>1, QueueBounds DEF Rank
<1>2. CASE pc = "loop"
  BY <1>2, QueueBounds DEF Rank
<1>3. CASE pc = "send"
  <2>1. replayed \in BOOLEAN
    BY DEF IInv, TypeOK
  <2>2. /\ N \in Nat /\ sending.from \in Nat /\ Len(queue) \in Nat /\ sending.from < N
        /\ Len(queue) <= N - sending.from - 1
    BY <1>3, QueueBounds
  <2>3. \/ Rank = 3 * (2 * (N - sending.from) - 1 - Len(queue))
        \/ Rank = 3 * (2 * (N - sending.from) - 1 - Len(queue)) + 1
    BY <1>3, <2>1, <2>2 DEF Rank
  <2> QED
    BY <2>2, <2>3
<1>4. CASE ~Working
  BY <1>4, QueueBounds DEF Rank, Working
<1> QED
  BY <1>1, <1>2, <1>3, <1>4 DEF Working

\* An answer to a chunk.
LEMMA AnswerRank ==
  ASSUME IInv, IInv', SendEnds
  PROVE  Rank' < Rank
<1>0. pc = "send" /\ sending \in Chunk
  BY DEF IInv, QueueOK, SendEnds, SendApplied, SendUnconfirmed, SendRefused,
         SendGatewayTimeout, SendTooLarge, SendThrottled, SendRaises
<1>b. /\ N \in Nat /\ sending.from \in Nat /\ Len(queue) \in Nat /\ Front \in Nat
      /\ sending.from < Front
  BY <1>0, QueueBounds
<1>1. /\ Rank >= 3 * (2 * (N - sending.from) - 1 - Len(queue))
      /\ Rank > 0 /\ Rank \in Nat
  <2>1. replayed \in BOOLEAN
    BY DEF IInv, TypeOK
  <2>2. Rank >= 3 * (2 * (N - sending.from) - 1 - Len(queue))
    BY <1>0, <1>b, <2>1 DEF Rank
  <2>3. Rank > 0 /\ Rank \in Nat
    BY <1>0, <1>b, RankBounds DEF Working
  <2> QED
    BY <2>2, <2>3
<1>2. CASE SettledSomehow
  <2>1. pc' = "loop" /\ queue' = queue /\ Front' = Front
    BY <1>2 DEF SettledSomehow, Settled, Front
  <2>2. Rank' = 3 * (2 * (N - Front) - Len(queue)) + 2
    BY <2>1 DEF Rank
  <2> QED
    BY <1>b, <1>1, <2>2
<1>3. CASE Halved
  <2>1. /\ Len(queue') = Len(queue) + 2 /\ queue'[1].from = sending.from
        /\ queue' \in Seq(Chunk)
    BY <1>3, HalvedQueue DEF IInv
  <2>2. queue' # << >> /\ pc' = "loop"
    BY <1>3, <2>1, QueueBounds DEF Halved
  <2>3. Rank' = 3 * (2 * (N - sending.from) - (Len(queue) + 2)) + 2
    BY <2>1, <2>2 DEF Rank, Front
  <2> QED
    BY <1>b, <1>1, <2>3
<1>4. CASE SendThrottled \/ SendRaises
  <2>1. Rank' = 0
    BY <1>4 DEF SendThrottled, SendRaises, Rank
  <2> QED
    BY <1>1, <2>1
<1> QED
  BY <1>0, <1>2, <1>3, <1>4, SendCases

\* The next chunk is popped, or the batch stops before it.
LEMMA PopRank ==
  ASSUME IInv, IInv', NextChunk
  PROVE  Rank' < Rank
<1>1. /\ pc = "loop" /\ queue # << >> /\ queue' = Tail(queue)
      /\ Rank = 3 * (2 * (N - Front) - Len(queue)) + 2 /\ Rank > 0
  BY RankBounds DEF NextChunk, Rank, Working
<1>2. CASE pc' \in {"returned", "raised"}
  BY <1>1, <1>2 DEF Rank
<1>3. CASE pc' = "send" /\ sending' = Head(queue) /\ replayed' = FALSE
  <2>1. Head(queue) = queue[1] /\ Len(queue') = Len(queue) - 1
    BY <1>1, QueueBounds
  <2>2. sending'.from = Front
    BY <1>1, <1>3, <2>1 DEF Front
  <2>3. Rank' = 3 * (2 * (N - Front) - 1 - (Len(queue) - 1)) + 1
    BY <1>3, <2>1, <2>2 DEF Rank
  <2> QED
    BY <1>1, <2>3, QueueBounds
<1> QED
  BY <1>2, <1>3 DEF NextChunk, CloseGate, StartSend

LEMMA PlanRank ==
  ASSUME IInv, IInv', Planner
  PROVE  Rank' < Rank
<1>1. pc = "planning" /\ Rank = 6 * N + 3 + (N - current.to)
  BY DEF Planner, PlanRow, PlanDone, Rank
<1>2. CASE PlanRow
  <2>1. pc' = "planning" /\ current'.to = current.to + 1
    <3>1. current \in [from : 0..N, to : 0..N] /\ pc' = "planning"
      BY <1>1, <1>2 DEF PlanRow, IInv, TypeOK
    <3>2. \/ current' = [from |-> current.to + 1, to |-> current.to + 1]
          \/ current' = Alone
          \/ current' = Grown
      BY <1>2 DEF PlanRow, PlanHeavy, PlanCut, PlanGrow
    <3> QED
      BY <3>1, <3>2 DEF Alone, Grown
  <2>2. Rank' = 6 * N + 3 + (N - (current.to + 1))
    BY <2>1 DEF Rank
  <2>3. N \in Nat /\ current.to \in Nat /\ current.to <= N
    BY <1>1, QueueBounds
  <2> QED
    BY <1>1, <2>2, <2>3
<1>3. CASE PlanDone
  <2>1. pc' = "loop"
    BY <1>3 DEF PlanDone
  <2>2. Rank' = 3 * (2 * (N - Front') - Len(queue')) + 2
    BY <2>1 DEF Rank
  <2>3. Front' \in Nat /\ Front' <= N /\ Len(queue') \in Nat
    BY <2>1, FrontFacts DEF Front, IInv, TypeOK, QueueOK, Running
  <2>4. N \in Nat /\ current.to \in Nat /\ current.to <= N
    BY <1>1, QueueBounds
  <2> QED
    BY <1>1, <2>2, <2>3, <2>4
<1> QED
  BY <1>2, <1>3 DEF Planner

\* Whatever is refused, halved, lost and repeated, a call takes at most 7 * N + 3
\* steps: each leaves it strictly less to do, and the clock gives it no more.
THEOREM EveryCallRunsOut ==
  Spec => /\ [](Rank \in 0..(7 * N + 3))
          /\ [][/\ Planner \/ NextChunk \/ Return \/ SendReplays \/ SendEnds => Rank' < Rank
                /\ Tick => Rank' = Rank]_vars
<1>1. IInv /\ CostOK => Rank \in 0..(7 * N + 3)
  BY RankBounds
<1>2. (IInv /\ CostOK) /\ (IInv /\ CostOK)' /\ [Next]_vars =>
        [/\ Planner \/ NextChunk \/ Return \/ SendReplays \/ SendEnds => Rank' < Rank
         /\ Tick => Rank' = Rank]_vars
  <2> SUFFICES ASSUME IInv, IInv'
               PROVE  /\ Planner \/ NextChunk \/ Return \/ SendReplays \/ SendEnds
                           => Rank' < Rank
                      /\ Tick => Rank' = Rank
    OBVIOUS
  <2>1. CASE Return
    <3>1. pc = "loop" /\ pc' = "returned"
      BY <2>1 DEF Return
    <3> QED
      BY <3>1, RankBounds DEF Return, Rank, Working, Tick
  <2>2. ASSUME SendReplays PROVE Rank' < Rank
    <3>1. /\ pc = "send" /\ pc' = "send" /\ ~replayed /\ replayed'
          /\ queue' = queue /\ sending' = sending
      BY <2>2 DEF SendReplays
    <3>2. N \in Nat /\ sending.from \in Nat /\ Len(queue) \in Nat
      BY <3>1, QueueBounds
    <3>3. /\ Rank = 3 * (2 * (N - sending.from) - 1 - Len(queue)) + 1
          /\ Rank' = 3 * (2 * (N - sending.from) - 1 - Len(queue))
      BY <3>1, <3>2 DEF Rank
    <3> QED
      BY <3>2, <3>3
  <2>3. ASSUME Tick PROVE Rank' = Rank
    BY <2>3 DEF Tick, plan, Rank, Front
  <2> QED
    BY <2>1, <2>2, <2>3, AnswerRank, PopRank, PlanRank
<1> QED
  BY Inductive, <1>1, <1>2, PTL DEF Spec
=============================================================================
