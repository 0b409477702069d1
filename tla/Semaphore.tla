----------------------------- MODULE Semaphore -----------------------------
(***************************************************************************)
(* asyncio.Semaphore, as gate.py uses it under asyncio.wait_for.           *)
(*                                                                         *)
(* The class belongs to Python's standard library.  What matters of it     *)
(* here: waiters are served in the order they came; release() hands its    *)
(* slot to the first waiter not yet handed one, which owns the slot from   *)
(* then on but stays in the queue until it runs; a newcomer never passes   *)
(* a queue; and a waiter cancelled after a slot was handed to it gives     *)
(* that slot back.                                                         *)
(***************************************************************************)
EXTENDS Integers, Sequences, SequencesExt

\* A semaphore nobody holds: `handed` are the waiters who own a slot already.
NewSem(cap) == [free |-> cap, queue |-> << >>, handed |-> {}]

\* The places in line of the waiters no slot was handed to.
Unserved(sem) == {i \in DOMAIN sem.queue : sem.queue[i] \notin sem.handed}

\* _wake_up_next: a free slot goes to the first unserved waiter, if any.
Wake(sem) ==
  IF sem.free > 0 /\ Unserved(sem) # {}
  THEN [sem EXCEPT !.free = @ - 1,
                   !.handed = @ \union {sem.queue[Min(Unserved(sem))]}]
  ELSE sem

\* acquire(): at once when a slot is free and nobody waits, else in line.
Acquire(sem, w) ==
  IF sem.free > 0 /\ sem.queue = << >>
  THEN [sem EXCEPT !.free = @ - 1]
  ELSE [sem EXCEPT !.queue = Append(@, w)]

\* Of one who called Acquire: the slot is theirs.
Granted(sem, w) == w \in Range(sem.queue) => w \in sem.handed

\* Out of the line, whoever else is in it keeps their place.
Drop(sem, w) ==
  LET place == CHOOSE i \in DOMAIN sem.queue : sem.queue[i] = w
  IN  [sem EXCEPT !.queue = RemoveAt(@, place), !.handed = @ \ {w}]

\* The waiter runs with its slot and passes on what it finds free.
Resume(sem, w) == IF w \in sem.handed THEN Wake(Drop(sem, w)) ELSE sem

Release(sem) == Wake([sem EXCEPT !.free = @ + 1])

\* wait_for's timeout cancels the waiter: a slot handed to it is returned.
Cancel(sem, w) ==
  IF w \in sem.handed THEN Release(Drop(sem, w)) ELSE Drop(sem, w)
=============================================================================
