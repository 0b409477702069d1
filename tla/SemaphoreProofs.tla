-------------------------- MODULE SemaphoreProofs --------------------------
(***************************************************************************)
(* What the operations on a semaphore do to its count: who owns a slot     *)
(* plus what is free stays the capacity, whoever is handed a slot on the   *)
(* way (Conserves).                                                        *)
(*                                                                         *)
(* M is the set of those who asked for a slot and have not given it back   *)
(* or given up: all of them own one except those in line and not served.   *)
(***************************************************************************)
EXTENDS Semaphore, FiniteSetTheorems, WellFoundedInduction, TLAPS

\* In line, and nothing handed to them yet.
Waiting(sem) == Range(sem.queue) \ sem.handed

NoOneTwice(s) == \A i, j \in DOMAIN s : s[i] = s[j] => i = j

IsSem(sem, R) ==
  /\ sem \in [free : Nat, queue : Seq(R), handed : SUBSET R]
  /\ NoOneTwice(sem.queue)
  /\ sem.handed \subseteq Range(sem.queue)

Conserves(sem, cap, M, R) ==
  /\ IsSem(sem, R)
  /\ M \subseteq R
  /\ Range(sem.queue) \subseteq M
  /\ sem.free + Cardinality(M \ Waiting(sem)) = cap

\* Every set of numbers with anything in it has a least one.
LEMMA LeastNumber ==
  ASSUME NEW S, S \subseteq Nat, S # {}
  PROVE  \E x \in S : \A y \in S : x <= y
PROOF
<1> DEFINE less == {p \in Nat \X Nat : p[1] < p[2]}
<1>1. less = OpToRel(<, Nat)
  BY DEF OpToRel
<1>2. IsWellFoundedOn(less, Nat)
  BY <1>1, NatLessThanWellFounded
<1> HIDE DEF less
<1>3. PICK x \in S : \A y \in S : ~ (<<y, x>> \in less)
  BY <1>2, WFMin
<1>4. ASSUME NEW y \in S
      PROVE  x <= y
  <2>1. <<y, x>> \in Nat \X Nat /\ <<y, x>>[1] = y /\ <<y, x>>[2] = x
    OBVIOUS
  <2>2. ~ (y < x)
    BY <2>1, <1>3 DEF less
  <2> QED
    BY <2>2
<1> QED
  BY <1>4

LEMMA NewConserves ==
  ASSUME NEW cap \in Nat, NEW R
  PROVE  Conserves(NewSem(cap), cap, {}, R)
PROOF
<1> DEFINE sem == NewSem(cap)
<1>1. sem = [free |-> cap, queue |-> << >>, handed |-> {}]
  BY DEF NewSem
<1>2. << >> \in Seq(R)
  OBVIOUS
<1>3. sem \in [free : Nat, queue : Seq(R), handed : SUBSET R]
  BY <1>1, <1>2
<1>4. sem.queue = << >> /\ sem.handed = {} /\ sem.free = cap
  BY <1>1
<1> HIDE DEF sem
<1>5. Range(sem.queue) = {} /\ NoOneTwice(sem.queue)
  BY <1>4 DEF Range, NoOneTwice
<1>6. {} \ Waiting(sem) = {}
  OBVIOUS
<1>7. Cardinality({}) = 0
  BY FS_EmptySet
<1> QED
  BY <1>3, <1>4, <1>5, <1>6, <1>7 DEF Conserves, IsSem, sem

\* A free slot handed to the first unserved waiter has changed hands.
LEMMA WakeConserves ==
  ASSUME NEW R, IsFiniteSet(R), NEW sem, NEW cap \in Nat, NEW M,
         Conserves(sem, cap, M, R)
  PROVE  Conserves(Wake(sem), cap, M, R) /\ Wake(sem).queue = sem.queue
PROOF
<1> DEFINE w == sem.queue[Min(Unserved(sem))]
<1>1. CASE sem.free > 0 /\ Unserved(sem) # {}
  <2>1. /\ sem \in [free : Nat, queue : Seq(R), handed : SUBSET R]
        /\ NoOneTwice(sem.queue) /\ sem.handed \subseteq Range(sem.queue)
        /\ M \subseteq R /\ Range(sem.queue) \subseteq M
        /\ sem.free + Cardinality(M \ Waiting(sem)) = cap
    BY DEF Conserves, IsSem
  <2>2. Unserved(sem) \subseteq Nat
    <3>1. DOMAIN sem.queue \subseteq Nat
      BY <2>1
    <3> QED
      BY <3>1 DEF Unserved
  <2>3. \E x \in Unserved(sem) : \A y \in Unserved(sem) : x <= y
    BY <1>1, <2>2, LeastNumber
  <2>4. Min(Unserved(sem)) \in Unserved(sem)
    BY <2>3 DEF Min
  <2>5. w \in Range(sem.queue) /\ w \notin sem.handed
    BY <2>4 DEF Unserved, Range
  <2>6. w \in R /\ w \in M
    BY <2>1, <2>5
  <2>7. Wake(sem) = [sem EXCEPT !.free = sem.free - 1, !.handed = sem.handed \union {w}]
    BY <1>1 DEF Wake
  <2> HIDE DEF w
  <2> DEFINE new == Wake(sem)
  <2>8. /\ new \in [free : Nat, queue : Seq(R), handed : SUBSET R]
        /\ new.free = sem.free - 1 /\ new.queue = sem.queue
        /\ new.handed = sem.handed \union {w}
    <3>1. sem = [free |-> sem.free, queue |-> sem.queue, handed |-> sem.handed]
      BY <2>1
    <3>2. new = [free |-> sem.free - 1, queue |-> sem.queue, handed |-> sem.handed \union {w}]
      BY <3>1, <2>7
    <3>3. sem.free - 1 \in Nat
      BY <1>1, <2>1
    <3>4. sem.queue \in Seq(R) /\ sem.handed \union {w} \in SUBSET R
      BY <2>1, <2>6
    <3> QED
      BY <3>2, <3>3, <3>4
  <2> HIDE DEF new
  <2>9. IsSem(new, R)
    BY <2>1, <2>5, <2>8 DEF IsSem
  <2>10. M \ Waiting(new) = (M \ Waiting(sem)) \union {w} /\ w \notin M \ Waiting(sem)
    BY <2>5, <2>6, <2>8 DEF Waiting
  <2>11. IsFiniteSet(M \ Waiting(sem))
    <3>1. M \ Waiting(sem) \in SUBSET R
      BY <2>1
    <3> QED
      BY <3>1, FS_Subset
  <2>12. Cardinality(M \ Waiting(new)) = Cardinality(M \ Waiting(sem)) + 1
    BY <2>10, <2>11, FS_AddElement
  <2>13. Cardinality(M \ Waiting(sem)) \in Nat /\ sem.free \in Nat
    BY <2>1, <2>11, FS_CardinalityType
  <2>14. new.free + Cardinality(M \ Waiting(new)) = cap
    BY <2>1, <2>8, <2>12, <2>13
  <2> QED
    BY <2>1, <2>8, <2>9, <2>14 DEF Conserves, new
<1>2. CASE ~ (sem.free > 0 /\ Unserved(sem) # {})
  BY <1>2 DEF Wake
<1> QED
  BY <1>1, <1>2

\* A newcomer takes a free slot or gets in line.
LEMMA AcquireConserves ==
  ASSUME NEW R, IsFiniteSet(R), NEW sem, NEW cap \in Nat, NEW M,
         Conserves(sem, cap, M, R), NEW w \in R, w \notin M
  PROVE  /\ Conserves(Acquire(sem, w), cap, M \union {w}, R)
         /\ Range(Acquire(sem, w).queue) \subseteq Range(sem.queue) \union {w}
PROOF
<1> DEFINE new == Acquire(sem, w)
<1>1. /\ sem \in [free : Nat, queue : Seq(R), handed : SUBSET R]
      /\ NoOneTwice(sem.queue) /\ sem.handed \subseteq Range(sem.queue)
      /\ M \subseteq R /\ Range(sem.queue) \subseteq M
      /\ sem.free + Cardinality(M \ Waiting(sem)) = cap
  BY DEF Conserves, IsSem
<1>2. IsFiniteSet(M \ Waiting(sem)) /\ w \notin M \ Waiting(sem)
  <2>1. M \ Waiting(sem) \in SUBSET R
    BY <1>1
  <2> QED
    BY <2>1, FS_Subset
<1>3. Cardinality(M \ Waiting(sem)) \in Nat
  BY <1>2, FS_CardinalityType
<1>4. CASE sem.free > 0 /\ sem.queue = << >>
  <2>1. new = [sem EXCEPT !.free = sem.free - 1]
    BY <1>4 DEF Acquire
  <2>2. /\ new \in [free : Nat, queue : Seq(R), handed : SUBSET R]
        /\ new.free = sem.free - 1 /\ new.queue = sem.queue /\ new.handed = sem.handed
    BY <1>1, <1>4, <2>1
  <2> HIDE DEF new
  <2>3. (M \union {w}) \ Waiting(new) = (M \ Waiting(sem)) \union {w}
    BY <1>1, <2>2 DEF Waiting
  <2>4. Cardinality((M \union {w}) \ Waiting(new)) = Cardinality(M \ Waiting(sem)) + 1
    BY <1>2, <2>3, FS_AddElement
  <2>5. new.free + Cardinality((M \union {w}) \ Waiting(new)) = cap
    BY <1>1, <1>3, <2>2, <2>4
  <2> QED
    BY <1>1, <2>2, <2>5 DEF Conserves, IsSem, new
<1>5. CASE ~ (sem.free > 0 /\ sem.queue = << >>)
  <2>1. new = [sem EXCEPT !.queue = Append(sem.queue, w)]
    BY <1>5 DEF Acquire
  <2>2. /\ new \in [free : Nat, queue : Seq(R), handed : SUBSET R]
        /\ new.free = sem.free /\ new.queue = Append(sem.queue, w)
        /\ new.handed = sem.handed
    <3>1. sem = [free |-> sem.free, queue |-> sem.queue, handed |-> sem.handed]
      BY <1>1
    <3>2. new = [free |-> sem.free, queue |-> Append(sem.queue, w), handed |-> sem.handed]
      BY <3>1, <2>1
    <3>3. Append(sem.queue, w) \in Seq(R)
      BY <1>1
    <3> QED
      BY <3>2, <3>3, <1>1
  <2> HIDE DEF new
  <2> DEFINE q == sem.queue
  <2>3. q \in Seq(R) /\ Len(q) \in Nat /\ DOMAIN q = 1 .. Len(q)
    BY <1>1
  <2>4. /\ DOMAIN new.queue = 1 .. (Len(q) + 1)
        /\ \A i \in 1 .. Len(q) : new.queue[i] = q[i]
        /\ new.queue[Len(q) + 1] = w
    BY <2>2, <2>3
  <2>5. \A i \in 1 .. (Len(q) + 1) : i \in 1 .. Len(q) \/ i = Len(q) + 1
    BY <2>3
  <2>6. \A i \in 1 .. Len(q) : i \in 1 .. (Len(q) + 1) /\ i # Len(q) + 1
    BY <2>3
  <2>7. Len(q) + 1 \in 1 .. (Len(q) + 1)
    BY <2>3
  <2>8. Range(new.queue) = Range(q) \union {w}
    BY <2>3, <2>4, <2>5, <2>6, <2>7 DEF Range
  <2>9. w \notin Range(q)
    BY <1>1
  <2>10. \A i \in 1 .. Len(q) : q[i] \in Range(q)
    BY <2>3 DEF Range
  <2>11. NoOneTwice(new.queue)
    <3> SUFFICES ASSUME NEW i \in 1 .. (Len(q) + 1), NEW j \in 1 .. (Len(q) + 1),
                        new.queue[i] = new.queue[j]
                 PROVE  i = j
      BY <2>4 DEF NoOneTwice
    <3>1. CASE i \in 1 .. Len(q) /\ j \in 1 .. Len(q)
      BY <3>1, <1>1, <2>3, <2>4 DEF NoOneTwice
    <3>2. CASE i = Len(q) + 1 \/ j = Len(q) + 1
      BY <3>2, <2>4, <2>5, <2>9, <2>10
    <3> QED
      BY <3>1, <3>2, <2>5
  <2>12. (M \union {w}) \ Waiting(new) = M \ Waiting(sem)
    BY <1>1, <2>2, <2>8 DEF Waiting
  <2>13. new.free + Cardinality((M \union {w}) \ Waiting(new)) = cap
    BY <1>1, <2>2, <2>12
  <2>14. IsSem(new, R)
    BY <1>1, <2>2, <2>8, <2>11 DEF IsSem
  <2> QED
    BY <1>1, <2>8, <2>13, <2>14 DEF Conserves, new
<1> QED
  BY <1>4, <1>5

\* Out of the line: the others keep their order, and only w is gone.
LEMMA DropProps ==
  ASSUME NEW R, NEW sem, IsSem(sem, R), NEW w \in Range(sem.queue)
  PROVE  /\ IsSem(Drop(sem, w), R)
         /\ Drop(sem, w).free = sem.free
         /\ Drop(sem, w).handed = sem.handed \ {w}
         /\ Range(Drop(sem, w).queue) = Range(sem.queue) \ {w}
PROOF
<1> DEFINE q == sem.queue
           k == CHOOSE i \in DOMAIN q : q[i] = w
           new == Drop(sem, w)
           left == RemoveAt(q, k)
<1>1. /\ sem \in [free : Nat, queue : Seq(R), handed : SUBSET R]
      /\ NoOneTwice(q) /\ sem.handed \subseteq Range(q)
  BY DEF IsSem
<1>2. q \in Seq(R) /\ Len(q) \in Nat /\ DOMAIN q = 1 .. Len(q)
  BY <1>1
<1>3. k \in 1 .. Len(q) /\ q[k] = w
  <2>1. \E i \in DOMAIN q : q[i] = w
    BY DEF Range
  <2> QED
    BY <2>1, <1>2
<1>4. new = [sem EXCEPT !.queue = left, !.handed = sem.handed \ {w}]
  BY DEF Drop
<1>5. left = SubSeq(q, 1, k - 1) \o SubSeq(q, k + 1, Len(q))
  BY DEF RemoveAt
<1> HIDE DEF k, left, new
<1>6. /\ SubSeq(q, 1, k - 1) \in Seq(R) /\ Len(SubSeq(q, 1, k - 1)) = k - 1
      /\ \A i \in 1 .. (k - 1) : SubSeq(q, 1, k - 1)[i] = q[i]
  BY <1>2, <1>3
<1>7. /\ SubSeq(q, k + 1, Len(q)) \in Seq(R)
      /\ Len(SubSeq(q, k + 1, Len(q))) = Len(q) - k
      /\ \A i \in 1 .. (Len(q) - k) : SubSeq(q, k + 1, Len(q))[i] = q[k + i]
  BY <1>2, <1>3
<1> DEFINE N == Len(q) - 1
           from(i) == IF i < k THEN i ELSE i + 1
<1>8. /\ left \in Seq(R) /\ Len(left) = N
      /\ \A i \in 1 .. N : left[i] = q[from(i)]
  <2> DEFINE a == SubSeq(q, 1, k - 1)
             b == SubSeq(q, k + 1, Len(q))
  <2> HIDE DEF a, b
  <2>1. a \in Seq(R) /\ b \in Seq(R) /\ left = a \o b /\ Len(a) = k - 1 /\ Len(b) = Len(q) - k
    BY <1>5, <1>6, <1>7 DEF a, b
  <2>2. left \in Seq(R) /\ Len(left) = N
    <3>1. \A s \in Seq(R), t \in Seq(R) : s \o t \in Seq(R) /\ Len(s \o t) = Len(s) + Len(t)
      OBVIOUS
    <3>2. left \in Seq(R) /\ Len(left) = Len(a) + Len(b)
      BY <2>1, <3>1, Zenon
    <3>3. Len(a) + Len(b) = N
      BY <2>1, <1>2, <1>3
    <3> QED
      BY <3>2, <3>3
  <2>3. ASSUME NEW i \in 1 .. N
        PROVE  left[i] = q[from(i)]
    <3>1. CASE i < k
      <4>1. i \in 1 .. (k - 1) /\ i \in 1 .. Len(a)
        BY <3>1, <2>1, <1>3
      <4>2. left[i] = a[i]
        BY <4>1, <2>1
      <4> QED
        BY <3>1, <4>1, <4>2, <1>6 DEF a
    <3>2. CASE ~ i < k
      <4>1. i - (k - 1) \in 1 .. (Len(q) - k) /\ i = Len(a) + (i - (k - 1))
        BY <3>2, <2>1, <1>2, <1>3
      <4>2. left[i] = b[i - (k - 1)]
        BY <4>1, <2>1
      <4>3. b[i - (k - 1)] = q[k + (i - (k - 1))]
        BY <4>1, <1>7 DEF b
      <4>4. k + (i - (k - 1)) = i + 1
        BY <1>3
      <4> QED
        BY <3>2, <4>2, <4>3, <4>4
    <3> QED
      BY <3>1, <3>2
  <2> QED
    BY <2>2, <2>3
<1>9. \A i \in 1 .. N : from(i) \in 1 .. Len(q) /\ from(i) # k
  BY <1>2, <1>3
<1>10. \A i, j \in 1 .. N : from(i) = from(j) => i = j
  BY <1>3
<1>11. ASSUME NEW j \in 1 .. Len(q), j # k
       PROVE  \E i \in 1 .. N : from(i) = j
  <2>1. CASE j < k
    BY <2>1, <1>2, <1>3
  <2>2. CASE j > k
    <3>1. j - 1 \in 1 .. N /\ from(j - 1) = j
      BY <2>2, <1>2, <1>3
    <3> QED
      BY <3>1
  <2> QED
    BY <2>1, <2>2, <1>3, <1>11
<1> HIDE DEF from, N
<1>12. DOMAIN left = 1 .. N
  BY <1>8
<1>13. NoOneTwice(left)
  BY <1>1, <1>2, <1>8, <1>9, <1>10, <1>12 DEF NoOneTwice
<1>14. Range(left) \subseteq Range(q) \ {w}
  <2> SUFFICES ASSUME NEW i \in 1 .. N
               PROVE  left[i] \in Range(q) /\ left[i] # w
    BY <1>12 DEF Range
  <2>1. from(i) \in 1 .. Len(q) /\ from(i) # k /\ left[i] = q[from(i)]
    BY <1>8, <1>9
  <2> QED
    BY <2>1, <1>1, <1>2, <1>3 DEF Range, NoOneTwice
<1>15. Range(q) \ {w} \subseteq Range(left)
  <2> SUFFICES ASSUME NEW j \in 1 .. Len(q), q[j] # w
               PROVE  q[j] \in Range(left)
    BY <1>2 DEF Range
  <2>1. j # k
    BY <1>3
  <2>2. PICK i \in 1 .. N : from(i) = j
    BY <2>1, <1>11
  <2>3. left[i] = q[j]
    BY <2>2, <1>8
  <2> QED
    BY <2>3, <1>12 DEF Range
<1>16. /\ new \in [free : Nat, queue : Seq(R), handed : SUBSET R]
       /\ new.free = sem.free /\ new.queue = left /\ new.handed = sem.handed \ {w}
  BY <1>1, <1>4, <1>8
<1>17. IsSem(new, R)
  BY <1>1, <1>13, <1>15, <1>16 DEF IsSem
<1> QED
  BY <1>14, <1>15, <1>16, <1>17 DEF new

\* One who owns a slot gives it back.
LEMMA ReleaseConserves ==
  ASSUME NEW R, IsFiniteSet(R), NEW sem, NEW cap \in Nat, NEW M,
         Conserves(sem, cap, M, R), NEW w \in M, w \notin Range(sem.queue)
  PROVE  Conserves(Release(sem), cap, M \ {w}, R) /\ Release(sem).queue = sem.queue
PROOF
<1> DEFINE mid == [sem EXCEPT !.free = sem.free + 1]
<1>1. /\ sem \in [free : Nat, queue : Seq(R), handed : SUBSET R]
      /\ NoOneTwice(sem.queue) /\ sem.handed \subseteq Range(sem.queue)
      /\ M \subseteq R /\ Range(sem.queue) \subseteq M
      /\ sem.free + Cardinality(M \ Waiting(sem)) = cap
  BY DEF Conserves, IsSem
<1>2. /\ mid \in [free : Nat, queue : Seq(R), handed : SUBSET R]
      /\ mid.free = sem.free + 1 /\ mid.queue = sem.queue /\ mid.handed = sem.handed
  BY <1>1
<1>3. Release(sem) = Wake(mid)
  BY DEF Release
<1> HIDE DEF mid
<1>4. Waiting(mid) = Waiting(sem)
  BY <1>2 DEF Waiting
<1>5. (M \ {w}) \ Waiting(mid) = (M \ Waiting(sem)) \ {w} /\ w \in M \ Waiting(sem)
  BY <1>4 DEF Waiting
<1>6. IsFiniteSet(M \ Waiting(sem))
  <2>1. M \ Waiting(sem) \in SUBSET R
    BY <1>1
  <2> QED
    BY <2>1, FS_Subset
<1>7. Cardinality((M \ {w}) \ Waiting(mid)) = Cardinality(M \ Waiting(sem)) - 1
  BY <1>5, <1>6, FS_RemoveElement
<1>8. Cardinality(M \ Waiting(sem)) \in Nat /\ sem.free \in Nat
  BY <1>1, <1>6, FS_CardinalityType
<1>9. mid.free + Cardinality((M \ {w}) \ Waiting(mid)) = cap
  BY <1>1, <1>2, <1>7, <1>8
<1>10. Conserves(mid, cap, M \ {w}, R)
  BY <1>1, <1>2, <1>9 DEF Conserves, IsSem
<1> QED
  BY <1>2, <1>3, <1>10, WakeConserves

\* One whose slot was handed over leaves the line with it.
LEMMA ResumeConserves ==
  ASSUME NEW R, IsFiniteSet(R), NEW sem, NEW cap \in Nat, NEW M,
         Conserves(sem, cap, M, R), NEW w \in M, Granted(sem, w)
  PROVE  /\ Conserves(Resume(sem, w), cap, M, R)
         /\ Range(Resume(sem, w).queue) = Range(sem.queue) \ {w}
PROOF
<1>1. IsSem(sem, R) /\ sem.handed \subseteq Range(sem.queue)
  BY DEF Conserves, IsSem
<1>2. CASE w \in sem.handed
  <2> DEFINE mid == Drop(sem, w)
  <2>1. /\ IsSem(mid, R) /\ mid.free = sem.free /\ mid.handed = sem.handed \ {w}
        /\ Range(mid.queue) = Range(sem.queue) \ {w}
    BY <1>1, <1>2, DropProps
  <2>2. Resume(sem, w) = Wake(mid)
    BY <1>2 DEF Resume
  <2> HIDE DEF mid
  <2>3. Waiting(mid) = Waiting(sem)
    BY <1>2, <2>1 DEF Waiting
  <2>4. Conserves(mid, cap, M, R)
    BY <2>1, <2>3 DEF Conserves
  <2> QED
    BY <2>1, <2>2, <2>4, WakeConserves
<1>3. CASE w \notin sem.handed
  <2>1. Resume(sem, w) = sem /\ w \notin Range(sem.queue)
    BY <1>3 DEF Resume, Granted
  <2> QED
    BY <2>1
<1> QED
  BY <1>2, <1>3

\* One whose time ran out leaves the line, and leaves a slot it was handed.
LEMMA CancelConserves ==
  ASSUME NEW R, IsFiniteSet(R), NEW sem, NEW cap \in Nat, NEW M,
         Conserves(sem, cap, M, R), NEW w \in Range(sem.queue)
  PROVE  /\ Conserves(Cancel(sem, w), cap, M \ {w}, R)
         /\ Range(Cancel(sem, w).queue) = Range(sem.queue) \ {w}
PROOF
<1> DEFINE mid == Drop(sem, w)
<1>1. IsSem(sem, R) /\ Range(sem.queue) \subseteq M /\ M \subseteq R
  BY DEF Conserves
<1>2. /\ IsSem(mid, R) /\ mid.free = sem.free /\ mid.handed = sem.handed \ {w}
      /\ Range(mid.queue) = Range(sem.queue) \ {w}
  BY <1>1, DropProps
<1>3. Cancel(sem, w) = IF w \in sem.handed THEN Release(mid) ELSE mid
  BY DEF Cancel
<1>4. w \in M
  BY <1>1
<1> HIDE DEF mid
<1>5. CASE w \in sem.handed
  <2>1. Waiting(mid) = Waiting(sem)
    BY <1>2, <1>5 DEF Waiting
  <2>2. Conserves(mid, cap, M, R)
    BY <1>2, <2>1 DEF Conserves
  <2>3. w \notin Range(mid.queue)
    BY <1>2
  <2>4. Conserves(Release(mid), cap, M \ {w}, R) /\ Release(mid).queue = mid.queue
    BY <1>4, <2>2, <2>3, ReleaseConserves
  <2> QED
    BY <1>2, <1>3, <1>5, <2>4
<1>6. CASE w \notin sem.handed
  <2>1. (M \ {w}) \ Waiting(mid) = M \ Waiting(sem)
    BY <1>2, <1>6 DEF Waiting
  <2>2. mid.free + Cardinality((M \ {w}) \ Waiting(mid)) = cap
    BY <1>2, <2>1 DEF Conserves
  <2>3. M \ {w} \subseteq R /\ Range(mid.queue) \subseteq M \ {w}
    BY <1>1, <1>2
  <2> QED
    BY <1>2, <1>3, <1>6, <2>2, <2>3 DEF Conserves
<1> QED
  BY <1>5, <1>6

-----------------------------------------------------------------------------
(* Nobody waits for nothing.                                                *)

\* While a slot is free and somebody waits, a slot has been handed to someone
\* who has yet to run, and will look behind them when they do: a newcomer may
\* find a queue, and so get in line, although a slot is free.
Stirring(sem) == sem.free > 0 /\ Waiting(sem) # {} => sem.handed # {}

IsRecord(sem) == sem = [free |-> sem.free, queue |-> sem.queue, handed |-> sem.handed]

LEMMA SemIsRecord ==
  ASSUME NEW R, NEW sem, IsSem(sem, R)
  PROVE  IsRecord(sem)
BY DEF IsSem, IsRecord

\* Whatever it was before, a semaphore that has just looked for a waiter stirs.
LEMMA WakeStirs ==
  ASSUME NEW sem, IsRecord(sem)
  PROVE  Stirring(Wake(sem)) /\ IsRecord(Wake(sem))
PROOF
<1>1. CASE sem.free > 0 /\ Unserved(sem) # {}
  <2> DEFINE w == sem.queue[Min(Unserved(sem))]
  <2>1. Wake(sem) = [sem EXCEPT !.free = sem.free - 1, !.handed = sem.handed \union {w}]
    BY <1>1 DEF Wake
  <2> HIDE DEF w
  <2>2. Wake(sem) = [free |-> sem.free - 1, queue |-> sem.queue,
                     handed |-> sem.handed \union {w}]
    BY <2>1 DEF IsRecord
  <2> QED
    BY <2>2 DEF Stirring, IsRecord
<1>2. CASE ~ (sem.free > 0 /\ Unserved(sem) # {})
  <2>1. Unserved(sem) = {} => Waiting(sem) = {}
    BY DEF Unserved, Waiting, Range
  <2> QED
    BY <1>2, <2>1 DEF Wake, Stirring
<1> QED
  BY <1>1, <1>2

LEMMA ReleaseStirs ==
  ASSUME NEW sem, IsRecord(sem)
  PROVE  Stirring(Release(sem))
PROOF
<1> DEFINE mid == [sem EXCEPT !.free = sem.free + 1]
<1>1. Release(sem) = Wake(mid) /\ IsRecord(mid)
  BY DEF Release, IsRecord
<1> HIDE DEF mid
<1> QED
  BY <1>1, WakeStirs

\* A newcomer takes a free slot, or joins a line in which somebody waits with
\* reason or has been handed a slot.
LEMMA AcquireStirs ==
  ASSUME NEW R, NEW sem, IsSem(sem, R), Stirring(sem), NEW w
  PROVE  Stirring(Acquire(sem, w))
PROOF
<1>1. /\ sem \in [free : Nat, queue : Seq(R), handed : SUBSET R]
      /\ sem.handed \subseteq Range(sem.queue)
  BY DEF IsSem
<1>2. CASE sem.free > 0 /\ sem.queue = << >>
  <2>1. Acquire(sem, w) = [sem EXCEPT !.free = sem.free - 1]
    BY <1>2 DEF Acquire
  <2>2. Acquire(sem, w).queue = << >>
    BY <1>1, <1>2, <2>1
  <2>3. Waiting(Acquire(sem, w)) = {}
    BY <2>2 DEF Waiting, Range
  <2> QED
    BY <2>3 DEF Stirring
<1>3. CASE ~ (sem.free > 0 /\ sem.queue = << >>)
  <2>1. Acquire(sem, w) = [sem EXCEPT !.queue = Append(sem.queue, w)]
    BY <1>3 DEF Acquire
  <2>2. Acquire(sem, w).free = sem.free /\ Acquire(sem, w).handed = sem.handed
    BY <1>1, <2>1
  <2>3. sem.free > 0 => sem.handed # {}
    <3> SUFFICES ASSUME sem.free > 0 PROVE sem.handed # {}
      OBVIOUS
    <3>1. sem.queue # << >>
      BY <1>3
    <3>2. 1 \in DOMAIN sem.queue
      BY <1>1, <3>1
    <3>3. sem.queue[1] \in Range(sem.queue)
      BY <3>2 DEF Range
    <3>4. sem.queue[1] \in Waiting(sem) \/ sem.queue[1] \in sem.handed
      BY <3>3 DEF Waiting
    <3> QED
      BY <3>4 DEF Stirring
  <2> QED
    BY <2>2, <2>3 DEF Stirring
<1> QED
  BY <1>2, <1>3

\* One who runs with a slot looks behind them.
LEMMA ResumeStirs ==
  ASSUME NEW R, NEW sem, IsSem(sem, R), Stirring(sem), NEW w
  PROVE  Stirring(Resume(sem, w)) /\ IsRecord(Resume(sem, w))
PROOF
<1>1. CASE w \in sem.handed
  <2>1. w \in Range(sem.queue)
    BY <1>1 DEF IsSem
  <2>2. IsRecord(Drop(sem, w))
    BY <2>1, DropProps, SemIsRecord
  <2>3. Resume(sem, w) = Wake(Drop(sem, w))
    BY <1>1 DEF Resume
  <2> QED
    BY <2>2, <2>3, WakeStirs
<1>2. CASE w \notin sem.handed
  BY <1>2, SemIsRecord DEF Resume
<1> QED
  BY <1>1, <1>2

\* One who gives up passes on what they were handed.
LEMMA CancelStirs ==
  ASSUME NEW R, NEW sem, IsSem(sem, R), Stirring(sem), NEW w \in Range(sem.queue)
  PROVE  Stirring(Cancel(sem, w))
PROOF
<1> DEFINE mid == Drop(sem, w)
<1>1. /\ IsSem(mid, R) /\ mid.free = sem.free /\ mid.handed = sem.handed \ {w}
      /\ Range(mid.queue) = Range(sem.queue) \ {w}
  BY DropProps
<1>2. Cancel(sem, w) = IF w \in sem.handed THEN Release(mid) ELSE mid
  BY DEF Cancel
<1> HIDE DEF mid
<1>3. CASE w \in sem.handed
  BY <1>1, <1>2, <1>3, SemIsRecord, ReleaseStirs
<1>4. CASE w \notin sem.handed
  <2>1. mid.handed = sem.handed /\ Waiting(mid) \subseteq Waiting(sem)
    BY <1>1, <1>4 DEF Waiting
  <2> QED
    BY <1>1, <1>2, <1>4, <2>1 DEF Stirring
<1> QED
  BY <1>3, <1>4

\* All that one who uses a semaphore does to it between two awaits.
Turn(sem, new, w) ==
  \/ new = sem
  \/ new \in {Acquire(sem, w), Resume(sem, w), Release(sem), Release(Resume(sem, w))}
  \/ w \in Range(sem.queue) /\ new = Cancel(sem, w)

LEMMA TurnStirs ==
  ASSUME NEW R, NEW sem, IsSem(sem, R), Stirring(sem), NEW w, NEW new, Turn(sem, new, w)
  PROVE  Stirring(new)
PROOF
<1>1. IsRecord(sem)
  BY SemIsRecord
<1>2. Stirring(Resume(sem, w)) /\ IsRecord(Resume(sem, w))
  BY ResumeStirs
<1>3. Stirring(Acquire(sem, w))
  BY AcquireStirs
<1>4. Stirring(Release(sem)) /\ Stirring(Release(Resume(sem, w)))
  BY <1>1, <1>2, ReleaseStirs
<1>5. w \in Range(sem.queue) => Stirring(Cancel(sem, w))
  BY CancelStirs
<1> QED
  BY <1>2, <1>3, <1>4, <1>5 DEF Turn

\* What others do to a semaphore takes no slot from one who owns it: nobody
\* else gets in line, and nobody else is taken off those a slot was handed to.
GrantsLast(sem, new, w) ==
  /\ Range(new.queue) \subseteq Range(sem.queue) \union {w}
  /\ sem.handed \ {w} \subseteq new.handed

LEMMA WakeGrants ==
  ASSUME NEW sem, IsRecord(sem)
  PROVE  Wake(sem).queue = sem.queue /\ sem.handed \subseteq Wake(sem).handed
PROOF
<1> DEFINE w == sem.queue[Min(Unserved(sem))]
<1>1. Wake(sem) \in {sem, [free |-> sem.free - 1, queue |-> sem.queue,
                            handed |-> sem.handed \union {w}]}
  BY DEF Wake, IsRecord
<1> HIDE DEF w
<1> QED
  BY <1>1

LEMMA ReleaseGrants ==
  ASSUME NEW sem, IsRecord(sem)
  PROVE  Release(sem).queue = sem.queue /\ sem.handed \subseteq Release(sem).handed
PROOF
<1> DEFINE mid == [sem EXCEPT !.free = sem.free + 1]
<1>1. /\ Release(sem) = Wake(mid) /\ IsRecord(mid)
      /\ mid.queue = sem.queue /\ mid.handed = sem.handed
  BY DEF Release, IsRecord
<1> HIDE DEF mid
<1> QED
  BY <1>1, WakeGrants

LEMMA ResumeGrants ==
  ASSUME NEW R, NEW sem, IsSem(sem, R), NEW w
  PROVE  GrantsLast(sem, Resume(sem, w), w)
PROOF
<1>1. CASE w \in sem.handed
  <2> DEFINE mid == Drop(sem, w)
  <2>1. w \in Range(sem.queue)
    BY <1>1 DEF IsSem
  <2>2. IsSem(mid, R) /\ mid.handed = sem.handed \ {w}
        /\ Range(mid.queue) = Range(sem.queue) \ {w}
    BY <2>1, DropProps
  <2>3. Resume(sem, w) = Wake(mid)
    BY <1>1 DEF Resume
  <2> HIDE DEF mid
  <2>4. Wake(mid).queue = mid.queue /\ mid.handed \subseteq Wake(mid).handed
    BY <2>2, SemIsRecord, WakeGrants
  <2> QED
    BY <2>2, <2>3, <2>4 DEF GrantsLast
<1>2. CASE w \notin sem.handed
  BY <1>2 DEF Resume, GrantsLast
<1> QED
  BY <1>1, <1>2

LEMMA TurnGrants ==
  ASSUME NEW R, NEW sem, IsSem(sem, R), Stirring(sem), NEW w \in R, NEW new,
         Turn(sem, new, w)
  PROVE  \A d : d # w /\ Granted(sem, d) => Granted(new, d)
PROOF
<1>1. CASE new = sem
  BY <1>1
<1>2. CASE new = Acquire(sem, w)
  <2>1. /\ sem.queue \in Seq(R) /\ sem.free \in Nat
        /\ sem = [free |-> sem.free, queue |-> sem.queue, handed |-> sem.handed]
    BY SemIsRecord DEF IsSem, IsRecord
  <2>2. CASE sem.free > 0 /\ sem.queue = << >>
    <3>1. new.queue = sem.queue /\ new.handed = sem.handed
      BY <1>2, <2>1, <2>2 DEF Acquire
    <3> QED
      BY <3>1 DEF Granted
  <2>3. CASE ~ (sem.free > 0 /\ sem.queue = << >>)
    <3>1. new.queue = Append(sem.queue, w) /\ new.handed = sem.handed
      BY <1>2, <2>1, <2>3 DEF Acquire
    <3>2. Range(new.queue) \subseteq Range(sem.queue) \union {w}
      BY <2>1, <3>1 DEF Range
    <3> QED
      BY <3>1, <3>2 DEF Granted
  <2> QED
    BY <2>2, <2>3
<1>3. CASE new = Release(sem)
  <2>1. new.queue = sem.queue /\ sem.handed \subseteq new.handed
    BY <1>3, SemIsRecord, ReleaseGrants
  <2> QED
    BY <2>1 DEF Granted
<1>4. CASE new \in {Resume(sem, w), Release(Resume(sem, w))}
  <2> DEFINE mid == Resume(sem, w)
  <2>1. GrantsLast(sem, mid, w) /\ IsRecord(mid)
    BY ResumeGrants, ResumeStirs
  <2> HIDE DEF mid
  <2>2. Release(mid).queue = mid.queue /\ mid.handed \subseteq Release(mid).handed
    BY <2>1, ReleaseGrants
  <2>3. new = mid \/ new = Release(mid)
    BY <1>4 DEF mid
  <2>4. GrantsLast(sem, new, w)
    BY <2>1, <2>2, <2>3 DEF GrantsLast
  <2> QED
    BY <2>4 DEF GrantsLast, Granted
<1>5. CASE w \in Range(sem.queue) /\ new = Cancel(sem, w)
  <2> DEFINE mid == Drop(sem, w)
  <2>1. IsSem(mid, R) /\ mid.handed = sem.handed \ {w}
        /\ Range(mid.queue) = Range(sem.queue) \ {w}
    BY <1>5, DropProps
  <2>2. new = Release(mid) \/ new = mid
    BY <1>5 DEF Cancel
  <2> HIDE DEF mid
  <2>3. Release(mid).queue = mid.queue /\ mid.handed \subseteq Release(mid).handed
    BY <2>1, SemIsRecord, ReleaseGrants
  <2>4. GrantsLast(sem, new, w)
    BY <2>1, <2>2, <2>3 DEF GrantsLast
  <2> QED
    BY <2>4 DEF GrantsLast, Granted
<1> QED
  BY <1>1, <1>2, <1>3, <1>4, <1>5 DEF Turn

\* Where anybody has asked, somebody owns: those who wait do so for one who
\* does not.
LEMMA SomebodyOwns ==
  ASSUME NEW R, NEW sem, NEW cap \in Nat \ {0}, NEW M, M # {},
         Conserves(sem, cap, M, R), Stirring(sem)
  PROVE  \E o \in M : o \notin Waiting(sem)
PROOF
<1> SUFFICES ASSUME M \subseteq Waiting(sem)
             PROVE  FALSE
  OBVIOUS
<1>1. /\ sem \in [free : Nat, queue : Seq(R), handed : SUBSET R]
      /\ sem.handed \subseteq Range(sem.queue) /\ Range(sem.queue) \subseteq M
      /\ sem.free + Cardinality(M \ Waiting(sem)) = cap
  BY DEF Conserves, IsSem
<1>2. M \ Waiting(sem) = {}
  OBVIOUS
<1>3. Cardinality(M \ Waiting(sem)) = 0
  BY <1>2, FS_EmptySet
<1>4. sem.free > 0 /\ Waiting(sem) # {}
  BY <1>1, <1>3
<1>5. PICK h \in sem.handed : h \in M
  BY <1>1, <1>4 DEF Stirring
<1> QED
  BY <1>5 DEF Waiting
=============================================================================
