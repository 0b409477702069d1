-------------------------- MODULE ReadPageProofs ---------------------------
(***************************************************************************)
(* The reads for every value of their constants: any number of reads,      *)
(* pages and names, any caps, any number of edits and moves.               *)
(*                                                                         *)
(* The invariant has three parts: both limits keep their count             *)
(* (SlotsKept, LocksKept, by the lemmas of SemaphoreProofs); what a read   *)
(* holds between two awaits is owed to its caller (ReadOK); and while a    *)
(* read exports, nobody files what it is about to file (MissLasts).        *)
(***************************************************************************)
EXTENDS ReadPage, SemaphoreProofs

InGate == {"slot", "lock", "kickoff", "exporting"}
AtLock == {"lock", "kickoff", "exporting"}
Answered == {"answered"} \union InGate
Labels == {"idle", "asking", "done"} \union Answered

SlotMembers == {r \in Readers : pc[r] \in InGate}
LockMembers(a) == {r \in Readers : pc[r] \in AtLock /\ Target(r) = a}

\* The variables are functions of the reads, the pages and the addresses.
Shapes ==
  /\ call = [r \in Readers |-> call[r]]
  /\ cache = [p \in Pages |-> cache[p]]
  /\ locks = [a \in Addresses |-> locks[a]]

SlotsKept ==
  /\ Conserves(slots, GlobalCap, SlotMembers, Readers)
  /\ \A r \in Range(slots.queue) : pc[r] = "slot"

LocksKept ==
  \A a \in Addresses :
    /\ Conserves(locks[a], PageCap, LockMembers(a), Readers)
    /\ \A r \in Range(locks[a].queue) : pc[r] = "lock"

\* What is owed to the caller of an open read.
IsOwed(c) ==
  /\ c = Doc!Open(c.meant, c.began, c.asked)
  /\ c.asked \in Addresses
  /\ c.meant \subseteq Pages /\ Doc!Resolve(c.asked) \in c.meant
  /\ c.began \in [Pages -> Nat]
  /\ \A p \in Pages : c.began[p] <= version[p]

\* The page the server answered is one the address meant, and its stamp is one
\* the page had since.
IsAnswer(c, answer) ==
  answer.id # None =>
    /\ answer.id \in c.meant
    /\ answer.updatedAt # None =>
         /\ answer.updatedAt \in Nat
         /\ c.began[answer.id] <= answer.updatedAt
         /\ answer.updatedAt <= version[answer.id]

\* So is the page being rendered, and it is the one the read files it under.
IsExport(c, answer, html) ==
  /\ html \in Rendering
  /\ html.page \in c.meant
  /\ c.began[html.page] <= html.version /\ html.version <= version[html.page]
  /\ answer.id # None =>
       /\ html.page = answer.id
       /\ answer.updatedAt # None => answer.updatedAt <= html.version

ReadOK(r) ==
  /\ pc[r] = "idle" => call[r] = Doc!Closed
  /\ pc[r] = "done" => call[r].status \in {"failed", "served"}
  /\ pc[r] \in {"asking"} \union Answered => IsOwed(call[r])
  /\ pc[r] \in Answered => IsAnswer(call[r], page[r])
  /\ IF pc[r] = "exporting" THEN IsExport(call[r], page[r], export[r])
                            ELSE export[r] = None

\* One lock to a page: what the second look missed stays missing while the
\* read exports.
MissLasts ==
  PageCap = 1 =>
    \A r \in Readers : pc[r] \in {"kickoff", "exporting"} =>
      CacheGet(page[r].id, page[r].updatedAt) = None

IInv ==
  /\ TypeOK
  /\ Shapes
  /\ SlotsKept
  /\ LocksKept
  /\ \A r \in Readers : ReadOK(r)
  /\ CacheIsSound
  /\ MissLasts

-----------------------------------------------------------------------------
(* How a step of one read preserves the invariant *)

LEMMA Basics ==
  /\ IsFiniteSet(Readers)
  /\ GlobalCap \in Nat \ {0} /\ PageCap \in Nat \ {0}
  /\ Asked \in [Readers -> SUBSET (Pages \union Names)]
  /\ Pages \intersect Names = {}
  /\ None \notin Addresses /\ None \notin Pages
BY ReadPageAssumption DEF Addresses

LEMMA Types ==
  ASSUME IInv
  PROVE  /\ version \in [Pages -> Nat] /\ names \in [Names -> Pages]
         /\ moves \in 0 .. MaxMoves
         /\ pc \in [Readers -> Labels]
         /\ page \in [Readers -> [id : Pages \union {None}, updatedAt : Nat \union {None}]]
         /\ export \in [Readers -> Rendering \union {None}]
         /\ \A p \in Pages :
              cache[p] # None => cache[p] \in [updatedAt : Nat, html : Rendering]
         /\ Shapes
BY DEF IInv, TypeOK, Labels, Answered, InGate

LEMMA MembersAreFinite ==
  /\ IsFiniteSet(SlotMembers)
  /\ \A a \in Addresses : IsFiniteSet(LockMembers(a))
PROOF
<1>1. SlotMembers \in SUBSET Readers
  BY DEF SlotMembers
<1>2. \A a \in Addresses : LockMembers(a) \in SUBSET Readers
  BY DEF LockMembers
<1> QED
  BY <1>1, <1>2, Basics, FS_Subset

\* The other reads stay where they are.
OthersStay(r) ==
  \A d \in Readers : d # r =>
    /\ pc'[d] = pc[d] /\ page'[d] = page[d]
    /\ export'[d] = export[d] /\ call'[d] = call[d]

LEMMA ReadsKept ==
  ASSUME IInv, NEW r \in Readers, UNCHANGED <<version, names>>,
         OthersStay(r), ReadOK(r)'
  PROVE  \A d \in Readers : ReadOK(d)'
PROOF
<1> SUFFICES ASSUME NEW d \in Readers, d # r
             PROVE  ReadOK(d)'
  OBVIOUS
<1>1. ReadOK(d)
  BY DEF IInv
<1>2. pc'[d] = pc[d] /\ page'[d] = page[d] /\ export'[d] = export[d] /\ call'[d] = call[d]
  BY DEF OthersStay
<1>3. IsOwed(call[d]) => IsOwed(call[d])'
  BY <1>2 DEF IsOwed, Doc!Resolve, Doc!Open
<1>4. IsAnswer(call[d], page[d]) => IsAnswer(call[d], page[d])'
  BY <1>2 DEF IsAnswer
<1>5. IsExport(call[d], page[d], export[d]) => IsExport(call[d], page[d], export[d])'
  BY <1>2 DEF IsExport
<1> QED
  BY <1>1, <1>2, <1>3, <1>4, <1>5 DEF ReadOK

\* A read enters the gate, waits, or leaves: its membership follows its place.
LEMMA SlotsMove ==
  ASSUME IInv, NEW r \in Readers, OthersStay(r), NEW M,
         M = IF pc'[r] \in InGate THEN SlotMembers \union {r} ELSE SlotMembers \ {r},
         Conserves(slots', GlobalCap, M, Readers),
         Range(slots'.queue) \subseteq Range(slots.queue) \union {r},
         r \in Range(slots'.queue) => pc'[r] = "slot"
  PROVE  SlotsKept'
PROOF
<1>1. SlotMembers' = M
  BY DEF SlotMembers, OthersStay
<1>2. \A d \in Range(slots'.queue) : d \in Readers
  BY DEF Conserves
<1>3. \A d \in Range(slots'.queue) : pc'[d] = "slot"
  BY <1>2 DEF IInv, SlotsKept, OthersStay
<1> QED
  BY <1>1, <1>3 DEF SlotsKept

LEMMA LocksMove ==
  ASSUME IInv, NEW r \in Readers, OthersStay(r), NEW a \in Addresses, NEW M,
         M = IF pc'[r] \in AtLock /\ Target(r)' = a
             THEN LockMembers(a) \union {r} ELSE LockMembers(a) \ {r},
         Conserves(locks'[a], PageCap, M, Readers),
         Range(locks'[a].queue) \subseteq Range(locks[a].queue) \union {r},
         r \in Range(locks'[a].queue) => pc'[r] = "lock"
  PROVE  /\ Conserves(locks'[a], PageCap, LockMembers(a)', Readers)
         /\ \A d \in Range(locks'[a].queue) : pc'[d] = "lock"
PROOF
<1>1. \A d \in Readers : d # r => Target(d)' = Target(d)
  BY DEF Target, OthersStay
<1>2. LockMembers(a)' = M
  BY <1>1 DEF LockMembers, OthersStay
<1>3. \A d \in Range(locks'[a].queue) : d \in Readers
  BY DEF Conserves
<1>4. \A d \in Range(locks'[a].queue) : pc'[d] = "lock"
  BY <1>3 DEF IInv, LocksKept, OthersStay
<1> QED
  BY <1>2, <1>4

\* A read that neither comes to the limits nor leaves them touches neither.
LEMMA SlotsStay ==
  ASSUME IInv, NEW r \in Readers, OthersStay(r), slots' = slots, pc[r] # "slot",
         pc'[r] \in InGate <=> pc[r] \in InGate
  PROVE  SlotsKept'
PROOF
<1> DEFINE M == IF pc'[r] \in InGate THEN SlotMembers \union {r} ELSE SlotMembers \ {r}
<1>1. M = SlotMembers
  BY DEF SlotMembers
<1>2. Conserves(slots', GlobalCap, M, Readers)
  BY <1>1 DEF IInv, SlotsKept
<1>3. r \notin Range(slots'.queue)
  BY DEF IInv, SlotsKept
<1> HIDE DEF M
<1> QED
  BY <1>2, <1>3, SlotsMove DEF M

LEMMA LockStays ==
  ASSUME IInv, NEW r \in Readers, OthersStay(r), NEW a \in Addresses,
         locks'[a] = locks[a],
         (pc'[r] \in AtLock /\ Target(r)' = a) <=> (pc[r] \in AtLock /\ Target(r) = a),
         pc[r] = "lock" => pc'[r] = "lock" \/ Target(r) # a
  PROVE  /\ Conserves(locks'[a], PageCap, LockMembers(a)', Readers)
         /\ \A d \in Range(locks'[a].queue) : pc'[d] = "lock"
PROOF
<1> DEFINE M == IF pc'[r] \in AtLock /\ Target(r)' = a
                THEN LockMembers(a) \union {r} ELSE LockMembers(a) \ {r}
<1>1. M = LockMembers(a)
  BY DEF LockMembers
<1>2. Conserves(locks[a], PageCap, LockMembers(a), Readers)
  BY DEF IInv, LocksKept
<1>3. Conserves(locks'[a], PageCap, M, Readers)
  BY <1>1, <1>2
<1>4. r \in Range(locks'[a].queue) => pc'[r] = "lock"
  <2> SUFFICES ASSUME r \in Range(locks[a].queue) PROVE pc'[r] = "lock"
    OBVIOUS
  <2>1. pc[r] = "lock"
    BY DEF IInv, LocksKept
  <2>2. r \in LockMembers(a)
    BY <1>2 DEF Conserves
  <2> QED
    BY <2>1, <2>2 DEF LockMembers
<1>5. Range(locks'[a].queue) \subseteq Range(locks[a].queue) \union {r}
  OBVIOUS
<1> HIDE DEF M
<1> QED
  BY <1>3, <1>4, <1>5, LocksMove DEF M

\* The parts put together.
LEMMA OneReadMoves ==
  ASSUME IInv, NEW r \in Readers, UNCHANGED <<version, names, moves>>,
         OthersStay(r),
         pc' \in [Readers -> Labels],
         page' \in [Readers -> [id : Pages \union {None}, updatedAt : Nat \union {None}]],
         export' \in [Readers -> Rendering \union {None}],
         call' = [d \in Readers |-> call'[d]],
         locks' = [a \in Addresses |-> locks'[a]],
         SlotsKept', LocksKept', ReadOK(r)',
         cache' = [p \in Pages |-> cache'[p]],
         \A p \in Pages :
           cache'[p] # None => cache'[p] \in [updatedAt : Nat, html : Rendering],
         CacheIsSound', MissLasts'
  PROVE  IInv'
PROOF
<1>1. \A sem : IsSem(sem, Readers) =>
        /\ sem.free \in Nat /\ sem.queue \in Seq(Readers)
        /\ sem.handed \subseteq Range(sem.queue)
  BY DEF IsSem
<1>2. IsSem(slots', Readers) /\ \A a \in Addresses : IsSem(locks'[a], Readers)
  BY DEF SlotsKept, LocksKept, Conserves
<1>3. TypeOK'
  BY <1>1, <1>2, Types DEF TypeOK, Labels, Answered, InGate
<1>4. Shapes'
  BY DEF Shapes
<1>5. \A d \in Readers : ReadOK(d)'
  BY ReadsKept
<1> QED
  BY <1>3, <1>4, <1>5 DEF IInv

\* With the cache untouched, what is in it stays sound, and what is missing
\* from it stays missing.
LEMMA CacheStays ==
  ASSUME IInv, NEW r \in Readers, OthersStay(r), UNCHANGED <<version, cache>>,
         pc'[r] \in {"kickoff", "exporting"} =>
           CacheGet(page'[r].id, page'[r].updatedAt) = None
  PROVE  /\ cache' = [p \in Pages |-> cache'[p]]
         /\ \A p \in Pages :
              cache'[p] # None => cache'[p] \in [updatedAt : Nat, html : Rendering]
         /\ CacheIsSound' /\ MissLasts'
PROOF
<1>1. cache' = [p \in Pages |-> cache'[p]]
  BY Types DEF Shapes
<1>2. \A p \in Pages :
        cache'[p] # None => cache'[p] \in [updatedAt : Nat, html : Rendering]
  BY Types
<1>3. CacheIsSound'
  BY DEF IInv, CacheIsSound
<1>4. \A i, u : CacheGet(i, u)' = CacheGet(i, u)
  BY DEF CacheGet, IsKeyable
<1>5. MissLasts'
  <2> SUFFICES ASSUME PageCap = 1, NEW d \in Readers, pc'[d] \in {"kickoff", "exporting"}
               PROVE  CacheGet(page[d].id, page[d].updatedAt)' = None
    BY DEF MissLasts
  <2>1. CASE d = r
    BY <2>1, <1>4
  <2>2. CASE d # r
    BY <2>2, <1>4 DEF OthersStay, IInv, MissLasts
  <2> QED
    BY <2>1, <2>2
<1> QED
  BY <1>1, <1>2, <1>3, <1>5

LEMMA OutsideStays ==
  ASSUME IInv, NEW r \in Readers, OthersStay(r), UNCHANGED <<slots, locks>>,
         pc[r] \notin InGate, pc'[r] \notin InGate
  PROVE  /\ SlotsKept' /\ LocksKept'
         /\ locks' = [a \in Addresses |-> locks'[a]]
PROOF
<1>1. SlotsKept'
  BY SlotsStay DEF InGate
<1>2. ASSUME NEW a \in Addresses
      PROVE  /\ Conserves(locks'[a], PageCap, LockMembers(a)', Readers)
             /\ \A d \in Range(locks'[a].queue) : pc'[d] = "lock"
  <2>1. pc[r] \notin AtLock /\ pc'[r] \notin AtLock /\ pc[r] # "lock"
    BY DEF InGate, AtLock
  <2>2. locks'[a] = locks[a]
    OBVIOUS
  <2> QED
    BY <2>1, <2>2, LockStays
<1>3. LocksKept'
  BY <1>2 DEF LocksKept
<1> QED
  BY <1>1, <1>3, Types DEF Shapes

\* The places of an open read before the gate, in it, and after.
LEMMA Places ==
  ASSUME IInv, NEW r \in Readers
  PROVE  /\ ReadOK(r)
         /\ pc[r] \in Answered => Target(r) \in Addresses
         /\ pc[r] \in Answered /\ page[r].id # None =>
              page[r].id \in Pages /\ Target(r) = page[r].id
PROOF
<1>1. ReadOK(r)
  BY DEF IInv
<1>2. ASSUME pc[r] \in Answered
      PROVE  call[r].asked \in Addresses /\ call[r].meant \subseteq Pages
  BY <1>1, <1>2 DEF ReadOK, IsOwed
<1>3. ASSUME pc[r] \in Answered, page[r].id # None
      PROVE  page[r].id \in Pages
  BY <1>1, <1>2, <1>3 DEF ReadOK, IsAnswer
<1> QED
  BY <1>1, <1>2, <1>3 DEF Target, Addresses

LEMMA ReadKeeps ==
  ASSUME IInv, NEW r \in Readers, NEW a \in Asked[r], Read(r, a)
  PROVE  IInv'
PROOF
<1>1. /\ call[r] = Doc!Closed
      /\ call' = [call EXCEPT ![r] = Doc!Open({Doc!Resolve(a)}, version, a)]
      /\ pc' = [pc EXCEPT ![r] = "asking"]
      /\ UNCHANGED <<version, names, moves, page, export, slots, locks, cache>>
  BY DEF Read, Goto, Doc!Begin, gate
<1>2. ReadOK(r)
  BY Places
<1>3. pc[r] = "idle"
  <2>1. pc[r] # "done"
    BY <1>1, <1>2 DEF ReadOK, Doc!Closed
  <2>2. pc[r] \notin {"asking"} \union Answered
    BY <1>1, <1>2 DEF ReadOK, IsOwed, Doc!Open, Doc!Closed
  <2> QED
    BY <2>1, <2>2, Types DEF Labels
<1>4. a \in Addresses /\ Doc!Resolve(a) \in Pages
  BY Basics, Types DEF Addresses, Doc!Resolve
<1> DEFINE c == Doc!Open({Doc!Resolve(a)}, version, a)
<1>5. call'[r] = c /\ call' = [d \in Readers |-> call'[d]]
  BY <1>1, Types DEF Shapes
<1>6. pc'[r] = "asking" /\ pc' \in [Readers -> Labels]
  BY <1>1, Types DEF Labels
<1>7. OthersStay(r)
  BY <1>1, <1>3, Types DEF OthersStay, Shapes
<1>8. c.asked = a /\ c.meant = {Doc!Resolve(a)} /\ c.began = version
  BY DEF Doc!Open
<1>9. c = Doc!Open(c.meant, c.began, c.asked)
  BY <1>8
<1> HIDE DEF c
<1>10. IsOwed(call[r])'
  <2>1. call'[r] = Doc!Open(call'[r].meant, call'[r].began, call'[r].asked)
    BY <1>5, <1>9
  <2>2. call'[r].asked = a /\ call'[r].meant = {Doc!Resolve(a)} /\ call'[r].began = version
    BY <1>5, <1>8
  <2>3. Doc!Resolve(call[r].asked)' = Doc!Resolve(a)
    BY <1>1, <2>2 DEF Doc!Resolve
  <2>4. version' = version /\ version \in [Pages -> Nat] /\ \A p \in Pages : version[p] <= version[p]
    BY <1>1, Types
  <2> QED
    BY <1>4, <2>1, <2>2, <2>3, <2>4 DEF IsOwed
<1>11. ReadOK(r)'
  BY <1>1, <1>2, <1>3, <1>6, <1>10 DEF ReadOK, Answered, InGate
<1>12. SlotsKept' /\ LocksKept' /\ locks' = [b \in Addresses |-> locks'[b]]
  BY <1>1, <1>3, <1>6, <1>7, OutsideStays DEF InGate
<1>13. /\ cache' = [p \in Pages |-> cache'[p]]
       /\ \A p \in Pages :
            cache'[p] # None => cache'[p] \in [updatedAt : Nat, html : Rendering]
       /\ CacheIsSound' /\ MissLasts'
  BY <1>1, <1>6, <1>7, CacheStays
<1>14. /\ page' \in [Readers -> [id : Pages \union {None}, updatedAt : Nat \union {None}]]
       /\ export' \in [Readers -> Rendering \union {None}]
  BY <1>1, Types
<1> QED
  BY <1>1, <1>5, <1>6, <1>7, <1>11, <1>12, <1>13, <1>14, OneReadMoves

LEMMA GetPageAnsweredKeeps ==
  ASSUME IInv, NEW r \in Readers, GetPageAnswered(r)
  PROVE  IInv'
PROOF
<1> DEFINE p == Doc!Resolve(call[r].asked)
<1>1. /\ pc[r] = "asking"
      /\ pc' = [pc EXCEPT ![r] = "answered"]
      /\ UNCHANGED <<version, names, moves, call, export, slots, locks, cache>>
  BY DEF GetPageAnswered, Goto, document, gate
<1>2. PICK id \in {p, None}, at \in {version[p], None} :
        page' = [page EXCEPT ![r] = [id |-> id, updatedAt |-> at]]
  BY DEF GetPageAnswered
<1>3. ReadOK(r)
  BY Places
<1>4. IsOwed(call[r]) /\ export[r] = None
  BY <1>1, <1>3 DEF ReadOK
<1>5. p \in call[r].meant /\ p \in Pages /\ version[p] \in Nat
      /\ call[r].began[p] <= version[p]
  BY <1>4, Types DEF IsOwed
<1> HIDE DEF p
<1> DEFINE answer == [id |-> id, updatedAt |-> at]
<1>6. answer \in [id : Pages \union {None}, updatedAt : Nat \union {None}]
      /\ answer.id = id /\ answer.updatedAt = at
  BY <1>2, <1>5
<1>7. page' = [page EXCEPT ![r] = answer]
  BY <1>2
<1> HIDE DEF answer
<1>8. /\ page' \in [Readers -> [id : Pages \union {None}, updatedAt : Nat \union {None}]]
      /\ page'[r] = answer
  BY <1>6, <1>7, Types
<1>9. pc'[r] = "answered" /\ pc' \in [Readers -> Labels]
  BY <1>1, Types DEF Labels, Answered
<1>10. OthersStay(r)
  BY <1>1, <1>7, Types DEF OthersStay
<1>11. IsAnswer(call[r], page[r])'
  <2>1. id # None => id = p
    BY <1>2
  <2>2. at # None => at = version[p]
    BY <1>2
  <2>3. version[p] <= version[p]
    BY <1>5
  <2> QED
    BY <1>1, <1>5, <1>6, <1>8, <2>1, <2>2, <2>3 DEF IsAnswer
<1>12. IsOwed(call[r])'
  BY <1>1, <1>4 DEF IsOwed, Doc!Resolve, Doc!Open
<1>13. ReadOK(r)'
  BY <1>1, <1>4, <1>9, <1>11, <1>12 DEF ReadOK
<1>14. SlotsKept' /\ LocksKept' /\ locks' = [b \in Addresses |-> locks'[b]]
  BY <1>1, <1>9, <1>10, OutsideStays DEF InGate
<1>15. /\ cache' = [q \in Pages |-> cache'[q]]
       /\ \A q \in Pages :
            cache'[q] # None => cache'[q] \in [updatedAt : Nat, html : Rendering]
       /\ CacheIsSound' /\ MissLasts'
  BY <1>1, <1>9, <1>10, CacheStays
<1>16. call' = [d \in Readers |-> call'[d]] /\ export' \in [Readers -> Rendering \union {None}]
  BY <1>1, Types DEF Shapes
<1> QED
  BY <1>1, <1>8, <1>9, <1>10, <1>13, <1>14, <1>15, <1>16, OneReadMoves

\* A read that returns or raises has nothing any more.
LEMMA LeaveProps ==
  ASSUME IInv, NEW r \in Readers, Leave(r), NEW c,
         call' = [call EXCEPT ![r] = c], c.status \in {"failed", "served"}
  PROVE  /\ OthersStay(r) /\ pc'[r] = "done" /\ ReadOK(r)'
         /\ pc' \in [Readers -> Labels]
         /\ page' \in [Readers -> [id : Pages \union {None}, updatedAt : Nat \union {None}]]
         /\ export' \in [Readers -> Rendering \union {None}]
         /\ call' = [d \in Readers |-> call'[d]]
PROOF
<1>1. /\ pc' = [pc EXCEPT ![r] = "done"]
      /\ page' = [page EXCEPT ![r] = NoAnswer]
      /\ export' = [export EXCEPT ![r] = None]
  BY DEF Leave, Goto
<1>2. NoAnswer \in [id : Pages \union {None}, updatedAt : Nat \union {None}]
  BY DEF NoAnswer
<1>3. pc' \in [Readers -> Labels] /\ pc'[r] = "done"
  BY <1>1, Types DEF Labels
<1>4. /\ page' \in [Readers -> [id : Pages \union {None}, updatedAt : Nat \union {None}]]
      /\ export' \in [Readers -> Rendering \union {None}] /\ export'[r] = None
  BY <1>1, <1>2, Types
<1>5. call' = [d \in Readers |-> call'[d]] /\ call'[r] = c
  BY Types DEF Shapes
<1>6. OthersStay(r)
  BY <1>1, Types DEF OthersStay, Shapes
<1>7. ReadOK(r)'
  BY <1>3, <1>4, <1>5 DEF ReadOK, Answered, InGate
<1> QED
  BY <1>3, <1>4, <1>5, <1>6, <1>7

LEMMA LeaveKeeps ==
  ASSUME IInv, NEW r \in Readers, Leave(r), NEW c,
         call' = [call EXCEPT ![r] = c], c.status \in {"failed", "served"},
         UNCHANGED <<version, names, moves, cache>>,
         SlotsKept', LocksKept', locks' = [a \in Addresses |-> locks'[a]]
  PROVE  IInv'
PROOF
<1>1. /\ OthersStay(r) /\ pc'[r] = "done" /\ ReadOK(r)'
      /\ pc' \in [Readers -> Labels]
      /\ page' \in [Readers -> [id : Pages \union {None}, updatedAt : Nat \union {None}]]
      /\ export' \in [Readers -> Rendering \union {None}]
      /\ call' = [d \in Readers |-> call'[d]]
  BY LeaveProps
<1>2. /\ cache' = [p \in Pages |-> cache'[p]]
      /\ \A p \in Pages :
           cache'[p] # None => cache'[p] \in [updatedAt : Nat, html : Rendering]
      /\ CacheIsSound' /\ MissLasts'
  BY <1>1, CacheStays
<1> QED
  BY <1>1, <1>2, OneReadMoves

\* An answer or an error, as far as the invariant is concerned.
LEMMA Settled ==
  ASSUME NEW r \in Readers
  PROVE  /\ Raise(r) =>
              /\ Leave(r) /\ call' = [call EXCEPT ![r] = Doc!Failed]
              /\ Doc!Failed.status \in {"failed", "served"}
         /\ \A html : Answer(r, html) =>
              /\ Leave(r) /\ call' = [call EXCEPT ![r] = Doc!Served(html)]
              /\ Doc!Served(html).status \in {"failed", "served"}
BY DEF Raise, Answer, Doc!Failed, Doc!Served

LEMMA OutsideRaiseKeeps ==
  ASSUME IInv, NEW r \in Readers, pc[r] \in {"asking", "answered"}, Raise(r),
         UNCHANGED <<version, names, moves, slots, locks, cache>>
  PROVE  IInv'
PROOF
<1>1. /\ Leave(r) /\ call' = [call EXCEPT ![r] = Doc!Failed]
      /\ Doc!Failed.status \in {"failed", "served"}
  BY Settled
<1>2. OthersStay(r) /\ pc'[r] = "done"
  BY <1>1, LeaveProps
<1>3. SlotsKept' /\ LocksKept' /\ locks' = [a \in Addresses |-> locks'[a]]
  BY <1>2, OutsideStays DEF InGate
<1> QED
  BY <1>1, <1>3, LeaveKeeps

\* Where an open read stands, its place may change without anything else.
LEMMA Advance ==
  ASSUME IInv, NEW r \in Readers, NEW l \in Answered \ {"exporting"},
         pc[r] \in Answered \ {"exporting"}, Goto(r, l),
         UNCHANGED <<version, names, call, page, export>>
  PROVE  /\ OthersStay(r) /\ pc'[r] = l /\ ReadOK(r)'
         /\ Target(r)' = Target(r)
         /\ pc' \in [Readers -> Labels]
         /\ page' \in [Readers -> [id : Pages \union {None}, updatedAt : Nat \union {None}]]
         /\ export' \in [Readers -> Rendering \union {None}]
         /\ call' = [d \in Readers |-> call'[d]]
PROOF
<1>1. pc' = [pc EXCEPT ![r] = l]
  BY DEF Goto
<1>2. pc'[r] = l /\ pc' \in [Readers -> Labels]
  BY <1>1, Types DEF Labels
<1>3. ReadOK(r)
  BY Places
<1>4. IsOwed(call[r]) /\ IsAnswer(call[r], page[r]) /\ export[r] = None
  BY <1>3 DEF ReadOK
<1>5. IsOwed(call[r])' /\ IsAnswer(call[r], page[r])'
  BY <1>4 DEF IsOwed, IsAnswer, Doc!Resolve, Doc!Open
<1>6. ReadOK(r)'
  BY <1>2, <1>4, <1>5 DEF ReadOK, Answered, InGate
<1>7. OthersStay(r)
  BY <1>1, Types DEF OthersStay
<1>8. Target(r)' = Target(r)
  BY DEF Target
<1> QED
  BY <1>2, <1>6, <1>7, <1>8, Types DEF Shapes

LEMMA EnterKeeps ==
  ASSUME IInv, NEW r \in Readers, Enter(r)
  PROVE  IInv'
PROOF
<1> DEFINE hit == CacheGet(page[r].id, page[r].updatedAt)
<1>1. /\ pc[r] = "answered"
      /\ UNCHANGED <<version, names, moves, locks, cache>>
      /\ IF hit # None
         THEN Answer(r, hit) /\ UNCHANGED slots
         ELSE /\ slots' = Acquire(slots, r)
              /\ Goto(r, "slot")
              /\ UNCHANGED <<call, page, export>>
  BY DEF Enter, document
<1> HIDE DEF hit
<1>2. CASE hit # None
  <2>1. /\ Leave(r) /\ call' = [call EXCEPT ![r] = Doc!Served(hit)]
        /\ Doc!Served(hit).status \in {"failed", "served"}
    BY <1>1, <1>2, Settled
  <2>2. OthersStay(r) /\ pc'[r] = "done"
    BY <2>1, LeaveProps
  <2>3. UNCHANGED slots
    BY <1>1, <1>2
  <2>4. SlotsKept' /\ LocksKept' /\ locks' = [a \in Addresses |-> locks'[a]]
    BY <1>1, <2>2, <2>3, OutsideStays DEF InGate
  <2> QED
    BY <1>1, <2>1, <2>4, LeaveKeeps
<1>3. CASE hit = None
  <2>1. slots' = Acquire(slots, r) /\ Goto(r, "slot") /\ UNCHANGED <<call, page, export>>
    BY <1>1, <1>3
  <2>2. /\ OthersStay(r) /\ pc'[r] = "slot" /\ ReadOK(r)'
        /\ Target(r)' = Target(r)
        /\ pc' \in [Readers -> Labels]
        /\ page' \in [Readers -> [id : Pages \union {None}, updatedAt : Nat \union {None}]]
        /\ export' \in [Readers -> Rendering \union {None}]
        /\ call' = [d \in Readers |-> call'[d]]
    BY <1>1, <2>1, Advance DEF Answered, InGate
  <2>3. Conserves(slots, GlobalCap, SlotMembers, Readers) /\ r \notin SlotMembers
    BY <1>1 DEF IInv, SlotsKept, SlotMembers, InGate
  <2>4. /\ Conserves(slots', GlobalCap, SlotMembers \union {r}, Readers)
        /\ Range(slots'.queue) \subseteq Range(slots.queue) \union {r}
    BY <2>1, <2>3, Basics, AcquireConserves
  <2>5. SlotsKept'
    BY <2>2, <2>4, SlotsMove DEF InGate
  <2>6. ASSUME NEW a \in Addresses
        PROVE  /\ Conserves(locks'[a], PageCap, LockMembers(a)', Readers)
               /\ \A d \in Range(locks'[a].queue) : pc'[d] = "lock"
    <3>1. pc[r] \notin AtLock /\ pc'[r] \notin AtLock /\ pc[r] # "lock" /\ locks'[a] = locks[a]
      BY <1>1, <2>2 DEF AtLock
    <3> QED
      BY <2>2, <3>1, LockStays
  <2>7. LocksKept' /\ locks' = [a \in Addresses |-> locks'[a]]
    BY <1>1, <2>6, Types DEF LocksKept, Shapes
  <2>8. /\ cache' = [p \in Pages |-> cache'[p]]
        /\ \A p \in Pages :
             cache'[p] # None => cache'[p] \in [updatedAt : Nat, html : Rendering]
        /\ CacheIsSound' /\ MissLasts'
    BY <1>1, <2>2, CacheStays
  <2> QED
    BY <1>1, <2>2, <2>5, <2>7, <2>8, OneReadMoves
<1> QED
  BY <1>2, <1>3

\* A step at one lock leaves the locks of other addresses alone.
LEMMA LocksFollow ==
  ASSUME IInv, NEW r \in Readers, OthersStay(r), pc[r] \in Answered,
         pc'[r] \in AtLock => Target(r)' = Target(r),
         NEW X, locks' = [locks EXCEPT ![Target(r)] = X], NEW M,
         M = IF pc'[r] \in AtLock THEN LockMembers(Target(r)) \union {r}
                                  ELSE LockMembers(Target(r)) \ {r},
         Conserves(X, PageCap, M, Readers),
         Range(X.queue) \subseteq Range(locks[Target(r)].queue) \union {r},
         r \in Range(X.queue) => pc'[r] = "lock"
  PROVE  LocksKept' /\ locks' = [a \in Addresses |-> locks'[a]]
PROOF
<1>1. locks = [a \in Addresses |-> locks[a]] /\ Target(r) \in Addresses
  BY Types, Places DEF Shapes
<1>2. locks' = [a \in Addresses |-> locks'[a]] /\ locks'[Target(r)] = X
      /\ \A a \in Addresses : a # Target(r) => locks'[a] = locks[a]
  BY <1>1
<1>3. ASSUME NEW a \in Addresses
      PROVE  /\ Conserves(locks'[a], PageCap, LockMembers(a)', Readers)
             /\ \A d \in Range(locks'[a].queue) : pc'[d] = "lock"
  <2>1. CASE a = Target(r)
    <3>1. M = IF pc'[r] \in AtLock /\ Target(r)' = a
              THEN LockMembers(a) \union {r} ELSE LockMembers(a) \ {r}
      BY <2>1
    <3>2. /\ Conserves(locks'[a], PageCap, M, Readers)
          /\ Range(locks'[a].queue) \subseteq Range(locks[a].queue) \union {r}
          /\ r \in Range(locks'[a].queue) => pc'[r] = "lock"
      BY <2>1, <1>2
    <3> QED
      BY <3>1, <3>2, LocksMove
  <2>2. CASE a # Target(r)
    <3>1. locks'[a] = locks[a]
      BY <2>2, <1>2
    <3>2. ~ (pc'[r] \in AtLock /\ Target(r)' = a) /\ ~ (pc[r] \in AtLock /\ Target(r) = a)
      BY <2>2
    <3> QED
      BY <2>2, <3>1, <3>2, LockStays
  <2> QED
    BY <2>1, <2>2
<1> QED
  BY <1>2, <1>3 DEF LocksKept

LEMMA LocksUntouched ==
  ASSUME IInv, NEW r \in Readers, OthersStay(r), UNCHANGED locks,
         pc[r] \notin AtLock /\ pc'[r] \notin AtLock
  PROVE  LocksKept' /\ locks' = [a \in Addresses |-> locks'[a]]
PROOF
<1>1. ASSUME NEW a \in Addresses
      PROVE  /\ Conserves(locks'[a], PageCap, LockMembers(a)', Readers)
             /\ \A d \in Range(locks'[a].queue) : pc'[d] = "lock"
  <2>1. pc[r] # "lock" /\ locks'[a] = locks[a]
    BY DEF AtLock
  <2> QED
    BY <2>1, LockStays
<1> QED
  BY <1>1, Types DEF LocksKept, Shapes

\* What both limits say of a read in the gate.
LEMMA InTheGate ==
  ASSUME IInv, NEW r \in Readers, pc[r] \in InGate
  PROVE  /\ Conserves(slots, GlobalCap, SlotMembers, Readers) /\ r \in SlotMembers
         /\ pc[r] # "slot" => r \notin Range(slots.queue)
         /\ Target(r) \in Addresses
         /\ Conserves(locks[Target(r)], PageCap, LockMembers(Target(r)), Readers)
         /\ r \in LockMembers(Target(r)) <=> pc[r] \in AtLock
         /\ pc[r] # "lock" => r \notin Range(locks[Target(r)].queue)
PROOF
<1>1. Target(r) \in Addresses
  BY Places DEF Answered
<1> QED
  BY <1>1 DEF IInv, SlotsKept, LocksKept, SlotMembers, LockMembers

LEMMA AskLockKeeps ==
  ASSUME IInv, NEW r \in Readers, AskLock(r)
  PROVE  IInv'
PROOF
<1>1. /\ pc[r] = "slot" /\ Granted(slots, r)
      /\ slots' = Resume(slots, r)
      /\ locks' = [locks EXCEPT ![Target(r)] = Acquire(locks[Target(r)], r)]
      /\ Goto(r, "lock")
      /\ UNCHANGED <<version, names, moves, call, page, export, cache>>
  BY DEF AskLock, document
<1>2. /\ OthersStay(r) /\ pc'[r] = "lock" /\ ReadOK(r)'
      /\ Target(r)' = Target(r)
      /\ pc' \in [Readers -> Labels]
      /\ page' \in [Readers -> [id : Pages \union {None}, updatedAt : Nat \union {None}]]
      /\ export' \in [Readers -> Rendering \union {None}]
      /\ call' = [d \in Readers |-> call'[d]]
  BY <1>1, Advance DEF Answered, InGate
<1>3. /\ Conserves(slots, GlobalCap, SlotMembers, Readers) /\ r \in SlotMembers
      /\ Conserves(locks[Target(r)], PageCap, LockMembers(Target(r)), Readers)
      /\ r \notin LockMembers(Target(r))
      /\ r \notin Range(locks[Target(r)].queue)
  BY <1>1, InTheGate DEF InGate, AtLock
<1>4. /\ Conserves(slots', GlobalCap, SlotMembers, Readers)
      /\ Range(slots'.queue) = Range(slots.queue) \ {r}
  BY <1>1, <1>3, Basics, ResumeConserves
<1>5. SlotsKept'
  <2>1. SlotMembers = IF pc'[r] \in InGate THEN SlotMembers \union {r} ELSE SlotMembers \ {r}
    BY <1>2, <1>3 DEF InGate
  <2> QED
    BY <1>2, <1>4, <2>1, SlotsMove
<1>6. LocksKept' /\ locks' = [a \in Addresses |-> locks'[a]]
  <2> DEFINE X == Acquire(locks[Target(r)], r)
             M == LockMembers(Target(r)) \union {r}
  <2>1. /\ Conserves(X, PageCap, M, Readers)
        /\ Range(X.queue) \subseteq Range(locks[Target(r)].queue) \union {r}
    BY <1>3, Basics, AcquireConserves
  <2>2. M = IF pc'[r] \in AtLock THEN LockMembers(Target(r)) \union {r}
                                 ELSE LockMembers(Target(r)) \ {r}
    BY <1>2 DEF AtLock
  <2>3. pc[r] \in Answered
    BY <1>1 DEF Answered, InGate
  <2>4. locks' = [locks EXCEPT ![Target(r)] = X]
    BY <1>1
  <2> HIDE DEF X, M
  <2> QED
    BY <1>2, <2>1, <2>2, <2>3, <2>4, LocksFollow
<1>7. /\ cache' = [p \in Pages |-> cache'[p]]
      /\ \A p \in Pages :
           cache'[p] # None => cache'[p] \in [updatedAt : Nat, html : Rendering]
      /\ CacheIsSound' /\ MissLasts'
  BY <1>1, <1>2, CacheStays
<1> QED
  BY <1>1, <1>2, <1>5, <1>6, <1>7, OneReadMoves

LEMMA AskLockOutOfTimeKeeps ==
  ASSUME IInv, NEW r \in Readers, AskLockOutOfTime(r)
  PROVE  IInv'
PROOF
<1> DEFINE mid == Resume(slots, r)
<1>1. /\ pc[r] = "slot" /\ Granted(slots, r)
      /\ slots' = Release(mid) /\ Raise(r)
      /\ UNCHANGED <<version, names, moves, locks, cache>>
  BY DEF AskLockOutOfTime, document
<1>2. /\ Leave(r) /\ call' = [call EXCEPT ![r] = Doc!Failed]
      /\ Doc!Failed.status \in {"failed", "served"}
  BY <1>1, Settled
<1>3. OthersStay(r) /\ pc'[r] = "done"
  BY <1>2, LeaveProps
<1>4. Conserves(slots, GlobalCap, SlotMembers, Readers) /\ r \in SlotMembers
  BY <1>1, InTheGate DEF InGate
<1>5. /\ Conserves(mid, GlobalCap, SlotMembers, Readers)
      /\ Range(mid.queue) = Range(slots.queue) \ {r}
  BY <1>1, <1>4, Basics, ResumeConserves
<1> HIDE DEF mid
<1>6. /\ Conserves(slots', GlobalCap, SlotMembers \ {r}, Readers)
      /\ slots'.queue = mid.queue
  BY <1>1, <1>4, <1>5, Basics, ReleaseConserves
<1>7. SlotsKept'
  <2>1. SlotMembers \ {r} = IF pc'[r] \in InGate THEN SlotMembers \union {r} ELSE SlotMembers \ {r}
    BY <1>3 DEF InGate
  <2>2. Range(slots'.queue) \subseteq Range(slots.queue) \union {r} /\ r \notin Range(slots'.queue)
    BY <1>5, <1>6
  <2> QED
    BY <1>3, <1>6, <2>1, <2>2, SlotsMove
<1>8. LocksKept' /\ locks' = [a \in Addresses |-> locks'[a]]
  BY <1>1, <1>3, LocksUntouched DEF AtLock
<1> QED
  BY <1>1, <1>2, <1>7, <1>8, LeaveKeeps

LEMMA TimeoutSlotKeeps ==
  ASSUME IInv, NEW r \in Readers, TimeoutSlot(r)
  PROVE  IInv'
PROOF
<1>1. /\ pc[r] = "slot" /\ r \in Range(slots.queue)
      /\ slots' = Cancel(slots, r) /\ Raise(r)
      /\ UNCHANGED <<version, names, moves, locks, cache>>
  BY DEF TimeoutSlot, document
<1>2. /\ Leave(r) /\ call' = [call EXCEPT ![r] = Doc!Failed]
      /\ Doc!Failed.status \in {"failed", "served"}
  BY <1>1, Settled
<1>3. OthersStay(r) /\ pc'[r] = "done"
  BY <1>2, LeaveProps
<1>4. Conserves(slots, GlobalCap, SlotMembers, Readers)
  BY DEF IInv, SlotsKept
<1>5. /\ Conserves(slots', GlobalCap, SlotMembers \ {r}, Readers)
      /\ Range(slots'.queue) = Range(slots.queue) \ {r}
  BY <1>1, <1>4, Basics, CancelConserves
<1>6. SlotsKept'
  <2>1. SlotMembers \ {r} = IF pc'[r] \in InGate THEN SlotMembers \union {r} ELSE SlotMembers \ {r}
    BY <1>3 DEF InGate
  <2>2. Range(slots'.queue) \subseteq Range(slots.queue) \union {r} /\ r \notin Range(slots'.queue)
    BY <1>5
  <2> QED
    BY <1>3, <1>5, <2>1, <2>2, SlotsMove
<1>7. LocksKept' /\ locks' = [a \in Addresses |-> locks'[a]]
  BY <1>1, <1>3, LocksUntouched DEF AtLock
<1> QED
  BY <1>1, <1>2, <1>6, <1>7, LeaveKeeps

\* The global slot goes back whenever a read past it leaves.
LEMMA SlotGoesBack ==
  ASSUME IInv, NEW r \in Readers, pc[r] \in AtLock, OthersStay(r), pc'[r] = "done",
         slots' = Release(slots)
  PROVE  SlotsKept'
PROOF
<1>1. /\ Conserves(slots, GlobalCap, SlotMembers, Readers) /\ r \in SlotMembers
      /\ r \notin Range(slots.queue)
  BY InTheGate DEF InGate, AtLock
<1>2. /\ Conserves(slots', GlobalCap, SlotMembers \ {r}, Readers)
      /\ slots'.queue = slots.queue
  BY <1>1, Basics, ReleaseConserves
<1>3. SlotMembers \ {r} = IF pc'[r] \in InGate THEN SlotMembers \union {r} ELSE SlotMembers \ {r}
  BY DEF InGate
<1>4. Range(slots'.queue) \subseteq Range(slots.queue) \union {r} /\ r \notin Range(slots'.queue)
  BY <1>1, <1>2
<1> QED
  BY <1>2, <1>3, <1>4, SlotsMove

LEMMA TimeoutLockKeeps ==
  ASSUME IInv, NEW r \in Readers, TimeoutLock(r)
  PROVE  IInv'
PROOF
<1> DEFINE X == Cancel(locks[Target(r)], r)
           M == LockMembers(Target(r)) \ {r}
<1>1. /\ pc[r] = "lock" /\ r \in Range(locks[Target(r)].queue)
      /\ locks' = [locks EXCEPT ![Target(r)] = X]
      /\ slots' = Release(slots) /\ Raise(r)
      /\ UNCHANGED <<version, names, moves, cache>>
  BY DEF TimeoutLock, document
<1>2. /\ Leave(r) /\ call' = [call EXCEPT ![r] = Doc!Failed]
      /\ Doc!Failed.status \in {"failed", "served"}
  BY <1>1, Settled
<1>3. OthersStay(r) /\ pc'[r] = "done"
  BY <1>2, LeaveProps
<1>4. SlotsKept'
  BY <1>1, <1>3, SlotGoesBack DEF AtLock
<1>5. Conserves(locks[Target(r)], PageCap, LockMembers(Target(r)), Readers)
  BY <1>1, InTheGate DEF InGate
<1>6. /\ Conserves(X, PageCap, M, Readers)
      /\ Range(X.queue) = Range(locks[Target(r)].queue) \ {r}
  BY <1>1, <1>5, Basics, CancelConserves
<1>7. M = IF pc'[r] \in AtLock THEN LockMembers(Target(r)) \union {r}
                               ELSE LockMembers(Target(r)) \ {r}
  BY <1>3 DEF AtLock
<1>8. /\ Range(X.queue) \subseteq Range(locks[Target(r)].queue) \union {r}
      /\ r \notin Range(X.queue)
  BY <1>6
<1>9. pc[r] \in Answered /\ pc'[r] \notin AtLock
  BY <1>1, <1>3 DEF Answered, InGate, AtLock
<1> HIDE DEF X, M
<1>10. LocksKept' /\ locks' = [a \in Addresses |-> locks'[a]]
  BY <1>1, <1>3, <1>6, <1>7, <1>8, <1>9, LocksFollow
<1> QED
  BY <1>1, <1>2, <1>4, <1>10, LeaveKeeps

\* From the export, or from a hit under the lock, everything is given back.
LEMMA LockGoesBack ==
  ASSUME IInv, NEW r \in Readers, pc[r] \in AtLock, OthersStay(r), pc'[r] = "done",
         NEW sem, Conserves(sem, PageCap, LockMembers(Target(r)), Readers),
         r \notin Range(sem.queue),
         Range(sem.queue) \subseteq Range(locks[Target(r)].queue),
         locks' = [locks EXCEPT ![Target(r)] = Release(sem)]
  PROVE  LocksKept' /\ locks' = [a \in Addresses |-> locks'[a]]
PROOF
<1> DEFINE X == Release(sem)
           M == LockMembers(Target(r)) \ {r}
<1>1. r \in LockMembers(Target(r)) /\ pc[r] \in Answered /\ pc'[r] \notin AtLock
  BY DEF LockMembers, AtLock, Answered, InGate
<1>2. Conserves(X, PageCap, M, Readers) /\ X.queue = sem.queue
  BY <1>1, Basics, ReleaseConserves
<1>3. M = IF pc'[r] \in AtLock THEN LockMembers(Target(r)) \union {r}
                               ELSE LockMembers(Target(r)) \ {r}
  BY <1>1
<1>4. /\ Range(X.queue) \subseteq Range(locks[Target(r)].queue) \union {r}
      /\ r \notin Range(X.queue)
  BY <1>2
<1>5. locks' = [locks EXCEPT ![Target(r)] = X]
  OBVIOUS
<1> HIDE DEF X, M
<1> QED
  BY <1>1, <1>2, <1>3, <1>4, <1>5, LocksFollow

LEMMA HoldKeeps ==
  ASSUME IInv, NEW r \in Readers, Hold(r)
  PROVE  IInv'
PROOF
<1> DEFINE hit == CacheGet(page[r].id, page[r].updatedAt)
           mine == Resume(locks[Target(r)], r)
<1>1. /\ pc[r] = "lock" /\ Granted(locks[Target(r)], r)
      /\ UNCHANGED <<version, names, moves, cache>>
      /\ IF hit # None
         THEN /\ Answer(r, hit)
              /\ locks' = [locks EXCEPT ![Target(r)] = Release(mine)]
              /\ slots' = Release(slots)
         ELSE /\ Goto(r, "kickoff")
              /\ locks' = [locks EXCEPT ![Target(r)] = mine]
              /\ UNCHANGED <<call, page, export, slots>>
  BY DEF Hold, document
<1>2. /\ Conserves(locks[Target(r)], PageCap, LockMembers(Target(r)), Readers)
      /\ r \in LockMembers(Target(r))
  BY <1>1, InTheGate DEF InGate, AtLock
<1>3. /\ Conserves(mine, PageCap, LockMembers(Target(r)), Readers)
      /\ Range(mine.queue) = Range(locks[Target(r)].queue) \ {r}
  BY <1>1, <1>2, Basics, ResumeConserves
<1> HIDE DEF mine
<1>4. CASE hit # None
  <2> HIDE DEF hit
  <2>1. /\ Leave(r) /\ call' = [call EXCEPT ![r] = Doc!Served(hit)]
        /\ Doc!Served(hit).status \in {"failed", "served"}
    BY <1>1, <1>4, Settled
  <2>2. OthersStay(r) /\ pc'[r] = "done"
    BY <2>1, LeaveProps
  <2>3. SlotsKept'
    BY <1>1, <1>4, <2>2, SlotGoesBack DEF AtLock
  <2>4. LocksKept' /\ locks' = [a \in Addresses |-> locks'[a]]
    BY <1>1, <1>3, <1>4, <2>2, LockGoesBack DEF AtLock
  <2> QED
    BY <1>1, <2>1, <2>3, <2>4, LeaveKeeps
<1>5. CASE hit = None
  <2>1. /\ Goto(r, "kickoff") /\ UNCHANGED <<call, page, export, slots>>
        /\ locks' = [locks EXCEPT ![Target(r)] = mine]
    BY <1>1, <1>5
  <2>2. /\ OthersStay(r) /\ pc'[r] = "kickoff" /\ ReadOK(r)'
        /\ Target(r)' = Target(r)
        /\ pc' \in [Readers -> Labels]
        /\ page' \in [Readers -> [id : Pages \union {None}, updatedAt : Nat \union {None}]]
        /\ export' \in [Readers -> Rendering \union {None}]
        /\ call' = [d \in Readers |-> call'[d]]
    BY <1>1, <2>1, Advance DEF Answered, InGate
  <2>3. SlotsKept'
    BY <1>1, <2>1, <2>2, SlotsStay DEF InGate
  <2>4. LocksKept' /\ locks' = [a \in Addresses |-> locks'[a]]
    <3> DEFINE M == LockMembers(Target(r))
    <3>1. M = IF pc'[r] \in AtLock THEN LockMembers(Target(r)) \union {r}
                                   ELSE LockMembers(Target(r)) \ {r}
      BY <1>2, <2>2 DEF AtLock
    <3>2. pc[r] \in Answered
      BY <1>1 DEF Answered, InGate
    <3>3. /\ Range(mine.queue) \subseteq Range(locks[Target(r)].queue) \union {r}
          /\ r \notin Range(mine.queue)
      BY <1>3
    <3>4. Conserves(mine, PageCap, M, Readers)
      BY <1>3
    <3> HIDE DEF M
    <3> QED
      BY <2>1, <2>2, <3>1, <3>2, <3>3, <3>4, LocksFollow
  <2>5. CacheGet(page'[r].id, page'[r].updatedAt) = None
    BY <1>5, <2>1
  <2>6. /\ cache' = [p \in Pages |-> cache'[p]]
        /\ \A p \in Pages :
             cache'[p] # None => cache'[p] \in [updatedAt : Nat, html : Rendering]
        /\ CacheIsSound' /\ MissLasts'
    BY <1>1, <2>2, <2>5, CacheStays
  <2> QED
    BY <1>1, <2>2, <2>3, <2>4, <2>6, OneReadMoves
<1> QED
  BY <1>4, <1>5

LEMMA ExportBeginsKeeps ==
  ASSUME IInv, NEW r \in Readers, ExportBegins(r)
  PROVE  IInv'
PROOF
<1> DEFINE p == Doc!Resolve(Target(r))
           html == [page |-> p, version |-> version[p]]
<1>1. /\ pc[r] = "kickoff"
      /\ export' = [export EXCEPT ![r] = html]
      /\ pc' = [pc EXCEPT ![r] = "exporting"]
      /\ UNCHANGED <<version, names, moves, call, page, slots, locks, cache>>
  BY DEF ExportBegins, Goto, document, gate
<1>2. /\ ReadOK(r) /\ IsOwed(call[r]) /\ IsAnswer(call[r], page[r])
      /\ page[r].id # None => page[r].id \in Pages /\ Target(r) = page[r].id
  BY <1>1, Places DEF ReadOK, Answered, InGate
<1>3. p \in call[r].meant /\ (page[r].id # None => p = page[r].id)
  <2>1. CASE page[r].id # None
    <3>1. Target(r) = page[r].id /\ page[r].id \in Pages /\ page[r].id \in call[r].meant
      BY <1>2, <2>1 DEF IsAnswer
    <3>2. p = page[r].id
      BY <3>1, Basics DEF Doc!Resolve
    <3> QED
      BY <3>1, <3>2
  <2>2. CASE page[r].id = None
    BY <1>2, <2>2 DEF Target, IsOwed
  <2> QED
    BY <2>1, <2>2
<1>4. p \in Pages /\ version[p] \in Nat /\ call[r].began[p] <= version[p]
  BY <1>2, <1>3, Types DEF IsOwed
<1> HIDE DEF p
<1>5. html \in Rendering /\ html.page = p /\ html.version = version[p]
  BY <1>4 DEF Rendering
<1> HIDE DEF html
<1>6. pc'[r] = "exporting" /\ pc' \in [Readers -> Labels]
  BY <1>1, Types DEF Labels, Answered, InGate
<1>7. export' \in [Readers -> Rendering \union {None}] /\ export'[r] = html
  BY <1>1, <1>5, Types
<1>8. OthersStay(r) /\ Target(r)' = Target(r)
  BY <1>1, Types DEF OthersStay, Target
<1>9. IsExport(call[r], page[r], export[r])'
  <2>1. version[p] <= version[p]
    BY <1>4
  <2>2. page[r].id # None /\ page[r].updatedAt # None => page[r].updatedAt <= version[p]
    BY <1>2, <1>3 DEF IsAnswer
  <2> QED
    BY <1>1, <1>3, <1>4, <1>5, <1>7, <2>1, <2>2 DEF IsExport, Rendering
<1>10. IsOwed(call[r])' /\ IsAnswer(call[r], page[r])'
  BY <1>1, <1>2 DEF IsOwed, IsAnswer, Doc!Resolve, Doc!Open
<1>11. ReadOK(r)'
  BY <1>6, <1>9, <1>10 DEF ReadOK
<1>12. SlotsKept'
  BY <1>1, <1>6, <1>8, SlotsStay DEF InGate
<1>13. ASSUME NEW a \in Addresses
       PROVE  /\ Conserves(locks'[a], PageCap, LockMembers(a)', Readers)
              /\ \A d \in Range(locks'[a].queue) : pc'[d] = "lock"
  <2>1. /\ pc[r] \in AtLock /\ pc'[r] \in AtLock /\ pc[r] # "lock"
        /\ locks'[a] = locks[a] /\ Target(r)' = Target(r)
    BY <1>1, <1>6, <1>8 DEF AtLock
  <2> QED
    BY <1>8, <2>1, LockStays
<1>14. LocksKept' /\ locks' = [a \in Addresses |-> locks'[a]]
  BY <1>1, <1>13, Types DEF LocksKept, Shapes
<1>15. PageCap = 1 => CacheGet(page[r].id, page[r].updatedAt) = None
  BY <1>1 DEF IInv, MissLasts
<1>16. CacheIsSound'
  BY <1>1 DEF IInv, CacheIsSound
<1>17. MissLasts'
  <2>1. \A i, u : CacheGet(i, u)' = CacheGet(i, u)
    BY <1>1 DEF CacheGet, IsKeyable
  <2>2. \A d \in Readers : page'[d] = page[d]
           /\ (pc'[d] \in {"kickoff", "exporting"} => pc[d] \in {"kickoff", "exporting"})
    BY <1>1, <1>8 DEF OthersStay
  <2> SUFFICES ASSUME PageCap = 1, NEW d \in Readers, pc'[d] \in {"kickoff", "exporting"}
               PROVE  CacheGet(page[d].id, page[d].updatedAt)' = None
    BY DEF MissLasts
  <2> QED
    BY <2>1, <2>2 DEF IInv, MissLasts
<1>18. /\ page' \in [Readers -> [id : Pages \union {None}, updatedAt : Nat \union {None}]]
       /\ call' = [d \in Readers |-> call'[d]]
       /\ cache' = [q \in Pages |-> cache'[q]]
       /\ \A q \in Pages :
            cache'[q] # None => cache'[q] \in [updatedAt : Nat, html : Rendering]
  BY <1>1, Types DEF Shapes
<1> QED
  BY <1>1, <1>6, <1>7, <1>8, <1>11, <1>12, <1>14, <1>16, <1>17, <1>18, OneReadMoves

\* Two reads past the lock of one address, where it has one place, are one.
LEMMA AloneUnderLock ==
  ASSUME IInv, PageCap = 1, NEW r \in Readers, NEW d \in Readers,
         pc[r] \in {"kickoff", "exporting"}, pc[d] \in {"kickoff", "exporting"},
         Target(r) = Target(d)
  PROVE  r = d
PROOF
<1> SUFFICES ASSUME r # d PROVE FALSE
  OBVIOUS
<1> DEFINE sem == locks[Target(r)]
           held == LockMembers(Target(r)) \ Waiting(sem)
<1>1. /\ Conserves(sem, PageCap, LockMembers(Target(r)), Readers)
      /\ r \in LockMembers(Target(r)) /\ r \notin Range(sem.queue)
      /\ Target(r) \in Addresses
  BY InTheGate DEF InGate, AtLock
<1>2. d \in LockMembers(Target(r)) /\ d \notin Range(sem.queue)
  BY InTheGate DEF InGate, AtLock
<1>3. {r, d} \in SUBSET held
  BY <1>1, <1>2 DEF Waiting
<1>4. held \in SUBSET LockMembers(Target(r)) /\ IsFiniteSet(LockMembers(Target(r)))
  BY <1>1, MembersAreFinite
<1> HIDE DEF held
<1>5. IsFiniteSet(held)
  BY <1>4, FS_Subset
<1>6. Cardinality({r, d}) <= Cardinality(held)
  BY <1>3, <1>5, FS_Subset
<1>7. Cardinality({r, d}) = 2
  <2>1. IsFiniteSet({d}) /\ Cardinality({d}) = 1
    BY FS_Singleton
  <2>2. Cardinality({d} \union {r}) = Cardinality({d}) + 1
    BY <2>1, FS_AddElement
  <2>3. {d} \union {r} = {r, d}
    OBVIOUS
  <2> QED
    BY <2>1, <2>2, <2>3
<1>8. sem.free \in Nat /\ sem.free + Cardinality(held) = 1
  BY <1>1 DEF Conserves, IsSem, held
<1>9. Cardinality(held) \in Nat
  BY <1>5, FS_CardinalityType
<1> QED
  BY <1>6, <1>7, <1>8, <1>9

\* What the export leaves behind: a sound entry under the page's own id, which
\* nobody else under its lock was about to render.
LEMMA FilingKeeps ==
  ASSUME IInv, NEW r \in Readers, pc[r] = "exporting", OthersStay(r), pc'[r] = "done",
         NEW html, IsExport(call[r], page[r], html), UNCHANGED version,
         CacheSet(page[r].id, page[r].updatedAt, html)
  PROVE  /\ cache' = [p \in Pages |-> cache'[p]]
         /\ \A p \in Pages :
              cache'[p] # None => cache'[p] \in [updatedAt : Nat, html : Rendering]
         /\ CacheIsSound' /\ MissLasts'
PROOF
<1> DEFINE id == page[r].id
           at == page[r].updatedAt
           entry == [updatedAt |-> at, html |-> html]
<1>1. cache = [p \in Pages |-> cache[p]]
  BY Types DEF Shapes
<1>2. /\ IsAnswer(call[r], page[r])
      /\ id # None => id \in Pages /\ Target(r) = id
  BY Places DEF ReadOK, Answered, InGate
<1>3. /\ html \in Rendering
      /\ html.version <= version[html.page]
      /\ id # None => html.page = id
      /\ id # None /\ at # None => at <= html.version /\ at \in Nat
  BY <1>2 DEF IsExport, IsAnswer
<1>4. cache' = IF id # None /\ at # None THEN [cache EXCEPT ![id] = entry] ELSE cache
  BY DEF CacheSet, IsKeyable
<1>5. id # None /\ at # None => entry \in [updatedAt : Nat, html : Rendering]
  BY <1>3
<1>6. entry.updatedAt = at /\ entry.html = html
  OBVIOUS
<1> HIDE DEF entry
<1>7. CASE id # None /\ at # None
  <2>1. cache' = [cache EXCEPT ![id] = entry]
    BY <1>4, <1>7
  <2>2. /\ cache' = [p \in Pages |-> cache'[p]] /\ cache'[id] = entry
        /\ \A p \in Pages : p # id => cache'[p] = cache[p]
    BY <1>1, <1>2, <1>7, <2>1
  <2>3. ASSUME NEW p \in Pages, cache'[p] # None
        PROVE  /\ cache'[p] \in [updatedAt : Nat, html : Rendering]
               /\ cache'[p].html.page = p
               /\ cache'[p].updatedAt <= cache'[p].html.version
               /\ cache'[p].html.version <= version'[p]
    <3>1. CASE p = id
      <4>1. cache'[p] = entry
        BY <2>2, <3>1
      <4> QED
        BY <1>3, <1>5, <1>6, <1>7, <3>1, <4>1
    <3>2. CASE p # id
      <4>1. cache'[p] = cache[p]
        BY <2>2, <3>2
      <4> QED
        BY <2>3, <4>1, Types DEF IInv, CacheIsSound
    <3> QED
      BY <3>1, <3>2
  <2>4. CacheIsSound'
    BY <2>3 DEF CacheIsSound
  <2>5. ASSUME PageCap = 1, NEW d \in Readers, pc'[d] \in {"kickoff", "exporting"}
        PROVE  CacheGet(page[d].id, page[d].updatedAt)' = None
    <3>1. d # r
      BY <2>5
    <3>2. pc[d] = pc'[d] /\ page'[d] = page[d]
      BY <3>1 DEF OthersStay
    <3>3. CacheGet(page[d].id, page[d].updatedAt) = None
      BY <2>5, <3>2 DEF IInv, MissLasts
    <3>4. page[d].id # None => page[d].id \in Pages /\ Target(d) = page[d].id
      BY <2>5, <3>2, Places DEF Answered, InGate
    <3>5. page[d].id # id
      <4> SUFFICES ASSUME page[d].id = id PROVE FALSE
        OBVIOUS
      <4>1. Target(d) = Target(r)
        BY <1>2, <1>7, <3>4
      <4> QED
        BY <2>5, <3>1, <3>2, <4>1, AloneUnderLock
    <3>6. page[d].id # None => cache'[page[d].id] = cache[page[d].id]
      BY <2>2, <3>4, <3>5
    <3> QED
      BY <3>2, <3>3, <3>6 DEF CacheGet, IsKeyable
  <2>6. MissLasts'
    BY <2>5 DEF MissLasts
  <2> QED
    BY <2>2, <2>3, <2>4, <2>6
<1>8. CASE ~ (id # None /\ at # None)
  <2>1. cache' = cache
    BY <1>4, <1>8
  <2>2. pc'[r] \notin {"kickoff", "exporting"}
    OBVIOUS
  <2> QED
    BY <2>1, <2>2, CacheStays
<1> QED
  BY <1>7, <1>8

\* Both limits, whichever way the read leaves them.
LEMMA GateGoesBack ==
  ASSUME IInv, NEW r \in Readers, pc[r] \in {"kickoff", "exporting"}, OthersStay(r),
         pc'[r] = "done", LeaveGate(r)
  PROVE  /\ SlotsKept' /\ LocksKept'
         /\ locks' = [a \in Addresses |-> locks'[a]]
PROOF
<1>1. /\ slots' = Release(slots)
      /\ locks' = [locks EXCEPT ![Target(r)] = Release(locks[Target(r)])]
  BY DEF LeaveGate
<1>2. pc[r] \in AtLock
  BY DEF AtLock
<1>3. SlotsKept'
  BY <1>1, <1>2, SlotGoesBack
<1> DEFINE sem == locks[Target(r)]
<1>4. Conserves(sem, PageCap, LockMembers(Target(r)), Readers) /\ r \notin Range(sem.queue)
  BY InTheGate DEF InGate
<1>5. locks' = [locks EXCEPT ![Target(r)] = Release(sem)] /\ sem = locks[Target(r)]
  BY <1>1
<1>6. Range(sem.queue) \subseteq Range(locks[Target(r)].queue)
  OBVIOUS
<1> HIDE DEF sem
<1>7. LocksKept' /\ locks' = [a \in Addresses |-> locks'[a]]
  BY <1>2, <1>4, <1>5, <1>6, LockGoesBack
<1> QED
  BY <1>3, <1>7

\* What an export may return is owed to the caller and may be filed.
LEMMA RenderedIsOwed ==
  ASSUME IInv, NEW r \in Readers, pc[r] = "exporting",
         NEW v \in export[r].version .. version[export[r].page],
         NEW html, html = [page |-> export[r].page, version |-> v]
  PROVE  IsOwed(call[r]) /\ IsExport(call[r], page[r], html)
PROOF
<1>1. IsOwed(call[r]) /\ IsAnswer(call[r], page[r]) /\ IsExport(call[r], page[r], export[r])
  BY Places DEF ReadOK, Answered, InGate
<1>2. export[r] \in [page : Pages, version : Nat] /\ export[r].page \in call[r].meant
  BY <1>1 DEF IsExport, Rendering
<1> DEFINE p == export[r].page
           w == export[r].version
<1>3. p \in Pages /\ w \in Nat /\ version[p] \in Nat /\ call[r].began[p] \in Nat
  BY <1>1, <1>2, Types DEF IsOwed
<1>4. call[r].began[p] <= w
  BY <1>1 DEF IsExport
<1>5. v \in Nat /\ w <= v /\ v <= version[p]
  BY <1>3
<1>6. html.page = p /\ html.version = v
  OBVIOUS
<1>7. html \in Rendering
  BY <1>3, <1>5 DEF Rendering
<1>8. page[r].id # None => p = page[r].id
  BY <1>1 DEF IsExport
<1>9. page[r].id # None /\ page[r].updatedAt # None =>
        page[r].updatedAt \in Nat /\ page[r].updatedAt <= w
  BY <1>1 DEF IsExport, IsAnswer
<1>10. p \in call[r].meant
  BY <1>2
<1> HIDE DEF p, w
<1>11. call[r].began[p] <= v
  BY <1>3, <1>4, <1>5
<1>12. page[r].id # None /\ page[r].updatedAt # None => page[r].updatedAt <= v
  BY <1>3, <1>5, <1>9
<1> QED
  BY <1>1, <1>5, <1>6, <1>7, <1>8, <1>10, <1>11, <1>12 DEF IsExport

LEMMA ExportReturnsKeeps ==
  ASSUME IInv, NEW r \in Readers, ExportReturns(r)
  PROVE  IInv'
PROOF
<1>1. pc[r] = "exporting" /\ LeaveGate(r) /\ UNCHANGED <<version, names, moves>>
  BY DEF ExportReturns, document
<1>2. PICK v \in export[r].version .. version[export[r].page] :
        /\ CacheSet(page[r].id, page[r].updatedAt, [page |-> export[r].page, version |-> v])
        /\ Answer(r, [page |-> export[r].page, version |-> v])
  BY DEF ExportReturns
<1> DEFINE html == [page |-> export[r].page, version |-> v]
<1>3. CacheSet(page[r].id, page[r].updatedAt, html) /\ Answer(r, html)
  BY <1>2
<1>4. html = [page |-> export[r].page, version |-> v]
  OBVIOUS
<1> HIDE DEF html
<1>5. IsExport(call[r], page[r], html)
  BY <1>1, <1>4, RenderedIsOwed
<1>6. /\ Leave(r) /\ call' = [call EXCEPT ![r] = Doc!Served(html)]
      /\ Doc!Served(html).status \in {"failed", "served"}
  BY <1>3, Settled
<1>7. /\ OthersStay(r) /\ pc'[r] = "done" /\ ReadOK(r)'
      /\ pc' \in [Readers -> Labels]
      /\ page' \in [Readers -> [id : Pages \union {None}, updatedAt : Nat \union {None}]]
      /\ export' \in [Readers -> Rendering \union {None}]
      /\ call' = [d \in Readers |-> call'[d]]
  BY <1>6, LeaveProps
<1>8. /\ SlotsKept' /\ LocksKept'
      /\ locks' = [a \in Addresses |-> locks'[a]]
  BY <1>1, <1>7, GateGoesBack
<1>9. /\ cache' = [p \in Pages |-> cache'[p]]
      /\ \A p \in Pages :
           cache'[p] # None => cache'[p] \in [updatedAt : Nat, html : Rendering]
      /\ CacheIsSound' /\ MissLasts'
  BY <1>1, <1>3, <1>5, <1>7, FilingKeeps
<1> QED
  BY <1>1, <1>7, <1>8, <1>9, OneReadMoves

LEMMA ExportRaisesKeeps ==
  ASSUME IInv, NEW r \in Readers, ExportRaises(r)
  PROVE  IInv'
PROOF
<1>1. /\ pc[r] \in {"kickoff", "exporting"} /\ Raise(r) /\ LeaveGate(r)
      /\ UNCHANGED <<version, names, moves, cache>>
  BY DEF ExportRaises, document
<1>2. /\ Leave(r) /\ call' = [call EXCEPT ![r] = Doc!Failed]
      /\ Doc!Failed.status \in {"failed", "served"}
  BY <1>1, Settled
<1>3. OthersStay(r) /\ pc'[r] = "done"
  BY <1>2, LeaveProps
<1>4. /\ SlotsKept' /\ LocksKept'
      /\ locks' = [a \in Addresses |-> locks'[a]]
  BY <1>1, <1>3, GateGoesBack
<1> QED
  BY <1>1, <1>2, <1>4, LeaveKeeps

-----------------------------------------------------------------------------
(* The document's steps, the beginning, and the invariant *)

\* What others do to the document moves no read and takes nothing away.
LEMMA DocumentKeeps ==
  ASSUME IInv, UNCHANGED <<pc, page, export, slots, locks, cache>>,
         version' \in [Pages -> Nat], \A p \in Pages : version[p] <= version'[p],
         names' \in [Names -> Pages], moves' \in 0 .. MaxMoves,
         call' = [r \in Readers |-> call'[r]],
         \A r \in Readers : call'[r].asked = call[r].asked,
         \A r \in Readers : ReadOK(r)'
  PROVE  IInv'
PROOF
<1>1. TypeOK'
  BY DEF IInv, TypeOK
<1>2. Shapes'
  BY DEF IInv, Shapes
<1>3. \A r \in Readers : Target(r)' = Target(r)
  BY DEF Target
<1>4. SlotMembers' = SlotMembers /\ \A a \in Addresses : LockMembers(a)' = LockMembers(a)
  BY <1>3 DEF SlotMembers, LockMembers
<1>5. SlotsKept' /\ LocksKept'
  BY <1>4 DEF IInv, SlotsKept, LocksKept
<1>6. CacheIsSound'
  <2> SUFFICES ASSUME NEW p \in Pages, cache[p] # None
               PROVE  /\ cache[p].html.page = p
                      /\ cache[p].updatedAt <= cache[p].html.version
                      /\ cache[p].html.version <= version'[p]
    BY DEF CacheIsSound
  <2>1. /\ cache[p].html.page = p
        /\ cache[p].updatedAt <= cache[p].html.version
        /\ cache[p].html.version <= version[p]
    BY DEF IInv, CacheIsSound
  <2>2. cache[p].html.version \in Nat
    BY Types DEF Rendering
  <2>3. version[p] \in Nat /\ version'[p] \in Nat /\ version[p] <= version'[p]
    BY Types
  <2> QED
    BY <2>1, <2>2, <2>3
<1>7. MissLasts'
  BY DEF IInv, MissLasts, CacheGet, IsKeyable
<1> QED
  BY <1>1, <1>2, <1>5, <1>6, <1>7 DEF IInv

\* An open read is owed no less when a version or the meaning of a name grows.
LEMMA OwedGrows ==
  ASSUME IInv, NEW r \in Readers, UNCHANGED <<pc, page, export>>,
         version' \in [Pages -> Nat], \A p \in Pages : version[p] <= version'[p],
         pc[r] \notin {"asking"} \union Answered => call'[r] = call[r],
         pc[r] \in {"asking"} \union Answered =>
           /\ IsOwed(call[r])'
           /\ call[r].meant \subseteq call'[r].meant
           /\ call'[r].began = call[r].began
  PROVE  ReadOK(r)'
PROOF
<1>1. ReadOK(r)
  BY Places
<1>2. CASE pc[r] \notin {"asking"} \union Answered
  BY <1>1, <1>2 DEF ReadOK, Answered, InGate
<1>3. CASE pc[r] \in {"asking"} \union Answered
  <2>1. IsOwed(call[r]) /\ version \in [Pages -> Nat]
    BY <1>1, <1>3, Types DEF ReadOK
  <2>2. \A p \in Pages : /\ version[p] \in Nat /\ version'[p] \in Nat
                         /\ version[p] <= version'[p]
    BY <2>1
  <2>3. \A p \in Pages, n \in Nat : n <= version[p] => n <= version'[p]
    BY <2>2
  <2>4. call[r].meant \subseteq Pages
    BY <2>1 DEF IsOwed
  <2>5. ASSUME pc[r] \in Answered
        PROVE  IsAnswer(call[r], page[r])'
    <3>1. IsAnswer(call[r], page[r])
      BY <1>1, <2>5 DEF ReadOK
    <3> QED
      BY <1>3, <2>3, <2>4, <3>1 DEF IsAnswer
  <2>6. ASSUME pc[r] = "exporting"
        PROVE  IsExport(call[r], page[r], export[r])'
    <3>1. IsExport(call[r], page[r], export[r])
      BY <1>1, <2>6 DEF ReadOK
    <3>2. export[r].version \in Nat
      BY <3>1 DEF IsExport, Rendering
    <3>3. export[r].version <= version'[export[r].page]
      BY <2>3, <2>4, <3>1, <3>2 DEF IsExport
    <3> QED
      BY <1>3, <3>1, <3>3 DEF IsExport
  <2> QED
    BY <1>1, <1>3, <2>5, <2>6 DEF ReadOK, Answered, InGate
<1> QED
  BY <1>2, <1>3

LEMMA EditKeeps ==
  ASSUME IInv, NEW p \in Pages, Edit(p)
  PROVE  IInv'
PROOF
<1>1. /\ version' = [version EXCEPT ![p] = version[p] + 1]
      /\ UNCHANGED <<names, call, moves, pc, page, export, slots, locks, cache>>
  BY DEF Edit, Doc!Edit, gate
<1>2. version \in [Pages -> Nat]
  BY Types
<1>3. version' \in [Pages -> Nat] /\ \A q \in Pages : version[q] <= version'[q]
  BY <1>1, <1>2
<1>4. ASSUME NEW r \in Readers
      PROVE  ReadOK(r)'
  <2>1. ASSUME pc[r] \in {"asking"} \union Answered
        PROVE  IsOwed(call[r])'
    <3>1. IsOwed(call[r])
      BY <2>1, Places DEF ReadOK
    <3>2. \A q \in Pages : call[r].began[q] \in Nat /\ call[r].began[q] <= version[q]
      BY <3>1 DEF IsOwed
    <3>3. \A q \in Pages : call[r].began[q] <= version'[q]
      BY <1>2, <1>3, <3>2
    <3> QED
      BY <1>1, <3>1, <3>3 DEF IsOwed, Doc!Resolve, Doc!Open
  <2> QED
    BY <1>1, <1>3, <2>1, OwedGrows
<1>5. names' \in [Names -> Pages] /\ moves' \in 0 .. MaxMoves
      /\ call' = [r \in Readers |-> call'[r]]
  BY <1>1, Types DEF Shapes
<1> QED
  BY <1>1, <1>3, <1>4, <1>5, DocumentKeeps

LEMMA MoveNameKeeps ==
  ASSUME IInv, NEW n \in Names, NEW p \in Pages, MoveName(n, p)
  PROVE  IInv'
PROOF
<1> DEFINE more(r) == [call[r] EXCEPT !.meant = call[r].meant \union {p}]
           hit(r) == Doc!IsOpen(r) /\ call[r].asked = n
<1>1. /\ moves < MaxMoves /\ moves' = moves + 1
      /\ names' = [names EXCEPT ![n] = p]
      /\ call' = [r \in Readers |-> IF hit(r) THEN more(r) ELSE call[r]]
      /\ UNCHANGED <<version, pc, page, export, slots, locks, cache>>
  BY DEF MoveName, Doc!MoveName, gate
<1>2. version \in [Pages -> Nat] /\ names \in [Names -> Pages] /\ moves \in 0 .. MaxMoves
      /\ version' = version
  BY <1>1, Types
<1>3. names' \in [Names -> Pages] /\ moves' \in 0 .. MaxMoves
      /\ call' = [r \in Readers |-> call'[r]]
  BY <1>1, <1>2, ReadPageAssumption
<1>4. \A q \in Pages : version[q] <= version'[q]
  BY <1>2
<1>5. ASSUME NEW r \in Readers
      PROVE  /\ Doc!IsOpen(r) <=> pc[r] \in {"asking"} \union Answered
             /\ pc[r] \in {"asking"} \union Answered => IsOwed(call[r])
  <2>1. ReadOK(r) /\ pc[r] \in Labels
    BY Places, Types
  <2>2. pc[r] \in {"asking"} \union Answered => IsOwed(call[r]) /\ Doc!IsOpen(r)
    BY <2>1 DEF ReadOK, IsOwed, Doc!Open, Doc!IsOpen
  <2>3. pc[r] \in {"idle", "done"} => ~ Doc!IsOpen(r)
    BY <2>1 DEF ReadOK, Doc!Closed, Doc!IsOpen
  <2> QED
    BY <2>1, <2>2, <2>3 DEF Labels
<1>6. ASSUME NEW r \in Readers, hit(r)
      PROVE  /\ call'[r] = Doc!Open(call[r].meant \union {p}, call[r].began, n)
             /\ call'[r].asked = call[r].asked /\ call'[r].began = call[r].began
             /\ call'[r].meant = call[r].meant \union {p}
  <2>1. IsOwed(call[r]) /\ call[r].asked = n
    BY <1>5, <1>6
  <2>2. call[r] = [status |-> "open", asked |-> n, meant |-> call[r].meant,
                   began |-> call[r].began]
    BY <2>1 DEF IsOwed, Doc!Open
  <2>3. more(r) = [status |-> "open", asked |-> n, meant |-> call[r].meant \union {p},
                   began |-> call[r].began]
    BY <2>2
  <2>4. call'[r] = more(r)
    BY <1>1, <1>6
  <2> QED
    BY <2>1, <2>3, <2>4 DEF Doc!Open
<1>7. ASSUME NEW r \in Readers, ~ hit(r)
      PROVE  call'[r] = call[r]
  BY <1>1, <1>7
<1> HIDE DEF more
<1>8. ASSUME NEW r \in Readers, pc[r] \in {"asking"} \union Answered
      PROVE  /\ IsOwed(call[r])'
             /\ call[r].meant \subseteq call'[r].meant
             /\ call'[r].began = call[r].began
  <2>1. IsOwed(call[r])
    BY <1>5, <1>8
  <2>2. CASE hit(r)
    <3>1. /\ call'[r] = Doc!Open(call[r].meant \union {p}, call[r].began, n)
          /\ call'[r].asked = n /\ call'[r].began = call[r].began
          /\ call'[r].meant = call[r].meant \union {p}
      BY <1>6, <2>2
    <3>2. n \in Addresses
      BY DEF Addresses
    <3>3. Doc!Resolve(call[r].asked)' = p
      BY <1>1, <1>2, <3>1 DEF Doc!Resolve
    <3>4. call'[r] = Doc!Open(call'[r].meant, call'[r].began, call'[r].asked)
      BY <3>1
    <3>5. call[r].meant \subseteq Pages /\ call[r].began \in [Pages -> Nat]
          /\ \A q \in Pages : call[r].began[q] <= version[q]
      BY <2>1 DEF IsOwed
    <3>6. IsOwed(call[r])'
      BY <1>2, <3>1, <3>2, <3>3, <3>4, <3>5 DEF IsOwed
    <3> QED
      BY <3>1, <3>6
  <2>3. CASE ~ hit(r)
    <3>1. call'[r] = call[r]
      BY <1>7, <2>3
    <3>2. call[r].asked # n
      BY <1>5, <1>8, <2>3
    <3>3. call[r].asked \in Addresses /\ Doc!Resolve(call[r].asked) \in call[r].meant
      BY <2>1 DEF IsOwed
    <3>4. Doc!Resolve(call[r].asked)' = Doc!Resolve(call[r].asked)
      BY <1>1, <1>2, <3>1, <3>2 DEF Doc!Resolve
    <3> QED
      BY <1>2, <2>1, <3>1, <3>3, <3>4 DEF IsOwed, Doc!Open
  <2> QED
    BY <2>2, <2>3
<1>9. \A r \in Readers : call'[r].asked = call[r].asked
  BY <1>6, <1>7
<1>10. ASSUME NEW r \in Readers
       PROVE  ReadOK(r)'
  <2>1. pc[r] \notin {"asking"} \union Answered => call'[r] = call[r]
    BY <1>5, <1>7
  <2> QED
    BY <1>1, <1>2, <1>4, <1>8, <2>1, OwedGrows
<1> QED
  BY <1>1, <1>2, <1>3, <1>4, <1>9, <1>10, DocumentKeeps

LEMMA InitHolds ==
  ASSUME Init
  PROVE  IInv
PROOF
<1>1. /\ version = [p \in Pages |-> 0] /\ names \in [Names -> Pages]
      /\ call = [r \in Readers |-> Doc!Closed] /\ moves = 0
      /\ pc = [r \in Readers |-> "idle"] /\ page = [r \in Readers |-> NoAnswer]
      /\ export = [r \in Readers |-> None] /\ slots = NewSem(GlobalCap)
      /\ locks = [a \in Addresses |-> NewSem(PageCap)]
      /\ cache = [p \in Pages |-> None]
  BY DEF Init, Doc!Init
<1>2. SlotMembers = {} /\ \A a \in Addresses : LockMembers(a) = {}
  BY <1>1 DEF SlotMembers, LockMembers, InGate, AtLock
<1>3. \A cap : NewSem(cap) = [free |-> cap, queue |-> << >>, handed |-> {}]
  BY DEF NewSem
<1>4. \A cap : Range(NewSem(cap).queue) = {}
  BY <1>3 DEF Range
<1>5. Conserves(NewSem(GlobalCap), GlobalCap, {}, Readers)
      /\ Conserves(NewSem(PageCap), PageCap, {}, Readers)
  BY Basics, NewConserves
<1>6. SlotsKept
  BY <1>1, <1>2, <1>4, <1>5 DEF SlotsKept
<1>7. LocksKept
  BY <1>1, <1>2, <1>4, <1>5 DEF LocksKept
<1>8. IsSem(slots, Readers) /\ \A a \in Addresses : IsSem(locks[a], Readers)
  BY <1>6, <1>7 DEF SlotsKept, LocksKept, Conserves
<1>9. TypeOK
  <2>1. NoAnswer \in [id : Pages \union {None}, updatedAt : Nat \union {None}]
    BY DEF NoAnswer
  <2>2. 0 \in 0 .. MaxMoves
    BY ReadPageAssumption
  <2> QED
    BY <1>1, <1>8, <2>1, <2>2 DEF TypeOK, IsSem
<1>10. Shapes
  BY <1>1 DEF Shapes
<1>11. \A r \in Readers : ReadOK(r)
  BY <1>1 DEF ReadOK, Answered, InGate
<1>12. CacheIsSound /\ MissLasts
  BY <1>1 DEF CacheIsSound, MissLasts
<1> QED
  BY <1>6, <1>7, <1>9, <1>10, <1>11, <1>12 DEF IInv

LEMMA StutterKeeps ==
  ASSUME IInv, UNCHANGED vars
  PROVE  IInv'
PROOF
<1>1. UNCHANGED <<version, names, call, moves, pc, page, export, slots, locks, cache>>
  BY DEF vars
<1>2. version' \in [Pages -> Nat] /\ \A p \in Pages : version[p] <= version'[p]
  BY <1>1, Types
<1>3. \A r \in Readers : ReadOK(r)'
  BY <1>1 DEF IInv, ReadOK, IsOwed, IsAnswer, IsExport, Doc!Resolve
<1> QED
  BY <1>1, <1>2, <1>3, Types, DocumentKeeps DEF Shapes

\* The invariant holds of every reachable state.
THEOREM InvariantHolds == Spec => []IInv
PROOF
<1>1. Init => IInv
  BY InitHolds
<1>2. ASSUME IInv, [Next]_vars PROVE IInv'
  <2>1. ASSUME NEW r \in Readers, NEW a \in Asked[r], Read(r, a) PROVE IInv'
    BY <1>2, <2>1, ReadKeeps
  <2>2. ASSUME NEW r \in Readers, GetPageAnswered(r) PROVE IInv'
    BY <1>2, <2>2, GetPageAnsweredKeeps
  <2>3. ASSUME NEW r \in Readers, GetPageRefused(r) PROVE IInv'
    BY <1>2, <2>3, OutsideRaiseKeeps DEF GetPageRefused, document, gate
  <2>4. ASSUME NEW r \in Readers, Enter(r) PROVE IInv'
    BY <1>2, <2>4, EnterKeeps
  <2>5. ASSUME NEW r \in Readers, EnterOutOfTime(r) PROVE IInv'
    BY <1>2, <2>5, OutsideRaiseKeeps DEF EnterOutOfTime, document, gate
  <2>6. ASSUME NEW r \in Readers, AskLock(r) PROVE IInv'
    BY <1>2, <2>6, AskLockKeeps
  <2>7. ASSUME NEW r \in Readers, AskLockOutOfTime(r) PROVE IInv'
    BY <1>2, <2>7, AskLockOutOfTimeKeeps
  <2>8. ASSUME NEW r \in Readers, TimeoutSlot(r) PROVE IInv'
    BY <1>2, <2>8, TimeoutSlotKeeps
  <2>9. ASSUME NEW r \in Readers, TimeoutLock(r) PROVE IInv'
    BY <1>2, <2>9, TimeoutLockKeeps
  <2>10. ASSUME NEW r \in Readers, Hold(r) PROVE IInv'
    BY <1>2, <2>10, HoldKeeps
  <2>11. ASSUME NEW r \in Readers, ExportBegins(r) PROVE IInv'
    BY <1>2, <2>11, ExportBeginsKeeps
  <2>12. ASSUME NEW r \in Readers, ExportReturns(r) PROVE IInv'
    BY <1>2, <2>12, ExportReturnsKeeps
  <2>13. ASSUME NEW r \in Readers, ExportRaises(r) PROVE IInv'
    BY <1>2, <2>13, ExportRaisesKeeps
  <2>14. ASSUME NEW p \in Pages, Edit(p) PROVE IInv'
    BY <1>2, <2>14, EditKeeps
  <2>15. ASSUME NEW n \in Names, NEW p \in Pages, MoveName(n, p) PROVE IInv'
    BY <1>2, <2>15, MoveNameKeeps
  <2>16. CASE UNCHANGED vars
    BY <1>2, <2>16, StutterKeeps
  <2> QED
    BY <1>2, <2>1, <2>2, <2>3, <2>4, <2>5, <2>6, <2>7, <2>8, <2>9, <2>10, <2>11,
       <2>12, <2>13, <2>14, <2>15, <2>16 DEF Next
<1> QED
  BY <1>1, <1>2, PTL DEF Spec

-----------------------------------------------------------------------------
(* What the invariant says of the properties *)

\* Those who hold a slot of a limit are no more than the limit has.
LEMMA HeldIsBounded ==
  ASSUME NEW sem, NEW cap \in Nat, NEW M, Conserves(sem, cap, M, Readers),
         NEW S, S \subseteq M \ Waiting(sem)
  PROVE  Cardinality(S) <= cap
PROOF
<1> DEFINE held == M \ Waiting(sem)
<1>1. held \in SUBSET Readers /\ sem.free \in Nat /\ sem.free + Cardinality(held) = cap
  BY DEF Conserves, IsSem
<1>2. S \in SUBSET held
  OBVIOUS
<1> HIDE DEF held
<1>3. IsFiniteSet(held)
  BY <1>1, Basics, FS_Subset
<1>4. Cardinality(S) <= Cardinality(held) /\ IsFiniteSet(S)
  BY <1>2, <1>3, FS_Subset
<1>5. Cardinality(held) \in Nat /\ Cardinality(S) \in Nat
  BY <1>3, <1>4, FS_CardinalityType
<1> QED
  BY <1>1, <1>4, <1>5

LEMMA InvariantSerialises ==
  ASSUME IInv
  PROVE  ExportsAreSerialised
PROOF
<1>1. ASSUME NEW p \in Pages
      PROVE  Cardinality({r \in Exporting(p) : page[r].id # None}) <= PageCap
  <2> DEFINE S == {r \in Exporting(p) : page[r].id # None}
  <2>1. p \in Addresses
    BY DEF Addresses
  <2>2. /\ Conserves(locks[p], PageCap, LockMembers(p), Readers)
        /\ \A d \in Range(locks[p].queue) : pc[d] = "lock"
    BY <2>1 DEF IInv, LocksKept
  <2>3. ASSUME NEW r \in S
        PROVE  r \in LockMembers(p) \ Waiting(locks[p])
    <3>1. r \in Readers /\ export[r] # None /\ export[r].page = p /\ page[r].id # None
      BY <2>3 DEF Exporting
    <3>2. pc[r] = "exporting" /\ IsExport(call[r], page[r], export[r])
      BY <3>1, Places DEF ReadOK
    <3>3. Target(r) = p
      BY <3>1, <3>2 DEF IsExport, Target
    <3> QED
      BY <2>2, <3>1, <3>2, <3>3 DEF LockMembers, AtLock, Waiting
  <2>4. S \subseteq LockMembers(p) \ Waiting(locks[p])
    BY <2>3
  <2> HIDE DEF S
  <2>5. Cardinality(S) <= PageCap
    BY <2>2, <2>4, Basics, HeldIsBounded
  <2> QED
    BY <2>5 DEF S
<1>2. Cardinality({r \in Readers : pc[r] \in {"kickoff", "exporting"}}) <= GlobalCap
  <2> DEFINE S == {r \in Readers : pc[r] \in {"kickoff", "exporting"}}
  <2>1. /\ Conserves(slots, GlobalCap, SlotMembers, Readers)
        /\ \A d \in Range(slots.queue) : pc[d] = "slot"
    BY DEF IInv, SlotsKept
  <2>2. S \subseteq SlotMembers \ Waiting(slots)
    BY <2>1 DEF SlotMembers, InGate, Waiting
  <2> HIDE DEF S
  <2>3. Cardinality(S) <= GlobalCap
    BY <2>1, <2>2, Basics, HeldIsBounded
  <2> QED
    BY <2>3 DEF S
<1> QED
  BY <1>1, <1>2 DEF ExportsAreSerialised

LEMMA InvariantConserves ==
  ASSUME IInv
  PROVE  GateConservesSlots
PROOF
<1>1. slots.free + Cardinality(SlotOwners) = GlobalCap
  <2>1. /\ Conserves(slots, GlobalCap, SlotMembers, Readers)
        /\ \A d \in Range(slots.queue) : pc[d] = "slot"
    BY DEF IInv, SlotsKept
  <2>2. SlotOwners = SlotMembers \ Waiting(slots)
    BY <2>1 DEF SlotOwners, SlotMembers, InGate, Waiting, Granted
  <2> QED
    BY <2>1, <2>2 DEF Conserves
<1>2. ASSUME NEW a \in Addresses
      PROVE  locks[a].free + Cardinality(LockOwners(a)) = PageCap
  <2>1. /\ Conserves(locks[a], PageCap, LockMembers(a), Readers)
        /\ \A d \in Range(locks[a].queue) : pc[d] = "lock"
    BY DEF IInv, LocksKept
  <2>2. LockOwners(a) = LockMembers(a) \ Waiting(locks[a])
    BY <2>1 DEF LockOwners, LockMembers, AtLock, Waiting, Granted
  <2> QED
    BY <2>1, <2>2 DEF Conserves
<1> QED
  BY <1>1, <1>2 DEF GateConservesSlots

\* Every variable keeps its type.
THEOREM TypeCorrect == Spec => []TypeOK
PROOF
<1>1. IInv => TypeOK
  BY DEF IInv
<1> QED
  BY <1>1, InvariantHolds, PTL

\* A page's blob has no more writers that know the page's id than a lock
\* admits, and no more exports run than EXPORT_CONCURRENCY_GLOBAL.
THEOREM ExportsNeverOverlap == Spec => []ExportsAreSerialised
PROOF
<1>1. IInv => ExportsAreSerialised
  BY InvariantSerialises
<1> QED
  BY <1>1, InvariantHolds, PTL

\* No way out of the gate loses a slot or gives one back twice.
THEOREM NoSlotIsLost == Spec => []GateConservesSlots
PROOF
<1>1. IInv => GateConservesSlots
  BY InvariantConserves
<1> QED
  BY <1>1, InvariantHolds, PTL

\* The render cache never holds one page's rendering under another's id, nor
\* one older than its stamp.
THEOREM CacheStaysSound == Spec => []CacheIsSound
PROOF
<1>1. IInv => CacheIsSound
  BY DEF IInv
<1> QED
  BY <1>1, InvariantHolds, PTL

\* With one lock place per page, as gate.py has it, no render is repeated.
THEOREM RendersAreShared ==
  ASSUME PageCap = 1
  PROVE  Spec => NoRenderIsRepeated
PROOF
<1>1. ASSUME IInv, [Next]_vars
      PROVE  [\A r \in Readers :
                pc[r] = "exporting" /\ call'[r].status = "served" =>
                  CacheGet(page[r].id, page[r].updatedAt) = None]_vars
  BY <1>1 DEF IInv, MissLasts
<1> QED
  BY <1>1, InvariantHolds, PTL DEF Spec, NoRenderIsRepeated

-----------------------------------------------------------------------------
(* The reads implement PageReads *)

Public == <<version, names, call>>

LEMMA InOwed ==
  ASSUME NEW c, NEW html, html = [page |-> html.page, version |-> html.version],
         html.page \in c.meant,
         html.version \in c.began[html.page] .. version[html.page]
  PROVE  html \in Doc!Owed(c)
BY DEF Doc!Owed

LEMMA AnswerServes ==
  ASSUME NEW r \in Readers, IsOwed(call[r]), NEW html, html \in Rendering,
         html.page \in call[r].meant,
         call[r].began[html.page] <= html.version, html.version <= version[html.page],
         version \in [Pages -> Nat], Answer(r, html), UNCHANGED <<version, names>>
  PROVE  Doc!Next
PROOF
<1>1. html.page \in Pages /\ html.version \in Nat
      /\ html = [page |-> html.page, version |-> html.version]
  BY DEF Rendering
<1>2. call[r].began[html.page] \in Nat /\ version[html.page] \in Nat
  BY <1>1 DEF IsOwed
<1>3. html.version \in call[r].began[html.page] .. version[html.page]
  BY <1>1, <1>2
<1>4. html \in Doc!Owed(call[r])
  BY <1>1, <1>3, InOwed
<1>5. Doc!IsOpen(r)
  BY DEF IsOwed, Doc!IsOpen, Doc!Open
<1>6. Doc!Serve(r)
  BY <1>4, <1>5 DEF Doc!Serve, Answer
<1> QED
  BY <1>6 DEF Doc!Next

LEMMA RaiseFails ==
  ASSUME IInv, NEW r \in Readers, pc[r] \in {"asking"} \union Answered,
         Raise(r), UNCHANGED <<version, names>>
  PROVE  Doc!Next
PROOF
<1>1. IsOwed(call[r])
  BY Places DEF ReadOK
<1>2. Doc!IsOpen(r)
  BY <1>1 DEF IsOwed, Doc!IsOpen, Doc!Open
<1>3. Doc!Fail(r)
  BY <1>2 DEF Doc!Fail, Raise
<1> QED
  BY <1>3 DEF Doc!Next

\* What the cache answers for the stamp the server gave is owed to the caller.
LEMMA HitServes ==
  ASSUME IInv, NEW r \in Readers, pc[r] \in Answered,
         NEW hit, hit = CacheGet(page[r].id, page[r].updatedAt), hit # None,
         Answer(r, hit), UNCHANGED <<version, names>>
  PROVE  Doc!Next
PROOF
<1> DEFINE id == page[r].id
           at == page[r].updatedAt
<1>1. IsOwed(call[r]) /\ IsAnswer(call[r], page[r]) /\ (id # None => id \in Pages)
  BY Places DEF ReadOK
<1>2. id # None /\ at # None /\ cache[id] # None /\ cache[id].updatedAt = at
      /\ hit = cache[id].html
  BY DEF CacheGet, IsKeyable
<1>3. /\ id \in call[r].meant /\ id \in Pages
      /\ at \in Nat /\ call[r].began[id] <= at /\ call[r].began[id] \in Nat
  BY <1>1, <1>2 DEF IsAnswer, IsOwed
<1>4. hit \in Rendering /\ hit.page = id /\ at <= hit.version /\ hit.version <= version[id]
  BY <1>2, <1>3, Types DEF IInv, CacheIsSound
<1>5. hit.version \in Nat
  BY <1>4 DEF Rendering
<1> HIDE DEF id, at
<1>6. call[r].began[hit.page] <= hit.version
  BY <1>3, <1>4, <1>5
<1> QED
  BY <1>1, <1>3, <1>4, <1>6, AnswerServes, Types

LEMMA ExportServes ==
  ASSUME IInv, NEW r \in Readers, ExportReturns(r)
  PROVE  Doc!Next
PROOF
<1>1. pc[r] = "exporting" /\ UNCHANGED <<version, names>>
  BY DEF ExportReturns, document
<1>2. PICK v \in export[r].version .. version[export[r].page] :
        Answer(r, [page |-> export[r].page, version |-> v])
  BY DEF ExportReturns
<1> DEFINE html == [page |-> export[r].page, version |-> v]
<1>3. Answer(r, html) /\ html = [page |-> export[r].page, version |-> v]
  BY <1>2
<1> HIDE DEF html
<1>4. IsOwed(call[r]) /\ IsExport(call[r], page[r], html)
  BY <1>1, <1>3, RenderedIsOwed
<1> QED
  BY <1>1, <1>3, <1>4, AnswerServes, Types DEF IsExport

\* Every step of the reads is a step of PageReads or changes nothing of it.
LEMMA StepImplements ==
  ASSUME IInv, [Next]_vars
  PROVE  [Doc!Next]_Public
PROOF
<1>1. ASSUME NEW r \in Readers, NEW a \in Asked[r], Read(r, a) PROVE Doc!Next
  <2>1. a \in Pages \union Names
    BY Basics
  <2> QED
    BY <1>1, <2>1 DEF Read, Doc!Next
<1>2. ASSUME NEW r \in Readers, GetPageAnswered(r) PROVE UNCHANGED Public
  BY <1>2 DEF GetPageAnswered, document, Public
<1>3. ASSUME NEW r \in Readers, GetPageRefused(r) PROVE Doc!Next
  BY <1>3, RaiseFails DEF GetPageRefused, document
<1>4. ASSUME NEW r \in Readers, Enter(r) PROVE [Doc!Next]_Public
  <2> DEFINE hit == CacheGet(page[r].id, page[r].updatedAt)
  <2>1. pc[r] \in Answered /\ UNCHANGED <<version, names>>
        /\ IF hit # None THEN Answer(r, hit) ELSE UNCHANGED call
    BY <1>4 DEF Enter, document, Answered
  <2>2. hit = CacheGet(page[r].id, page[r].updatedAt)
    OBVIOUS
  <2> HIDE DEF hit
  <2> QED
    BY <2>1, <2>2, HitServes DEF Public
<1>5. ASSUME NEW r \in Readers, EnterOutOfTime(r) PROVE Doc!Next
  BY <1>5, RaiseFails DEF EnterOutOfTime, document, Answered
<1>6. ASSUME NEW r \in Readers, AskLock(r) PROVE UNCHANGED Public
  BY <1>6 DEF AskLock, document, Public
<1>7. ASSUME NEW r \in Readers, AskLockOutOfTime(r) PROVE Doc!Next
  BY <1>7, RaiseFails DEF AskLockOutOfTime, document, Answered, InGate
<1>8. ASSUME NEW r \in Readers, TimeoutSlot(r) PROVE Doc!Next
  BY <1>8, RaiseFails DEF TimeoutSlot, document, Answered, InGate
<1>9. ASSUME NEW r \in Readers, TimeoutLock(r) PROVE Doc!Next
  BY <1>9, RaiseFails DEF TimeoutLock, document, Answered, InGate
<1>10. ASSUME NEW r \in Readers, Hold(r) PROVE [Doc!Next]_Public
  <2> DEFINE hit == CacheGet(page[r].id, page[r].updatedAt)
  <2>1. pc[r] \in Answered /\ UNCHANGED <<version, names>>
        /\ IF hit # None THEN Answer(r, hit) ELSE UNCHANGED call
    BY <1>10 DEF Hold, document, Answered, InGate
  <2>2. hit = CacheGet(page[r].id, page[r].updatedAt)
    OBVIOUS
  <2> HIDE DEF hit
  <2> QED
    BY <2>1, <2>2, HitServes DEF Public
<1>11. ASSUME NEW r \in Readers, ExportBegins(r) PROVE UNCHANGED Public
  BY <1>11 DEF ExportBegins, document, Public
<1>12. ASSUME NEW r \in Readers, ExportReturns(r) PROVE Doc!Next
  BY <1>12, ExportServes
<1>13. ASSUME NEW r \in Readers, ExportRaises(r) PROVE Doc!Next
  BY <1>13, RaiseFails DEF ExportRaises, document, Answered, InGate
<1>14. ASSUME NEW p \in Pages, Edit(p) PROVE Doc!Next
  BY <1>14 DEF Edit, Doc!Next
<1>15. ASSUME NEW n \in Names, NEW p \in Pages, MoveName(n, p) PROVE Doc!Next
  BY <1>15 DEF MoveName, Doc!Next
<1>16. CASE UNCHANGED vars
  BY <1>16 DEF vars, Public
<1> QED
  BY <1>1, <1>2, <1>3, <1>4, <1>5, <1>6, <1>7, <1>8, <1>9, <1>10, <1>11, <1>12,
     <1>13, <1>14, <1>15, <1>16 DEF Next

\* read_page keeps its promise: the gate, the cache and the renames together
\* never give a caller a page or a state its address did not mean.
THEOREM ReadsImplementPageReads == Spec => AnswersAreOwed
PROOF
<1>1. Init => Doc!Init
  BY DEF Init
<1>2. ASSUME IInv, [Next]_vars
      PROVE  [Doc!Next]_<<version, names, call>>
  BY <1>2, StepImplements DEF Public
<1> QED
  BY <1>1, <1>2, InvariantHolds, PTL DEF Spec, AnswersAreOwed, Doc!Spec

-----------------------------------------------------------------------------
(* Nobody waits for nothing, and every step of a read is a step ahead       *)

StepOf(r) ==
  \/ \E a \in Asked[r] : Read(r, a)
  \/ GetPageAnswered(r)  \/ GetPageRefused(r)
  \/ Enter(r)            \/ EnterOutOfTime(r)
  \/ AskLock(r)          \/ AskLockOutOfTime(r)
  \/ TimeoutSlot(r)      \/ TimeoutLock(r)
  \/ Hold(r)
  \/ ExportBegins(r)     \/ ExportReturns(r)      \/ ExportRaises(r)

\* How far a read is.
Rank == [idle |-> 0, asking |-> 1, answered |-> 2, slot |-> 3, lock |-> 4,
         kickoff |-> 5, exporting |-> 6, done |-> 7]

\* What a step of r does to the gate, to the others and to r's place.
GateTurns(r) ==
  /\ Turn(slots, slots', r)
  /\ \A a \in Addresses : Turn(locks[a], locks'[a], r)
Moves(r) ==
  /\ GateTurns(r)
  /\ OthersStay(r)
  /\ Rank[pc'[r]] > Rank[pc[r]]

\* The semaphore under one address moves, the others stay.
LEMMA OneLockTurns ==
  ASSUME IInv, NEW r \in Readers, pc[r] \in Answered,
         NEW X, locks' = [locks EXCEPT ![Target(r)] = X],
         Turn(locks[Target(r)], X, r)
  PROVE  \A a \in Addresses : Turn(locks[a], locks'[a], r)
PROOF
<1>1. locks = [a \in Addresses |-> locks[a]] /\ Target(r) \in Addresses
  BY Types, Places DEF Shapes
<1>2. locks'[Target(r)] = X /\ \A a \in Addresses : a # Target(r) => locks'[a] = locks[a]
  BY <1>1
<1> QED
  BY <1>2 DEF Turn

\* A read that returns or raises is as far as it gets.
LEMMA LeavingMoves ==
  ASSUME IInv, NEW r \in Readers, pc[r] \in {"asking"} \union Answered, GateTurns(r),
         Raise(r) \/ \E html : Answer(r, html)
  PROVE  Moves(r)
PROOF
<1>1. PICK c : /\ Leave(r) /\ call' = [call EXCEPT ![r] = c]
               /\ c.status \in {"failed", "served"}
  BY Settled
<1>2. OthersStay(r) /\ pc'[r] = "done"
  BY <1>1, LeaveProps
<1>3. Rank[pc'[r]] > Rank[pc[r]]
  BY <1>2 DEF Rank, Answered, InGate
<1> QED
  BY <1>2, <1>3 DEF Moves

LEMMA BeforeTheGateMoves ==
  ASSUME IInv, NEW r \in Readers,
         \/ \E a \in Asked[r] : Read(r, a)
         \/ GetPageAnswered(r) \/ GetPageRefused(r)
         \/ Enter(r) \/ EnterOutOfTime(r)
  PROVE  Moves(r)
PROOF
<1>1. ASSUME UNCHANGED gate PROVE GateTurns(r)
  BY <1>1 DEF gate, GateTurns, Turn
<1>2. ASSUME NEW a \in Asked[r], Read(r, a) PROVE Moves(r)
  <2>1. /\ pc' = [pc EXCEPT ![r] = "asking"]
        /\ \E c : call' = [call EXCEPT ![r] = c]
        /\ call[r] = Doc!Closed /\ UNCHANGED <<page, export>>
    BY <1>2 DEF Read, Goto, Doc!Begin
  <2>2. OthersStay(r) /\ pc'[r] = "asking"
    BY <2>1, Types DEF OthersStay, Shapes
  <2>3. call[r].status \notin {"failed", "served", "open"}
    BY <2>1 DEF Doc!Closed
  <2>4. pc[r] = "idle"
    <3>1. pc[r] # "done"
      BY <2>3, Places DEF ReadOK
    <3>2. ASSUME pc[r] \in {"asking"} \union Answered PROVE FALSE
      <4>1. call[r] = Doc!Open(call[r].meant, call[r].began, call[r].asked)
        BY <3>2, Places DEF ReadOK, IsOwed
      <4>2. call[r].status = "open"
        BY <4>1 DEF Doc!Open
      <4> QED
        BY <2>3, <4>2
    <3> QED
      BY <3>1, <3>2, Types DEF Labels
  <2> QED
    BY <1>1, <1>2, <2>2, <2>4 DEF Read, Moves, Rank
<1>3. CASE GetPageAnswered(r)
  <2>1. /\ pc[r] = "asking" /\ pc' = [pc EXCEPT ![r] = "answered"]
        /\ \E answer : page' = [page EXCEPT ![r] = answer]
        /\ UNCHANGED <<call, export>>
    BY <1>3 DEF GetPageAnswered, Goto
  <2>2. OthersStay(r) /\ pc'[r] = "answered"
    BY <2>1, Types DEF OthersStay
  <2> QED
    BY <1>1, <1>3, <2>1, <2>2 DEF GetPageAnswered, Moves, Rank
<1>4. CASE GetPageRefused(r) \/ EnterOutOfTime(r)
  BY <1>1, <1>4, LeavingMoves DEF GetPageRefused, EnterOutOfTime, Answered
<1>5. CASE Enter(r)
  <2> DEFINE hit == CacheGet(page[r].id, page[r].updatedAt)
  <2>1. /\ pc[r] = "answered" /\ UNCHANGED locks
        /\ \/ Answer(r, hit) /\ UNCHANGED slots
           \/ /\ slots' = Acquire(slots, r) /\ Goto(r, "slot")
              /\ UNCHANGED <<version, names, call, page, export>>
    BY <1>5 DEF Enter, document
  <2> HIDE DEF hit
  <2>2. GateTurns(r)
    BY <2>1 DEF GateTurns, Turn
  <2>3. CASE Answer(r, hit)
    BY <2>1, <2>2, <2>3, LeavingMoves DEF Answered
  <2>4. CASE Goto(r, "slot") /\ UNCHANGED <<version, names, call, page, export>>
    <3>1. OthersStay(r) /\ pc'[r] = "slot"
      BY <2>1, <2>4, Advance DEF Answered, InGate
    <3> QED
      BY <2>1, <2>2, <3>1 DEF Moves, Rank
  <2> QED
    BY <2>1, <2>3, <2>4
<1> QED
  BY <1>2, <1>3, <1>4, <1>5

LEMMA InTheGateMoves ==
  ASSUME IInv, NEW r \in Readers,
         \/ AskLock(r) \/ AskLockOutOfTime(r)
         \/ TimeoutSlot(r) \/ TimeoutLock(r)
         \/ Hold(r)
         \/ ExportBegins(r) \/ ExportReturns(r) \/ ExportRaises(r)
  PROVE  Moves(r)
PROOF
<1>1. CASE AskLock(r)
  <2>1. /\ pc[r] = "slot" /\ slots' = Resume(slots, r) /\ Goto(r, "lock")
        /\ locks' = [locks EXCEPT ![Target(r)] = Acquire(locks[Target(r)], r)]
        /\ UNCHANGED <<version, names, call, page, export>>
    BY <1>1 DEF AskLock, document
  <2>2. OthersStay(r) /\ pc'[r] = "lock"
    BY <2>1, Advance DEF Answered, InGate
  <2>3. GateTurns(r)
    BY <2>1, OneLockTurns DEF GateTurns, Turn, Answered, InGate
  <2> QED
    BY <2>1, <2>2, <2>3 DEF Moves, Rank
<1>2. CASE AskLockOutOfTime(r) \/ TimeoutSlot(r)
  <2>1. pc[r] = "slot" /\ Raise(r) /\ GateTurns(r)
    BY <1>2 DEF AskLockOutOfTime, TimeoutSlot, GateTurns, Turn
  <2> QED
    BY <2>1, LeavingMoves DEF Answered, InGate
<1>3. CASE TimeoutLock(r)
  <2>1. /\ pc[r] = "lock" /\ Raise(r) /\ slots' = Release(slots)
        /\ r \in Range(locks[Target(r)].queue)
        /\ locks' = [locks EXCEPT ![Target(r)] = Cancel(locks[Target(r)], r)]
    BY <1>3 DEF TimeoutLock
  <2>2. GateTurns(r)
    BY <2>1, OneLockTurns DEF GateTurns, Turn, Answered, InGate
  <2> QED
    BY <2>1, <2>2, LeavingMoves DEF Answered, InGate
<1>4. CASE Hold(r)
  <2> DEFINE hit == CacheGet(page[r].id, page[r].updatedAt)
             mine == Resume(locks[Target(r)], r)
  <2>1. /\ pc[r] = "lock"
        /\ \/ /\ Answer(r, hit) /\ slots' = Release(slots)
              /\ locks' = [locks EXCEPT ![Target(r)] = Release(mine)]
           \/ /\ Goto(r, "kickoff") /\ UNCHANGED slots
              /\ locks' = [locks EXCEPT ![Target(r)] = mine]
              /\ UNCHANGED <<version, names, call, page, export>>
    BY <1>4 DEF Hold, document
  <2> HIDE DEF hit
  <2>2. GateTurns(r)
    BY <2>1, OneLockTurns DEF GateTurns, Turn, Answered, InGate
  <2>3. CASE Answer(r, hit)
    BY <2>1, <2>2, <2>3, LeavingMoves DEF Answered, InGate
  <2>4. CASE Goto(r, "kickoff") /\ UNCHANGED <<version, names, call, page, export>>
    <3>1. OthersStay(r) /\ pc'[r] = "kickoff"
      BY <2>1, <2>4, Advance DEF Answered, InGate
    <3> QED
      BY <2>1, <2>2, <3>1 DEF Moves, Rank
  <2> QED
    BY <2>1, <2>3, <2>4
<1>5. CASE ExportBegins(r)
  <2>1. /\ pc[r] = "kickoff" /\ pc' = [pc EXCEPT ![r] = "exporting"]
        /\ \E html : export' = [export EXCEPT ![r] = html]
        /\ UNCHANGED <<call, page, slots, locks>>
    BY <1>5 DEF ExportBegins, Goto, gate
  <2>2. OthersStay(r) /\ pc'[r] = "exporting"
    BY <2>1, Types DEF OthersStay
  <2> QED
    BY <2>1, <2>2 DEF Moves, GateTurns, Turn, Rank
<1>6. CASE ExportReturns(r) \/ ExportRaises(r)
  <2>1. /\ pc[r] \in {"kickoff", "exporting"} /\ LeaveGate(r)
        /\ Raise(r) \/ \E html : Answer(r, html)
    BY <1>6 DEF ExportReturns, ExportRaises
  <2>2. GateTurns(r)
    BY <2>1, OneLockTurns DEF LeaveGate, GateTurns, Turn, Answered, InGate
  <2> QED
    BY <2>1, <2>2, LeavingMoves DEF Answered, InGate
<1> QED
  BY <1>1, <1>2, <1>3, <1>4, <1>5, <1>6

\* A step is one of a read, or leaves the gate and the reads alone.
LEMMA StepsMove ==
  ASSUME IInv, [Next]_vars
  PROVE  \/ \E r \in Readers : Moves(r)
         \/ /\ UNCHANGED <<pc, page, gate>>
            /\ \A r \in Readers : pc[r] \in Answered => Target(r)' = Target(r)
PROOF
<1>1. ASSUME NEW r \in Readers, StepOf(r) PROVE Moves(r)
  BY <1>1, BeforeTheGateMoves, InTheGateMoves DEF StepOf
<1>2. CASE (\E p \in Pages : Edit(p)) \/ UNCHANGED vars
  <2>1. UNCHANGED <<pc, page, gate, call>>
    BY <1>2 DEF Edit, Doc!Edit, vars, gate
  <2> QED
    BY <2>1 DEF Target
<1>3. ASSUME NEW n \in Names, NEW p \in Pages, MoveName(n, p)
      PROVE  /\ UNCHANGED <<pc, page, gate>>
             /\ \A r \in Readers : pc[r] \in Answered => Target(r)' = Target(r)
  <2>1. /\ UNCHANGED <<pc, page, gate>>
        /\ call' = [r \in Readers |->
                      IF Doc!IsOpen(r) /\ call[r].asked = n
                      THEN [call[r] EXCEPT !.meant = @ \union {p}] ELSE call[r]]
    BY <1>3 DEF MoveName, Doc!MoveName
  <2>2. ASSUME NEW r \in Readers, pc[r] \in Answered PROVE Target(r)' = Target(r)
    <3>1. call[r] = Doc!Open(call[r].meant, call[r].began, call[r].asked)
      BY <2>2, Places DEF ReadOK, IsOwed
    <3>2. [call[r] EXCEPT !.meant = @ \union {p}].asked = call[r].asked
      BY <3>1 DEF Doc!Open
    <3>3. call'[r].asked = call[r].asked
      BY <2>1, <3>2
    <3> QED
      BY <2>1, <3>3 DEF Target
  <2> QED
    BY <2>1, <2>2
<1> QED
  BY <1>1, <1>2, <1>3 DEF Next, StepOf

Stirs == Stirring(slots) /\ \A a \in Addresses : Stirring(locks[a])

LEMMA AreSems ==
  ASSUME IInv
  PROVE  IsSem(slots, Readers) /\ \A a \in Addresses : IsSem(locks[a], Readers)
BY DEF IInv, SlotsKept, LocksKept, Conserves

LEMMA StirsInit == Init => Stirs
PROOF
<1>1. ASSUME NEW cap PROVE Stirring(NewSem(cap))
  BY DEF NewSem, Stirring, Waiting, Range
<1> QED
  BY <1>1 DEF Init, Stirs

LEMMA StirsNext ==
  ASSUME IInv, Stirs, [Next]_vars
  PROVE  Stirs'
PROOF
<1>1. ASSUME NEW r \in Readers, Moves(r) PROVE Stirs'
  BY <1>1, AreSems, TurnStirs DEF Moves, GateTurns, Stirs
<1>2. CASE UNCHANGED gate
  BY <1>2 DEF gate, Stirs
<1> QED
  BY <1>1, <1>2, StepsMove

\* Both limits are live in every reachable state.
LEMMA AlwaysStirs == Spec => [](IInv /\ Stirs)
PROOF
<1>1. IInv /\ Stirs /\ [Next]_vars => Stirs'
  BY StirsNext
<1> QED
  BY <1>1, StirsInit, InvariantHolds, PTL DEF Spec

\* Some owner of a lock can move; some owner of a slot can, or waits for a lock
\* whose owner, itself an owner of a slot, can.
LEMMA StirringNeverJams ==
  ASSUME IInv, Stirs
  PROVE  GateNeverJams
PROOF
<1>1. ASSUME NEW r \in Readers, pc[r] \in AtLock
      PROVE  \E o \in LockOwners(Target(r)) : CanMove(o)
  <2> DEFINE a == Target(r)
  <2>1. /\ a \in Addresses
        /\ Conserves(locks[a], PageCap, LockMembers(a), Readers)
        /\ \A d \in Range(locks[a].queue) : pc[d] = "lock"
    BY <1>1, InTheGate DEF InGate, AtLock, IInv, LocksKept
  <2>2. LockMembers(a) # {}
    BY <1>1 DEF LockMembers
  <2>3. PICK o \in LockMembers(a) : o \notin Waiting(locks[a])
    BY <2>1, <2>2, Basics, SomebodyOwns DEF Stirs
  <2>4. /\ o \in Readers /\ pc[o] \in AtLock /\ Target(o) = a
        /\ Granted(locks[a], o)
    BY <2>3 DEF LockMembers, Waiting, Granted
  <2> QED
    BY <2>4 DEF LockOwners, CanMove, AtLock
<1>2. ASSUME NEW r \in Readers, pc[r] = "slot"
      PROVE  \E o \in SlotOwners : CanMove(o)
  <2>1. /\ Conserves(slots, GlobalCap, SlotMembers, Readers)
        /\ r \in SlotMembers
    BY <1>2, InTheGate DEF InGate
  <2>2. PICK o \in SlotMembers : o \notin Waiting(slots)
    BY <2>1, Basics, SomebodyOwns DEF Stirs
  <2>3. o \in Readers /\ pc[o] \in InGate /\ Granted(slots, o)
    BY <2>2 DEF SlotMembers, Waiting, Granted
  <2>4. CASE pc[o] = "slot"
    BY <2>3, <2>4 DEF SlotOwners, CanMove
  <2>5. CASE pc[o] \in AtLock
    <3>1. PICK q \in LockOwners(Target(o)) : CanMove(q)
      BY <2>3, <2>5, <1>1
    <3> QED
      BY <3>1 DEF LockOwners, SlotOwners
  <2> QED
    BY <2>3, <2>4, <2>5 DEF InGate, AtLock
<1> QED
  BY <1>1, <1>2 DEF GateNeverJams, AtLock

\* GateNeverJams: for any reads, pages and caps, no read waits at the gate for
\* reads that wait themselves.
THEOREM TheGateNeverJams == Spec => []GateNeverJams
PROOF
<1>1. IInv /\ Stirs => GateNeverJams
  BY StirringNeverJams
<1> QED
  BY <1>1, AlwaysStirs, PTL

\* A read that can move can until it does: no other read, edit or rename takes
\* away what it was granted.
THEOREM NoGrantIsRevoked ==
  Spec => [][\A r \in Readers : CanMove(r) /\ pc'[r] = pc[r] => CanMove(r)']_vars
PROOF
<1>1. ASSUME IInv, Stirs, [Next]_vars
      PROVE  [\A r \in Readers : CanMove(r) /\ pc'[r] = pc[r] => CanMove(r)']_vars
  <2> SUFFICES ASSUME NEW d \in Readers, CanMove(d), pc'[d] = pc[d]
               PROVE  CanMove(d)'
    OBVIOUS
  <2>1. CASE pc[d] \in {"asking", "answered", "kickoff", "exporting"}
    BY <2>1 DEF CanMove
  <2>2. CASE pc[d] \in {"slot", "lock"}
    <3>1. pc[d] \in Answered /\ Target(d) \in Addresses
      BY <1>1, <2>2, Places DEF Answered, InGate
    <3>2. ASSUME NEW r \in Readers, Moves(r) PROVE CanMove(d)'
      <4>1. d # r
        <5>1. Rank[pc[d]] \in {3, 4} /\ Rank[pc'[d]] = Rank[pc[d]]
          BY <2>2 DEF Rank
        <5>2. Rank[pc'[r]] > Rank[pc[r]]
          BY <3>2 DEF Moves
        <5> QED
          BY <5>1, <5>2
      <4>2. Target(d)' = Target(d)
        BY <3>2, <4>1 DEF Moves, OthersStay, Target
      <4>3. Granted(slots, d) => Granted(slots', d)
        BY <1>1, <3>2, <4>1, AreSems, TurnGrants DEF Moves, GateTurns, Stirs
      <4>4. Granted(locks[Target(d)], d) => Granted(locks'[Target(d)], d)
        BY <1>1, <3>1, <3>2, <4>1, AreSems, TurnGrants DEF Moves, GateTurns, Stirs
      <4> QED
        BY <2>2, <4>2, <4>3, <4>4 DEF CanMove
    <3>3. CASE /\ UNCHANGED <<pc, page, gate>>
               /\ \A r \in Readers : pc[r] \in Answered => Target(r)' = Target(r)
      BY <2>2, <3>1, <3>3 DEF CanMove, gate
    <3> QED
      BY <1>1, <3>2, <3>3, StepsMove
  <2> QED
    BY <2>1, <2>2 DEF CanMove
<1> QED
  BY <1>1, AlwaysStirs, PTL DEF Spec

\* A read only goes ahead: its places come in one order, and each is left for a
\* later one.
THEOREM ReadsOnlyAdvance ==
  Spec => [][\A r \in Readers : pc'[r] # pc[r] => Rank[pc'[r]] > Rank[pc[r]]]_vars
PROOF
<1>1. ASSUME IInv, [Next]_vars
      PROVE  [\A r \in Readers : pc'[r] # pc[r] => Rank[pc'[r]] > Rank[pc[r]]]_vars
  <2>1. ASSUME NEW r \in Readers, Moves(r), NEW d \in Readers, pc'[d] # pc[d]
        PROVE  Rank[pc'[d]] > Rank[pc[d]]
    BY <2>1 DEF Moves, OthersStay
  <2> QED
    BY <1>1, <2>1, StepsMove
<1> QED
  BY <1>1, InvariantHolds, PTL DEF Spec
=============================================================================
