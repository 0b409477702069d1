------------------------------ MODULE ReadPage ------------------------------
(***************************************************************************)
(* tools/reads.py read_page and PageCache over gate.py ExportGate: several *)
(* reads of a document's pages at once, while others edit the pages and    *)
(* rename them.                                                            *)
(*                                                                         *)
(* A read runs without interruption from one await to the next, so an      *)
(* action is the stretch of code between two of them.  The document side   *)
(* is PageReads's: `version`, `names` and `call` are its variables, and    *)
(* this module adds how a read is answered.  No clock is kept: a deadline  *)
(* may run out at any wait (Timeout*, *OutOfTime), and export_page may     *)
(* fail for any reason it has.                                             *)
(***************************************************************************)
EXTENDS Semaphore, FiniteSets

CONSTANTS Readers, Pages, Names,  \* as in PageReads
          Asked,      \* Asked[r]: the page ids and names read r may be called with
          GlobalCap,  \* EXPORT_CONCURRENCY_GLOBAL
          PageCap,    \* EXPORT_CONCURRENCY_PER_PAGE
          NoId,       \* the reads whose getPage answer may lack an id
          NoStamp,    \* the reads whose getPage answer may lack an updatedAt
          MaxEdits,   \* bound of this model: edits in all
          MaxMoves,   \* bound of this model: times a name is moved
          None        \* an absent field, an empty cache slot

ASSUME ReadPageAssumption ==
  /\ IsFiniteSet(Readers)
  /\ Asked \in [Readers -> SUBSET (Pages \union Names)]
  /\ GlobalCap \in Nat \ {0} /\ PageCap \in Nat \ {0}
  /\ NoId \subseteq Readers /\ NoStamp \subseteq Readers
  /\ MaxEdits \in Nat /\ MaxMoves \in Nat
  /\ Pages \intersect Names = {}
  /\ None \notin Pages \union Names

VARIABLES version, names, call,  \* see PageReads
          moves,    \* names moved so far
          pc,       \* pc[r]: the await read r stands at
          page,     \* page[r]: what get_page answered: id and updatedAt
          export,   \* export[r]: the page rendered for r, and its version at kickoff
          slots,    \* ExportGate._global
          locks,    \* ExportGate._per_page, by page id or by a caller's string
          cache     \* PageCache._entries

document == <<version, names, moves>>
gate == <<slots, locks>>
vars == <<version, names, call, moves, pc, page, export, slots, locks, cache>>

Doc == INSTANCE PageReads

Addresses == Pages \union Names
Rendering == [page : Pages, version : Nat]
NoAnswer == [id |-> None, updatedAt |-> None]

TypeOK ==
  /\ version \in [Pages -> Nat]
  /\ names \in [Names -> Pages]
  /\ moves \in 0 .. MaxMoves
  /\ pc \in [Readers -> {"idle", "asking", "answered", "slot", "lock", "kickoff",
                          "exporting", "done"}]
  /\ page \in [Readers -> [id : Pages \union {None},
                            updatedAt : Nat \union {None}]]
  /\ export \in [Readers -> Rendering \union {None}]
  /\ \A sem \in {slots} \union {locks[a] : a \in Addresses} :
       /\ sem.free \in Nat
       /\ sem.queue \in Seq(Readers)
       /\ sem.handed \subseteq Range(sem.queue)
  /\ \A p \in Pages :
       cache[p] # None => cache[p] \in [updatedAt : Nat, html : Rendering]

Init ==
  /\ Doc!Init
  /\ moves = 0
  /\ pc = [r \in Readers |-> "idle"]
  /\ page = [r \in Readers |-> NoAnswer]
  /\ export = [r \in Readers |-> None]
  /\ slots = NewSem(GlobalCap)
  /\ locks = [a \in Addresses |-> NewSem(PageCap)]
  /\ cache = [p \in Pages |-> None]

-----------------------------------------------------------------------------
(* PageCache *)

\* PageCache.is_keyable
IsKeyable(id, updatedAt) == id # None /\ updatedAt # None

\* Mutant of CacheGet: the stamp is not compared.
CacheGetAnyStamp(id, updatedAt) ==
  IF IsKeyable(id, updatedAt) /\ cache[id] # None THEN cache[id].html ELSE None

\* PageCache.get: a rendering, or None
CacheGet(id, updatedAt) ==
  IF IsKeyable(id, updatedAt) /\ cache[id] # None /\ cache[id].updatedAt = updatedAt
  THEN cache[id].html
  ELSE None

\* PageCache.set
CacheSet(id, updatedAt, html) ==
  cache' = IF IsKeyable(id, updatedAt)
           THEN [cache EXCEPT ![id] = [updatedAt |-> updatedAt, html |-> html]]
           ELSE cache

-----------------------------------------------------------------------------
(* How a read ends, and what the gate's two `finally`s give back *)

Goto(r, label) == pc' = [pc EXCEPT ![r] = label]

\* The call returns or raises and its locals are gone.
Leave(r) ==
  /\ Goto(r, "done")
  /\ page' = [page EXCEPT ![r] = NoAnswer]
  /\ export' = [export EXCEPT ![r] = None]

Answer(r, html) ==
  /\ Leave(r)
  /\ call' = [call EXCEPT ![r] = Doc!Served(html)]

Raise(r) ==
  /\ Leave(r)
  /\ call' = [call EXCEPT ![r] = Doc!Failed]

\* Mutant of Target: everything is keyed on what the caller wrote.
TargetAsAsked(r) == call[r].asked

\* export_target: the canonical id, or the caller's own string without one
Target(r) == IF page[r].id # None THEN page[r].id ELSE call[r].asked

\* Mutant of LeaveGate: the global slot is not in a `finally`.
LeaveLockOnly(r) ==
  /\ locks' = [locks EXCEPT ![Target(r)] = Release(@)]
  /\ UNCHANGED slots

LeaveGate(r) ==
  /\ locks' = [locks EXCEPT ![Target(r)] = Release(@)]
  /\ slots' = Release(slots)

-----------------------------------------------------------------------------
(* The read *)

Read(r, address) ==
  /\ Doc!Begin(r, address)
  /\ Goto(r, "asking")
  /\ UNCHANGED <<moves, page, export, gate, cache>>

\* The server answers get_page for the page the address means right now.
GetPageAnswered(r) ==
  /\ pc[r] = "asking"
  /\ LET p == Doc!Resolve(call[r].asked) IN
       \E id \in {p, None}, at \in {version[p], None} :
         /\ id = None => r \in NoId
         /\ at = None => r \in NoStamp
         /\ page' = [page EXCEPT ![r] = [id |-> id, updatedAt |-> at]]
  /\ Goto(r, "answered")
  /\ UNCHANGED <<document, call, export, gate, cache>>

\* get_page fails, or answers a page whose contentType is not canvas.
GetPageRefused(r) ==
  /\ pc[r] = "asking"
  /\ Raise(r)
  /\ UNCHANGED <<document, gate, cache>>

\* The first look; on a miss the read asks for a global slot.
Enter(r) ==
  /\ pc[r] = "answered"
  /\ LET hit == CacheGet(page[r].id, page[r].updatedAt) IN
       IF hit # None
       THEN Answer(r, hit) /\ UNCHANGED slots
       ELSE /\ slots' = Acquire(slots, r)
            /\ Goto(r, "slot")
            /\ UNCHANGED <<call, page, export>>
  /\ UNCHANGED <<document, locks, cache>>

\* A wait_for without any time left does not even try.
EnterOutOfTime(r) ==
  /\ pc[r] = "answered"
  /\ CacheGet(page[r].id, page[r].updatedAt) = None
  /\ Raise(r)
  /\ UNCHANGED <<document, gate, cache>>

\* With a global slot in hand, the read asks for its page's lock.
AskLock(r) ==
  /\ pc[r] = "slot" /\ Granted(slots, r)
  /\ slots' = Resume(slots, r)
  /\ locks' = [locks EXCEPT ![Target(r)] = Acquire(@, r)]
  /\ Goto(r, "lock")
  /\ UNCHANGED <<document, call, page, export, cache>>

AskLockOutOfTime(r) ==
  /\ pc[r] = "slot" /\ Granted(slots, r)
  /\ slots' = Release(Resume(slots, r))
  /\ Raise(r)
  /\ UNCHANGED <<document, locks, cache>>

\* The time of a read in line for a global slot runs out.
TimeoutSlot(r) ==
  /\ pc[r] = "slot" /\ r \in Range(slots.queue)
  /\ slots' = Cancel(slots, r)
  /\ Raise(r)
  /\ UNCHANGED <<document, locks, cache>>

\* Mutant of TimeoutLock: the global slot is taken along.
TimeoutLockKeepsSlot(r) ==
  /\ pc[r] = "lock" /\ r \in Range(locks[Target(r)].queue)
  /\ locks' = [locks EXCEPT ![Target(r)] = Cancel(@, r)]
  /\ Raise(r)
  /\ UNCHANGED <<document, slots, cache>>

\* The time of a read in line for its page's lock runs out.
TimeoutLock(r) ==
  /\ pc[r] = "lock" /\ r \in Range(locks[Target(r)].queue)
  /\ locks' = [locks EXCEPT ![Target(r)] = Cancel(@, r)]
  /\ slots' = Release(slots)
  /\ Raise(r)
  /\ UNCHANGED <<document, cache>>

\* Mutant of Hold: no second look.
HoldBlindly(r) ==
  /\ pc[r] = "lock" /\ Granted(locks[Target(r)], r)
  /\ locks' = [locks EXCEPT ![Target(r)] = Resume(@, r)]
  /\ Goto(r, "kickoff")
  /\ UNCHANGED <<document, call, page, export, slots, cache>>

\* Inside the gate, the second look; on a miss the export is kicked off.
Hold(r) ==
  /\ pc[r] = "lock" /\ Granted(locks[Target(r)], r)
  /\ LET hit == CacheGet(page[r].id, page[r].updatedAt)
         mine == Resume(locks[Target(r)], r) IN
       IF hit # None
       THEN /\ Answer(r, hit)
            /\ locks' = [locks EXCEPT ![Target(r)] = Release(mine)]
            /\ slots' = Release(slots)
       ELSE /\ Goto(r, "kickoff")
            /\ locks' = [locks EXCEPT ![Target(r)] = mine]
            /\ UNCHANGED <<call, page, export, slots>>
  /\ UNCHANGED <<document, cache>>

\* Mutant of ExportBegins: only the keys are resolved, not the request.
ExportBeginsAsAsked(r) ==
  /\ pc[r] = "kickoff"
  /\ LET p == Doc!Resolve(call[r].asked) IN
       export' = [export EXCEPT ![r] = [page |-> p, version |-> version[p]]]
  /\ Goto(r, "exporting")
  /\ UNCHANGED <<document, call, page, gate, cache>>

\* The server accepts the export and from now on writes the page's blob.
ExportBegins(r) ==
  /\ pc[r] = "kickoff"
  /\ LET p == Doc!Resolve(Target(r)) IN
       export' = [export EXCEPT ![r] = [page |-> p, version |-> version[p]]]
  /\ Goto(r, "exporting")
  /\ UNCHANGED <<document, call, page, gate, cache>>

\* export_page returns what the server rendered some time after the kickoff.
ExportReturns(r) ==
  /\ pc[r] = "exporting"
  /\ \E v \in export[r].version .. version[export[r].page] :
       LET html == [page |-> export[r].page, version |-> v] IN
         /\ CacheSet(page[r].id, page[r].updatedAt, html)
         /\ Answer(r, html)
  /\ LeaveGate(r)
  /\ UNCHANGED document

\* export_page raises: refused, failed, gone, or out of time.
ExportRaises(r) ==
  /\ pc[r] \in {"kickoff", "exporting"}
  /\ Raise(r)
  /\ LeaveGate(r)
  /\ UNCHANGED <<document, cache>>

-----------------------------------------------------------------------------
(* The document changes under the reads *)

Edit(p) ==
  /\ FoldFunction(+, 0, version) < MaxEdits
  /\ Doc!Edit(p)
  /\ UNCHANGED <<moves, pc, page, export, gate, cache>>

MoveName(n, p) ==
  /\ moves < MaxMoves
  /\ moves' = moves + 1
  /\ Doc!MoveName(n, p)
  /\ UNCHANGED <<pc, page, export, gate, cache>>

Next ==
  \/ \E r \in Readers :
       \/ \E a \in Asked[r] : Read(r, a)
       \/ GetPageAnswered(r)  \/ GetPageRefused(r)
       \/ Enter(r)            \/ EnterOutOfTime(r)
       \/ AskLock(r)          \/ AskLockOutOfTime(r)
       \/ TimeoutSlot(r)      \/ TimeoutLock(r)
       \/ Hold(r)
       \/ ExportBegins(r)     \/ ExportReturns(r)      \/ ExportRaises(r)
  \/ \E p \in Pages : Edit(p)
  \/ \E n \in Names, p \in Pages : MoveName(n, p)

Spec == Init /\ [][Next]_vars

\* A request and an export end (the client and the poll loop bound them), and
\* a reader whose await is over runs.  No timeout is owed to anybody.
Steps(r) ==
  \/ GetPageAnswered(r) \/ GetPageRefused(r)
  \/ Enter(r) \/ AskLock(r) \/ Hold(r)
  \/ ExportBegins(r) \/ ExportReturns(r) \/ ExportRaises(r)

FairSpec == Spec /\ \A r \in Readers : WF_vars(Steps(r))

-----------------------------------------------------------------------------
(* Properties *)

Exporting(p) == {r \in Readers : export[r] # None /\ export[r].page = p}

\* While the server renders page p for a read that knows p's id, it renders p
\* for no other such read, and the process runs no more than GlobalCap exports
\* in all: what gate.py calls a correctness constraint, and the cap.
ExportsAreSerialised ==
  /\ \A p \in Pages :
       Cardinality({r \in Exporting(p) : page[r].id # None}) <= PageCap
  /\ Cardinality({r \in Readers : pc[r] \in {"kickoff", "exporting"}}) <= GlobalCap

\* gate.py's constraint for every read, those whose getPage answered no id
\* included: the blob of a page has one writer.  reads.py expects the
\* fallback to the caller's string to cost only a needless wait.
OneWriterPerBlob == \A p \in Pages : Cardinality(Exporting(p)) <= PageCap

\* The reads that own a global slot, and those that own the lock under `a`.
SlotOwners ==
  {r \in Readers : \/ pc[r] \in {"lock", "kickoff", "exporting"}
                   \/ pc[r] = "slot" /\ Granted(slots, r)}
LockOwners(a) ==
  {r \in Readers : /\ pc[r] \in {"lock", "kickoff", "exporting"}
                   /\ Target(r) = a
                   /\ pc[r] = "lock" => Granted(locks[a], r)}

\* On every path out of the gate (an answer from the cache, a render, an
\* error, a timeout before or after a slot was handed over) exactly what was
\* taken is given back: each slot is free or owned by an open read.
GateConservesSlots ==
  /\ slots.free + Cardinality(SlotOwners) = GlobalCap
  /\ \A a \in Addresses :
       locks[a].free + Cardinality(LockOwners(a)) = PageCap

\* Nothing keeps r where it is: its await is over, or is for a request or an
\* export, which end by themselves.
CanMove(r) ==
  \/ pc[r] \in {"asking", "answered", "kickoff", "exporting"}
  \/ pc[r] = "slot" /\ Granted(slots, r)
  \/ pc[r] = "lock" /\ Granted(locks[Target(r)], r)

\* No read waits at the gate for one that waits, too: some owner of the page's
\* lock, and some owner of a slot, can go on, though slots change hands
\* through readers that time out or have not run yet, and a reader in line for
\* a lock keeps its slot.
GateNeverJams ==
  \A r \in Readers :
    /\ pc[r] = "slot" => \E o \in SlotOwners : CanMove(o)
    /\ pc[r] = "lock" => \E o \in LockOwners(Target(r)) : CanMove(o)

\* What is filed under a page is a rendering of that page, made when its stamp
\* was current or later, whatever was renamed or edited meanwhile.
CacheIsSound ==
  \A p \in Pages : cache[p] # None =>
    /\ cache[p].html.page = p
    /\ cache[p].updatedAt <= cache[p].html.version
    /\ cache[p].html.version <= version[p]

\* No export is paid for a rendering the cache holds when the export ends: the
\* reads of one state of a page share one export, however they interleave.
NoRenderIsRepeated ==
  [][\A r \in Readers :
       pc[r] = "exporting" /\ call'[r].status = "served" =>
         CacheGet(page[r].id, page[r].updatedAt) = None]_vars

\* read_page keeps PageReads's promise: every answer renders a page its
\* caller's address meant during the call, in a state of that time.
AnswersAreOwed == Doc!Spec

\* Every read is answered or fails, behind any number of others, though no
\* timeout comes to its help: nobody waits on a slot that never comes.  (Each
\* of Readers is one read, so none open for good means each one settled.)
EveryReadSettles == <>[](\A r \in Readers : call[r].status # "open")
=============================================================================
