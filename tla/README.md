# Verification of superhumandoc-mcp

TLA+ models, model-checking runs and machine-checked proofs for
`src/superhumandoc_mcp`, the MCP server that reads and writes Superhuman Docs
through the vendor's HTTP API. In this text a source path such as `client.py:191`
is relative to `src/src/superhumandoc_mcp/`.

The server is one asyncio process. Tool calls run concurrently as coroutines and
share a rate limiter, a count of exhausted 429 budgets, an export gate, a render
cache and a column cache. The server persists nothing, so a crash of it loses nothing a
restart would have to repair (the `init` command, which writes files, can be killed half-way
and run again, and is modelled so); what is hard here is time (one deadline per tool call, spent
by sleeps, retries and polls alike), answers that never come (a write whose answer is
lost may still be executed), and what other coroutines do while one is suspended.

## The system

| Part | Source | State it keeps | Operations | Talks to |
|---|---|---|---|---|
| Tool-call deadline | `deadline.py` | the instant it was built | `remaining`, `remaining_with_tail`, `can_afford`, `clamp`, `expired` | everything below |
| Rate limiter | `throttle.py`, `buckets.py` | a deque of grant instants per bucket | `acquire` | shared by all requests |
| Request engine | `client.py`, `classify.py`, `backoff.py`, `errors.py` | sticky count and its first instant, shared; per request the attempts, replays and last answer | `request`, `whoami` | limiter, HTTP |
| Paging | `api.py` | per listing the rows in hand, the token, the page size | `_paged`, `list_rows` and one method per endpoint | request engine |
| Chunked writes | `chunking.py`, `outcomes.py`, `sizing.py` | the queue of chunks, one outcome per row | `plan_chunks`, `send_chunks`, `BatchReport` | API, polling |
| Mutation polling | `polling.py` | start, ceiling, grace, interval | `await_mutation` | API |
| Export and download | `export.py`, `downloads.py` | the same, and the link refreshes | `export_page`, `Downloader.fetch` | API, S3 |
| Export gate | `gate.py` | a global semaphore, a semaphore per page | `for_page` | page reads |
| Page reads, render cache | `tools/reads.py` | the last rendering of each page, with its stamp | `read_page`, `PageCache.get/set` | API, gate, export |
| Column cache | `schema_cache.py` | columns per table, without expiry | `columns` | API |
| Write guard | `tools/guard.py` | none | three listings before a destructive page write | API |
| Tools, boundary, wiring | `tools/*.py`, `server.py`, `__main__.py` | none of their own | one request, one poll or one listing each | all of the above |
| Configuration, init | `config.py`, `init.py`, `__main__.py` | `.env`, `.mcp.json` and `.gitignore` of a project directory | scaffold (any number of times), resolve and load at a start | the file system, the user who edits the files |
| Cells, content | `cells.py`, `content.py` | none | pure conversions | writes, reads |

What is hard in each part, line by line, is the list `hazards` of `PROJECT.json`.

## Modules

| Module | Models | State and actions |
|---|---|---|
| `Deadline` | `deadline.py` | no state: a Deadline never changes, so its methods are operators of its start instant and the clock |
| `Throttle` | `throttle.py` | `history` is the deque, `phase[c]` the suspended callers; `Acquire`, `Wake` evaluate `acquire()` from the top in one step, as there is no await between the test and the append |
| `Delivery` | what `request()` promises | abstract: how often a call may put an attempt before the server, what may be executed later unseen, and which ends fit that |
| `Client` | `client.py:146-274` with the tables of `classify.py`, `backoff.py` | `pc[r]` is the await a request stands at (limiter, HTTP, backoff); one action per answer; composes `Throttle` by INSTANCE, its actions are conjuncts of this module's; requests of buckets not followed appear as what they do to the sticky count |
| `Sizing` | `sizing.py`, the body of `DocsApi.upsert_rows` | no state: what a row weighs to the planner on its two axes, and what the request that carries it weighs |
| `Batch` | what `send_chunks` promises | abstract: rows are settled from the front on, a run of them at a time, each once unless the batch may be repeated |
| `SendChunks` | `plan_chunks`, `send_chunks`, `outcomes.py`, the row ids of `upsert_rows` | the planner adds one row a step to its `pending` chunk or closes it; then `queue` is the deque of chunks, `outcomes` the report; the ways a send ends are those of `Client`; the caller may resume |
| `Polling` | `polling.py`, `export.py`, the timeout of `downloads.py` | one wait, of either kind, from kickoff to outcome; `begun`, `ceiling`, `interval`, `refreshes` are the locals of the loop; a status question waits for the limiter (`acquiring`), where it may be refused, and is sent from there |
| `Semaphore` | `asyncio.Semaphore` (external) | operators on a record of free slots, the queue and who has been handed a slot |
| `PageReads` | what `read_page` promises | abstract: an answer renders a page its caller's address meant during the call, in a state of that time |
| `ReadPage` | `read_page`, `PageCache`, `gate.py` | `pc[r]` is the await a read stands at; `slots`, `locks`, `cache` are the gate and the cache; pages are edited and renamed meanwhile |
| `Listing` | `_paged`, `list_rows`, `guard.py`, `schema_cache.py`, the listing of `find_rows` | per call the listing under way; a page is any part of what was asked for; an editor adds and deletes between two pages, the deadline expires at any moment |
| `Project` | `init.py`, `config.py`, the startup of `__main__.py` and `server.py` | a `.env` is what its two readers make of it (which lines assign a key and in what form, which value is live, whether the last line lacks its newline); each artifact is created in one step and filled in the next, each step may fail or be the last; `server` is what a server was started from |
| `MC*` | | values for the constants, nothing else |
| `*Proofs` | | the invariants and theorems of the module of that name: `Throttle`, `Client`, `SendChunks`, `Polling`, `Listing`, `Semaphore`, `ReadPage`, `Project` |

`Client` composes the limiter step by step. The other compositions go through a
contract: `SendChunks` takes from `Client` how a send can end, `Polling` and `Listing`
take a request as one step that answers, fails or is refused, and `ReadPage` takes an
export as one request that returns or raises, which is what `Polling` shows of
it. Three modules have an abstract specification they are shown to implement, by TLC and by
proof: `Client` (`ImplementsDelivery`), `SendChunks` (`ImplementsBatch`) and `ReadPage`
(`AnswersAreOwed`). The limiter needs none: `WindowBound` over the log of all grants is what
one would say.

Variables marked *history variable* exist for the properties only: no guard reads them.
Definitions whose comment begins with *Mutant of* are not used by any action; each is
a wrong version of the next definition and shows that some property notices it.

Choices that shape the models:

* Between two awaits a coroutine cannot be interrupted, so that stretch is one action.
  Where a suspended coroutine reads shared state again after the await, it does so in the
  next action.
* Instants are integers. Every comparison keeps its strictness, because most of the
  numeric edges are about `<` against `<=`. Half of the remaining budget
  (`polling.py:88`) is rounded down; the code's halves are exact.
* A sleep may end late, up to a bound of the module, never early.
* A request whose answer is lost leaves a *stray* attempt with the server, which may
  execute it at any later time or never. The client cannot tell the difference.
* asyncio's semaphores are modelled as handing a slot to the first waiter in line, who
  takes it up when it is resumed; a waiter cancelled in between passes it on. Taking a
  slot without waiting is a resume of its own, which covers the schedules of
  both Python 3.11 and 3.12.
* A page whose `contentType` is not a canvas ends a read as a refusal of `get_page`
  does, and is the same action.

## What the runs check

Each passing run is exhaustive for its constants and each of its properties is
violated by a mutant of the modelled code listed in `PROJECT.json`. A module's
`TypeOK`, the bound of a single wait (`SleepWithinBudget`, `WaitsWithinBudget`,
`SleepsWithinBudget`) and three properties that a refinement or a stronger property speaks
of already (`UnsafeVerdictHolds`, `NotAttemptedIsSuffix`, `NoNeedlessCut`) are proved for all
constants and are in no run.

**`throttle`** (3 callers, 2 slots in a window of 3, deadlines of every age).
`WindowBound`: no window ever holds more grants than the bucket allows, though callers
compute their wait before an await and wake together. `NoNeedlessSleep`: a sleeper's
bucket is full for as long as it sleeps. `RefusalIsForced`: a caller
is refused only if no instant it could still use has a free slot.
`EveryAcquireSettles`: the herd starves nobody. Three callers on two slots is the least with which two sleepers
wait for the same slot and one of them loses it on waking.

**`client`** (2 requests, one slot, one 429 retry, one replay, old and fresh deadlines; two
exhausted budgets within one instant of each other are sticky, and requests of other buckets
may exhaust one or succeed at any time).
`DeclaredReplaysOnly`: the server executes an UNSAFE request at most once and a SAFE one
at most once per replay more, late strays included. `ImplementsDelivery`: to its callers a
request is one of `Delivery`, which knows no limits, waits or repetitions but says what each
of its ends is worth (so what is said of an UNSAFE call stays true).
`BudgetsAreSeparate`: 429 retries and replays do not draw on each other: every attempt behind
the present one cost exactly one of the two, and who gives up on either has used that one up (or
has no time left to wait).
`StickyIsEarned` (a request is called sticky only after that many exhausted budgets in a row, no
success between them, the first of them no longer ago than the window; with these bounds counts
begin, lapse, begin anew and are cleared within a run), `SendsAreMetered` (every way back to the wire passes the
limiter), `EveryRequestSettles`. Two requests share one slot and the sticky
count, so each suspension of one can contain any step of the other.

**`chunks`** (3 rows, each an id, short, wide or too heavy, in every mix; two calls).
The planner: `PlanIsSendable`, a finished plan has every row once and in order, and only a
row too heavy on its own goes over a cap. The sender: `ImplementsBatch`, its caller sees the
rows settled from the front on, a run at a time, through any plan, halving, stop and resumed
call; `UnkeyedRowsReachOnce`, no row
without key columns is sent again, by a resumed call either, once it may have been
written; `ReportIsTrue`, rows reported applied reached the server exactly once, rows
reported not attempted never did; `RowIdsAreTheirOwn`, an id is reported with the row the
server gave it to, however chunks were halved; `SendsAreBounded`, fewer than two sends a row;
`DeadDeadlineLosesNothing`, a deadline that is over when a chunk is due raises through a batch
only before its first send. `EveryCallEnds`. Three rows allow a chunk halved twice, one halved with
another behind it, and a remainder to resume; a wide row with a short one is exactly
what a chunk may weigh, two wide rows are one too many.

**`read_page`** (3 reads, 2 pages, one name, one edit, one rename, a global cap of 2).
`ExportsAreSerialised`: a page has one export at a time and the process no more than its
cap. `GateConservesSlots`: on every path out (a cached answer, a render, an error, a
timeout in either line, before or after a slot was handed over) exactly what was taken is
given back. `CacheIsSound`: what is filed under a page is a rendering of that page, of
its stamp's state or later. `NoRenderIsRepeated`: a read does not export what the cache holds
already when its turn at the gate comes.
`GateNeverJams`: whenever a slot is free and somebody waits for it, a slot has been handed to
a reader that has yet to run, so a release is never slept through.
`AnswersAreOwed`: the refinement of `PageReads`. `EveryReadSettles`: no read waits for a
slot that never comes, without any help from timeouts. Three reads are the
least with which one holds a page's lock, one waits for it holding a global slot and one
waits for that slot; the third may be answered without an id or a stamp.

**`polling`** (deadlines fresh, half spent and nearly or wholly spent, a server that finishes or
fails at any instant or never and may drop the work, a status endpoint that learns of it at
any later instant, a limiter or a sticky count that may refuse any status question unsent, a
clock to 25). `FirstQuestionIsAsked`: a wait that ends for want of
time alone, neither refused by the limiter nor failed, has put its question on the wire, if it
began with more than two overruns of a sleep. `NothingFinishedInTimeIsMissed`: a
loop that gives up for want of time was patient up to its ceiling, or to the budget if
that is less: the work was not done, or not known to the status endpoint.
`LagIsForgiven`: a 404 ends a wait only for work that was dropped, or that the endpoint did
not know for the grace, less an opening sleep, its overrun and one request. The grace is counted from
the first poll, as `polling.py:71-73` and `export.py:51-53` count it; what the bound takes off is
what the code takes off, which starts it with the loop (see below). `QuestionsStopAtTheCeiling`: and not beyond, however often a link has to be
minted again. `WaitsAreBounded`: past the budget a wait only sleeps out an overrun, or awaits
the request in flight. A download is under no such bound: what `Downloader.fetch` hands to httpx is
the timeout of each phase and each read, so the model ends one when it likes. The constants keep the proportions of the code: the
budget exceeds either ceiling, the ceiling holds several capped intervals, the
grace is about half of it; the oldest deadlines have nothing left. No sleep and no question
reaches the clock's bound: the budget is 20. That a wait ends is no property of its own:
the ceiling, the budget and the requests' refusals each see to it, so no single slip in the code
breaks it. Time is what ends it, and `WaitsAreBounded` and `QuestionsStopAtTheCeiling` say how soon.

**`listing`** (2 calls, up to 4 objects of a kind, pages of 2 and a ladder down to 1, a cap of 4,
one edit). A page may be shorter than it was asked to be and not the last, as the API clamps sizes.
`CompleteMeansWhole`: a listing called complete holds every row that was there from
beginning to end. `RowsComeOnce`: across pages, restarts and edits. `GuardMissesNothing`:
an unforced destructive write goes out only if no owned object was there all along, though
the guard drops `complete`: a listing cut short has spent the budget the write needs.
`EveryListingEnds`. Three rows on pages of two or of one, with a restart before any
of them, are enough to tell a dropped token from a kept one and a full page from the last.

**`project`** (2 runs of `init`, 3 lines a user adds, live, commented out or with a quoted key, 6 ways to name a file, 4 environments,
another directory whose `.env` allows the gated tools). `InitKeepsStarts`: no step of `init`
changes what a server that could be started would be started with, unless a required key is
set in this `.env` by lines with quoted keys only (see below); the template's empty
values shadow nothing, a last line without its newline is not run into, a flag is not
disarmed. `InitDelivers`: exit code 0 means a whole directory, whatever earlier runs that
failed or were killed left there. `RerunChangesNothing`: a run after one that succeeded
finds nothing to do. `ServesAsTold`: a server that was told its file serves from no other
and has the gated tools only if no source that speaks of them refuses. Two runs are the
first that finds the traces of another; three lines allow both required keys and a third
that overrides one of them or arms the flag. Servers start and stop freely, so this is
the one system that never stops, and its run checks for deadlock.

Symmetry is not used. Apart from `project`, deadlock is not checked: every system here is a
bounded set of one-shot calls (and a bounded clock), so it does stop. That it stops only
where it should is what the liveness properties say (`polling` has none).

### Where the code and its documents disagree

Each of these runs has one property, quoted from a document or comment, and TLC finds a
behaviour of the code that breaks it.

| Run | Promise | What happens |
|---|---|---|
| `client_not_transmitted` | `errors.py:51`: the request did not reach the server and nothing was changed | the first attempt of a SAFE request lost its answer, its replay cannot connect, and `NotTransmitted` is raised |
| `chunks_bodies` | `sizing.py:25`: the ceiling is the byte count of the HTTP body | the planner weighs rows as `{id: value}`, the request sends each cell as an object that names its column; a chunk within the ceiling makes a body over it |
| `chunks_partial` | `tools/writes.py:16`: a partial success is reported as such | an error other than a refusal in a later chunk discards the report |
| `read_page_blob` | `tools/reads.py:390`: the fallback costs at most a needless wait | without an id in the answer two reads hold the gate under two keys and export one page at once |
| `listing_schema` | `api.py:34`: a short listing must not read like a whole one | columns cut short by one call's deadline become the schema of every later call |

Seen while modelling and stated by no run:

* The 404 grace is counted from the start of the loop although `polling.py:71-73` and
  `export.py:51-53` count it from the first poll: it is shorter than promised by the opening sleep and
  its overrun, which is what `LagIsForgiven` allows for.
* `init` does not see a required key in quotes (`'SHDOC_API_KEY'=token`), which python-dotenv reads
  (`init.py:100-113`): it appends an empty `SHDOC_API_KEY=` behind it, which shadows the token, the
  harm `init.py:24-31` means to exclude. `InitKeepsStarts` exempts this case and no other.
* The budget a download is given (`downloads.py:31-46`) is httpx's timeout for each phase and each
  read, no bound on the whole: a body that trickles outlasts the tool call's ceiling.
* An HTTP exchange is not clamped to the deadline, so one sent at the end of the budget ends
  past the 90 seconds that the constants document calls a hard ceiling.
* The sticky window is anchored at the oldest exhaustion: three recent ones behind an older
  one are not recognised as sticky.
* `outline_page` and `get_doc_overview` drop `complete` as the column cache does: a listing
  cut short reads there as the whole.
* A slow reader may replace a newer cache entry by one with an older stamp
  (`tools/reads.py:341`), which costs an export and no correctness.
* Rows marked not attempted in a *keyed* batch may have been sent (`chunking.py:189`,
  harmless because their upsert can be repeated).
* Rows in hand are lost when a deadline ends inside `request()` and kept when it ends between
  two pages (`api.py:68`, `:85`).

## Fairness

| Module | Assumed | Why the code justifies it |
|---|---|---|
| `Throttle` | time passes; a caller whose sleep is over is resumed | the event loop |
| `Client` | the same, and an HTTP exchange ends | httpx has a timeout for each phase |
| `SendChunks` | the coroutine runs on, a send ends | `Client` and `Polling` bound it |
| `Polling` | nothing | its properties are safety properties. The server is never obliged to finish |
| `ReadPage` | each read moves on: weak fairness of all its steps together | requests and exports are bounded; no timeout is owed to anybody, so `EveryReadSettles` does not rest on one |
| `Listing` | each call moves on | requests are bounded. Neither the deadline's end nor an end of the 504s is assumed |
| `Project` | nothing | its properties are safety properties: nobody has to run `init` or to start a server |

All of it is weak fairness of steps that, once possible, stay possible.

## What is proved

The theorems hold for every value of the constants (any number of callers, requests, rows,
pages, any windows, budgets, caps) that satisfies the named assumptions of the modules,
which say little more than that numbers are natural, capacities and windows positive, and
the set of concurrent reads finite. Each runs along an inductive invariant, since hardly a
property is inductive by itself. Every safety property of a passing run is proved.

* **`ThrottleProofs`**: types, `WindowBound`, `NoNeedlessSleep`, `SleepWithinBudget`,
  `RefusalIsForced` and `SleepsTakeTime` (below). The invariant `LogInv` ties the
  pruned deque to the full log of grants: the deque is a suffix of the log, what was
  dropped is older than the window, and grants one capacity apart are a window apart. A
  full deque therefore names exactly the grant whose window a caller has to wait out.
* **`ClientProofs`**: types, `DeclaredReplaysOnly`, `UnsafeVerdictHolds`,
  `BudgetsAreSeparate`, `WaitsWithinBudget`, `StickyIsEarned`, `SendsAreMetered`; that the
  engine drives the limiter only as `Throttle` allows (`DrivesTheLimiter`), and hence that
  its traffic keeps the published rate; and the refinement of `Delivery`, in which a request
  is "open" from its first suspension to its last and a lost answer is a stray there too. The
  invariant counts, for each place a request can
  be suspended, the attempts and executions its budgets account for, and ties the sticky
  counters to the log of exhaustions. The limiter's own invariant is reused.
* **`SendChunksProofs`**: types and the properties of the planner and of the sender, for
  lists of any length and any weights and caps. Of the planner the invariant says that the
  closed chunks and the one being filled cover the rows looked at, in order, and why each
  was closed; of the sender that the queue, with the chunk in flight in front, is in order
  and covers exactly the rows not marked yet, and that ids stand with rows marked as sent.
  `CostOK` bounds what the queue can still cost by twice its rows, less one per chunk, which
  a halving leaves unchanged. The refinement of `Batch` (`SettlesFromTheFront`) rests on the
  chunk in flight being the first run of untried rows; that the untried rows are a suffix
  (`SuffixLeft`) and that every cut has a cause (`CutsHaveCauses`) are theorems of their own.
* **`PollingProofs`**: types, `FirstQuestionIsAsked`, `SleepsWithinBudget`,
  `NothingFinishedInTimeIsMissed`, `LagIsForgiven`, `QuestionsStopAtTheCeiling`,
  `WaitsAreBounded`, for any sleeps, ceilings,
  budgets and lateness. The invariant says what is owed at each await: when the loop
  began and its ceiling, how far ahead a sleeper's time lies, and how recent an end of the
  work, or the status endpoint's knowledge of it, must be that no answer has shown yet; `FirstPoll`
  says how long after the loop's begin its first poll can be, which is what the grace loses.
* **`ListingProofs`**: types, `CompleteMeansWhole`, `RowsComeOnce`, `GuardMissesNothing`, for any
  page sizes, ladders, caps, documents and edits. `InPass` says of a pass under way that its
  rows ascend, that its token is the last of them, and that every lasting object up to the
  token is among them, which a page preserves and a restart re-establishes from nothing.
  `Vouched` says what a listing already behind the guard is worth: it saw every lasting
  object of the page, or the call's time is over and nothing can be sent any more.
* **`SemaphoreProofs`** and **`ReadPageProofs`**: each operation on a semaphore conserves
  its count (`Conserves`: what is free and those who asked and are not waiting make up the
  capacity, and nobody stands in line twice). With it, types, `ExportsAreSerialised`,
  `GateConservesSlots`, `GateNeverJams`, `CacheIsSound`, `NoRenderIsRepeated` and the refinement of `PageReads`,
  for any number of reads, pages and names. `SlotsKept` and `LocksKept` identify those who
  asked with the awaits the reads stand at. `ReadOK` says what an open read may rely on: the
  page it was told is one its address meant, the stamp is one the page had since the call
  began, and the export renders what it will be filed under, whatever moved since. `MissLasts`
  says that what the second look missed stays missing while the read exports; it needs a
  page's lock to have one place, so `RendersAreShared` assumes `PageCap = 1`, which is
  `EXPORT_CONCURRENCY_PER_PAGE`. The others hold for any caps.
* **`ProjectProofs`**: types and the four properties of `project`, for any launches,
  environments, edits and runs. The invariant says that a key without a live line has no
  value (so what `init` appends to it shadows nothing, unless the live lines are quoted ones), that a file just created has no
  lines, that an artifact that has had its turn and did not fail is done, and that after a
  run that succeeded nothing is left to create.

Liveness itself is only model-checked, as fairness and ENABLED are outside the proof
system's reach. What is proved is the part of it that is safety, for all constants:

| Theorem | Says | Of the liveness property |
|---|---|---|
| `ThrottleProofs!SleepsTakeTime` | who goes to sleep in `acquire()` sleeps for a positive time, also after it lost the slot it waited for | `EveryAcquireSettles` |
| `ClientProofs!NoRequestSpins` | at one instant a request takes at most four turns, and nobody else's step gives it more to do | `EveryRequestSettles` |
| `SendChunksProofs!EveryCallRunsOut` | `Rank` falls with every step of a call and is at most `7 * N + 3` | `EveryCallEnds` |
| `PollingProofs!EachInstantEnds` | at one instant a wait takes at most six steps; with `WaitsAreBounded`, its sleeps and questions have finitely many instants | (none is run) |
| `ReadPageProofs!TheGateNeverJams`, `NoGrantIsRevoked`, `ReadsOnlyAdvance` | a free slot beside a waiter has a taker that is due to run, what was handed over stays so until its owner runs, and a read never goes back | `EveryReadSettles` |
| `ListingProofs!ListingsAdvance` | each step of a call ends a listing, begins one, halves the page, or leaves fewer of finitely many objects to list | `EveryListingEnds` |

What remains for TLC is that the step which is due is taken, which is what the fairness says.
(`GateNeverJams` rests on `Stirs`, an invariant of each semaphore: a release wakes the
first in line, and one that is cancelled after it was woken passes the slot on.) The weights of `Sizing` sum over sets by recursion, so the proofs take
them as constants and the runs compute them.

## Not modelled

* The remaining write tools (`create_page`, `append_to_page`, `rename_page`,
  `replace_element`, `update_row`, `push_button`) and read tools (`outline_page`, `describe_table`,
  `get_row`, `get_doc_overview`): each is one request with one poll, or one listing, without state
  of its own, and would repeat `Client`, `Polling` or `Listing`.
* The tool boundary and the bucket table keep no state. Cells and content are pure functions
  of one value.
* Of the modelled parts: wording, warnings, logging and descriptions; which response makes
  a download unusable (one choice of the model); `whoami` beyond the status that stops a
  start.
* Of the project directory: file modes, the text of the template, the startup line with its
  sources.
* An export whose reader gave up: the server goes on rendering after the gate is released,
  which the client cannot observe; the model ends an export with its reader.
* An object added to a page between the guard's listings and the write: the API gives no
  means to prevent it. `GuardMissesNothing` speaks of what was there throughout.

## Plan

Done: the deadline, the limiter, the engine, the planner and chunked writes, the gate and
the reads, polling, listings, the project directory, with proofs for all of them.

1. `RowWrites`: several tool calls on the same rows, with stray attempts that undo a later
   write: the row-level hazard that `Client` lists without a property.
2. Conversions of cells and content as operators, against reference definitions.
3. `SendChunks` composed with `Delivery` in place of its own list of the ways a send can end,
   now that `Client` is proved to implement that contract; and a contract for `Polling`.

## Running

`tlc -config MCThrottle.cfg MCThrottle` (each run's module and configuration are in
`PROJECT.json`); `tlapm ThrottleProofs.tla`, and likewise the other `*Proofs` modules.
The largest run, `polling`, visits 13.9 million states; the slowest, `project`, 1.1 million.
