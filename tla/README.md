# A formal model of the COBOL Analysis Platform

TLA+ modules, TLC configurations and TLAPS proofs kept beside the source of the
COBOL Analysis Platform (`src/`).  Every definition is translated from the code;
`PROJECT.json` ("map") names the lines each one stands for.

## 1. The system

A FastAPI service in one process.  A user names a repository and asks for an
analysis; the service makes a *run* of it.  A run is a row in SQLite, a directory,
and an asyncio task that executes six phases: fetch (git checkout), analyze (an
agent around a language model), generate (up to three deliverables in parallel),
validate, archive, index into the knowledge base.  A browser follows the run over
server-sent events.

```
 browser --HTTP/SSE--> routes.py --+--> RunService --> Pipeline --> agent graph (threads)
    ^                              |        |             |--> GitService (mirrors, checkouts)
    |                              |        |             |--> ArtifactStore (files of the run)
    +------- stream() <-- RunEventBus <-----+-------------+--> KnowledgeBase (SQLite chunks)
                              |                                       |
                       events.ndjson (per run)                 Database (SQLite, autocommit)
```

Three kinds of activity interleave.  *Loop code*: run tasks, SSE generators and
async routes share one asyncio loop, so a piece of code between two awaits is never
interrupted by other loop code.  *Threads*: synchronous routes (cancel, delete, reindex,
lists) run in a pool, `asyncio.to_thread` runs git, agents and the index; threads
interleave with everything.  *The environment*: clients connect and drop, the process
crashes or is shut down, the wall clock limit of a run fires, an operator removes
directories.

### Inventory

| Component (source) | State | Operations | What is hard | What makes it correct |
|---|---|---|---|---|
| Event journal and stream (`services/events.py`, `api/routes.py` run_events) | `events.ndjson`, `_seq`, subscriber queues; the generator's cursor; the client's Last-Event-ID | emit, read_since, subscribe, unsubscribe, stream; the SSE route | two-step emit from two threads, replay/live seam, bounded queues, restart, dropped connections | contiguous numbering, nothing delivered that is not durable, order, every client catches up, streams end |
| Run lifecycle (`services/run_service.py`, `agent/pipeline.py`, `infra/db.py`, `context.py`, `main.py`) | runs table, Run object, task, cancel flags | create, start, execute, cancel, delete, shutdown, reset_stale_runs | cancel against end, timeout looks like cancellation, crash between two writes, shutdown before the first step | one final event, agreeing with the row; honest outcome; every run settles; flags released |
| Deliverables (`agent/pipeline.py`, `services/artifacts.py`) | artifact entries, files, phases, manifest | _generate, _persist_deliverable, _validate, _archive, _index_kb, verify | branches under a semaphore, partial failure, cancellation inside a gather, files removed under the run | isolation of failures, "completed" delivers, validation and manifest tell the truth, the run ends |
| Knowledge base (`services/kb_service.py`, `infra/db.py`) | chunks table | index_run, reindex, delete, query | statements committed one by one, indexings racing each other and deletions, removed directories | a query sees whole indexes, a replacement is exact, no unexplained orphan |
| Git (`services/git_service.py`) | mirrors with their origin and `.last_fetch`, checkouts, per-repository locks, the registry | ensure_mirror, fetch_remote, resolve_ref, list_branches, create_worktree, seal, unseal, read_blob, gc, reload_specs | the lock is not held between calls, commands fail or are killed half way, freshness window, changes of the registry, gc against a live run | nothing is read in an incomplete mirror, bounded age, one repository per mirror, runs pinned to a commit and sealed unless a removal interferes |
| Agent invocations (`agent/graph.py`, `agent/pipeline.py` _run_agent) | per invocation: worker thread, tool-call count, what its stream has shown; cancel flag; usage | build_agent, _run_agent, the budget middleware, the write rules of the backend | batches of tool calls in parallel threads, cancellation looked at per event, threads no timeout reaches | exact budget, untouched evidence, exact usage, no thread left behind, every thread ends |
| Auth (`core/auth.py`) | the mode, the keys | extract_key, authenticate, require | four modes, two headers, a role per key and a default role | only permitted actions, whatever was sent |
| Stored runs (`api/routes.py`, `services/run_service.py`, `services/git_service.py` gc, `infra/db.py`) | rows, run directories, sealed checkouts, the audit log | create, cancel, delete, purge, download, reindex, gc, and what the coroutine and the threads of the run write | several unrelated writes per request, one after the other, in pool threads; threads no timeout reaches; walks that raise; crashes in between | the audit log tells what was done, a purge of a settled run is complete, no directory without an explanation |
| Config (`core/config.py`) | settings | parsing | - | - |
| Console (`frontend/src`) | event list, connection | useRunEvents, polling | EventSource reconnects | final state shown, duplicates dropped |
| Scripts (`scripts/*.py`) | - | dev, purge_data, gc | process pair | both children stop |
| Skills, `FILE_VERSIONING.md` | - | prompt text; an unbuilt design | - | - |

`PROJECT.json` lists the same components with their status and, under "hazards", every
place where this code is hard to test.

## 2. Modules

| Module | Models |
|---|---|
| `EventLog` | the promise: a log that only grows, a position per client that only moves forward |
| `EventBus` | journal, fan-out, streams and clients of one run |
| `EventBusProofs` | theorems about EventBus |
| `RunRecord` | the promise: a run is decided once, and what is told of it is what is recorded |
| `PhaseRules` | the rules of the phases, which `RunLifecycle` and `Deliverables` both keep |
| `RunLifecycle` | several runs: task, row, flag, journal of final events, the service's start and stop |
| `RunLifecycleProofs` | theorems about RunLifecycle |
| `Deliverables` | the second half of one run: branches, entries, files, phases, manifest |
| `DeliverablesProofs` | theorems about Deliverables |
| `IndexStore` | the promise: the items of a run are replaced in one step |
| `KnowledgeIndex` | the chunks table: indexings in threads, deletions, removals, crashes between statements |
| `KnowledgeIndexProofs` | theorems about KnowledgeIndex |
| `GitMirror` | one registry entry: the mirror, its stamp and lock, the requests that use it, checkouts, the remotes |
| `GitMirrorProofs` | theorems about GitMirror |
| `AgentCalls` | the agent invocations of one run: coroutines, worker threads, tool calls, budget, usage |
| `AgentCallsProofs` | theorems about AgentCalls |
| `RunStorage` | rows, directories and the audit log under the requests of the REST API, with authorisation |
| `RunStorageProofs` | theorems about RunStorage |
| `MCEventBus`, `MCRunLifecycle`, `MCDeliverables`, `MCKnowledgeIndex`, `MCGitMirror`, `MCAgentCalls`, `MCRunStorage` | instances for TLC |

The modules overlap where components meet, each seeing the other as much as it needs.  `RunLifecycle` knows phases as things that
end, fail or hang; `Deliverables` and `AgentCalls` are what some of them do.  That `Deliverables` does what `RunLifecycle` expects of the late phases
is stated by `PhaseRules`, which both implement.  `EventBus` knows a run as the events it emits and a row that
becomes final, is deleted, and comes back; `RunStorage` knows it as stages that leave something on the disk; `KnowledgeIndex` as
something that is created, delivers and ends.  `Crash` means the same wherever it occurs: memory is lost, what was written stays, and the service
starts again.

### EventBus

`emit()` is two actions.  `Emit` is the part under the lock (number, append, copy the set of
subscribers), `Put` offers the envelope to one copied queue; a pool thread may do both between
two `Put`s of the loop, so a queue can hold 5 before 4.  `stream()` is a generator with five
positions: `replay` and `catchup` are suspensions at a yield, `live` waits on the queue,
`reading` is the moment between an empty `read_since` and `subscribe`, where only a pool thread can
come in.  `LoopBusy` names the stretches in which the loop does not give up control; it
includes the one from the append of `done` to `save_run`.  `Yield` either reaches the client or
loses the frame with the connection.  `Crash` empties everything in memory, and stands for crash
and restart together: `reset_stale_runs` has made the row final before anyone connects.  `Delete` removes the row while the files
stay: `is_finished` then is false although the run is over, `Open` answers 404, and an open stream goes on polling; `Finish`, an upsert, brings the
row of a run that was still executing back.

### RunLifecycle

One position per run (`pc`): in the POST handler (`persisted`), scheduled, in a phase that awaits
(`Awaiting`), or in a stretch that holds the loop (`Holding`, with the whole of `except` and
`finally` in `_execute` as `unwind`, `classify`, `done`, `clear`, `save`).  At most one run is in
`Holding`; pool threads (cancel, delete) and a crash fall between any two steps.  The cancel
route is three steps (`CancelLookup`, `CancelSet`, `CancelLog`) because the flag is looked up under the
registry's lock, set outside it, and the journal line comes last.  A timeout is a cancellation for
`Pipeline.execute` (`Unwind` makes the status CANCELLED) and a failure for `_execute` (`Classify`).
What phases compute is left open: each can end, fail, or hang.

`RunRecord` is what a client may rely on.  A run is open from its creation; the final event decides it (`Tell`), the row gets the outcome
that was told (`Settle`); a crash can prevent either, and the next start records a failure (`Recover`).  In the mapping a run is decided
between `EmitDone` and `Save`, `verdict` is the status in between, and `asked` joins the cancellations of users and of shutdowns.  All
phases, unwinding, the flag and the steps of a cancellation stutter.  The promise leaves room for a deletion of the row at any moment, and for the
`Settle` that undoes it.

### PhaseRules

The interface of the two modules that see the phases of a run.  Fetch and analysis are one place (`early`); `generate`, `validate`, `archive` and `kb`
follow in this order (`Following`; with no deliverable asked for, generation is passed over).  From each place a run can fail; only after the last it can complete;
it can be cancelled only where it awaits something.  How it ended (`verdict`) is fixed until its row has it (`Record`).  `RunLifecycle` maps its position and, for the verdict, what
execute() has raised, and after `Classify` the status itself: so classification is part of what is compared, and a timeout that was reported as a cancellation would
break the rules.  `Deliverables` maps its `at` and `outcome` for one run; its branches, files and entries stutter.

### Deliverables

One position per branch of `_generate`, the semaphore as the queue of waiting branches and
`Holders`.  A branch resumed after its thread ends (`Persist`, `BranchFails`, `BranchCancelled`) runs in one
step, because it does not await.  `Cancel` only sets the flag; `Acquire` and `Answer` are the two checkpoints that
read it.  `Kill` is the timeout or the shutdown, which can only fall at an await (`generate`, `kb`).
`Purge` is the removal of the run directory by another thread or by an operator: `_validate`
holds the loop, yet a file can vanish between its two looks at it (`VerifyRaises`).

### KnowledgeIndex

One job per thread: the kb phase has a thread per run, which its run does not wait for after a timeout
or a shutdown (`End` leaves the job alone), and `Reindexers` are the pool threads that serve `/kb/reindex`.
A job's `at` is its place in `index_run`: the kind it reads next (`Read` takes one file, so a removal can fall
between two), `replace` (it waits for the lock), `insert`.  `Database.connect` gives one lock to everybody but no
transaction (`isolation_level=None`), so `replace_chunks` is `BeginReplace`, one `Insert` per row and
`EndReplace`, and `delete_run` is `DeleteRow` and `DeleteChunks`; the lock is not a variable, `LockFree` says that
nobody is between the first and the last of these.  Only a crash can fall there.  `ChunkId` is the digest of
`_chunk`: rows of a workbook have a position, sections only their title, so equal headings collide and
the last one stays (`Stored`).  `Remove` is `purge_files` and `gc`; `ReadRaises` is a removal between
`exists()` and `read_text()`.  The phases of a run are reduced to what matters here: it is created, it delivers, it ends.  The history
variables name why an index may be incomplete or an orphan may exist: `torn` (crash), `emptied` (directory removed),
`early` (re-indexed before it delivered), `overtaken` (deleted during execution or indexing).

`IndexStore` is what a replacement promises: in one step the items of a run become the last of each identifier among what was read.  In the
mapping that step is `BeginReplace`, the moment from which nobody else can look: while a thread inserts, the table is seen as if it had finished
(`StoreItems`), so each `Insert` stutters, and so does `DeleteRow`.  A crash in between leaves the first items of one
replacement, in the promise as in the code.

### GitMirror

A request is a thread with a program of calls (`Program`): the fetch phase of a run is `resolve`, `checkout`;
POST fetch is `pull`, `list`, `resolve`; POST resolve is `resolve`, `list`.  Each call reads the specification
(`spec`), waits for the lock (`wait`), passes `ensure_mirror` (`clone`, `fetch`, or neither) and then uses the mirror
(`use`).  The lock is held in `clone` and `fetch` and during a checkout only: between the calls of a request, and
between `ensure_mirror` and a `rev-parse`, others may fetch.  `StartFetch` is `_sync_origin` and the moment git asks the
remote (nobody else can see the mirror's origin while the lock is held); `MoveBranch` moves one branch, and is
visible at once because revisions are read without the lock; `GitSucceeds` ends the command and writes the stamp, at
best.  `GitFails` is an exit code or a timeout, `Crash` the death of the process: both can leave a fetch half done or
a clone with a HEAD and no branches.  A clone whose failure removes what it has made leaves nothing; one killed before it writes HEAD
leaves a directory in which every later clone fails, which the model allows and does not force.  `origin/...` names nothing
in a mirror, so the candidates of `resolve_ref` are the branch asked for, the default branch, HEAD (`Candidates`).
`Checkout` is one step because the lock is held throughout and its result is private; `Seal` comes after the lock is
released.  A removal (gc, purge_files) is two steps, `Unseal` and `RemoveTree`, of which each can fall before the seal, after it and
after the beginning of the analysis, and the second of which need not come; `rmtree` leaves a checkout that has been sealed since.  The walk of
`seal_worktree` can meet a removal and raise (`CheckoutFails`).  The remotes are external: commits are numbers, `Push` and
`DropBranch` change heads, and `replaced` keeps when a commit ceased to be one, which is what the age of a copy is measured against.
`start`, `changed`, `replaced`, `contact`, `broken`, `complete` are history: no guard reads them.  `opened` keeps which checkouts a removal has
begun with: a run can analyse one of those while it is writable (`PinnedCheckout` says that there is no other way).  Two things are assumed of the remotes: a push
moves a branch to a new commit, and a host does not remove the branch its HEAD names.

### AgentCalls

An invocation is two actors.  The coroutine (`branch`) starts a worker thread and waits for it: `Start`, `StartFails`, `Settle`.  The thread
(`thread`) consumes the stream of the agent: the model answers or gives up (`Answer`), or asks for a batch of tool calls (`Ask`), which the
library runs in threads of their own, in any order (`UseTool`, `RefuseTool`).  They count on the one middleware of the
invocation without a lock; CPython 3.11 and later (what `pyproject.toml` asks for) does not change threads between the increment and the
comparison in `_spend`, so these are one step.  At every event of the stream the thread looks at the cancel flag.
`failing` and `stopping` are a stream that is being closed while calls of its batch still run; a call that has begun is a single step, so
what `Close` drops are calls that have not.  `Kill` is the wall clock limit or a shutdown: it ends the coroutines and no thread.
`Routes`, `Area` and `MayWrite` are the composite backend and its write rules; a path without a route is looked up in the work area.
A deliverable starts when the analysis is done, and the analysis is done only if its hand-off is in the work area.

### RunStorage

Each request is a thread of the pool with one operation, whose writes are steps of their own: `CreateRow`, `CreateAudit`, `CreateStart`;
`Lookup`, `CancelFlag`, `CancelAudit`, `CancelNote` for a cancellation, which is noted in the journal last; `Lookup`, `Reindex` and `Close` for an indexing;
`DeleteLookup`, `DeleteRow`, then for a purge `Unseal` and `RemoveTree`, and `Close` (the audit entry); `DownloadLookup`, `DownloadAudit`,
`DownloadServe`; `GcScan`, then per directory `GcLook`, `GcStat`, `Unseal`, `RemoveTree`, and `GcEnd` and `Close`.  `create` is an async route: between two of
its steps nothing else has the loop (`LoopFree`).  `Arrive` is authentication and `require`: `Authenticate` covers the four modes,
`Permission` every route of `routes.py`, the read-only ones included.  `RemoveTree` is `rmtree(ignore_errors=True)`: a sealed checkout makes it
leave the directory, whatever else it takes.  `rglob`, which `unseal_worktree`, `gc` and `disk_usage_mb` walk with, raises when a directory it comes to
has been removed: `WalkFails` and the second half of `GcEnd`, which another removal or a failing git has to cause (`Vanishing`).

A run is a coroutine (`stage`) and the thread it waits for (`thread`).  `StartFetch` hands the checkout to a thread: `MakeCheckout`, `SealCheckout`, after
which the coroutine goes on if it still waits; `StartAgent` does so for agents and indexing.  `EndRun` is the end of the coroutine, at any stage, and leaves
the thread alone: `ThreadWrites` and `ThreadEnds` come when they come.  Whoever writes makes the directory of the run: the journal (`Journal`, `CancelNote`),
`create_worktree` and the agents (`ThreadWrites`), the deliverables (`WriteFiles`, and `ArtifactStore` in `Reindex`).  A run is `Settled` when its coroutine has
ended, its thread too, and no request is still to write for it (`WillWrite`).  `removed` is history: who removed what, and whether the run was
settled when its row went (`Of`).

## 3. Runs

| Run | Question | Instance and bounds | Distinct states, what it shows |
|---|---|---|---|
| `bus_threads` | Does the bus keep its promise with two emitting threads, a crash, a broken connection, a deletion and full queues? | 1 client, 1 pool thread, queue of 2, 4 events + done, 1 crash, 1 drop | 74,962; all of EventBus's properties |
| `bus_gap` (violation) | Does a connection lose nothing? | no crash, no drop, one thread | `NoGap` is violated |
| `lifecycle` | Do final event, row and outcome agree, and does every run settle? | 1 run, 2 crashes, 2 shutdowns | 13,311; RunLifecycle's properties, and that it implements `RunRecord` and `PhaseRules` |
| `lifecycle_deleted` (violation) | Does a deleted run stay deleted? | 1 run | `DeletedStaysDeleted` is violated |
| `deliverables` | Do generation, validation and manifest tell the truth, and does the run end? | 3 kinds, 2 slots, 4 requests, 1 removal | 5,540; Deliverables's properties (`PhaseSpec` is left to its proof) |
| `deliverables_cancel` (violation) | Does a cancellation stop the run at the next checkpoint? | same | `CheckpointStopsRun` is violated |
| `knowledge` | Does a query see whole indexes, and can every orphan be explained? | 1 run, its kb thread and 2 re-indexing threads (symmetric), 3 contents, 1 crash, 1 removal | 459,075; all of KnowledgeIndex's properties, and that it implements `IndexStore` |
| `git_mirror` | Is what is resolved complete and recent, and what is checked out pinned? | 1 run, 1 pull, 2 repositories (one of them empty), 2 branches, 1 push and the removal of what it made, 3 instants, 1 change of the registry, 1 crash | 1,960,969; all of GitMirror's properties |
| `git_registry` (violation) | Does a run after a change of the registry analyse the new repository? | same, no crash | `RightRepository` is violated |
| `agent` | Is the budget exact, the evidence untouched, usage right, and does every thread end? | the analysis and 2 deliverables, budget 2, batches of up to 2 | 44,338; all of AgentCalls's properties |
| `agent_spending` (violation) | Does a run that is over call no tool any more? | same | `SpendingEnds` is violated |
| `storage` | Do audit log, rows and directories agree under any requests of any callers, whatever a run still writes? | a run of the past and a new one, 3 requests (symmetric) of 8 kinds, 3 modes, 2 callers, 1 crash | 2,307,093; all of RunStorage's properties |

Why the bounds are enough.  *Bus*: four events and queues of two make overtaking, a full queue,
a dropped frame, a stale frame and a catch-up all happen in one behaviour; clients share nothing but the
outbox, so one client meets every case, and the theorems hold for any number.  *Lifecycle*: one run with two
crashes and two shutdowns, so that what a restart leaves can be interrupted in its turn; runs meet only in the loop and in the service's start and stop, and
what several of them do to each other is left to the theorems, which are for any number.  *Deliverables*: three branches on two slots are
the smallest case in which a branch waits; the catalogue is the code's own.  *Knowledge*: runs share nothing but the
lock, their rows and chunks carry their identifier, so one run meets every case; three threads are one more than a race
needs.  The contents are an empty run, a workbook whose rows share a title next to a document, and a document with the same
heading twice.  The history variables (`received`, `accepted`, `interrupted`, `content`, `overtaken`, `torn`, `early`,
`emptied`) are read by no guard.
*Git*: the lock admits one writer, so a run and a pull give every meeting of a reader with a writer; with `MaxAge` and
`MaxFetch` of one instant, three instants hold a fetch, a copy that is fresh and one that is not.  Previews differ from runs
in their calls only and are left to the theorems.  `Moving` lets the default branch of the first repository move or another one appear and go;
the second repository has no branch at all, so that every candidate of `resolve_ref` can fail.
States that differ only in `changed`, `contact` and `broken`, which serve other properties, count as one (`WithoutHistory`).
*Agent*: invocations share the cancel flag, the work area and the usage; the analysis and two deliverables at once are all there is to meet, and with a
budget of two and batches of two a batch can end below the limit, at it and across it.
*Storage*: three requests are enough for a purge, the deletion it overtakes and a collection in their way; a run of the past and
one that is made meanwhile are the two kinds of target.  The callers are one whose X-API-Key is wrong and whose bearer token is right, and one with a
key and an identity from a proxy; the reserved mode refuses everybody, a trusted identity is a reviewer here, the disabled mode admits everybody and is left
to the theorems, like other keys and a default role of administrator.

Deadlock is not checked where the system may stop: a finished run, a deleted one, and requests that have all been answered have nothing left to do.

Fairness.  asyncio serves its ready queue first in, first out.  Code that holds the loop goes on (weak
fairness); a coroutine that is ready is resumed although others run in between (strong fairness, because
every other piece of loop code disables it for a while).  Timers fire: the poll of `stream()`, the wall clock
limit of a run.  The service is started again after it died, and a client reconnects, as EventSource does.  Nothing
is assumed of users, operators or the environment.  `RunLifecycle` assumes nothing of its phases: they may hang, and the limit
ends them.  `Deliverables` assumes instead that an agent call ends - the model client has a request timeout (600 s)
and two retries, the middleware a budget of tool calls - and nothing of the limit: what is asked there is whether
branches can wait for each other for ever.  `AgentCalls` assumes the same of the model's turn, and that tools return, and leaves open which turn it is:
that a model which asks for one tool after the other comes to an end (`ThreadsEnd`) is the budget's doing.  `KnowledgeIndex`, `GitMirror` and
`RunStorage` state safety only.

## 4. What the code does not keep

Five runs end in a counterexample; `PROJECT.json` ("findings") quotes the line each contradicts.

* `bus_gap`.  `stream()` subscribes after the replay.  An event appended in between is in no queue; a
  later live frame moves the cursor past it, and the idle catch-up, which starts at the cursor,
  never fetches it.  What remains true is `EventuallyCaughtUp` (the *last* event arrives), and that only live frames leave events out
  (`OrderedDelivery`): replay and catch-up hand over every event behind the cursor.
* `lifecycle_deleted`.  `delete()` does not look whether the run executes; the upsert at the end of
  `_execute` writes the row again.
* `deliverables_cancel`.  `gather(return_exceptions=True)` makes the CancelledError of a checkpoint a result
  that counts for nothing, so a run cancelled during generation is completed, or fails with "None of the
  requested deliverables could be generated".
* `git_registry`.  `_sync_origin` is called before a fetch only.  While the mirror of the previous repository is fresh, a run
  resolves and checks out a commit of it, and records the URL of the new one (`pipeline.py:248`).  A request that read the
  old specification before the reload and gets the lock after it makes such a mirror fresh once more.  `OneRepository` (the mirror
  is of the repository contacted last), a theorem, is what remains true.
* `agent_spending`.  The wall clock limit cancels the coroutine, not the thread it waits for; the thread looks at the cancel
  flag, which a timeout does not set.  `ThreadsEnd` is what remains true: it stops when its budget is spent.

What else the models show, without a run of its own:

* The request schema admits the same deliverable twice; two branches then share one entry, the failure of the second overwrites the success
  of the first, and `CompletedDelivers` does not hold.  The theorem `CompletedRunsDeliver` names the condition (`Once`).
* `kb_reindex` looks for the run before it reads the files and `index_run` never looks again: a deletion in between is undone
  as far as the chunks go, and nothing removes them later, because `delete` of a run without a row returns at once.  The kb phase of a
  run that timed out does the same.  `OrphansExplained` says that there is no other way.
* A run re-indexed while it executes can end with an older, partial index, when the re-indexing writes after the kb
  phase (`early`); re-indexing after `gc` erases the index and reports 0 chunks (`emptied`).
* A stream that is open when its run's row is deleted is handed every event and then polls without end: `events.py:129-131`
  says `is_finished` lets it end, and that needs the row.
* A collection that meets a directory another request has just removed ends with an error, and no audit entry tells what it removed before
  (`AuditExact` speaks of answers that are a success or a refusal); a deletion that is lost in a crash, or fails in `rglob`, after the row is gone leaves a
  directory that only `gc` removes (`LeftoversExplained`).
* `files_purged` (`routes.py:198`) is answered as asked for, and does not mean that the files are gone for good.  The wall clock limit does not end the threads of a run
  (`pipeline.py:227`, `254`), and `create_worktree` or an agent makes the directory of a purged run again; so do a cancellation that was accepted
  before the run ended and is noted in the journal after the purge (`run_service.py:206`), and a re-indexing (`kb_service.py:273`).  What remains
  true is said of settled runs (`PurgeIsComplete`); the others are the "live row" of `LeftoversExplained`.
* A cancellation whose flag is found before the run clears it, and set after, is accepted and has no effect; `EarlyCancelHonoured` speaks of those accepted
  before the analysis is over.
* A run whose checkout is collected or purged at its beginning can analyse it while it is writable, or half removed: `unseal_worktree` may come after the
  seal, and `rmtree` later or never (`PinnedCheckout` names it by `opened`).

Noticed while reading, and outside the models:

* The revision the composer shows (`routes.py:124`: "the exact revision the analysis will be pinned to") is resolved again when the run
  fetches, and can differ; the stamp is written after the fetch, so a copy can be older than the limit by the duration of
  one; a branch that does not exist resolves to the default branch; a run whose checkout is removed before `seal_worktree` goes on
  without one.
* `index_run` reports the number of chunks made, not kept, when headings collide.
* `scripts/dev.py:233` says `gc` keeps artifacts and manifests, but `GitService.gc` removes the whole run directory; the script also calls
  it without the service, so no audit entry is written.
* `pipeline.py:17-18` says artifacts are validated before they are announced, but `_generate` announces READY before `_validate`.
* `main.py:43-44` says a shutdown marks runs failed, but they become cancelled; the `indexing` and `paused_for_approval` states
  of `DESIGN.md` never occur; the journal line "Cancellation requested" can follow the final event.
* `TRUSTED_ACTOR_HEADER` has no effect: the header is an alias written into `auth.py:160` and `auth.py:186`.  `auth.py:46-48` says the mode
  is recorded in the audit log, but only the actor's name is.  The docstring `config.py:270-280` gives another order of precedence
  than lines 282-293.
* Usage counts invocations that answered: what cancelled, refused and failed ones spent appears nowhere (`pipeline.py:180-181`), and
  `total_tokens` is the largest figure of an invocation.  The work area is writable by all parallel branches.  A comment speaks of the final
  assistant message only; the code takes the last one that is not empty.

## 5. Proofs

tlapm checks every step, for every value of the constants: any number of runs, clients, threads, requests, crashes and so on.

**EventBusProofs** (from `BusAssumption`): type correctness, `SeqContiguous`, `DeliveredIsJournalled`,
`OrderedDelivery`, and that `EventBus` implements `EventLog`.  `SeqContiguous` is not inductive: an emission after a restart
numbers from the last line of the journal, so the counter must agree with it (`CounterAgrees`).  Order and
durability need in addition that whatever is in flight - outboxes, queues, backlogs - has been journalled (`InFlight`), and
`received <= lastId <= cursor < backlog` for each client (`CursorOrder`).  That replay and catch-up leave no event out needs more: the cursor of an open stream is
the last frame handed over, and its backlog begins right behind it and has no hole (`Seamless`), which a journal numbered without gaps gives to every `read_since`.  The refinement follows from the same
invariant: an emission is `Extend`, a yield that arrives is `Advance`, everything else stutters.

**RunLifecycleProofs** (from `LifecycleAssumption`): type correctness, `AtMostOneDone`, `DoneAgreesWithRow`,
`CancelledOnlyWhenAsked`, `EarlyCancelHonoured`, `FlagsReleased`, `OutcomeIsFinal`, and that `RunLifecycle` implements `RunRecord` and `PhaseRules`.  The inductive invariant is stated one run
at a time, `RunInv(r)`: how far the coroutine is fixes what status, row, flag and journal can be.  Not even `TypeOK`
is inductive by itself: that `EmitDone` journals a *final* status needs `StatusFollows`.  An action of run s leaves `RunInv(r)`
alone for r # s (lemma OthersUntouched), so each action is proved for its own run only; the
actions of the service (`Shutdown`, `Die`, `Restart`) are proved for all runs at once.  The refinement (`RunsKeepTheRecord`) rests on the same
invariant: `EmitDone` finds no final event in the journal (so what is told is one outcome), a status of CANCELLED has a cause that `asked`
contains, and a service that starts has no coroutine left (`Recover`).  `LifecycleKeepsTheRules` needs that nothing is raised while phases go on
(`NothingRaised`), so that only `Complete` can end a run without an exception, and that the except clauses put into the status what was raised.

**KnowledgeIndexProofs** (from `KnowledgeAssumption`): type correctness with the single holder of the lock, `OrphansExplained`,
`ReplaceIsExact`, `IndexIsWhole`, and that `KnowledgeIndex` implements `IndexStore`.  The first three follow from `IndexInv`: `OrphansExplained` speaks of moments at which the
lock is free, so it needs to know what holds inside a deletion (`ChunksKnown`), that an indexing only starts for a run with a row
(`IndexedKnown`, `ExecutingKnown`) and writes chunks of that run only (`TodoOfRun`); `ReplaceIsExact` needs that the table holds
what the statements executed so far leave (`Progress`).  `IndexIsWhole` needs a second invariant on top, `WholeInv`: for a
run no crash, removal or early re-indexing has touched, files are what was delivered (`FilesKept`), every job has gathered all of
the kinds before its position (`GatheredWhole`), and the chunks are whole or being written (`WholeOrWritten`).  The refinement (`IndexKeepsThePromise`)
needs the single holder of the lock and `Progress`: what a crash leaves of a replacement is what its first `done` statements leave.  `EverySectionFound` says
what `IndexIsWhole` is worth to a query: whatever titles repeat, each identifier that was delivered is in the index once.  That among the chunks
with one identifier there is a last one is an induction over numbers, taken from the library as the least element of a set (`LastNumber`).

**GitMirrorProofs** (from `MirrorAssumption`): type correctness with the single writer, and all five safety properties, from
`MirrorInv`.  What a git command was told were heads when it asked (`Told`, `Heads`), and the clock is never further than `MaxFetch`
from then; so a stamp says of what is in the mirror that it was a head at most `MaxFetch` earlier (`Current`), which bounds what a
fresh copy can give (`FreshEnough`).  A bound on the age of the mirror survives every step (lemma SinceStep): branches only move to
what a running command was told, and a command that starts is told what is the case now.  So a pull that has contacted the remote
need not hold the lock to stay current, whoever fetches meanwhile (`PullIsCurrent`; that it never takes the shortcut
needs that a stamp is not in the future).  `OneRepository` needs that all of what a command was told is of one repository,
`PinnedCheckout` that a request which checks out has nothing left to do (`Shape`), and that a checkout that is not sealed is not used yet, or
has been opened by a removal (`Trees`).

**DeliverablesProofs** (from `DeliverablesAssumption`): type correctness, `FailuresIsolated`, `ManifestIsFinal`, `ValidatedIsVerified`,
`NothingLeftOpen`, and `CompletedDelivers` for requests that list no deliverable twice (`Once`).  `ManifestIsFinal` needs that the manifest is
written when the entries are settled (`Archived`); `ValidatedIsVerified` that what validation has looked at so far is in order
or it has met a problem (`Validated`); `NothingLeftOpen` that an entry shown as running has a branch that holds it, unless something was
cancelled (`EntryOpen`), and that the queue of the semaphore lists waiting branches only, once each (`Queued`).  `CompletedDelivers` is where
`Once` comes in: only then does no branch undo what another has delivered (`Delivered`).  `DeliverablesKeepTheRules`, the refinement of `PhaseRules`, needs that what
stops execute() ends it (`StoppedIsOver`).  With `LifecycleKeepsTheRules` it is the composition of the two modules: the phases one leaves open and the other
spells out come in one order and have one set of endings.

**AgentCallsProofs** (from `AgentCallsAssumption`): type correctness, `BudgetExact`, `InputsKept`, `UsageExact`, `NothingLeftRunning`.  `BudgetExact` needs that
what ran is exactly what was counted, up to the budget (`Counted`), and that an invocation that has not begun has counted nothing
(`Fresh`), because `Start` sets its count to zero.  `NothingLeftRunning` needs that a settled branch has waited for its thread (`Waited`).
`UsageExact` counts tool calls as elements of a set (`CallsRun`: the pairs of an invocation and the number of a call), so that a
sum is a cardinality and one more invocation adds a disjoint set; it needs that what the stream of an invocation has shown is what ran and what is
still due (`Booked`), so that nothing is due when it has answered.  `UsageBounded` combines it with the budget: a run is charged for no more than `Budget` tool calls for
each of its invocations.

**RunStorageProofs** (from `RunStorageAssumption`): type correctness and all four safety properties.  `OnlyAdminsRemove` follows from the fact that
whoever has removed anything was admitted (`Guarded`), by the cases of `Authenticate`.  `PurgeIsComplete` is the longest argument: that nothing of
a settled run comes back needs that a run that is settled and has no row stays so (lemma SettledStays: a coroutine that has ended starts no thread, and
`CancelFlag` and `Reindex` need a row to begin with), that a run's stages only move forward while its creation is one request's business
(`OneCreates`, `Begun`, `RowKept`, `Found`), and that a purge knows at each step what it has reached (`PurgeProgress`), whoever else deletes, collects or
crashes.  `LeftoversExplained` needs that the request which removed the row of a settled run is still a deletion of that run, and the run still
settled (`RowTaken`).

**Only model-checked**, because the provers do not reach it: the liveness properties (`EventuallyCaughtUp`, `StreamEnds`,
`EveryRunSettles`, `RunEnds`, `ThreadsEnd`), which rest on fairness.  Everything else a passing run checks is a theorem.
Conversely `DeliveredIsJournalled`, `FlagsReleased`, `OneRepository`, `EverySectionFound`, `UsageBounded` and the `PhaseSpec` of `Deliverables` are proved and no run repeats them;
`OutcomeIsFinal`, `CancelledOnlyWhenAsked` and `ReplaceIsExact` are proved, and the runs check `RecordSpec` and `IndexSpec`, which imply them.

## 6. Not modelled, and why

* Torn journal lines: the model appends whole lines.  After the restart nothing emits for the run any more, so a torn
  last line is skipped by readers and never written behind.  Disk errors while the final event is written.
* In `RunStorage`: an event makes the directory and opens the journal in two system calls, one step here; git commands die with the process.  `rmtree` and
  the walks over a tree are one step each, which see the removals of others as they stand before or after.
* The removal of the journal itself under an open stream (`purge_files`, `gc`): a stream then reads an empty file.
* Sub-agents the library's task tool may start (they have a middleware list of their own), the read rules of the backend, and what the fallback of
  `_run_agent` without a checkpointer takes from the state.
* What the language model answers, the parsing of its rows, the layout of documents and workbooks, retrieval scores, logging, metrics:
  answers are usable or not, contents are small sets.
* In `GitMirror`: credentials, the registry file, the syntax of revisions, tags and raw commits (branches stand for them), several
  repositories (they share no state), what git packs and prunes in the object store, `read_blob`, disk usage, `cleanup_worktree` (nothing
  calls it).  Liveness is not stated: requests wait for a lock that is not fair.
* Read-only routes beyond the permission they require.  Configuration parsing: the limits and modes it sets are CONSTANTS.
* The web console: rendering, and polling of read-only routes; its EventSource is the reconnecting client of `EventBus`.
* `scripts/dev.py` and the other scripts: they start processes and wait, or remove directories, which `Deliverables`, `KnowledgeIndex`
  and `GitMirror` allow at any moment.  Skills are prompt text, `FILE_VERSIONING.md` an unbuilt design.

## 7. How it was built, and what is left

In this order: `EventLog`, `EventBus`, `RunLifecycle`, `Deliverables`, `KnowledgeIndex`, `GitMirror`, `AgentCalls`, `RunStorage`, each checked
before its theorems were proved; the deletion of a run under its streams was added to `EventBus` last.

`PhaseRules` composes `RunLifecycle` with `Deliverables`.  A next step would be the same for `AgentCalls` and the generation of `Deliverables`: both have
branches, but the one speaks of what the threads of a branch spend and the other of what a branch leaves behind, and a joint interface has to say when
a worker thread that outlives its branch may still write.
